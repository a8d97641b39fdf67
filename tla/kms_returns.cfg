SPECIFICATION Spec
CONSTANTS
  Drivers = {d}
  Blocking = {b1}
  Pairs <- Unsupported
  Algs = {"ES256"}
  Messages = {"m"}
  MaxTries = 1
  None = None
INVARIANTS
  Atomic
PROPERTIES
  Returns
