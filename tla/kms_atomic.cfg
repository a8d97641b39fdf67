SPECIFICATION Spec
CONSTANTS
  Drivers = {d}
  Blocking = {b1, b2}
  Pairs <- Longer
  Algs = {"ES256"}
  Messages = {m, n}
  MaxTries = 0
  None = None
SYMMETRY Interchangeable
INVARIANTS
  TypeOK
  InFlight
  Atomic
  BlockingThreadsDontPanic
