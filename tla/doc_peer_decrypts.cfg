SPECIFICATION Spec
CONSTANTS
  Keys <- TwoKeys
  Payloads <- Empty
  PeerProtected <- Disorder
  WireUnprotected <- NoIV
  WireTags <- WrongTag
  WireLengths <- AroundTag
  MaxSealed = 1
  MaxAltered = 1
  None = None
INVARIANTS
  PeerDecrypts
