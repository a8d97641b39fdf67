SPECIFICATION Spec
CONSTANTS
  Keys <- TwoKeys
  Payloads <- Empty
  PeerProtected <- Alias
  WireUnprotected <- NoIV
  WireTags <- WrongTag
  WireLengths <- AroundTag
  MaxSealed = 1
  MaxAltered = 1
  None = None
INVARIANTS
  RefusesOtherAlgorithms
