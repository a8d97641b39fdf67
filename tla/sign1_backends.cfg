SPECIFICATION Spec
CONSTANTS
  Keys <- BackendKeys
  Payloads <- SplicePayloads
  ProtectedMaps <- SpliceProtected
  UnprotectedMaps <- SpliceUnprotected
  PeerProtected <- SplicePeer
  WireUnprotected <- SpliceWire
  WireTags <- WrongTag
  WireLengths <- ShortLengths
  MaxSigned = 1
  MaxAltered = 1
  None = None
INVARIANTS
  SelfVerifies
  Authentic
  AlgorithmBound
