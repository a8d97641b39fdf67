SPECIFICATION Spec
CONSTANTS
  Keys <- SpliceKeys
  Payloads <- SplicePayloads
  ProtectedMaps <- SpliceProtected
  UnprotectedMaps <- SpliceUnprotected
  PeerProtected <- SplicePeer
  WireUnprotected <- SpliceWire
  WireTags <- WrongTag
  WireLengths <- ShortLengths
  MaxSigned = 2
  MaxAltered = 1
  None = None
INVARIANTS
  Authentic
  SignedBytesKept
PROPERTIES
  Implements
