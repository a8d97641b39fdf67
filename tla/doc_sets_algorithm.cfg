SPECIFICATION Spec
CONSTANTS
  Keys <- HeaderKeys
  Payloads <- HeaderPayloads
  ProtectedMaps <- HeaderProtected
  UnprotectedMaps <- HeaderUnprotected
  PeerProtected <- HeaderPeer
  WireUnprotected <- HeaderWire
  WireTags <- WrongTag
  WireLengths <- ShortLengths
  MaxSigned = 1
  MaxAltered = 1
  None = None
INVARIANTS
  SetsAlgorithm
