SPECIFICATION Spec
CONSTANTS
  Keys <- ThreeKeys
  Payloads <- EmptyAndText
  PeerProtected <- Headers
  WireUnprotected <- NoIV
  WireTags <- WrongTag
  WireLengths <- AroundTag
  MaxSealed = 2
  MaxAltered = 1
  None = None
INVARIANTS
  TypeOK
  SealedBytesKept
  Genuine
  OwnDecrypts
  PanicsOnlyOnAltered
PROPERTIES
  RoundTrip
  Implements
