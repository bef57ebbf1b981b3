SPECIFICATION Spec
CONSTANTS
  Key <- MCKey
  Value <- MCValue
  k1 = k1
  k2 = k2
  v1 = v1
  None = None
  HalfSize = 4
  Byte = 4
  Bytes = 2
  Xor <- MCXor
  RoundKey <- MCRoundKey
  roundFunction <- MCRoundFunction
  Seed <- MCSeed
  RoundKeys <- MCRoundKeys
  normalize <- MCNormalize
  Options <- EitherWay
INVARIANTS
  TypeOK
  BytesKeepOrder
  OwnKeysOnly
  CacheTrue
PROPERTIES
  ImplementsKVStore
