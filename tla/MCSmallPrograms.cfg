SPECIFICATION Spec
CONSTANTS
  UINT_MAX = 15
  DEFER_ITEMS_MAX_SIZE = 5
  MaxScopes = 2
  BufferSizes = {0, 1, 2, 3, 9, 16, 18}
  MaxBytes = 4
  ChunkSizes = {1, 2, 9}
  MaxChunks = 3
  BUFFER_LEN = 4
  SIZE_MAX = 7
  Sizes = {1, 2, 3, 4, 5, 7}
  MaxDigits = {0, 2}
  MaxBlocks = 3
  Keys = {k1, k2, k3, k4}
  Values = {v1, v2}
  NULL = NULL
  ht_capacity = 3
  HashValues = {0, 2}
INVARIANTS
  NothingLeftHeld
  OutputShortOnlyForCause
  BodyPrinted
  BlocksStayApart
  ChainsUnbroken
  FailsOnlyForCause
PROPERTIES
  ReleasedInReverse
  IsAMap
  GetMissesOnlyMovedKeys
  PutEnds
CHECK_DEADLOCK FALSE
