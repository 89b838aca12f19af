SPECIFICATION RequestSpec
CONSTANTS
  DYNAMIC_ARRAY_INITIAL_CAPACITY = 3
  DYNAMIC_ARRAY_GROW_FACTOR = 2
  Junk = Junk
  MaxPush = 4
  MaxLength = 6
  Byte = {"CR", "LF", "text"}
  Buffers <- MCBuffers
  Streams <- MCStreams
  RECV_BUFFER_SIZE = 4
INVARIANTS
  KeepsWhatWasPushed
  RequestInOrder
PROPERTY ReaderEnds
CHECK_DEADLOCK FALSE
