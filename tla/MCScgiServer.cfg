SPECIFICATION Spec
CONSTANTS
  Client = {c1, c2}
  Scripts <- MCScripts
  SCGI_HEADERS_MAX_SIZE = 5
  FIELD_SIZE = 3
  max_digits = 2
  server_tcp_backlog = 1
INVARIANTS
  EveryPathCloses
  AnswersOnlyFullHeaders
  FieldsInBounds
  ParsesExactly
PROPERTY OnlySilentClientsBlock
CHECK_DEADLOCK FALSE
