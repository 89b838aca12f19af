SPECIFICATION Spec
CONSTANTS
  Unset = Unset
  Word = Word
  UINT16_MAX = 3
  INT_MAX = 7
  ULLONG_MAX = 31
  Environments <- MCEnvironments
  Client = {c1, c2}
  Scripts <- MCScripts
  UNSAFE_BUFFER_SIZE = 9
INVARIANT AnswersBadRequest
CHECK_DEADLOCK FALSE
