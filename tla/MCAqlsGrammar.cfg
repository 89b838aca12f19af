SPECIFICATION MCSpec
CONSTANTS
  Inputs <- MCInputs
  Token <- MCToken
  NoToken = NoToken
  capacity = 3
  Characters = {"W", ".", " ", "'", "?"}
  MaxLength = 4
  MaxTokens = 5
  WRITE <- MCWrite
  END <- MCEnd
  MaxChunks = 5
INVARIANT AcceptsOnlyGrammar
CHECK_DEADLOCK FALSE
