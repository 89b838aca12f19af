SPECIFICATION Spec
CONSTANTS
  MEMORY_SIZE = 88
  MEMORY_PROGRAM_STARTING_ADDRESS = 80
  Roms <- SmallRoms
  StrayWords = {0, 24577, 34968}
INVARIANTS
  ListsWhatTheCpuExecutes
  StrayWordNeverListed
CHECK_DEADLOCK FALSE
