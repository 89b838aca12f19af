SPECIFICATION Spec
CONSTANTS
  MEMORY_SIZE = 544
  MEMORY_PROGRAM_STARTING_ADDRESS = 512
  DISPLAY_WIDTH = 64
  DISPLAY_HEIGHT = 32
  STACK_CAPACITY = 12
  Roms <- MCRoms
  KeyboardStates <- MCKeyboardStates
  RandomBytes = {0}
  Keys <- MCKeys
  Launches <- MCLaunches
  UINT32_MAX = 4095
  ULLONG_MAX = 65535
  Latencies = {15}
  MaxTime = 32
  MaxInputs = 3
INVARIANTS
  ShownBeforeNextStep
  StartsAsConfigured
  TrapsOnlyAtZero
PROPERTIES
  DrivesCpu
  QuitEndsProgram
  HeldKeyEndsWait
CHECK_DEADLOCK FALSE
