SPECIFICATION CpuSpec
CONSTANTS
  MEMORY_SIZE = 4096
  MEMORY_PROGRAM_STARTING_ADDRESS = 512
  DISPLAY_WIDTH = 64
  DISPLAY_HEIGHT = 32
  STACK_CAPACITY = 12
  Roms <- MCRoms
  KeyboardStates <- MCKeyboardStates
  RandomBytes = {0, 165}
PROPERTY CollisionFlag
CHECK_DEADLOCK FALSE
