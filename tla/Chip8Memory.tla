---------------------------- MODULE Chip8Memory ----------------------------
(***************************************************************************)
(* The 4 KB memory of the CHIP-8 machine: memory.c (the zeroed memory with *)
(* the built-in font at address 0) and machine_load_rom (the program area).*)
(* A memory is a function from addresses to bytes.                         *)
(***************************************************************************)
EXTENDS Naturals, Sequences, Chip8Opcode

CONSTANTS MEMORY_SIZE, MEMORY_PROGRAM_STARTING_ADDRESS

FONT_SPRITE_SIZE == 5
FONT_COUNT == 16

\* The first conjunct leaves room for the font below the program, the second
\* is what memory.h asserts about the Address type, with the largest step the
\* program counter takes (an instruction and a skip) to spare.
ASSUME MemoryAssumption ==
  /\ MEMORY_SIZE \in Nat /\ MEMORY_PROGRAM_STARTING_ADDRESS \in Nat
  /\ FONT_COUNT * FONT_SPRITE_SIZE <= MEMORY_PROGRAM_STARTING_ADDRESS
  /\ MEMORY_PROGRAM_STARTING_ADDRESS < MEMORY_SIZE
  /\ MEMORY_SIZE + 4 <= WORD_MAX

Address == 0 .. MEMORY_SIZE - 1
PROGRAM_MAX_SIZE == MEMORY_SIZE - MEMORY_PROGRAM_STARTING_ADDRESS

font_sprites ==
  << 240, 144, 144, 144, 240,   32,  96,  32,  32, 112,  \* 0 1
     240,  16, 240, 128, 240,  240,  16, 240,  16, 240,  \* 2 3
     144, 144, 240,  16,  16,  240, 128, 240,  16, 240,  \* 4 5
     240, 128, 240, 144, 240,  240,  16,  32,  64,  64,  \* 6 7
     240, 144, 240, 144, 240,  240, 144, 240,  16, 240,  \* 8 9
     240, 144, 240, 144, 144,  224, 144, 224, 144, 224,  \* A B
     240, 128, 128, 128, 240,  224, 144, 144, 144, 224,  \* C D
     240, 128, 240, 128, 240,  240, 128, 240, 128, 128 >> \* E F

memory_init ==
  [ a \in Address |-> IF a < FONT_COUNT * FONT_SPRITE_SIZE
                      THEN font_sprites[a + 1] ELSE 0 ]

\* rom is the sequence of bytes file_read_contents returned; a file that does
\* not exist or is empty gives the empty sequence.
rom_fits(rom) == Len(rom) <= PROGRAM_MAX_SIZE

machine_load_rom(mem, rom) ==
  [ a \in Address |->
      LET offset == a - MEMORY_PROGRAM_STARTING_ADDRESS
      IN  IF a < MEMORY_PROGRAM_STARTING_ADDRESS THEN mem[a]
          ELSE IF offset < Len(rom) THEN rom[offset + 1] ELSE 0 ]

memory_address_from_sprite_value(sprite_value) == sprite_value * FONT_SPRITE_SIZE

\* The n bytes from address a on are all inside the memory array.
InMemory(a, n) == n = 0 \/ a + n <= MEMORY_SIZE
=============================================================================
