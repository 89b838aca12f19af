---------------------------- MODULE Chip8Display ----------------------------
(***************************************************************************)
(* The frame buffer of display.c.  The 64 x 32 array of Pixel values is    *)
(* the set of coordinates whose pixel is on; drawing a sprite is one       *)
(* operator over that set.  The two nested loops of display_draw_sprite    *)
(* visit a coordinate at most once because a sprite is 8 pixels wide and   *)
(* at most 15 pixels high, which is what DisplayAssumption says.           *)
(***************************************************************************)
EXTENDS Naturals, Chip8Opcode

CONSTANTS DISPLAY_WIDTH, DISPLAY_HEIGHT

ASSUME DisplayAssumption ==
  /\ DISPLAY_WIDTH  \in Nat /\ DISPLAY_WIDTH  >= 8
  /\ DISPLAY_HEIGHT \in Nat /\ DISPLAY_HEIGHT >= 15

Pixels == (0 .. DISPLAY_WIDTH - 1) \X (0 .. DISPLAY_HEIGHT - 1)

display_clear == {}

\* The coordinate at which bit `bit` of row `row` of a sprite at (x, y) lands:
\* bit 7 is the leftmost, and both coordinates wrap around.
Target(x, y, row, bit) ==
  << ((x % DISPLAY_WIDTH) + (7 - bit)) % DISPLAY_WIDTH,
     ((y % DISPLAY_HEIGHT) + row) % DISPLAY_HEIGHT >>

\* The coordinates a sprite covers, and those where it has a bit set.
Covered(x, y, len) ==
  { Target(x, y, row, bit) : row \in 0 .. len - 1, bit \in BitOrder }

Ink(x, y, sprite, len) ==
  UNION { { Target(x, y, row, bit) : bit \in BitsOf(sprite[row]) }
          : row \in 0 .. len - 1 }

SymmetricDifference(A, B) == (A \ B) \cup (B \ A)

\* display_draw_sprite leaves this in the buffer ...
display_draw_sprite(buffer, x, y, sprite, len) ==
  SymmetricDifference(buffer, Ink(x, y, sprite, len))

\* ... and returns this: some lit pixel met a sprite bit that is not set.
pixel_erased(buffer, x, y, sprite, len) ==
  (buffer \cap Covered(x, y, len)) \ Ink(x, y, sprite, len) # {}
=============================================================================
