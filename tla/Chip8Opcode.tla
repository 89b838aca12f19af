---------------------------- MODULE Chip8Opcode ----------------------------
(***************************************************************************)
(* Instruction words of the CHIP-8 emulator: how an opcode is taken apart  *)
(* (opcode.c), which exec_ function the CPU dispatches it to (the table of *)
(* cpu_decode_and_exec_opcode in cpu.c), and the arithmetic of the 8-bit   *)
(* registers and 16-bit addresses (utils/bits.c and C's unsigned types).   *)
(***************************************************************************)
EXTENDS Naturals

REGISTER_MAX == 255
WORD_MAX == 65535

Byte == 0 .. REGISTER_MAX
Word == 0 .. WORD_MAX

\* The register VF, which several instructions overwrite with a flag.
VF == 15
RegisterName == 0 .. VF

(***************************************************************************)
(* Fields of an opcode.  The masks of the code select whole hexadecimal    *)
(* digits, so they are divisions and remainders by powers of 16.           *)
(***************************************************************************)
opcode_decode_address(opcode)    == opcode % 4096
opcode_decode_register_x(opcode) == (opcode \div 256) % 16
opcode_decode_register_y(opcode) == (opcode \div 16) % 16
opcode_decode_const_8bit(opcode) == opcode % 256
opcode_decode_const_4bit(opcode) == opcode % 16

\* opcode & 0xF000, 0xF00F and 0xF0FF, as the digits the masks keep.
Family(opcode) == opcode \div 4096

(***************************************************************************)
(* The dispatch table of the CPU: the name of the exec_ function, or       *)
(* "unsupported" when the chain of comparisons falls through.              *)
(***************************************************************************)
ArithmeticTable ==
  [ n \in 0 .. 7 \cup {\hE} |->
      CASE n = 0  -> "exec_set_vx_from_vy"
        [] n = 1  -> "exec_set_vx_to_vx_or"
        [] n = 2  -> "exec_set_vx_to_vx_and"
        [] n = 3  -> "exec_set_vx_to_vx_xor"
        [] n = 4  -> "exec_vx_plus_vy"
        [] n = 5  -> "exec_vx_minus_vy"
        [] n = 6  -> "exec_set_vx_rshift_one"
        [] n = 7  -> "exec_set_vx_vy_minus_vx"
        [] n = \hE -> "exec_set_vx_lshift_one" ]

MiscTable ==
  [ kk \in {\h07, \h0A, \h15, \h18, \h1E, \h29, \h33, \h55, \h65} |->
      CASE kk = \h07 -> "exec_set_vx_from_delay_timer"
        [] kk = \h0A -> "exec_set_vx_from_key"
        [] kk = \h15 -> "exec_set_delay_timer_from_vx"
        [] kk = \h18 -> "exec_set_sound_timer"
        [] kk = \h1E -> "exec_add_vx_to_i"
        [] kk = \h29 -> "exec_set_i_to_sprite_addr"
        [] kk = \h33 -> "exec_set_bcd"
        [] kk = \h55 -> "exec_reg_dump"
        [] kk = \h65 -> "exec_reg_load" ]

cpu_decode(opcode) ==
  LET family == Family(opcode)
      n      == opcode_decode_const_4bit(opcode)
      kk     == opcode_decode_const_8bit(opcode)
  IN CASE opcode = \h00E0                          -> "exec_display_clear"
       [] opcode = \h00EE                          -> "exec_return"
       [] family = 0 /\ opcode \notin {\h00E0, \h00EE} -> "exec_call"
       [] family = 1                              -> "exec_goto"
       [] family = 2                              -> "exec_call_subroutine"
       [] family = 3                              -> "exec_if_equals"
       [] family = 4                              -> "exec_if_not_equals"
       [] family = 5 /\ n = 0                     -> "exec_skip_next_if_vx_equals_vy"
       [] family = 6                              -> "exec_set_register"
       [] family = 7                              -> "exec_add_to_vx"
       [] family = 8 /\ n \in DOMAIN ArithmeticTable -> ArithmeticTable[n]
       [] family = 9 /\ n = 0                     -> "exec_if_vx_not_equals_to_vy"
       [] family = \hA                            -> "exec_set_i_register"
       [] family = \hB                            -> "exec_jump_to_addr_plus_v0"
       [] family = \hC                            -> "exec_set_vx_rand_and"
       [] family = \hD                            -> "exec_display_draw_sprite_at"
       [] family = \hE /\ kk = \h9E               -> "exec_if_key_equals_to_vx"
       [] family = \hE /\ kk = \hA1               -> "exec_if_key_not_equals_to_vx"
       [] family = \hF /\ kk \in DOMAIN MiscTable  -> MiscTable[kk]
       [] OTHER                                   -> "unsupported"

(***************************************************************************)
(* Bytes as bits.  Bit 0 is the least significant one.                     *)
(***************************************************************************)
BitOrder == 0 .. 7
Weight   == [ b \in BitOrder |-> <<1, 2, 4, 8, 16, 32, 64, 128>>[b + 1] ]

bit_is_set(num, bit_order) == (num \div Weight[bit_order]) % 2 = 1

\* The bits of a byte, and the byte whose bits are the set B.
BitsOf(num) == { b \in BitOrder : bit_is_set(num, b) }
ByteOf(B) ==
  LET bit(b) == IF b \in B THEN Weight[b] ELSE 0
  IN  bit(0) + bit(1) + bit(2) + bit(3) + bit(4) + bit(5) + bit(6) + bit(7)

\* The C operators |, & and ^ on uint8_t.
BitOr(a, b)  == ByteOf(BitsOf(a) \cup BitsOf(b))
BitAnd(a, b) == ByteOf(BitsOf(a) \cap BitsOf(b))
BitXor(a, b) == ByteOf((BitsOf(a) \ BitsOf(b)) \cup (BitsOf(b) \ BitsOf(a)))

\* Conversion to uint8_t and uint16_t: arithmetic wraps.
U8(n)  == n % (REGISTER_MAX + 1)
U16(n) == n % (WORD_MAX + 1)
=============================================================================
