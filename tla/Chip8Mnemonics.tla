--------------------------- MODULE Chip8Mnemonics ---------------------------
(***************************************************************************)
(* disassembler.c: the table that repeats the dispatch of the CPU as masks *)
(* and values, and the operands each disassemble_ function decodes and     *)
(* prints.  What is printed is reduced to the exec_ function it describes  *)
(* and the values of those operands.                                       *)
(***************************************************************************)
EXTENDS Naturals, Sequences, FiniteSetsExt, Chip8Opcode

\* A mask of the code is the set of hexadecimal digits it keeps, 3 being the
\* leftmost one.
FFFF == {3, 2, 1, 0}
F000 == {3}
F00F == {3, 0}
F0FF == {3, 1, 0}

Digits(word) == [ d \in 0 .. 3 |-> (word \div << 1, 16, 256, 4096 >>[d + 1]) % 16 ]

\* The fields of a word that may be printed as operands.
Field(word) ==
  [ NNN |-> opcode_decode_address(word),
    X   |-> opcode_decode_register_x(word),
    Y   |-> opcode_decode_register_y(word),
    KK  |-> opcode_decode_const_8bit(word),
    N   |-> opcode_decode_const_4bit(word) ]

\* The rows: mask, value, instruction and the operands printed for it.
ControlRows ==
  << << FFFF, \h00E0, "exec_display_clear", {} >>,
     << FFFF, \h00EE, "exec_return", {} >>,
     << F000, \h0000, "exec_call", {"NNN"} >>,
     << F000, \h1000, "exec_goto", {"NNN"} >>,
     << F000, \h2000, "exec_call_subroutine", {"NNN"} >> >>

SkipAndSetRows ==
  << << F000, \h3000, "exec_if_equals", {"X", "KK"} >>,
     << F000, \h4000, "exec_if_not_equals", {"X", "KK"} >>,
     << F00F, \h5000, "exec_skip_next_if_vx_equals_vy", {"X", "Y"} >>,
     << F000, \h6000, "exec_set_register", {"X", "KK"} >>,
     << F000, \h7000, "exec_add_to_vx", {"X", "KK"} >> >>

RegisterRows ==
  << << F00F, \h8000, "exec_set_vx_from_vy", {"X", "Y"} >>,
     << F00F, \h8001, "exec_set_vx_to_vx_or", {"X", "Y"} >>,
     << F00F, \h8002, "exec_set_vx_to_vx_and", {"X", "Y"} >>,
     << F00F, \h8003, "exec_set_vx_to_vx_xor", {"X", "Y"} >>,
     << F00F, \h8004, "exec_vx_plus_vy", {"X", "Y"} >>,
     << F00F, \h8005, "exec_vx_minus_vy", {"X", "Y"} >>,
     << F00F, \h8006, "exec_set_vx_rshift_one", {"X"} >>,
     << F00F, \h8007, "exec_set_vx_vy_minus_vx", {"X", "Y"} >>,
     << F00F, \h800E, "exec_set_vx_lshift_one", {"X"} >>,
     << F00F, \h9000, "exec_if_vx_not_equals_to_vy", {"X", "Y"} >> >>

IndexRows ==
  << << F000, \hA000, "exec_set_i_register", {"NNN"} >>,
     << F000, \hB000, "exec_jump_to_addr_plus_v0", {"NNN"} >>,
     << F000, \hC000, "exec_set_vx_rand_and", {"X", "KK"} >>,
     << F000, \hD000, "exec_display_draw_sprite_at", {"X", "Y", "N"} >> >>

DeviceRows ==
  << << F0FF, \hE09E, "exec_if_key_equals_to_vx", {"X"} >>,
     << F0FF, \hE0A1, "exec_if_key_not_equals_to_vx", {"X"} >>,
     << F0FF, \hF007, "exec_set_vx_from_delay_timer", {"X"} >>,
     << F0FF, \hF00A, "exec_set_vx_from_key", {"X"} >>,
     << F0FF, \hF015, "exec_set_delay_timer_from_vx", {"X"} >>,
     << F0FF, \hF018, "exec_set_sound_timer", {"X"} >>,
     << F0FF, \hF01E, "exec_add_vx_to_i", {"X"} >>,
     << F0FF, \hF029, "exec_set_i_to_sprite_addr", {"X"} >>,
     << F0FF, \hF033, "exec_set_bcd", {"X"} >>,
     << F0FF, \hF055, "exec_reg_dump", {"X"} >>,
     << F0FF, \hF065, "exec_reg_load", {"X"} >> >>

\* In the order in which they are tried.
Table == ControlRows \o SkipAndSetRows \o RegisterRows \o IndexRows \o DeviceRows

\* The rows with (word & mask) == value; no value has a digit its mask drops.
Matches(word) ==
  LET digits == Digits(word)
      values == [ k \in 1 .. Len(Table) |-> Digits(Table[k][2]) ]
  IN  { k \in 1 .. Len(Table) :
          \A d \in Table[k][1] : digits[d] = values[k][d] }

\* What is printed for a row, and where the code returns false.
Line(row, word) == << row[3], [ f \in row[4] |-> Field(word)[f] ] >>
Unsupported == << "unsupported", << >> >>

\* Mutated form: the more general row hides the more specific one.
disassembler_disassemble_last(word) ==
  IF Matches(word) = {} THEN Unsupported
  ELSE Line(Table[Max(Matches(word))], word)

\* The first row that matches.
disassembler_disassemble(word) ==
  IF Matches(word) = {} THEN Unsupported
  ELSE Line(Table[Min(Matches(word))], word)
=============================================================================
