------------------------- MODULE Chip8Disassembler -------------------------
(***************************************************************************)
(* The disassemble command: the sweep of machine_disassemble over the      *)
(* loaded program, which prints a line of Chip8Mnemonics for every word.   *)
(***************************************************************************)
EXTENDS Naturals, Sequences, Chip8Memory, Chip8Mnemonics

CONSTANTS Roms,       \* the program files the emulator may be given
          StrayWords  \* what may be read where memory[] has ended

\* Both addresses are even in memory.h: the sweep meets the end of memory[].
ASSUME DisassemblerAssumption ==
  /\ Roms \subseteq Seq(Byte) /\ StrayWords \subseteq Word
  /\ PROGRAM_MAX_SIZE % 2 = 0

VARIABLES memory, addr, opcode,
          listing,    \* what has been printed: addresses and instructions
          status      \* "listing", "finished", "exited"

vars == << memory, addr, opcode, listing, status >>

-----------------------------------------------------------------------------
WordAt(a) == memory[a] * 256 + memory[a + 1]

\* machine_load_rom, then machine_first_opcode.
Init ==
  /\ \E rom \in Roms :
       \/ /\ rom_fits(rom) /\ status = "listing"
          /\ memory = machine_load_rom(memory_init, rom)
       \/ /\ ~rom_fits(rom) /\ status = "exited"
          /\ memory = memory_init
  /\ addr = MEMORY_PROGRAM_STARTING_ADDRESS
  /\ opcode = WordAt(addr)
  /\ listing = << >>

\* Mutated form of LoopCondition: one word short.
LoopCondition_short == opcode # 0 /\ addr < MEMORY_SIZE - 2

LoopCondition == opcode # 0 /\ addr < MEMORY_SIZE

\* The update of the loop reads the next word before addr is compared with
\* MEMORY_SIZE; beyond memory[] it finds whatever is there.
ReadsNext ==
  /\ addr' = addr + 2
  /\ \/ /\ InMemory(addr', 2)
        /\ opcode' = WordAt(addr')
     \/ /\ ~InMemory(addr', 2)
        /\ opcode' \in StrayWords

ListInstruction ==
  /\ status = "listing" /\ LoopCondition
  /\ LET line == disassembler_disassemble(opcode)
     IN  line # Unsupported /\ listing' = Append(listing, << addr, line >>)
  /\ ReadsNext
  /\ UNCHANGED << memory, status >>

ListUnsupported ==
  /\ status = "listing" /\ LoopCondition
  /\ disassembler_disassemble(opcode) = Unsupported
  /\ status' = "exited"
  /\ UNCHANGED << memory, addr, opcode, listing >>

FinishListing ==
  /\ status = "listing" /\ ~LoopCondition
  /\ status' = "finished"
  /\ UNCHANGED << memory, addr, opcode, listing >>

Next == ListInstruction \/ ListUnsupported \/ FinishListing

Spec == Init /\ [][Next]_vars

-----------------------------------------------------------------------------
\* The fields of the opcode that an exec_ function of cpu.c decodes.
CpuOperands(exec) ==
  CASE exec \in {"exec_display_clear", "exec_return"} -> {}
    [] exec \in {"exec_call", "exec_goto", "exec_call_subroutine",
                 "exec_set_i_register", "exec_jump_to_addr_plus_v0"} -> {"NNN"}
    [] exec \in {"exec_if_equals", "exec_if_not_equals", "exec_set_register",
                 "exec_add_to_vx", "exec_set_vx_rand_and"} -> {"X", "KK"}
    [] exec = "exec_display_draw_sprite_at" -> {"X", "Y", "N"}
    [] exec \in {"exec_skip_next_if_vx_equals_vy", "exec_set_vx_from_vy",
                 "exec_set_vx_to_vx_or", "exec_set_vx_to_vx_and",
                 "exec_set_vx_to_vx_xor", "exec_vx_plus_vy", "exec_vx_minus_vy",
                 "exec_set_vx_vy_minus_vx", "exec_if_vx_not_equals_to_vy"} ->
         {"X", "Y"}
    [] OTHER -> {"X"}

\* The listing shows what the CPU would execute: the table of disassembler.c and
\* the one of cpu.c agree on every instruction listed, the operands printed are
\* those the CPU decodes for it, and a listing is given up only at an opcode the
\* CPU refuses (or because the file is too large).
ListsWhatTheCpuExecutes ==
  /\ \A k \in 1 .. Len(listing) :
       LET word == WordAt(listing[k][1])
           exec == cpu_decode(word)
       IN  listing[k][2] = << exec, [ f \in CpuOperands(exec) |-> Field(word)[f] ] >>
  /\ status = "exited" => opcode = 0 \/ cpu_decode(opcode) = "unsupported"

\* The word read past the end of memory never shows: a finished listing has every
\* word of the program up to the first zero word or the end of memory, in order.
StrayWordNeverListed ==
  /\ \A k \in 1 .. Len(listing) :
       listing[k][1] = MEMORY_PROGRAM_STARTING_ADDRESS + 2 * (k - 1)
  /\ status = "finished" =>
       addr = MEMORY_SIZE \/ WordAt(addr) = 0
  /\ addr = MEMORY_PROGRAM_STARTING_ADDRESS + 2 * Len(listing)

-----------------------------------------------------------------------------
\* Small program files: every program of one word, and programs that reach the end
\* of a program area of four words, stop at a zero word before it, hold a word that
\* is not supported, end in half a word or do not fit.
Words(words) == [ k \in 1 .. 2 * Len(words) |->
  IF k % 2 = 1 THEN words[(k + 1) \div 2] \div 256 ELSE words[k \div 2] % 256 ]

FourWords == << \h00E0, \h1050, \h6001, \hF00A >>

SmallRoms ==
  { Words(<< w >>) : w \in Word }
    \cup { Words(FourWords), Words(<< \h00E0, \h8898, \hF00A >>),
           Words(<< \h00E0, 0, \hF00A >>), Words(FourWords \o << \h00E0 >>),
           << \h00, \hE0, \h60 >>, << >> }
=============================================================================
