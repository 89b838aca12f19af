------------------------- MODULE Chip8MachineProofs -------------------------
(***************************************************************************)
(* Proofs about Chip8Cpu, for every memory size, stack capacity, screen    *)
(* size and set of programs its assumptions allow, and, in the second half,*)
(* about Chip8Machine, which drives it: for every way to be started and    *)
(* whatever the user does.                                                 *)
(***************************************************************************)
EXTENDS Chip8Machine, WellFoundedInduction, SequenceTheorems, TLAPS

-----------------------------------------------------------------------------
(***************************************************************************)
(* The operators the instructions are made of                              *)
(***************************************************************************)
\* The largest uint8_t and uint16_t.  The proofs use them through these bounds.
LEMMA Limits ==
  /\ REGISTER_MAX \in Nat /\ 255 <= REGISTER_MAX /\ REGISTER_MAX <= 255
  /\ WORD_MAX \in Nat /\ 65535 <= WORD_MAX /\ WORD_MAX <= 65535
  BY DEF REGISTER_MAX, WORD_MAX

\* An address that fits into uint16_t is not truncated.
LEMMA U16Exact ==
  ASSUME NEW n \in Nat, n <= WORD_MAX
  PROVE  U16(n) = n
  BY DEF U16, WORD_MAX

\* The fields of an opcode (opcode.c) are in range for every word.
LEMMA OpcodeFields ==
  ASSUME NEW op \in Nat
  PROVE  /\ opcode_decode_register_x(op) \in RegisterName
         /\ opcode_decode_register_y(op) \in RegisterName
         /\ opcode_decode_const_8bit(op) \in Byte
         /\ opcode_decode_const_4bit(op) \in 0 .. 15
         /\ opcode_decode_address(op) \in Nat
         /\ opcode_decode_address(op) <= 4095
  BY Limits DEF opcode_decode_register_x, opcode_decode_register_y,
         opcode_decode_const_8bit, opcode_decode_const_4bit,
         opcode_decode_address, RegisterName, VF, Byte

\* Any set of bits makes a byte: |, & and ^ of utils stay in uint8_t.
LEMMA ByteOfType ==
  ASSUME NEW B
  PROVE  ByteOf(B) \in Byte
  BY Limits DEF ByteOf, Weight, BitOrder, Byte

\* The truncating conversions to uint8_t and uint16_t.
LEMMA TruncationType ==
  ASSUME NEW n \in Int
  PROVE  U8(n) \in Byte /\ U16(n) \in Word
<1>1. n % 256 \in Nat /\ n % 256 <= 255
  OBVIOUS
<1>2. n % 65536 \in Nat /\ n % 65536 <= 65535
  OBVIOUS
<1>3. U8(n) = n % 256 /\ U16(n) = n % 65536
  BY DEF U8, U16, REGISTER_MAX, WORD_MAX
<1> QED
  BY <1>1, <1>2, <1>3, Limits DEF Byte, Word

\* Every pixel display_draw_sprite touches is on the screen, wrapped around.
LEMMA TargetOnScreen ==
  ASSUME NEW x \in Nat, NEW y \in Nat, NEW row \in Nat, NEW bit \in BitOrder
  PROVE  Target(x, y, row, bit) \in Pixels
<1> DEFINE W == DISPLAY_WIDTH
           H == DISPLAY_HEIGHT
<1>1. W \in Nat /\ W > 0 /\ H \in Nat /\ H > 0
  BY DisplayAssumption
<1>2. (x % W) \in Nat /\ (y % H) \in Nat /\ 7 - bit \in Nat
  BY <1>1 DEF BitOrder
<1> HIDE DEF W, H
<1>3. ((x % W) + (7 - bit)) % W \in 0 .. W - 1
  BY <1>1, <1>2
<1>4. ((y % H) + row) % H \in 0 .. H - 1
  BY <1>1, <1>2
<1> QED
  BY <1>3, <1>4 DEF Target, Pixels, W, H

LEMMA DrawStaysOnScreen ==
  ASSUME NEW buf \in SUBSET Pixels, NEW x \in Nat, NEW y \in Nat,
         NEW spr, NEW len \in Nat
  PROVE  display_draw_sprite(buf, x, y, spr, len) \subseteq Pixels
<1>1. Ink(x, y, spr, len) \subseteq Pixels
  BY TargetOnScreen DEF Ink, BitsOf
<1> QED
  BY <1>1 DEF display_draw_sprite, SymmetricDifference

\* keyboard_get_pressed_key returns a key that is down, the lowest one.
LEMMA PressedKeyType ==
  ASSUME NEW keys, PressedKeys(keys) # {}
  PROVE  /\ keyboard_get_pressed_key(keys) \in KeyValue
         /\ keyboard_get_pressed_key(keys) \in Byte
<1> DEFINE P == PressedKeys(keys)
<1>1. P \in SUBSET KeyValue
  BY DEF PressedKeys
<1>2. P \in SUBSET Nat /\ P # {}
  BY <1>1 DEF KeyValue, KEYBOARD_KEYS_COUNT
<1> HIDE DEF P
<1> DEFINE R == OpToRel(<, Nat)
<1>3. ASSUME NEW a \in Nat, NEW b \in Nat, a < b
      PROVE  << a, b >> \in R
  BY <1>3 DEF OpToRel
<1>4. IsWellFoundedOn(R, Nat)
  BY NatLessThanWellFounded
<1> HIDE DEF R
<1>5. PICK n \in P : \A m \in P : ~(<< m, n >> \in R)
  BY <1>2, <1>4, WFMin
<1>6. ASSUME NEW m \in P PROVE n <= m
  <2>1. m \in Nat /\ n \in Nat
    BY <1>2
  <2>2. ~(m < n)
    BY <2>1, <1>3, <1>5
  <2> QED
    BY <2>1, <2>2
<1>7. Min(P) \in P
  BY <1>6 DEF Min
<1> QED
  BY <1>1, <1>7, Limits
  DEF P, keyboard_get_pressed_key, KeyValue, KEYBOARD_KEYS_COUNT, Byte

\* memory_init and machine_load_rom fill the whole array with bytes.
LEMMA MemoryInitType == memory_init \in [Address -> Byte]
<1>1. \A k \in 1 .. 80 : font_sprites[k] \in Byte
  BY Limits DEF font_sprites, Byte
<1>2. ASSUME NEW a \in Address
      PROVE  (IF a < 80 THEN font_sprites[a + 1] ELSE 0) \in Byte
  <2>1. CASE a < 80
    BY <1>1, <2>1 DEF Address
  <2>2. CASE ~(a < 80)
    BY <2>2, Limits DEF Byte
  <2> QED BY <2>1, <2>2
<1> QED
  BY <1>2 DEF memory_init, FONT_COUNT, FONT_SPRITE_SIZE

LEMMA LoadRomType ==
  ASSUME NEW mem \in [Address -> Byte], NEW rom \in Seq(Byte)
  PROVE  machine_load_rom(mem, rom) \in [Address -> Byte]
<1>1. \A a \in Address : a \in Int
  BY MemoryAssumption DEF Address
<1>2. ASSUME NEW a \in Address,
             ~(a < MEMORY_PROGRAM_STARTING_ADDRESS),
             a - MEMORY_PROGRAM_STARTING_ADDRESS < Len(rom)
      PROVE  rom[a - MEMORY_PROGRAM_STARTING_ADDRESS + 1] \in Byte
  BY <1>1, <1>2, MemoryAssumption, LenProperties
<1> QED
  BY <1>2, Limits DEF machine_load_rom, Byte

-----------------------------------------------------------------------------
(***************************************************************************)
(* The inductive invariant.  Types alone are inductive, but the bound on   *)
(* the program counter needs the bound on the pending returns and types.   *)
(***************************************************************************)
CpuInv == CpuTypeOK /\ ProgramCounterInReach

\* What a successful fetch gives an instruction to work with: operands in range,
\* and a program counter that advances, and skips, without wrapping around.
LEMMA FetchFacts ==
  ASSUME CpuInv, Fetches
  PROVE  /\ opcode \in Nat
         /\ X \in RegisterName /\ Y \in RegisterName
         /\ KK \in Byte /\ N \in 0 .. 15 /\ NNN \in Nat /\ NNN <= 4095
         /\ Vx \in Byte /\ Vy \in Byte
         /\ pc \in Nat /\ pc + 2 <= MEMORY_SIZE
         /\ pc_advanced = pc + 2 /\ pc_skipped = pc + 4
<1>1. pc \in Nat /\ pc + 2 <= MEMORY_SIZE
  BY MemoryAssumption, Limits DEF CpuInv, CpuTypeOK, Fetches, InMemory, Word
<1>2. pc \in Address /\ pc + 1 \in Address
  BY <1>1, MemoryAssumption DEF Address
<1>3. memory[pc] \in Byte /\ memory[pc + 1] \in Byte
  BY <1>2 DEF CpuInv, CpuTypeOK
<1>4. opcode \in Nat
  BY <1>1, <1>3, Limits DEF opcode, Byte
<1>5. /\ X \in RegisterName /\ Y \in RegisterName
      /\ KK \in Byte /\ N \in 0 .. 15 /\ NNN \in Nat /\ NNN <= 4095
  BY <1>4, OpcodeFields DEF X, Y, KK, N, NNN
<1>6. Vx \in Byte /\ Vy \in Byte
  BY <1>5 DEF Vx, Vy, CpuInv, CpuTypeOK
<1>7. pc_advanced = pc + 2 /\ pc_skipped = pc + 4
  BY <1>1, MemoryAssumption, Limits, U16Exact DEF pc_advanced, pc_skipped
<1> QED
  BY <1>1, <1>4, <1>5, <1>6, <1>7

(***************************************************************************)
(* Each kind of effect preserves the invariant                             *)
(***************************************************************************)
LEMMA EndsInv ==
  ASSUME CpuInv, NEW how \in {"exited", "aborted", "undefined", "finished"},
         Ends(how)
  PROVE  CpuInv'
<1>1. CpuTypeOK'
  BY DEF CpuInv, CpuTypeOK, Ends, stackVars, timerVars
<1>2. ProgramCounterInReach'
  BY DEF CpuInv, ProgramCounterInReach, PendingReturns, Ends, stackVars
<1> QED
  BY <1>1, <1>2 DEF CpuInv

LEMMA SetsRegistersInv ==
  ASSUME CpuInv, Fetches, NEW regs \in [RegisterName -> Byte],
         SetsRegisters(regs)
  PROVE  CpuInv'
<1>1. pc' = pc + 2 /\ pc + 2 <= MEMORY_SIZE /\ pc \in Nat
  BY FetchFacts DEF SetsRegisters
<1>2. CpuTypeOK'
  BY <1>1, MemoryAssumption, Limits
  DEF CpuInv, CpuTypeOK, SetsRegisters, stackVars, timerVars, Word
<1>3. ProgramCounterInReach'
  BY <1>1, MemoryAssumption, Limits
  DEF CpuInv, ProgramCounterInReach, PendingReturns, SetsRegisters, stackVars
<1> QED
  BY <1>2, <1>3 DEF CpuInv

LEMMA SetsIInv ==
  ASSUME CpuInv, Fetches, NEW addr \in Word, SetsI(addr)
  PROVE  CpuInv'
<1>1. pc' = pc + 2 /\ pc + 2 <= MEMORY_SIZE /\ pc \in Nat
  BY FetchFacts DEF SetsI
<1>2. CpuTypeOK'
  BY <1>1, MemoryAssumption, Limits
  DEF CpuInv, CpuTypeOK, SetsI, stackVars, timerVars, Word
<1>3. ProgramCounterInReach'
  BY <1>1, MemoryAssumption, Limits
  DEF CpuInv, ProgramCounterInReach, PendingReturns, SetsI, stackVars
<1> QED
  BY <1>2, <1>3 DEF CpuInv

LEMMA SetsMemoryInv ==
  ASSUME CpuInv, Fetches, NEW mem \in [Address -> Byte], SetsMemory(mem)
  PROVE  CpuInv'
<1>1. pc' = pc + 2 /\ pc + 2 <= MEMORY_SIZE /\ pc \in Nat
  BY FetchFacts DEF SetsMemory
<1>2. CpuTypeOK'
  BY <1>1, MemoryAssumption, Limits
  DEF CpuInv, CpuTypeOK, SetsMemory, stackVars, timerVars, Word
<1>3. ProgramCounterInReach'
  BY <1>1, MemoryAssumption, Limits
  DEF CpuInv, ProgramCounterInReach, PendingReturns, SetsMemory, stackVars
<1> QED
  BY <1>2, <1>3 DEF CpuInv

LEMMA GoesToInv ==
  ASSUME CpuInv, NEW addr \in Nat,
         addr <= MEMORY_SIZE + 2 \/ addr <= 4095 + REGISTER_MAX,
         GoesTo(addr)
  PROVE  CpuInv'
<1>1. CpuTypeOK'
  BY MemoryAssumption, Limits
  DEF CpuInv, CpuTypeOK, GoesTo, stackVars, timerVars, Word
<1>2. ProgramCounterInReach'
  BY DEF CpuInv, ProgramCounterInReach, PendingReturns, GoesTo, stackVars
<1> QED
  BY <1>1, <1>2 DEF CpuInv

LEMMA SkipsIfInv ==
  ASSUME CpuInv, Fetches, NEW condition, SkipsIf(condition)
  PROVE  CpuInv'
<1> DEFINE target == IF condition THEN pc_skipped ELSE pc_advanced
<1>1. target \in Nat /\ target <= MEMORY_SIZE + 2
  BY FetchFacts, MemoryAssumption
<1>2. GoesTo(target)
  BY DEF SkipsIf
<1> HIDE DEF target
<1> QED
  BY <1>1, <1>2, GoesToInv

LEMMA CallsInv ==
  ASSUME CpuInv, Fetches, Calls(NNN)
  PROVE  CpuInv'
<1>1. CASE stack_count >= STACK_CAPACITY /\ Ends("exited")
  BY <1>1, EndsInv
<1>2. CASE ~(stack_count >= STACK_CAPACITY /\ Ends("exited"))
  <2>1. /\ stack_count < STACK_CAPACITY /\ stack_count \in StackSlot
        /\ stack' = [ stack EXCEPT ![stack_count] = pc + 2 ]
        /\ stack_count' = stack_count + 1
        /\ pc' = NNN
        /\ UNCHANGED << memory, registers, i, buffer, timerVars,
                        keyboard_state, status >>
    BY <1>2, FetchFacts, CpuAssumption
    DEF Calls, CpuInv, CpuTypeOK, StackSlot
  <2>2. /\ pc + 2 \in 2 .. MEMORY_SIZE /\ pc + 2 \in Word
        /\ NNN <= 4095 /\ NNN \in Word
    BY FetchFacts, MemoryAssumption, Limits DEF Word
  <2>3. CpuTypeOK'
    BY <2>1, <2>2, CpuAssumption
    DEF CpuInv, CpuTypeOK, StackSlot, timerVars
  <2>4. ASSUME NEW k \in 1 .. stack_count + 1
        PROVE  stack'[k - 1] \in 2 .. MEMORY_SIZE
    <3>1. k - 1 \in StackSlot
      BY <2>1, CpuAssumption DEF CpuInv, CpuTypeOK, StackSlot
    <3>2. CASE k = stack_count + 1
      BY <3>1, <3>2, <2>1, <2>2 DEF CpuInv, CpuTypeOK
    <3>3. CASE k # stack_count + 1
      <4>1. k \in 1 .. stack_count
        BY <3>3 DEF CpuInv, CpuTypeOK
      <4>2. PendingReturns[k] = stack[k - 1]
        BY <4>1 DEF PendingReturns
      <4>3. stack'[k - 1] = stack[k - 1]
        BY <3>1, <3>3, <2>1 DEF CpuInv, CpuTypeOK
      <4> QED
        BY <4>1, <4>2, <4>3 DEF CpuInv, ProgramCounterInReach
    <3> QED
      BY <3>2, <3>3
  <2>5. ASSUME NEW k \in 1 .. stack_count'
        PROVE  PendingReturns'[k] \in 2 .. MEMORY_SIZE
    BY <2>1, <2>4 DEF PendingReturns
  <2>6. pc' <= 4095 + REGISTER_MAX
    BY <2>1, <2>2, Limits DEF Word
  <2>7. ProgramCounterInReach'
    BY <2>5, <2>6 DEF ProgramCounterInReach
  <2> QED
    BY <2>3, <2>7 DEF CpuInv
<1> QED
  BY <1>1, <1>2

-----------------------------------------------------------------------------
(***************************************************************************)
(* Every instruction preserves the invariant                               *)
(***************************************************************************)
LEMMA FailedStepInv ==
  ASSUME CpuInv, FailedStep
  PROVE  CpuInv'
<1>1. \E how \in {"exited", "aborted", "undefined", "finished"} : Ends(how)
  BY DEF FailedStep, step_pc_overflow, step_fetch_overrun, step_zero_opcode,
         step_unsupported
<1> QED
  BY <1>1, EndsInv

LEMMA ReturnInv ==
  ASSUME CpuInv, exec_return
  PROVE  CpuInv'
<1>1. CASE Ends("exited")
  BY <1>1, EndsInv
<1>2. CASE ~Ends("exited")
  <2>1. /\ stack_count > 0 /\ stack_count' = stack_count - 1
        /\ pc' = stack[stack_count - 1]
        /\ UNCHANGED << memory, registers, i, stack, buffer, timerVars,
                        keyboard_state, status >>
    BY <1>2 DEF exec_return
  <2>2. /\ stack_count \in 1 .. STACK_CAPACITY
        /\ stack_count - 1 \in StackSlot
    BY <2>1, CpuAssumption DEF CpuInv, CpuTypeOK, StackSlot
  <2>3. CpuTypeOK'
    BY <2>1, <2>2, CpuAssumption DEF CpuInv, CpuTypeOK, timerVars
  <2>4. PendingReturns[stack_count] = stack[stack_count - 1]
    BY <2>2, CpuAssumption DEF PendingReturns
  <2>5. pc' \in 2 .. MEMORY_SIZE
    BY <2>1, <2>2, <2>4, CpuAssumption DEF CpuInv, ProgramCounterInReach
  <2>6. ASSUME NEW k \in 1 .. stack_count'
        PROVE  PendingReturns'[k] \in 2 .. MEMORY_SIZE
    <3>1. k \in 1 .. stack_count
      BY <2>1, <2>2, CpuAssumption
    <3>2. PendingReturns'[k] = PendingReturns[k]
      BY <3>1, <2>1 DEF PendingReturns
    <3> QED
      BY <3>1, <3>2 DEF CpuInv, ProgramCounterInReach
  <2>7. pc' <= MEMORY_SIZE + 2
    BY <2>5, MemoryAssumption
  <2> QED
    BY <2>3, <2>6, <2>7 DEF CpuInv, ProgramCounterInReach
<1> QED
  BY <1>1, <1>2

LEMMA ControlFlowStepInv ==
  ASSUME CpuInv, ControlFlowStep
  PROVE  CpuInv'
<1>1. CASE exec_call \/ exec_call_subroutine
  BY <1>1, CallsInv DEF exec_call, exec_call_subroutine, Executing
<1>2. CASE exec_return
  BY <1>2, ReturnInv
<1>3. CASE exec_goto
  <2>1. Fetches /\ GoesTo(NNN)
    BY <1>3 DEF exec_goto, Executing
  <2> QED
    BY <2>1, FetchFacts, GoesToInv, Limits
<1>4. CASE exec_jump_to_addr_plus_v0
  <2>1. Fetches /\ GoesTo(NNN + registers[0])
    BY <1>4 DEF exec_jump_to_addr_plus_v0, Executing
  <2>2. registers[0] \in Nat /\ registers[0] <= REGISTER_MAX
    BY Limits DEF CpuInv, CpuTypeOK, RegisterName, VF, Byte
  <2>3. NNN + registers[0] \in Nat /\ NNN + registers[0] <= 4095 + REGISTER_MAX
    BY <2>1, <2>2, FetchFacts, Limits
  <2> QED
    BY <2>1, <2>3, GoesToInv
<1>5. CASE \/ exec_if_equals \/ exec_if_not_equals
           \/ exec_skip_next_if_vx_equals_vy \/ exec_if_vx_not_equals_to_vy
  <2>1. Fetches /\ \E condition \in BOOLEAN : SkipsIf(condition)
    BY <1>5 DEF exec_if_equals, exec_if_not_equals, Executing,
      exec_skip_next_if_vx_equals_vy, exec_if_vx_not_equals_to_vy
  <2> QED
    BY <2>1, SkipsIfInv
<1> QED
  BY <1>1, <1>2, <1>3, <1>4, <1>5 DEF ControlFlowStep

LEMMA SetsFlaggedInv ==
  ASSUME CpuInv, Fetches, NEW regs, NEW flag, NEW result \in Byte,
         SetsFlagged(regs, flag, result)
  PROVE  CpuInv'
<1>1. CASE Ends("exited")
  BY <1>1, EndsInv
<1>2. CASE ~Ends("exited")
  <2> DEFINE new == [ registers EXCEPT ![VF] = IF flag THEN 1 ELSE 0,
                                       ![X]  = result ]
  <2>1. SetsRegisters(new)
    BY <1>2 DEF SetsFlagged
  <2>2. (IF flag THEN 1 ELSE 0) \in Byte
    BY Limits DEF Byte
  <2>3. new \in [RegisterName -> Byte]
    BY <2>2 DEF CpuInv, CpuTypeOK
  <2> HIDE DEF new
  <2> QED
    BY <2>1, <2>3, SetsRegistersInv
<1> QED
  BY <1>1, <1>2

\* The values the register instructions compute are bytes.
LEMMA ByteArithmetic ==
  ASSUME NEW a \in Byte, NEW b \in Byte
  PROVE  /\ U8(a + b) \in Byte /\ U8(a - b) \in Byte /\ U8(a * 2) \in Byte
         /\ a \div 2 \in Byte
         /\ BitOr(a, b) \in Byte /\ BitAnd(a, b) \in Byte /\ BitXor(a, b) \in Byte
<1>1. a \in Nat /\ b \in Nat /\ a <= REGISTER_MAX
  BY Limits DEF Byte
<1>2. a + b \in Int /\ a - b \in Int /\ a * 2 \in Int
  BY <1>1
<1>3. a \div 2 \in Nat /\ a \div 2 <= a
  BY <1>1
<1>4. a \div 2 \in Byte
  BY <1>1, <1>3, Limits DEF Byte
<1>5. U8(a + b) \in Byte /\ U8(a - b) \in Byte /\ U8(a * 2) \in Byte
  BY <1>2, TruncationType
<1> QED
  BY <1>4, <1>5, ByteOfType DEF BitOr, BitAnd, BitXor

LEMMA RegisterStepInv ==
  ASSUME CpuInv, RegisterStep
  PROVE  CpuInv'
<1>1. Fetches
  BY DEF RegisterStep, Executing, exec_set_register, exec_add_to_vx,
    exec_set_vx_from_vy, exec_set_vx_to_vx_or, exec_set_vx_to_vx_and,
    exec_set_vx_to_vx_xor, exec_set_vx_rand_and, exec_vx_plus_vy,
    exec_vx_minus_vy, exec_set_vx_vy_minus_vx, exec_set_vx_rshift_one,
    exec_set_vx_lshift_one
<1>2. Vx \in Byte /\ Vy \in Byte /\ KK \in Byte
  BY <1>1, FetchFacts
<1>3. \A v \in Byte : [ registers EXCEPT ![X] = v ] \in [RegisterName -> Byte]
  BY DEF CpuInv, CpuTypeOK
<1>4. CASE \E v \in Byte : SetsRegisters([ registers EXCEPT ![X] = v ])
  BY <1>1, <1>3, <1>4, SetsRegistersInv
<1>5. CASE \/ exec_set_register \/ exec_add_to_vx \/ exec_set_vx_from_vy
           \/ exec_set_vx_to_vx_or \/ exec_set_vx_to_vx_and
           \/ exec_set_vx_to_vx_xor
  BY <1>2, <1>4, <1>5, ByteArithmetic
  DEF exec_set_register, exec_add_to_vx, exec_set_vx_from_vy,
    exec_set_vx_to_vx_or, exec_set_vx_to_vx_and, exec_set_vx_to_vx_xor
<1>6. CASE exec_set_vx_rand_and
  BY <1>2, <1>4, <1>6, ByteArithmetic, CpuAssumption DEF exec_set_vx_rand_and
<1>7. CASE \/ exec_vx_plus_vy \/ exec_vx_minus_vy \/ exec_set_vx_vy_minus_vx
           \/ exec_set_vx_rshift_one \/ exec_set_vx_lshift_one
  <2>1. \E regs, flag : \E result \in Byte : SetsFlagged(regs, flag, result)
    BY <1>2, <1>7, ByteArithmetic
    DEF exec_vx_plus_vy, exec_vx_minus_vy, exec_set_vx_vy_minus_vx,
      exec_set_vx_rshift_one, exec_set_vx_lshift_one
  <2> QED
    BY <2>1, <1>1, SetsFlaggedInv
<1> QED
  BY <1>5, <1>6, <1>7 DEF RegisterStep

LEMMA MemoryStepInv ==
  ASSUME CpuInv, MemoryStep
  PROVE  CpuInv'
<1>1. Fetches
  BY DEF MemoryStep, Executing, exec_set_i_register, exec_add_vx_to_i,
    exec_set_i_to_sprite_addr, exec_set_bcd, exec_reg_dump, exec_reg_load
<1>2. /\ Vx \in Nat /\ Vx <= REGISTER_MAX /\ i \in Nat
      /\ X \in RegisterName /\ X \in Nat
  BY <1>1, FetchFacts, Limits
  DEF CpuInv, CpuTypeOK, Byte, Word, RegisterName, VF
<1>3. CASE Ends("undefined")
  BY <1>3, EndsInv
<1>4. CASE exec_set_i_register \/ exec_add_vx_to_i \/ exec_set_i_to_sprite_addr
  <2>1. NNN \in Word
    BY <1>1, FetchFacts, Limits DEF Word
  <2>2. U16(i + Vx) \in Word
    BY <1>2, TruncationType
  <2>3. memory_address_from_sprite_value(Vx) \in Word
    BY <1>2, Limits
    DEF memory_address_from_sprite_value, FONT_SPRITE_SIZE, Word
  <2>4. \E addr \in Word : SetsI(addr)
    BY <1>4, <2>1, <2>2, <2>3
    DEF exec_set_i_register, exec_add_vx_to_i, exec_set_i_to_sprite_addr
  <2> QED
    BY <2>4, <1>1, SetsIInv
<1>5. CASE exec_set_bcd /\ ~Ends("undefined")
  <2> DEFINE mem == [ memory EXCEPT ![i]     = (Vx % 1000) \div 100,
                                    ![i + 1] = (Vx % 100) \div 10,
                                    ![i + 2] = Vx % 10 ]
  <2>1. SetsMemory(mem)
    BY <1>5 DEF exec_set_bcd
  <2>2. /\ (Vx % 1000) \div 100 \in Byte
        /\ (Vx % 100) \div 10 \in Byte
        /\ Vx % 10 \in Byte
    BY <1>2, Limits DEF Byte
  <2>3. mem \in [Address -> Byte]
    <3> DEFINE hundreds == (Vx % 1000) \div 100
               tens == (Vx % 100) \div 10
               ones == Vx % 10
    <3>1. memory \in [Address -> Byte]
      BY DEF CpuInv, CpuTypeOK
    <3>2. hundreds \in Byte /\ tens \in Byte /\ ones \in Byte
      BY <2>2
    <3> HIDE DEF hundreds, tens, ones
    <3>3. [ memory EXCEPT ![i] = hundreds, ![i + 1] = tens, ![i + 2] = ones ]
            \in [Address -> Byte]
      BY <3>1, <3>2
    <3> QED
      BY <3>3 DEF hundreds, tens, ones
  <2> HIDE DEF mem
  <2> QED
    BY <2>1, <2>3, <1>1, SetsMemoryInv
<1>6. CASE exec_reg_dump /\ ~Ends("undefined")
  <2> DEFINE mem == [ a \in Address |-> IF a \in i .. i + X
                                       THEN registers[a - i]
                                       ELSE memory[a] ]
  <2>1. SetsMemory(mem)
    BY <1>6 DEF exec_reg_dump
  <2>2. ASSUME NEW a \in Address, a \in i .. i + X
        PROVE  registers[a - i] \in Byte
    <3>1. a - i \in RegisterName
      BY <1>2, <2>2 DEF RegisterName, VF
    <3> QED
      BY <3>1 DEF CpuInv, CpuTypeOK
  <2>3. mem \in [Address -> Byte]
    BY <2>2 DEF CpuInv, CpuTypeOK
  <2> HIDE DEF mem
  <2> QED
    BY <2>1, <2>3, <1>1, SetsMemoryInv
<1>7. CASE exec_reg_load /\ ~Ends("undefined")
  <2> DEFINE regs == [ r \in RegisterName |-> IF r <= X
                                             THEN memory[i + r]
                                             ELSE registers[r] ]
  <2>1. SetsRegisters(regs) /\ InMemory(i, X + 1)
    BY <1>7 DEF exec_reg_load
  <2>2. ASSUME NEW r \in RegisterName, r <= X
        PROVE  memory[i + r] \in Byte
    <3>1. i + r \in Address
      BY <1>2, <2>1, <2>2, MemoryAssumption DEF RegisterName, VF, Address, InMemory
    <3> QED
      BY <3>1 DEF CpuInv, CpuTypeOK
  <2>3. regs \in [RegisterName -> Byte]
    BY <2>2 DEF CpuInv, CpuTypeOK
  <2> HIDE DEF regs
  <2> QED
    BY <2>1, <2>3, <1>1, SetsRegistersInv
<1> QED
  BY <1>3, <1>4, <1>5, <1>6, <1>7 DEF MemoryStep

LEMMA DeviceStepInv ==
  ASSUME CpuInv, DeviceStep
  PROVE  CpuInv'
<1>1. Fetches
  BY DEF DeviceStep, Executing, exec_display_clear, exec_display_draw_sprite_at,
    exec_set_vx_from_delay_timer, exec_set_delay_timer_from_vx,
    exec_set_sound_timer, exec_if_key_equals_to_vx,
    exec_if_key_not_equals_to_vx, exec_set_vx_from_key
<1>2. /\ pc_advanced = pc + 2 /\ pc + 2 <= MEMORY_SIZE /\ pc \in Nat
      /\ pc + 2 \in Word
  BY <1>1, FetchFacts, MemoryAssumption, Limits DEF Word
<1>3. Vx \in Byte /\ Vy \in Byte /\ Vx \in Nat /\ Vy \in Nat /\ N \in Nat
  BY <1>1, FetchFacts, Limits DEF Byte
\* An instruction that only goes on to the next one keeps the program counter
\* and the stack in range.
<1>4. ASSUME pc' = pc_advanced, UNCHANGED stackVars
      PROVE  pc' \in Word /\ ProgramCounterInReach'
  BY <1>2, <1>4, MemoryAssumption
  DEF CpuInv, ProgramCounterInReach, PendingReturns, stackVars
<1>5. CASE Ends("undefined")
  BY <1>5, EndsInv
<1>6. CASE exec_display_clear
  BY <1>4, <1>6
  DEF exec_display_clear, display_clear, CpuInv, CpuTypeOK, stackVars, timerVars
<1>7. CASE exec_display_draw_sprite_at /\ ~Ends("undefined")
  <2>1. /\ buffer' = display_draw_sprite(buffer, Vx, Vy, Sprite, N)
        /\ registers' = [ registers EXCEPT ![VF] =
              IF pixel_erased(buffer, Vx, Vy, Sprite, N) THEN 1 ELSE 0 ]
        /\ pc' = pc_advanced
        /\ UNCHANGED << memory, i, stackVars, timerVars, keyboard_state, status >>
    BY <1>7 DEF exec_display_draw_sprite_at
  <2>2. buffer' \subseteq Pixels
    BY <2>1, <1>3, DrawStaysOnScreen DEF CpuInv, CpuTypeOK
  <2>3. PICK flag \in {0, 1} : registers' = [ registers EXCEPT ![VF] = flag ]
    BY <2>1
  <2>4. flag \in Byte
    BY Limits DEF Byte
  <2>5. registers' \in [RegisterName -> Byte]
    BY <2>3, <2>4 DEF CpuInv, CpuTypeOK
  <2> QED
    BY <2>1, <2>2, <2>5, <1>4 DEF CpuInv, CpuTypeOK, stackVars, timerVars
<1>8. CASE exec_set_vx_from_delay_timer
  <2>1. [ registers EXCEPT ![X] = delay_timer ] \in [RegisterName -> Byte]
    BY DEF CpuInv, CpuTypeOK
  <2> QED
    BY <2>1, <1>1, <1>8, SetsRegistersInv DEF exec_set_vx_from_delay_timer
<1>9. CASE exec_set_delay_timer_from_vx \/ exec_set_sound_timer
  BY <1>3, <1>4, <1>9
  DEF exec_set_delay_timer_from_vx, exec_set_sound_timer, CpuInv, CpuTypeOK,
    stackVars, timerVars
<1>10. CASE /\ exec_if_key_equals_to_vx \/ exec_if_key_not_equals_to_vx
            /\ ~Ends("undefined")
  <2> DEFINE pressed == keyboard_is_key_pressed(keyboard_state, Vx)
  <2>1. pressed \in BOOLEAN
    BY DEF keyboard_is_key_pressed
  <2>2. SkipsIf(pressed) \/ SkipsIf(~pressed)
    BY <1>10 DEF exec_if_key_equals_to_vx, exec_if_key_not_equals_to_vx
  <2> HIDE DEF pressed
  <2>3. CASE SkipsIf(pressed)
    BY <2>1, <2>3, <1>1, SkipsIfInv
  <2>4. CASE SkipsIf(~pressed)
    BY <2>1, <2>4, <1>1, SkipsIfInv
  <2> QED
    BY <2>2, <2>3, <2>4
<1>11. CASE exec_set_vx_from_key
  <2>1. CASE PressedKeys(keyboard_state) = {}
    <3>1. GoesTo(U16(pc_advanced - 2))
      BY <1>11, <2>1 DEF exec_set_vx_from_key
    <3>2. U16(pc_advanced - 2) = pc
      BY <1>2, MemoryAssumption, Limits, U16Exact
    <3> QED
      BY <3>1, <3>2, <1>2, MemoryAssumption, GoesToInv
  <2>2. CASE PressedKeys(keyboard_state) # {}
    <3> DEFINE key == keyboard_get_pressed_key(keyboard_state)
    <3>1. SetsRegisters([ registers EXCEPT ![X] = key ])
      BY <1>11, <2>2 DEF exec_set_vx_from_key
    <3>2. key \in Byte
      BY <2>2, PressedKeyType
    <3> HIDE DEF key
    <3>3. [ registers EXCEPT ![X] = key ] \in [RegisterName -> Byte]
      BY <3>2 DEF CpuInv, CpuTypeOK
    <3> QED
      BY <3>1, <3>3, <1>1, SetsRegistersInv
  <2> QED
    BY <2>1, <2>2
<1> QED
  BY <1>5, <1>6, <1>7, <1>8, <1>9, <1>10, <1>11 DEF DeviceStep

\* What happens between two instructions preserves the invariant.
LEMMA BetweenStepsInv ==
  ASSUME CpuInv, KeyboardChanges \/ TimersRun \/ LoopEnds
  PROVE  CpuInv'
<1>1. CASE KeyboardChanges
  BY <1>1 DEF KeyboardChanges, CpuInv, CpuTypeOK, ProgramCounterInReach,
    PendingReturns, stackVars, timerVars
<1>2. CASE TimersRun
  <2>1. delay_timer' \in Byte /\ sound_timer' \in Byte
    BY <1>2, Limits DEF TimersRun, CpuInv, CpuTypeOK, Byte
  <2> QED
    BY <1>2, <2>1 DEF TimersRun, CpuInv, CpuTypeOK, ProgramCounterInReach,
      PendingReturns, stackVars
<1>3. CASE LoopEnds
  BY <1>3, EndsInv DEF LoopEnds
<1> QED
  BY <1>1, <1>2, <1>3

LEMMA CpuInitInv ==
  ASSUME CpuInit
  PROVE  CpuInv
<1>1. memory \in [Address -> Byte]
  <2>1. PICK rom \in Roms :
          \/ rom_fits(rom) /\ memory = machine_load_rom(memory_init, rom)
          \/ memory = memory_init
    BY DEF CpuInit
  <2>2. rom \in Seq(Byte)
    BY CpuAssumption
  <2> QED
    BY <2>1, <2>2, MemoryInitType, LoadRomType
<1>2. status \in {"running", "exited", "aborted", "undefined", "finished"}
  BY DEF CpuInit
<1>3. 0 \in Byte /\ 0 \in Word /\ MEMORY_PROGRAM_STARTING_ADDRESS \in Word
      /\ MEMORY_PROGRAM_STARTING_ADDRESS <= MEMORY_SIZE + 2
  BY MemoryAssumption, Limits DEF Byte, Word
<1>4. buffer \subseteq Pixels
  BY DEF CpuInit, cpu_init, display_clear
<1>5. stack_count = 0 /\ stack_count \in 0 .. STACK_CAPACITY
  BY CpuAssumption DEF CpuInit, cpu_init
<1>6. CpuTypeOK
  BY <1>1, <1>2, <1>3, <1>4, <1>5, CpuAssumption
  DEF CpuInit, cpu_init, CpuTypeOK
<1>7. ProgramCounterInReach
  BY <1>3, <1>5 DEF CpuInit, cpu_init, ProgramCounterInReach
<1> QED
  BY <1>6, <1>7 DEF CpuInv

LEMMA CpuNextInv ==
  ASSUME CpuInv, [CpuNext]_cpuVars
  PROVE  CpuInv'
<1>1. CASE CpuNext
  BY <1>1, ControlFlowStepInv, RegisterStepInv, MemoryStepInv, DeviceStepInv,
    FailedStepInv, BetweenStepsInv
  DEF CpuNext, cpu_step
<1>2. CASE UNCHANGED cpuVars
  BY <1>2 DEF cpuVars, CpuInv, CpuTypeOK, ProgramCounterInReach,
    PendingReturns, stackVars, timerVars
<1> QED
  BY <1>1, <1>2

-----------------------------------------------------------------------------
(***************************************************************************)
(* Theorems                                                                *)
(***************************************************************************)
\* CpuInv is an invariant of the interpreter, for every memory size, stack
\* capacity and screen the assumptions admit and for every set of programs.
THEOREM CpuInvariant == CpuSpec => []CpuInv
<1> QED
  BY CpuInitInv, CpuNextInv, PTL DEF CpuSpec

\* Every register, memory cell and timer stays a byte, the program counter and
\* the address register stay 16 bits wide, the stack pointer stays in the stack
\* array and no pixel is drawn outside the screen, whatever program cpu_step
\* executes.
THEOREM CpuTypeCorrect == CpuSpec => []CpuTypeOK
<1>1. CpuInv => CpuTypeOK
  BY DEF CpuInv
<1> QED
  BY <1>1, CpuInvariant, PTL

\* No instruction brings the program counter to where cpu_pc_advance would wrap
\* around, and every return address is in memory or one past its end.
THEOREM ProgramCounterStaysInReach == CpuSpec => []ProgramCounterInReach
<1>1. CpuInv => ProgramCounterInReach
  BY DEF CpuInv
<1> QED
  BY <1>1, CpuInvariant, PTL

-----------------------------------------------------------------------------
(***************************************************************************)
(* The array and the count of cpu.c implement the call stack               *)
(***************************************************************************)
\* The first n slots of a stack, as the sequence PendingReturns makes of them.
LEMMA SlotsSeq ==
  ASSUME NEW slots \in [StackSlot -> Word], NEW n \in 0 .. STACK_CAPACITY
  PROVE  /\ [ k \in 1 .. n |-> slots[k - 1] ] \in Seq(Word)
         /\ Len([ k \in 1 .. n |-> slots[k - 1] ]) = n
<1> DEFINE s == [ k \in 1 .. n |-> slots[k - 1] ]
<1>1. n \in Nat /\ n <= STACK_CAPACITY
  BY CpuAssumption
<1>2. ASSUME NEW k \in 1 .. n PROVE slots[k - 1] \in Word
  BY <1>1, CpuAssumption DEF StackSlot
<1>3. s \in [1 .. n -> Word]
  BY <1>2
<1> HIDE DEF s
<1>4. s \in Seq(Word) /\ Len(s) = n
  BY <1>1, <1>3
<1> QED
  BY <1>4 DEF s

\* An instruction other than a call or a return leaves the stack alone.
LEMMA OtherStepsKeepStack ==
  ASSUME CpuNext, ~ControlFlowStep
  PROVE  UNCHANGED stackVars
<1>1. CASE RegisterStep
  BY <1>1 DEF RegisterStep, exec_set_register, exec_add_to_vx,
    exec_set_vx_from_vy, exec_set_vx_to_vx_or, exec_set_vx_to_vx_and,
    exec_set_vx_to_vx_xor, exec_set_vx_rand_and, exec_vx_plus_vy,
    exec_vx_minus_vy, exec_set_vx_vy_minus_vx, exec_set_vx_rshift_one,
    exec_set_vx_lshift_one, SetsFlagged, SetsRegisters, Ends
<1>2. CASE MemoryStep
  BY <1>2 DEF MemoryStep, exec_set_i_register, exec_add_vx_to_i,
    exec_set_i_to_sprite_addr, exec_set_bcd, exec_reg_dump, exec_reg_load,
    SetsI, SetsMemory, SetsRegisters, Ends
<1>3. CASE DeviceStep
  BY <1>3 DEF DeviceStep, exec_display_clear, exec_display_draw_sprite_at,
    exec_set_vx_from_delay_timer, exec_set_delay_timer_from_vx,
    exec_set_sound_timer, exec_if_key_equals_to_vx,
    exec_if_key_not_equals_to_vx, exec_set_vx_from_key,
    SetsRegisters, SkipsIf, GoesTo, Ends
<1>4. CASE FailedStep
  BY <1>4 DEF FailedStep, step_pc_overflow, step_fetch_overrun,
    step_zero_opcode, step_unsupported, Ends
<1>5. CASE KeyboardChanges \/ TimersRun \/ LoopEnds
  BY <1>5 DEF KeyboardChanges, TimersRun, LoopEnds, Ends
<1> QED
  BY <1>1, <1>2, <1>3, <1>4, <1>5 DEF CpuNext, cpu_step

\* A step that leaves the stack alone is a Move.
LEMMA UnchangedStackMoves ==
  ASSUME CpuInv', UNCHANGED stackVars
  PROVE  CallStack!Next
<1>1. pc' \in Nat
  BY Limits DEF CpuInv, CpuTypeOK, Word
<1>2. PendingReturns' = PendingReturns
  BY DEF PendingReturns, stackVars
<1> QED
  BY <1>1, <1>2 DEF CallStack!Next, CallStack!Move

LEMMA CallsImplementCall ==
  ASSUME CpuInv, CpuInv', Fetches, Calls(NNN)
  PROVE  CallStack!Next
<1>1. CASE Ends("exited")
  BY <1>1, UnchangedStackMoves DEF Ends
<1>2. CASE ~Ends("exited")
  <2>1. /\ stack_count < STACK_CAPACITY
        /\ stack' = [ stack EXCEPT ![stack_count] = pc + 2 ]
        /\ stack_count' = stack_count + 1
    BY <1>2, FetchFacts DEF Calls
  <2>2. pc' \in Nat /\ stack_count \in Nat /\ stack_count \in StackSlot
    BY <2>1, Limits, CpuAssumption DEF CpuInv, CpuTypeOK, Word, StackSlot
  <2>3. /\ PendingReturns \in Seq(Word) /\ Len(PendingReturns) = stack_count
        /\ PendingReturns' \in Seq(Word)
        /\ Len(PendingReturns') = stack_count + 1
    BY <2>1, SlotsSeq DEF CpuInv, CpuTypeOK, PendingReturns
  <2>4. pc + 2 \in Word
    BY FetchFacts, MemoryAssumption, Limits DEF Word
  <2>5. ASSUME NEW k \in 1 .. stack_count + 1
        PROVE  PendingReturns'[k] = Append(PendingReturns, pc + 2)[k]
    <3>1. PendingReturns'[k] = stack'[k - 1]
      BY <2>1 DEF PendingReturns
    <3>2. CASE k = stack_count + 1
      BY <3>1, <3>2, <2>1, <2>2, <2>3 DEF CpuInv, CpuTypeOK
    <3>3. CASE k # stack_count + 1
      <4>1. k \in 1 .. stack_count /\ k - 1 \in StackSlot
        BY <3>3, <2>1, <2>2, CpuAssumption DEF StackSlot
      <4>2. PendingReturns[k] = stack[k - 1]
        BY <4>1 DEF PendingReturns
      <4>3. stack'[k - 1] = stack[k - 1]
        BY <4>1, <3>3, <2>1, <2>2 DEF CpuInv, CpuTypeOK
      <4>4. Append(PendingReturns, pc + 2)[k] = PendingReturns[k]
        BY <4>1, <2>3, <2>4, AppendProperties
      <4> QED
        BY <3>1, <4>2, <4>3, <4>4
    <3> QED
      BY <3>2, <3>3
  <2>6. PendingReturns' = Append(PendingReturns, pc + 2)
    BY <2>2, <2>3, <2>5, <2>4
  <2> QED
    BY <2>1, <2>2, <2>3, <2>6 DEF CallStack!Next, CallStack!Call
<1> QED
  BY <1>1, <1>2

LEMMA ReturnImplementsReturn ==
  ASSUME CpuInv, CpuInv', exec_return
  PROVE  CallStack!Next
<1>1. CASE Ends("exited")
  BY <1>1, UnchangedStackMoves DEF Ends
<1>2. CASE ~Ends("exited")
  <2>1. /\ stack_count > 0 /\ stack_count' = stack_count - 1
        /\ pc' = stack[stack_count - 1] /\ stack' = stack
    BY <1>2 DEF exec_return
  <2>2. stack_count \in Nat
    BY CpuAssumption DEF CpuInv, CpuTypeOK
  <2>3. /\ PendingReturns \in Seq(Word) /\ Len(PendingReturns) = stack_count
        /\ PendingReturns' \in Seq(Word)
        /\ Len(PendingReturns') = stack_count - 1
    BY <2>1, SlotsSeq DEF CpuInv, CpuTypeOK, PendingReturns
  <2>4. PendingReturns # << >> /\ pc' = PendingReturns[Len(PendingReturns)]
    <3>1. stack_count \in 1 .. stack_count
      BY <2>1, <2>2
    <3>2. PendingReturns[stack_count] = stack[stack_count - 1]
      BY <3>1 DEF PendingReturns
    <3> QED
      BY <2>1, <2>3, <3>1, <3>2
  <2>5. \A k \in 1 .. stack_count - 1 : PendingReturns'[k] = PendingReturns[k]
    BY <2>1, <2>2 DEF PendingReturns
  <2>6. PendingReturns' = SubSeq(PendingReturns, 1, Len(PendingReturns) - 1)
    BY <2>1, <2>2, <2>3, <2>5
  <2> QED
    BY <2>4, <2>6 DEF CallStack!Next, CallStack!Return
<1> QED
  BY <1>1, <1>2

\* The subroutine instructions nest: every step of the interpreter is a call
\* that pushes the address after it, a return to the innermost pending one, or
\* leaves the pending returns alone.
THEOREM CpuCallsNest == CpuSpec => CallsNest
<1>1. CpuInit => CallStack!Init
  <2> SUFFICES ASSUME CpuInit PROVE CallStack!Init
    OBVIOUS
  <2>1. PendingReturns \in Seq(Word) /\ Len(PendingReturns) = 0
    BY CpuInitInv, SlotsSeq
    DEF CpuInv, CpuTypeOK, CpuInit, cpu_init, PendingReturns
  <2>2. PendingReturns = << >>
    BY <2>1
  <2> QED
    BY <2>2 DEF CpuInit, cpu_init, CallStack!Init
<1>2. CpuInv /\ CpuInv' /\ [CpuNext]_cpuVars => [CallStack!Next]_(CallStack!vars)
  <2> SUFFICES ASSUME CpuInv, CpuInv', [CpuNext]_cpuVars
               PROVE  [CallStack!Next]_(CallStack!vars)
    OBVIOUS
  <2>1. CASE UNCHANGED cpuVars
    BY <2>1, UnchangedStackMoves DEF cpuVars
  <2>2. CASE CpuNext /\ ~ControlFlowStep
    BY <2>2, OtherStepsKeepStack, UnchangedStackMoves
  <2>3. CASE exec_call \/ exec_call_subroutine
    BY <2>3, CallsImplementCall
    DEF exec_call, exec_call_subroutine, Executing
  <2>4. CASE exec_return
    BY <2>4, ReturnImplementsReturn
  <2>5. CASE /\ ControlFlowStep
             /\ ~(exec_call \/ exec_call_subroutine \/ exec_return)
    <3>1. UNCHANGED stackVars
      BY <2>5 DEF ControlFlowStep, exec_goto, exec_jump_to_addr_plus_v0,
        exec_if_equals, exec_if_not_equals, exec_skip_next_if_vx_equals_vy,
        exec_if_vx_not_equals_to_vy, SkipsIf, GoesTo
    <3> QED
      BY <3>1, UnchangedStackMoves
  <2> QED
    BY <2>1, <2>2, <2>3, <2>4, <2>5
<1> QED
  BY <1>1, <1>2, CpuInvariant, PTL DEF CpuSpec, CallsNest, CallStack!Spec

-----------------------------------------------------------------------------
(***************************************************************************)
(* The truncating instructions lose nothing                                *)
(***************************************************************************)
LEMMA ExactSum ==
  ASSUME NEW a \in Nat, NEW b \in Nat, a <= 255, b <= 255
  PROVE  U8(a + b) + 256 * (IF a + b > REGISTER_MAX THEN 1 ELSE 0) = a + b
  BY DEF U8, REGISTER_MAX

LEMMA ExactDifference ==
  ASSUME NEW a \in Nat, NEW b \in Nat, a <= 255, b <= 255, a # b
  PROVE  U8(a - b) = a - b + 256 * (1 - (IF a > b THEN 1 ELSE 0))
  BY DEF U8, REGISTER_MAX

LEMMA ExactShifts ==
  ASSUME NEW a \in Nat, a <= 255
  PROVE  /\ 2 * (a \div 2) + (IF bit_is_set(a, 0) THEN 1 ELSE 0) = a
         /\ U8(a * 2) + 256 * (IF bit_is_set(a, 7) THEN 1 ELSE 0) = 2 * a
<1>1. Weight[0] = 1 /\ Weight[7] = 128
  BY DEF Weight, BitOrder
<1>2. 2 * (a \div 2) + (IF bit_is_set(a, 0) THEN 1 ELSE 0) = a
  BY <1>1 DEF bit_is_set
<1>3. U8(a * 2) + 256 * (IF bit_is_set(a, 7) THEN 1 ELSE 0) = 2 * a
  BY <1>1 DEF bit_is_set, U8, REGISTER_MAX
<1> QED
  BY <1>2, <1>3

\* The digits exec_set_bcd stores are the decimal digits of the number.
LEMMA DecimalDigits ==
  ASSUME NEW a \in Nat, a <= 255, NEW h, NEW d, NEW v,
         h = (a % 1000) \div 100, d = (a % 100) \div 10, v = a % 10
  PROVE  100 * h + 10 * d + v = a
<1>1. a % 1000 = a
  OBVIOUS
<1>2. h \in Nat /\ h = a \div 100
  BY <1>1
<1>3. PICK r \in Nat : r = a % 100
  OBVIOUS
<1>4. a = 100 * h + r
  BY <1>2, <1>3
<1>5. PICK u \in Nat : u = r % 10 /\ u <= 9
  OBVIOUS
<1>6. d \in Nat /\ r = 10 * d + u
  BY <1>3, <1>5
<1>7. PICK e \in Nat : e = a \div 10
  OBVIOUS
<1>8. v \in Nat /\ v <= 9 /\ a = 10 * e + v
  BY <1>7
<1>9. u = v
  BY <1>2, <1>4, <1>5, <1>6, <1>7, <1>8
<1> QED
  BY <1>2, <1>4, <1>6, <1>9

\* A call of cpu_step that survives has run the function the opcode decodes to.
LEMMA StepsRunWhatTheyDecode ==
  ASSUME cpu_step, status' = "running"
  PROVE  /\ Executing("exec_vx_plus_vy") => exec_vx_plus_vy
         /\ Executing("exec_vx_minus_vy") => exec_vx_minus_vy
         /\ Executing("exec_set_vx_vy_minus_vx") => exec_set_vx_vy_minus_vx
         /\ Executing("exec_set_vx_rshift_one") => exec_set_vx_rshift_one
         /\ Executing("exec_set_vx_lshift_one") => exec_set_vx_lshift_one
         /\ Executing("exec_set_bcd") => exec_set_bcd
<1>1. CASE ControlFlowStep
  BY <1>1 DEF ControlFlowStep, Executing, exec_call, exec_call_subroutine,
    exec_return, exec_goto, exec_jump_to_addr_plus_v0, exec_if_equals,
    exec_if_not_equals, exec_skip_next_if_vx_equals_vy,
    exec_if_vx_not_equals_to_vy
<1>2. CASE RegisterStep
  BY <1>2 DEF RegisterStep, Executing, exec_set_register, exec_add_to_vx,
    exec_set_vx_from_vy, exec_set_vx_to_vx_or, exec_set_vx_to_vx_and,
    exec_set_vx_to_vx_xor, exec_set_vx_rand_and, exec_vx_plus_vy,
    exec_vx_minus_vy, exec_set_vx_vy_minus_vx, exec_set_vx_rshift_one,
    exec_set_vx_lshift_one
<1>3. CASE MemoryStep
  BY <1>3 DEF MemoryStep, Executing, exec_set_i_register, exec_add_vx_to_i,
    exec_set_i_to_sprite_addr, exec_set_bcd, exec_reg_dump, exec_reg_load
<1>4. CASE DeviceStep
  BY <1>4 DEF DeviceStep, Executing, exec_display_clear,
    exec_display_draw_sprite_at, exec_set_vx_from_delay_timer,
    exec_set_delay_timer_from_vx, exec_set_sound_timer,
    exec_if_key_equals_to_vx, exec_if_key_not_equals_to_vx,
    exec_set_vx_from_key
<1>5. CASE FailedStep
  BY <1>5 DEF FailedStep, step_pc_overflow, step_fetch_overrun,
    step_zero_opcode, step_unsupported, Ends
<1> QED
  BY <1>1, <1>2, <1>3, <1>4, <1>5 DEF cpu_step

\* The flag and the result SetsFlagged stores, as ExactStep reads them.
LEMMA FlaggedResult ==
  ASSUME CpuInv, Fetches, status' = "running", NEW regs, X \in regs,
         NEW flag, NEW result, SetsFlagged(regs, flag, result)
  PROVE  /\ registers'[VF] = IF flag THEN 1 ELSE 0
         /\ registers'[X] = result
<1>1. X \in RegisterName /\ VF \in RegisterName
  BY FetchFacts DEF RegisterName, VF
<1>2. X # VF
  BY DEF SetsFlagged, Ends
<1>3. registers' = [ registers EXCEPT ![VF] = IF flag THEN 1 ELSE 0,
                                      ![X]  = result ]
  BY DEF SetsFlagged, SetsRegisters, Ends
<1> QED
  BY <1>1, <1>2, <1>3 DEF CpuInv, CpuTypeOK

LEMMA BcdDigits ==
  ASSUME CpuInv, Fetches, status' = "running", exec_set_bcd
  PROVE  /\ memory'[i]     = (Vx % 1000) \div 100
         /\ memory'[i + 1] = (Vx % 100) \div 10
         /\ memory'[i + 2] = Vx % 10
<1>1. /\ InMemory(i, 3)
      /\ memory' = [ memory EXCEPT ![i]     = (Vx % 1000) \div 100,
                                   ![i + 1] = (Vx % 100) \div 10,
                                   ![i + 2] = Vx % 10 ]
  BY DEF exec_set_bcd, SetsMemory, Ends
<1>2. i \in Nat
  BY Limits DEF CpuInv, CpuTypeOK, Word
<1>3. i \in Address /\ i + 1 \in Address /\ i + 2 \in Address
  BY <1>1, <1>2, MemoryAssumption DEF InMemory, Address
<1> QED
  BY <1>1, <1>2, <1>3 DEF CpuInv, CpuTypeOK

LEMMA StepIsExact ==
  ASSUME CpuInv, cpu_step
  PROVE  ExactStep
<1> SUFFICES ASSUME status' = "running", Fetches PROVE ExactStep
  BY DEF ExactStep, Executing
<1>1. Vx \in Nat /\ Vx <= 255 /\ Vy \in Nat /\ Vy <= 255
  BY FetchFacts, Limits DEF Byte
<1>2. ASSUME Executing("exec_vx_plus_vy")
      PROVE  registers'[X] + 256 * registers'[VF] = Vx + Vy
  <2>1. SetsFlagged({X, Y}, Vx + Vy > REGISTER_MAX, U8(Vx + Vy))
    BY <1>2, StepsRunWhatTheyDecode DEF exec_vx_plus_vy
  <2>2. /\ registers'[VF] = IF Vx + Vy > REGISTER_MAX THEN 1 ELSE 0
        /\ registers'[X] = U8(Vx + Vy)
    BY <2>1, FlaggedResult
  <2> QED
    BY <2>2, <1>1, ExactSum
<1>3. ASSUME Executing("exec_vx_minus_vy"), Vx # Vy
      PROVE  registers'[X] = Vx - Vy + 256 * (1 - registers'[VF])
  <2>1. SetsFlagged({X, Y}, Vx > Vy, U8(Vx - Vy))
    BY <1>3, StepsRunWhatTheyDecode DEF exec_vx_minus_vy
  <2>2. /\ registers'[VF] = IF Vx > Vy THEN 1 ELSE 0
        /\ registers'[X] = U8(Vx - Vy)
    BY <2>1, FlaggedResult
  <2>3. U8(Vx - Vy) = Vx - Vy + 256 * (1 - (IF Vx > Vy THEN 1 ELSE 0))
    BY <1>1, <1>3, ExactDifference
  <2> QED
    BY <2>2, <2>3
<1>4. ASSUME Executing("exec_set_vx_vy_minus_vx"), Vx # Vy
      PROVE  registers'[X] = Vy - Vx + 256 * (1 - registers'[VF])
  <2>1. SetsFlagged({X, Y}, Vy > Vx, U8(Vy - Vx))
    BY <1>4, StepsRunWhatTheyDecode DEF exec_set_vx_vy_minus_vx
  <2>2. /\ registers'[VF] = IF Vy > Vx THEN 1 ELSE 0
        /\ registers'[X] = U8(Vy - Vx)
    BY <2>1, FlaggedResult
  <2>3. U8(Vy - Vx) = Vy - Vx + 256 * (1 - (IF Vy > Vx THEN 1 ELSE 0))
    BY <1>1, <1>4, ExactDifference
  <2> QED
    BY <2>2, <2>3
<1>5. ASSUME Executing("exec_set_vx_rshift_one")
      PROVE  2 * registers'[X] + registers'[VF] = Vx
  <2>1. SetsFlagged({X}, bit_is_set(Vx, 0), Vx \div 2)
    BY <1>5, StepsRunWhatTheyDecode DEF exec_set_vx_rshift_one
  <2>2. PICK half : half = Vx \div 2
    OBVIOUS
  <2>3. /\ registers'[VF] = IF bit_is_set(Vx, 0) THEN 1 ELSE 0
        /\ registers'[X] = half
    BY <2>1, <2>2, FlaggedResult
  <2>4. 2 * half + (IF bit_is_set(Vx, 0) THEN 1 ELSE 0) = Vx
    BY <2>2, <1>1, ExactShifts
  <2> QED
    BY <2>3, <2>4
<1>6. ASSUME Executing("exec_set_vx_lshift_one")
      PROVE  registers'[X] + 256 * registers'[VF] = 2 * Vx
  <2>1. SetsFlagged({X}, bit_is_set(Vx, 7), U8(Vx * 2))
    BY <1>6, StepsRunWhatTheyDecode DEF exec_set_vx_lshift_one
  <2>2. /\ registers'[VF] = IF bit_is_set(Vx, 7) THEN 1 ELSE 0
        /\ registers'[X] = U8(Vx * 2)
    BY <2>1, FlaggedResult
  <2> QED
    BY <2>2, <1>1, ExactShifts
<1>7. ASSUME Executing("exec_set_bcd")
      PROVE  100 * memory'[i] + 10 * memory'[i + 1] + memory'[i + 2] = Vx
  <2>1. exec_set_bcd
    BY <1>7, StepsRunWhatTheyDecode
  <2>2. PICK h, d, u : h = memory'[i] /\ d = memory'[i + 1] /\ u = memory'[i + 2]
    OBVIOUS
  <2>3. h = (Vx % 1000) \div 100 /\ d = (Vx % 100) \div 10 /\ u = Vx % 10
    BY <2>1, <2>2, BcdDigits
  <2>4. 100 * h + 10 * d + u = Vx
    BY <2>3, <1>1, DecimalDigits
  <2> QED
    BY <2>2, <2>4
<1> QED
  BY <1>2, <1>3, <1>4, <1>5, <1>6, <1>7 DEF ExactStep

\* For every program, the flag in VF and the truncated result of an addition, a
\* subtraction or a shift determine the exact one, and the digits of exec_set_bcd
\* the number.
THEOREM CpuArithmeticIsExact == CpuSpec => ArithmeticIsExact
<1>1. CpuInv => (cpu_step => ExactStep)
  BY StepIsExact
<1>2. CpuInv /\ [CpuNext]_cpuVars => [cpu_step => ExactStep]_cpuVars
  BY <1>1
<1> QED
  BY <1>2, CpuInvariant, PTL DEF CpuSpec, ArithmeticIsExact

-----------------------------------------------------------------------------
(***************************************************************************)
(* The machine: what main has checked before a phase is reached            *)
(***************************************************************************)
RunPhases == {"start", "events", "timers", "step", "sleep", "render"}
Phases == Startup \cup RunPhases \cup {"disassemble", "free"}

MachineTypeOK ==
  /\ launch \in Launches
  /\ phase \in Phases
  /\ now \in Nat /\ delay_last_tick \in Nat /\ sound_last_tick \in Nat
  /\ events \in Seq(Event)

\* What the clock speed has to do with the text it was read from.
ClockIs ==
  /\ cpu_clock_speed_hz \in Nat /\ cpu_clock_speed_hz < UINT32_MAX
  /\ \/ /\ launch.CPU_CLOCK_HZ = Unset
        /\ cpu_clock_speed_hz = CONFIG_CPU_CLOCK_SPEED_HZ_DEFAULT_VALUE
     \/ launch.CPU_CLOCK_HZ = << "number", cpu_clock_speed_hz >>
     \/ launch.CPU_CLOCK_HZ[1] = "word" /\ cpu_clock_speed_hz = 0
     \/ /\ launch.CPU_CLOCK_HZ = << "number", cpu_clock_speed_hz - 1 - ULLONG_MAX >>
        /\ cpu_clock_speed_hz # 0

ConfigInv ==
  /\ phase # "log_level" => log_level_parses(launch.LOG_LEVEL)
  /\ phase \notin {"log_level", "clock"} => ClockIs
  /\ phase \notin {"log_level", "clock", "arguments"} => UsageIsRight
  /\ phase \notin Startup =>
       /\ rom_fits(launch.file.bytes)
       /\ launch.command = "disassemble" => phase \in {"disassemble", "free"}

LEMMA EnvironmentNumber ==
  ASSUME NEW text \in Text, text # Unset, parses_to_u32(text)
  PROVE  LET hz == parse_string_to_u32(text)
         IN  /\ hz \in Nat /\ hz < UINT32_MAX
             /\ \/ text = << "number", hz >>
                \/ text[1] = "word" /\ hz = 0
                \/ text = << "number", hz - 1 - ULLONG_MAX >> /\ hz # 0
<1> DEFINE hz == parse_string_to_u32(text)
           m == ULLONG_MAX + 1
<1>1. ULLONG_MAX \in Nat /\ UINT32_MAX \in Nat  BY ConfigAssumption
<1>2. hz < UINT32_MAX  BY DEF parses_to_u32, parse_string_to_u32
<1>3. CASE text \in {"word"} \X STRING
  <2>1. text[1] = "word" /\ "word" # "number"  BY <1>3
  <2>2. hz = 0  BY <2>1 DEF parse_string_to_u32, strtoull
  <2> QED  BY <1>2, <2>1, <2>2
<1>4. CASE text \in {"number"} \X Int
  <2>1. PICK n \in Int : text = << "number", n >>  BY <1>4
  <2>2. text[1] = "number" /\ text[2] = n  BY <2>1
  <2>3. n \in -ULLONG_MAX .. ULLONG_MAX  BY <2>2 DEF parses_to_u32, OutOfRange
  <2>4. hz = n % m  BY <2>2 DEF parse_string_to_u32, strtoull
  <2>5. m \in Nat /\ m > 0  BY <1>1
  <2>6. CASE n >= 0
    <3>1. n \in 0 .. m - 1  BY <1>1, <2>3, <2>6
    <3>2. n % m = n  BY <2>5, <3>1
    <3> QED  BY <1>2, <2>1, <2>4, <2>6, <3>2
  <2>7. CASE n < 0
    <3>1. n + m \in 1 .. m - 1  BY <1>1, <2>3, <2>7
    <3>2. n % m = n + m  BY <2>5, <3>1
    <3>3. hz \in Nat /\ hz # 0 /\ n = hz - 1 - ULLONG_MAX
      BY <1>1, <2>4, <3>1, <3>2
    <3> QED  BY <1>2, <2>1, <3>3
  <2> QED  BY <2>6, <2>7
<1> QED  BY <1>3, <1>4 DEF Text

\* What no action changes.
LEMMA LaunchStays ==
  ASSUME [Next]_vars
  PROVE  launch' = launch
BY DEF Next, StartAndEnd, MainLoop, config_init_log_level, config_init_cpu_clock_speed,
  CheckArguments, InitMachine, LoadRom, Disassemble, FreeMachine, StartTimers, PollEnd,
  PollKey, PollNothing, UpdateTimers, Step, Sleep, Render, UserActs, GoesOnTo, Stops,
  SetsClock, vars

\* A step that only ends the process.
LEMMA StopsIs ==
  ASSUME NEW how, Stops(how)
  PROVE  /\ UNCHANGED << phase, now, delay_last_tick, sound_last_tick,
                         cpu_clock_speed_hz, presented, events, inputs, launch >>
         /\ UNCHANGED << memory, registers, pc, i, stack, stack_count, buffer,
                         delay_timer, sound_timer, keyboard_state >>
         /\ status' = how
BY DEF Stops, Ends, loopVars, userVars, stackVars, timerVars

LEMMA GoesOnToIs ==
  ASSUME NEW p, GoesOnTo(p)
  PROVE  /\ phase' = p
         /\ UNCHANGED << now, delay_last_tick, sound_last_tick, cpu_clock_speed_hz,
                         presented, events, inputs, launch >>
         /\ UNCHANGED cpuVars
BY DEF GoesOnTo, Goes, userVars

LEMMA MachineTypeStep ==
  ASSUME MachineTypeOK, ConfigInv, [Next]_vars
  PROVE  MachineTypeOK'
<1>1. launch' = launch  BY LaunchStays
<1>2. CASE config_init_log_level
  BY <1>1, <1>2, StopsIs, GoesOnToIs DEF config_init_log_level, MachineTypeOK, Phases, Startup
<1>3. CASE config_init_cpu_clock_speed
  BY <1>1, <1>3, StopsIs
  DEF config_init_cpu_clock_speed, SetsClock, Goes, userVars, MachineTypeOK, Phases, Startup
<1>4. CASE CheckArguments
  BY <1>1, <1>4, StopsIs, GoesOnToIs DEF CheckArguments, MachineTypeOK, Phases, Startup
<1>5. CASE InitMachine
  BY <1>1, <1>5, StopsIs, GoesOnToIs DEF InitMachine, MachineTypeOK, Phases, Startup
<1>6. CASE LoadRom
  BY <1>1, <1>6, StopsIs
  DEF LoadRom, Goes, CommandPhase, userVars, MachineTypeOK, Phases, RunPhases
<1>7. CASE Disassemble
  BY <1>1, <1>7, StopsIs, GoesOnToIs DEF Disassemble, MachineTypeOK, Phases
<1>8. CASE FreeMachine
  BY <1>1, <1>8, StopsIs DEF FreeMachine, MachineTypeOK
<1>9. CASE StartTimers
  BY <1>1, <1>9
  DEF StartTimers, Goes, Delay!timer_start, Sound!timer_start, userVars, MachineTypeOK,
    Phases, RunPhases
<1>10. CASE PollEnd \/ PollKey
  <2>1. events # << >> /\ events' = Tail(events)  BY <1>10 DEF PollEnd, PollKey
  <2>2. events' \in Seq(Event)  BY <2>1 DEF MachineTypeOK
  <2>3. /\ phase' \in {phase, "free"}
        /\ UNCHANGED << now, delay_last_tick, sound_last_tick >>
    BY <1>10 DEF PollEnd, PollKey, Goes, loopVars
  <2> QED  BY <1>1, <2>2, <2>3 DEF MachineTypeOK, Phases
<1>11. CASE PollNothing
  BY <1>1, <1>11, GoesOnToIs DEF PollNothing, MachineTypeOK, Phases, RunPhases
<1>12. CASE UpdateTimers
  BY <1>1, <1>12
  DEF UpdateTimers, Goes, Delay!timer_update, Sound!timer_update, userVars, MachineTypeOK,
    Phases, RunPhases
<1>13. CASE Step
  BY <1>1, <1>13 DEF Step, Goes, userVars, MachineTypeOK, Phases, RunPhases
<1>14. CASE Sleep
  <2>1. CASE Stops("aborted")  BY <1>1, <2>1, StopsIs DEF MachineTypeOK
  <2>2. CASE ~Stops("aborted")
    <3> DEFINE pause == 1000 \div cpu_clock_speed_hz
    <3>1. /\ phase = "sleep" /\ phase' = "render" /\ cpu_clock_speed_hz # 0
          /\ \E late \in Latencies : now' = Min({MaxTime, now + pause + late})
          /\ UNCHANGED << delay_last_tick, sound_last_tick, events >>
      <4>1. /\ In("sleep") /\ cpu_clock_speed_hz # 0 /\ Goes("render")
            /\ \E late \in Latencies : now' = Min({MaxTime, now + pause + late})
            /\ UNCHANGED << cpuVars, delay_last_tick, sound_last_tick,
                            cpu_clock_speed_hz, presented, userVars, launch >>
        BY <1>14, <2>2, Zenon DEF Sleep
      <4> QED  BY <4>1 DEF In, Goes, userVars
    <3>2. cpu_clock_speed_hz \in Nat  BY <3>1 DEF ConfigInv, ClockIs
    <3>3. pause \in Nat  BY <3>1, <3>2
    <3> HIDE DEF pause
    <3>4. PICK late \in Nat : now' = Min({MaxTime, now + pause + late})
      BY <3>1, MachineAssumption
    <3>5. now + pause + late \in Nat /\ MaxTime \in Nat
      BY <3>3, MachineAssumption DEF MachineTypeOK
    <3>6. \A a, b \in Nat : Min({a, b}) \in Nat  BY DEF Min
    <3>7. now' \in Nat  BY <3>4, <3>5, <3>6
    <3> QED  BY <1>1, <3>1, <3>7 DEF MachineTypeOK, Phases, RunPhases
  <2> QED  BY <2>1, <2>2
<1>15. CASE Render
  BY <1>1, <1>15 DEF Render, Goes, userVars, MachineTypeOK, Phases, RunPhases
<1>16. CASE UserActs
  <2>1. PICK event \in Event : events' = Append(events, event)  BY <1>16 DEF UserActs
  <2>2. events' \in Seq(Event)  BY <2>1 DEF MachineTypeOK
  <2> QED  BY <1>1, <1>16, <2>2 DEF UserActs, loopVars, MachineTypeOK
<1>17. CASE UNCHANGED vars
  BY <1>17 DEF vars, loopVars, userVars, MachineTypeOK
<1> QED
  BY <1>2, <1>3, <1>4, <1>5, <1>6, <1>7, <1>8, <1>9, <1>10, <1>11, <1>12, <1>13, <1>14,
    <1>15, <1>16, <1>17
  DEF Next, StartAndEnd, MainLoop

LEMMA ConfigStep ==
  ASSUME MachineTypeOK, ConfigInv, [Next]_vars
  PROVE  ConfigInv'
<1>1. launch' = launch /\ launch \in Launches  BY LaunchStays DEF MachineTypeOK
<1>2. /\ UsageIsRight' <=> UsageIsRight
      /\ cpu_clock_speed_hz' = cpu_clock_speed_hz => (ClockIs' <=> ClockIs)
  BY <1>1 DEF UsageIsRight, ClockIs
\* The three checks of main ...
<1>3. CASE config_init_log_level
  BY <1>1, <1>2, <1>3, StopsIs, GoesOnToIs DEF config_init_log_level, In, ConfigInv, Startup
<1>4. CASE config_init_cpu_clock_speed
  <2>1. phase = "clock"  BY <1>4 DEF config_init_cpu_clock_speed, In
  <2>2. CASE Stops("exited")  BY <1>1, <2>1, <2>2, StopsIs DEF ConfigInv, Startup
  <2>3. CASE ~Stops("exited")
    <3>1. /\ phase' = "arguments"
          /\ \/ /\ launch.CPU_CLOCK_HZ = Unset
                /\ cpu_clock_speed_hz' = CONFIG_CPU_CLOCK_SPEED_HZ_DEFAULT_VALUE
             \/ /\ launch.CPU_CLOCK_HZ # Unset /\ parses_to_u32(launch.CPU_CLOCK_HZ)
                /\ cpu_clock_speed_hz' = parse_string_to_u32(launch.CPU_CLOCK_HZ)
      BY <1>4, <2>3 DEF config_init_cpu_clock_speed, SetsClock, Goes
    <3>2. launch.CPU_CLOCK_HZ \in Text  BY <1>1, MachineAssumption
    <3>3. ClockIs'
      <4>1. CASE /\ launch.CPU_CLOCK_HZ = Unset
                 /\ cpu_clock_speed_hz' = CONFIG_CPU_CLOCK_SPEED_HZ_DEFAULT_VALUE
        BY <1>1, <4>1, ConfigAssumption
        DEF ClockIs, CONFIG_CPU_CLOCK_SPEED_HZ_DEFAULT_VALUE
      <4>2. CASE /\ launch.CPU_CLOCK_HZ # Unset /\ parses_to_u32(launch.CPU_CLOCK_HZ)
                 /\ cpu_clock_speed_hz' = parse_string_to_u32(launch.CPU_CLOCK_HZ)
        BY <1>1, <3>2, <4>2, EnvironmentNumber DEF ClockIs
      <4> QED  BY <3>1, <4>1, <4>2
    <3> QED  BY <1>1, <2>1, <3>1, <3>3 DEF ConfigInv, Startup
  <2> QED  BY <2>2, <2>3
<1>5. CASE CheckArguments
  BY <1>1, <1>2, <1>5, StopsIs, GoesOnToIs DEF CheckArguments, In, ConfigInv, Startup
<1>6. CASE InitMachine
  BY <1>1, <1>2, <1>6, StopsIs, GoesOnToIs DEF InitMachine, In, ConfigInv, Startup
\* ... the ROM, which the file holds in full ...
<1>7. CASE LoadRom
  <2>1. phase = "load"  BY <1>7 DEF LoadRom, In
  <2>2. CASE Stops("exited") \/ Stops("aborted")
    BY <1>1, <1>2, <2>1, <2>2, StopsIs DEF ConfigInv, Startup
  <2>3. CASE ~Stops("exited") /\ ~Stops("aborted")
    <3>1. /\ ~ReadFails(launch.file) /\ rom_fits(Rom)
          /\ phase' = (IF launch.command = "run" THEN "start" ELSE "disassemble")
          /\ cpu_clock_speed_hz' = cpu_clock_speed_hz
      BY <1>7, <2>3 DEF LoadRom, Goes, CommandPhase
    <3>2. launch.file \in File  BY <1>1, MachineAssumption
    <3>3. Rom = launch.file.bytes  BY <3>2 DEF Rom, file_read_contents, File
    <3> QED  BY <1>1, <1>2, <2>1, <3>1, <3>3 DEF ConfigInv, Startup
  <2> QED  BY <2>2, <2>3
\* ... and all that happens behind them.
<1>8. ASSUME phase \notin Startup, phase' \notin Startup,
             cpu_clock_speed_hz' = cpu_clock_speed_hz,
             \/ phase' = phase \/ phase' = "free" \/ phase \notin {"disassemble", "free"}
      PROVE  ConfigInv'
  BY <1>1, <1>2, <1>8 DEF ConfigInv, Startup
<1>9. CASE Disassemble
  BY <1>8, <1>9, StopsIs, GoesOnToIs DEF Disassemble, In, Startup
<1>10. CASE FreeMachine
  BY <1>8, <1>10, StopsIs DEF FreeMachine, In, Startup
<1>11. CASE StartTimers \/ PollEnd \/ UpdateTimers \/ Step \/ Render
  BY <1>8, <1>11 DEF StartTimers, PollEnd, UpdateTimers, Step, Render, In, Goes, Startup
<1>12. CASE PollKey
  BY <1>8, <1>12 DEF PollKey, In, loopVars, Startup
<1>13. CASE PollNothing
  BY <1>8, <1>13, GoesOnToIs DEF PollNothing, In, Startup
<1>14. CASE Sleep
  BY <1>8, <1>14, StopsIs DEF Sleep, In, Goes, Startup
<1>15. CASE UserActs \/ UNCHANGED vars
  <2>1. phase' = phase /\ cpu_clock_speed_hz' = cpu_clock_speed_hz
    BY <1>15 DEF UserActs, loopVars, vars
  <2> QED  BY <1>1, <1>2, <2>1 DEF ConfigInv
<1> QED
  BY <1>3, <1>4, <1>5, <1>6, <1>7, <1>9, <1>10, <1>11, <1>12, <1>13, <1>14, <1>15
  DEF Next, StartAndEnd, MainLoop

-----------------------------------------------------------------------------
(***************************************************************************)
(* How the machine drives the CPU                                          *)
(***************************************************************************)
\* No instruction changes the keyboard; an assertion fails at a zero word only;
\* and only a word other than zero is executed.
LEMMA StepFacts ==
  ASSUME cpu_step
  PROVE  /\ keyboard_state' = keyboard_state
         /\ status' = "aborted" => step_zero_opcode
         /\ (Fetches /\ opcode # 0) \/ (pc' = pc /\ memory' = memory)
<1>1. CASE ControlFlowStep
  <2>1. Fetches /\ opcode # 0
    BY <1>1 DEF ControlFlowStep, Executing, exec_call, exec_call_subroutine,
      exec_return, exec_goto, exec_jump_to_addr_plus_v0, exec_if_equals,
      exec_if_not_equals, exec_skip_next_if_vx_equals_vy,
      exec_if_vx_not_equals_to_vy
  <2>2. keyboard_state' = keyboard_state /\ status' \in {status, "exited"}
    BY <1>1 DEF ControlFlowStep, exec_call, exec_call_subroutine,
      exec_return, exec_goto, exec_jump_to_addr_plus_v0, exec_if_equals,
      exec_if_not_equals, exec_skip_next_if_vx_equals_vy,
      exec_if_vx_not_equals_to_vy, Calls, SkipsIf, GoesTo, Ends
  <2>3. status' # "aborted"  BY <2>1, <2>2 DEF Fetches
  <2> QED  BY <2>1, <2>2, <2>3, Zenon
<1>2. CASE RegisterStep
  <2>1. Fetches /\ opcode # 0
    BY <1>2 DEF RegisterStep, Executing, exec_set_register, exec_add_to_vx,
      exec_set_vx_from_vy, exec_set_vx_to_vx_or, exec_set_vx_to_vx_and,
      exec_set_vx_to_vx_xor, exec_set_vx_rand_and, exec_vx_plus_vy,
      exec_vx_minus_vy, exec_set_vx_vy_minus_vx, exec_set_vx_rshift_one,
      exec_set_vx_lshift_one
  <2>2. keyboard_state' = keyboard_state /\ status' \in {status, "exited"}
    BY <1>2 DEF RegisterStep, exec_set_register, exec_add_to_vx,
      exec_set_vx_from_vy, exec_set_vx_to_vx_or, exec_set_vx_to_vx_and,
      exec_set_vx_to_vx_xor, exec_set_vx_rand_and, exec_vx_plus_vy,
      exec_vx_minus_vy, exec_set_vx_vy_minus_vx, exec_set_vx_rshift_one,
      exec_set_vx_lshift_one, SetsFlagged, SetsRegisters, Ends
  <2>3. status' # "aborted"  BY <2>1, <2>2 DEF Fetches
  <2> QED  BY <2>1, <2>2, <2>3, Zenon
<1>3. CASE MemoryStep
  <2>1. Fetches /\ opcode # 0
    BY <1>3 DEF MemoryStep, Executing, exec_set_i_register, exec_add_vx_to_i,
      exec_set_i_to_sprite_addr, exec_set_bcd, exec_reg_dump, exec_reg_load
  <2>2. keyboard_state' = keyboard_state /\ status' \in {status, "undefined"}
    BY <1>3 DEF MemoryStep, exec_set_i_register, exec_add_vx_to_i,
      exec_set_i_to_sprite_addr, exec_set_bcd, exec_reg_dump, exec_reg_load,
      SetsI, SetsMemory, SetsRegisters, Ends
  <2>3. status' # "aborted"  BY <2>1, <2>2 DEF Fetches
  <2> QED  BY <2>1, <2>2, <2>3, Zenon
<1>4. CASE DeviceStep
  <2>1. Fetches /\ opcode # 0
    BY <1>4 DEF DeviceStep, Executing, exec_display_clear,
      exec_display_draw_sprite_at, exec_set_vx_from_delay_timer,
      exec_set_delay_timer_from_vx, exec_set_sound_timer,
      exec_if_key_equals_to_vx, exec_if_key_not_equals_to_vx,
      exec_set_vx_from_key
  <2>2. keyboard_state' = keyboard_state /\ status' \in {status, "undefined"}
    BY <1>4 DEF DeviceStep, exec_display_clear, exec_display_draw_sprite_at,
      exec_set_vx_from_delay_timer, exec_set_delay_timer_from_vx,
      exec_set_sound_timer, exec_if_key_equals_to_vx,
      exec_if_key_not_equals_to_vx, exec_set_vx_from_key,
      SetsRegisters, SkipsIf, GoesTo, Ends
  <2>3. status' # "aborted"  BY <2>1, <2>2 DEF Fetches
  <2> QED  BY <2>1, <2>2, <2>3, Zenon
<1>5. CASE FailedStep
  BY <1>5 DEF FailedStep, step_pc_overflow, step_fetch_overrun,
    step_zero_opcode, step_unsupported, Executing, Ends
<1> QED  BY <1>1, <1>2, <1>3, <1>4, <1>5 DEF cpu_step

\* The timers of the machine run only down.
LEMMA TimerRunsDown ==
  ASSUME NEW v \in Nat, NEW elapsed \in Int
  PROVE  LET n == elapsed \div 16
         IN  elapsed >= 16 => (IF n < v THEN v - n ELSE 0) \in 0 .. v
OBVIOUS

LEMMA TimersAreDriven ==
  ASSUME MachineTypeOK, CpuTypeOK, UpdateTimers
  PROVE  TimersRun
<1>1. /\ status = "running"
      /\ UNCHANGED << memory, registers, pc, i, stackVars, buffer, keyboard_state, status >>
  BY DEF UpdateTimers, In
<1>2. delay_timer \in Nat /\ sound_timer \in Nat
  BY Limits DEF CpuTypeOK, Byte
<1>3. now - delay_last_tick \in Int /\ now - sound_last_tick \in Int
  BY DEF MachineTypeOK
<1>4. Delay!CLOCK_TIMEUP_DURATION_MS = 16 /\ Sound!CLOCK_TIMEUP_DURATION_MS = 16
  BY DEF Delay!CLOCK_TIMEUP_DURATION_MS, Sound!CLOCK_TIMEUP_DURATION_MS,
    Delay!CLOCK_FREQUENCY_HZ, Sound!CLOCK_FREQUENCY_HZ
<1>5. delay_timer' \in 0 .. delay_timer
  <2>1. CASE delay_timer' = delay_timer  BY <1>2, <2>1
  <2>2. CASE delay_timer' # delay_timer
    BY <1>2, <1>3, <1>4, <2>2, TimerRunsDown
    DEF UpdateTimers, Delay!timer_update, Delay!timer_ticked, Delay!elapsed_time_ms
  <2> QED  BY <2>1, <2>2
<1>6. sound_timer' \in 0 .. sound_timer
  <2>1. CASE sound_timer' = sound_timer  BY <1>2, <2>1
  <2>2. CASE sound_timer' # sound_timer
    BY <1>2, <1>3, <1>4, <2>2, TimerRunsDown
    DEF UpdateTimers, Sound!timer_update, Sound!timer_ticked, Sound!elapsed_time_ms
  <2> QED  BY <2>1, <2>2
<1> QED  BY <1>1, <1>5, <1>6 DEF TimersRun

\* The key of an event that does not end the loop.
LEMMA KeyIsDriven ==
  ASSUME MachineTypeOK, keyboard_state \subseteq Keys, PollKey
  PROVE  KeyboardChanges /\ keyboard_state' \subseteq Keys
<1>1. /\ status = "running" /\ events # << >> /\ ~EndsLoop(Head(events))
      /\ \/ keyboard_state' = keyboard_state \cup {Head(events)[2]}
         \/ keyboard_state' = keyboard_state \ {Head(events)[2]}
      /\ UNCHANGED << memory, registers, pc, i, stackVars, buffer, timerVars, status >>
  BY DEF PollKey, In
<1>2. Head(events) \in Event  BY <1>1 DEF MachineTypeOK
<1>3. Head(events) \in {"KEYDOWN", "KEYUP"} \X Keys  BY <1>1, <1>2 DEF Event, EndsLoop
<1>4. Head(events)[2] \in Keys  BY <1>3
<1>5. keyboard_state' \subseteq Keys  BY <1>1, <1>4
<1>6. keyboard_state' \in KeyboardStates  BY <1>5, MachineAssumption
<1> QED  BY <1>1, <1>5, <1>6 DEF KeyboardChanges

\* The CPU is as machine_init left it until the program is loaded, and in the hands
\* of cpu_step behind that.  A program without a byte never changes anything.
DriveInv ==
  /\ keyboard_state \subseteq Keys
  /\ phase \in Startup => cpu_init /\ memory = memory_init
  /\ phase \in {"start", "disassemble"} =>
       cpu_init /\ memory = machine_load_rom(memory_init, launch.file.bytes)
  /\ phase \notin Startup => CpuInv
  /\ phase \notin Startup /\ launch.file.bytes = << >> =>
       /\ pc = MEMORY_PROGRAM_STARTING_ADDRESS
       /\ memory = machine_load_rom(memory_init, << >>)

MachineInv == MachineTypeOK /\ ConfigInv /\ DriveInv

LEMMA LoadedIsInit ==
  ASSUME MachineTypeOK, cpu_init, rom_fits(launch.file.bytes), status = "running",
         memory = machine_load_rom(memory_init, launch.file.bytes)
  PROVE  CpuInit
<1>1. launch.file.bytes \in Roms  BY MachineAssumption DEF MachineTypeOK
<1> QED  BY <1>1 DEF CpuInit

\* Behind the startup, whatever the machine does is a step of Chip8Cpu.
LEMMA MachineStepDrives ==
  ASSUME MachineInv, Next, phase \notin Startup \cup {"disassemble"}
  PROVE  [CpuNext]_cpuVars
<1>1. CpuInv /\ MachineTypeOK /\ keyboard_state \subseteq Keys
  BY DEF MachineInv, DriveInv
<1>2. FreeMachine => LoopEnds
  BY DEF FreeMachine, In, Stops, LoopEnds
<1>3. StartTimers => UNCHANGED cpuVars
  BY DEF StartTimers, Delay!timer_start, Sound!timer_start, cpuVars, timerVars
<1>4. PollEnd \/ Render \/ UserActs => UNCHANGED cpuVars
  BY DEF PollEnd, Render, UserActs
<1>5. PollKey => KeyboardChanges  BY <1>1, KeyIsDriven
<1>6. PollNothing => UNCHANGED cpuVars  BY GoesOnToIs DEF PollNothing
<1>7. UpdateTimers => TimersRun  BY <1>1, TimersAreDriven DEF CpuInv
<1>8. Step => cpu_step  BY DEF Step
<1>9. Sleep => LoopEnds \/ UNCHANGED cpuVars
  BY DEF Sleep, In, Stops, LoopEnds
<1>10. ~ (config_init_log_level \/ config_init_cpu_clock_speed \/ CheckArguments
          \/ InitMachine \/ LoadRom \/ Disassemble)
  BY DEF config_init_log_level, config_init_cpu_clock_speed, CheckArguments, InitMachine,
    LoadRom, Disassemble, In, Startup
<1> QED
  BY <1>2, <1>3, <1>4, <1>5, <1>6, <1>7, <1>8, <1>9, <1>10, Zenon
  DEF Next, StartAndEnd, MainLoop, CpuNext

\* The program of a file without contents is the zero word.
LEMMA EmptyProgram ==
  ASSUME memory = machine_load_rom(memory_init, << >>),
         pc = MEMORY_PROGRAM_STARTING_ADDRESS, InMemory(pc, 2)
  PROVE  opcode = 0
<1>1. pc \in Address /\ pc + 1 \in Address /\ pc \in Nat
  BY MemoryAssumption DEF InMemory, Address
<1>2. \A a \in Address : a >= MEMORY_PROGRAM_STARTING_ADDRESS => memory[a] = 0
  BY MemoryAssumption DEF machine_load_rom, Address
<1>3. memory[pc] = 0 /\ memory[pc + 1] = 0  BY <1>1, <1>2
<1> QED  BY <1>3 DEF opcode

LEMMA DriveStep ==
  ASSUME MachineInv, [Next]_vars
  PROVE  DriveInv'
<1>1. /\ MachineTypeOK /\ ConfigInv /\ DriveInv /\ launch' = launch /\ ConfigInv'
  BY LaunchStays, ConfigStep DEF MachineInv
<1>2. cpuVars' = cpuVars => /\ memory' = memory /\ pc' = pc /\ (cpu_init' <=> cpu_init)
                            /\ keyboard_state' = keyboard_state /\ (CpuInv' <=> CpuInv)
  BY DEF cpuVars, stackVars, timerVars, cpu_init, CpuInv, CpuTypeOK, ProgramCounterInReach,
    PendingReturns
\* The process ends, or goes on in main, with the CPU as it is.
<1>3. CASE phase \in Startup /\ phase' \in Startup
  <2>1. \/ \E how : Stops(how)
        \/ UNCHANGED cpuVars
    <3>1. CASE Next
      <4>1. CASE StartAndEnd
        <5>1. CASE LoadRom
          <6>1. phase' \notin Startup \/ \E how : Stops(how)
            BY <5>1 DEF LoadRom, Goes, CommandPhase, Startup
          <6> QED  BY <1>3, <6>1
        <5> QED
          BY <1>3, <4>1, <5>1 DEF StartAndEnd, config_init_log_level, config_init_cpu_clock_speed,
            CheckArguments, InitMachine, Disassemble, FreeMachine, In, Startup, GoesOnTo,
            SetsClock
      <4>2. CASE UserActs  BY <4>2 DEF UserActs
      <4>3. ~MainLoop
        BY <1>3 DEF MainLoop, StartTimers, PollEnd, PollKey, PollNothing, UpdateTimers, Step,
          Sleep, Render, In, Startup
      <4> QED  BY <3>1, <4>1, <4>2, <4>3 DEF Next
    <3>2. CASE UNCHANGED vars  BY <3>2 DEF vars
    <3> QED  BY <3>1, <3>2
  <2>2. memory' = memory /\ (cpu_init' <=> cpu_init) /\ keyboard_state' = keyboard_state
    BY <1>2, <2>1, StopsIs DEF cpu_init
  <2> QED  BY <1>1, <1>3, <2>2 DEF DriveInv, Startup
\* The program is loaded.
<1>4. CASE phase \in Startup /\ phase' \notin Startup
  <2>1. LoadRom /\ ~ (\E how : Stops(how))
    <3>1. ~ (\E how : Stops(how))  BY <1>4, StopsIs
    <3>2. ~ (UNCHANGED vars) /\ ~UserActs  BY <1>4 DEF vars, UserActs, loopVars
    <3>3. ~MainLoop
      BY <1>4 DEF MainLoop, StartTimers, PollEnd, PollKey, PollNothing, UpdateTimers, Step,
        Sleep, Render, In, Startup
    <3>4. StartAndEnd  BY <3>2, <3>3 DEF Next
    <3> QED
      BY <1>4, <3>1, <3>4
      DEF StartAndEnd, config_init_log_level, config_init_cpu_clock_speed, CheckArguments,
        InitMachine, Disassemble, FreeMachine, In, Startup, GoesOnTo, SetsClock, Goes
  <2>2. /\ status = "running" /\ ~ReadFails(launch.file) /\ rom_fits(Rom)
        /\ memory' = machine_load_rom(memory, Rom)
        /\ UNCHANGED << registers, pc, i, stackVars, buffer, timerVars, keyboard_state, status >>
    BY <2>1 DEF LoadRom, In
  <2>3. Rom = launch.file.bytes
    <3>1. launch.file \in File  BY <1>1, MachineAssumption DEF MachineTypeOK
    <3> QED  BY <2>2, <3>1 DEF Rom, file_read_contents, File
  <2>4. memory = memory_init /\ cpu_init  BY <1>1, <1>4 DEF DriveInv
  <2>5. cpu_init' /\ keyboard_state' = keyboard_state
    BY <2>2, <2>4 DEF cpu_init, stackVars, timerVars
  <2>6. memory' = machine_load_rom(memory_init, launch.file.bytes)  BY <2>2, <2>3, <2>4
  <2>7. CpuInv'
    <3>1. CpuInit'
      <4>1. launch.file.bytes \in Roms
        BY <1>1, <2>2, <2>3, MachineAssumption DEF MachineTypeOK
      <4> QED  BY <2>2, <2>3, <2>5, <2>6, <4>1 DEF CpuInit
    <3>2. (CpuInit => CpuInv)'  BY CpuInitInv, PTL
    <3> QED  BY <3>1, <3>2
  <2>8. pc' = MEMORY_PROGRAM_STARTING_ADDRESS  BY <2>5 DEF cpu_init
  <2> QED  BY <1>1, <1>4, <2>5, <2>6, <2>7, <2>8 DEF DriveInv
\* The program is listed or runs.
<1>5. CASE phase \notin Startup
  <2>1. phase' \notin Startup
    BY <1>5, StopsIs, GoesOnToIs
    DEF Next, StartAndEnd, MainLoop, config_init_log_level, config_init_cpu_clock_speed,
      CheckArguments, InitMachine, LoadRom, Disassemble, FreeMachine, StartTimers, PollEnd,
      PollKey, PollNothing, UpdateTimers, Step, Sleep, Render, UserActs, In, Goes, Startup,
      loopVars, vars
  <2>2. CASE phase = "disassemble"
    <3>1. \/ \E how \in {"exited"} : Stops(how)
          \/ UNCHANGED cpuVars
      BY <2>2
      DEF Next, StartAndEnd, MainLoop, config_init_log_level, config_init_cpu_clock_speed,
        CheckArguments, InitMachine, LoadRom, Disassemble, FreeMachine, StartTimers, PollEnd,
        PollKey, PollNothing, UpdateTimers, Step, Sleep, Render, UserActs, In, GoesOnTo, vars
    <3>2. /\ memory' = memory /\ pc' = pc /\ (cpu_init' <=> cpu_init)
          /\ keyboard_state' = keyboard_state
      BY <1>2, <3>1, StopsIs DEF cpu_init
    <3>3. CpuInv'
      <4>1. CpuInv  BY <1>1, <1>5 DEF DriveInv
      <4> QED  BY <1>2, <3>1, <4>1, EndsInv DEF Stops
    <3>4. phase' # "start"
      BY <2>2, StopsIs, GoesOnToIs
      DEF Next, StartAndEnd, MainLoop, config_init_log_level, config_init_cpu_clock_speed,
        CheckArguments, InitMachine, LoadRom, Disassemble, FreeMachine, StartTimers, PollEnd,
        PollKey, PollNothing, UpdateTimers, Step, Sleep, Render, UserActs, In, Goes,
        loopVars, vars
    <3> QED  BY <1>1, <1>5, <2>1, <2>2, <3>2, <3>3 DEF DriveInv
  <2>3. CASE phase # "disassemble"
    <3>1. [CpuNext]_cpuVars
      BY <1>5, <2>3, MachineStepDrives DEF vars
    <3>2. CpuInv /\ CpuInv'  BY <1>1, <1>5, <3>1, CpuNextInv DEF DriveInv
    <3>3. \/ Step \/ PollKey
          \/ UNCHANGED << memory, pc, keyboard_state >>
      <4>1. CASE FreeMachine \/ Sleep
        BY <4>1, StopsIs DEF FreeMachine, Sleep, cpuVars
      <4>2. CASE StartTimers \/ UpdateTimers
        BY <4>2 DEF StartTimers, UpdateTimers
      <4>3. CASE PollEnd \/ Render \/ UserActs \/ PollNothing \/ UNCHANGED vars
        BY <4>3, GoesOnToIs DEF PollEnd, Render, UserActs, PollNothing, vars, cpuVars
      <4> QED
        BY <1>5, <2>3, <4>1, <4>2, <4>3
        DEF Next, StartAndEnd, MainLoop, config_init_log_level, config_init_cpu_clock_speed,
          CheckArguments, InitMachine, LoadRom, Disassemble, In, Startup
    <3>4. keyboard_state' \subseteq Keys
      BY <1>1, <3>3, StepFacts, KeyIsDriven DEF DriveInv, Step
    <3>5. phase' \in {"start", "disassemble"} => phase' = phase /\ UNCHANGED cpuVars
      BY <1>5, <2>3, StopsIs, GoesOnToIs
      DEF Next, StartAndEnd, MainLoop, config_init_log_level, config_init_cpu_clock_speed,
        CheckArguments, InitMachine, LoadRom, Disassemble, FreeMachine, StartTimers, PollEnd,
        PollKey, PollNothing, UpdateTimers, Step, Sleep, Render, UserActs, In, Goes, Startup,
        loopVars, vars
    <3>6. launch.file.bytes = << >> => pc' = pc /\ memory' = memory
      <4> SUFFICES ASSUME launch.file.bytes = << >> PROVE pc' = pc /\ memory' = memory
        OBVIOUS
      <4>1. CASE Step
        <5>1. InMemory(pc, 2) => opcode = 0  BY <1>1, <1>5, EmptyProgram DEF DriveInv
        <5>2. (Fetches /\ opcode # 0) \/ (pc' = pc /\ memory' = memory)
          BY <4>1, StepFacts DEF Step
        <5> QED  BY <5>1, <5>2 DEF Fetches
      <4>2. CASE PollKey  BY <4>2 DEF PollKey
      <4> QED  BY <3>3, <4>1, <4>2
    <3> QED  BY <1>1, <1>2, <1>5, <2>1, <3>2, <3>4, <3>5, <3>6 DEF DriveInv
  <2> QED  BY <2>2, <2>3
<1> QED  BY <1>3, <1>4, <1>5

LEMMA MachineInitInv ==
  ASSUME Init
  PROVE  MachineInv
<1>1. phase = "log_level" /\ phase \in Startup  BY DEF Init, Startup
<1>2. MachineTypeOK  BY DEF Init, MachineTypeOK, Phases, Startup
<1>3. ConfigInv  BY <1>1 DEF ConfigInv
<1>4. DriveInv  BY <1>1 DEF Init, DriveInv, cpu_init, Startup
<1> QED  BY <1>2, <1>3, <1>4 DEF MachineInv

LEMMA MachineInvariance == Spec => []MachineInv
<1>1. MachineInv /\ [Next]_vars => MachineInv'
  BY MachineTypeStep, ConfigStep, DriveStep DEF MachineInv
<1> QED  BY <1>1, MachineInitInv, PTL DEF Spec

-----------------------------------------------------------------------------
(***************************************************************************)
(* Theorems about the machine                                              *)
(***************************************************************************)
\* The loop of machine_run is an environment as Chip8Cpu assumes it, for every way
\* to start the emulator and whatever the user does: what is proved of Chip8Cpu
\* holds of the emulator.
THEOREM MachineDrivesCpu == Spec => DrivesCpu
<1>1. MachineInv => (status = "running" /\ phase = "start" => CpuInit)
  BY LoadedIsInit DEF MachineInv, DriveInv, ConfigInv, Startup
<1>2. MachineInv /\ [Next]_vars =>
        [(phase \in Startup \cup {"disassemble"}) \/ CpuNext]_cpuVars
  BY MachineStepDrives DEF vars
<1> QED  BY <1>1, <1>2, MachineInvariance, PTL DEF Spec, DrivesCpu

\* Once a command is carried out, registers, stack, memory and screen of the
\* emulator are what CpuInv says.
THEOREM MachineKeepsCpuInv == Spec => [](phase \notin Startup => CpuInv)
<1>1. MachineInv => (phase \notin Startup => CpuInv)
  BY DEF MachineInv, DriveInv
<1> QED  BY <1>1, MachineInvariance, PTL

\* For every environment, command line and file: no command is carried out on what
\* main should have refused, and the program in memory is the whole file.
THEOREM MachineStartsAsConfigured == Spec => []StartsAsConfigured
<1>1. MachineInv => StartsAsConfigured
  <2> SUFFICES ASSUME MachineInv, status = "running", phase \notin Startup
               PROVE  StartsAsConfigured
    BY DEF StartsAsConfigured
  <2>1. /\ MachineTypeOK /\ ConfigInv /\ DriveInv /\ ClockIs /\ UsageIsRight
        /\ log_level_parses(launch.LOG_LEVEL) /\ rom_fits(launch.file.bytes)
        /\ launch.command = "disassemble" => phase \in {"disassemble", "free"}
    BY DEF MachineInv, ConfigInv, Startup
  <2>2. launch.argc = 3 /\ launch.command \in {"run", "disassemble"}
    BY <2>1 DEF UsageIsRight, cli_parse_command
  <2>3. launch.LOG_LEVEL # << "word", "loud" >>
    BY <2>1 DEF log_level_parses, Unset
  <2>4. ASSUME phase \in {"start", "disassemble"}, NEW k \in 1 .. Len(launch.file.bytes)
        PROVE  memory[MEMORY_PROGRAM_STARTING_ADDRESS + k - 1] = launch.file.bytes[k]
    <3>1. launch.file.bytes \in Seq(Byte)  BY <2>1, MachineAssumption DEF MachineTypeOK, File
    <3> DEFINE bytes == launch.file.bytes
               a == MEMORY_PROGRAM_STARTING_ADDRESS + k - 1
    <3>2. Len(bytes) \in Nat /\ Len(bytes) <= MEMORY_SIZE - MEMORY_PROGRAM_STARTING_ADDRESS
      BY <2>1, <3>1 DEF rom_fits, PROGRAM_MAX_SIZE
    <3>3. memory = machine_load_rom(memory_init, bytes)  BY <2>1, <2>4 DEF DriveInv
    <3> HIDE DEF bytes
    <3>4. /\ a \in Address /\ ~ (a < MEMORY_PROGRAM_STARTING_ADDRESS)
          /\ a - MEMORY_PROGRAM_STARTING_ADDRESS < Len(bytes)
          /\ a - MEMORY_PROGRAM_STARTING_ADDRESS + 1 = k
      BY <2>4, <3>2, MemoryAssumption DEF Address, bytes
    <3> HIDE DEF a
    <3>5. memory[a] = bytes[k]  BY <3>3, <3>4 DEF machine_load_rom
    <3> QED  BY <3>5 DEF a, bytes
  <2>5. launch.file.bytes = << >> => pc = MEMORY_PROGRAM_STARTING_ADDRESS
    BY <2>1 DEF DriveInv
  <2> QED
    BY <2>1, <2>2, <2>3, <2>4, <2>5
    DEF StartsAsConfigured, ClockIs, CONFIG_CPU_CLOCK_SPEED_HZ_DEFAULT_VALUE
<1> QED  BY <1>1, MachineInvariance, PTL

\* Only between an instruction and the end of its turn may the picture be old.
ShownInv == phase \notin {"sleep", "render"} => presented = buffer

\* Whatever the program draws and whatever the user does, the picture in the window
\* is the frame buffer before the next instruction.
THEOREM MachineShowsEveryStep == Spec => []ShownBeforeNextStep
<1>1. Init => ShownInv  BY DEF Init, cpu_init, display_clear, ShownInv
<1>2. ShownInv /\ [Next]_vars => ShownInv'
  <2> SUFFICES ASSUME ShownInv, [Next]_vars PROVE ShownInv'  OBVIOUS
  <2>1. CASE UNCHANGED << presented, buffer >> /\ (phase \notin {"sleep", "render"} \/ phase' = phase)
    BY <2>1 DEF ShownInv
  <2>2. CASE StartAndEnd
    BY <2>1, <2>2, StopsIs, GoesOnToIs
    DEF StartAndEnd, config_init_log_level, config_init_cpu_clock_speed, CheckArguments,
      InitMachine, LoadRom, Disassemble, FreeMachine, SetsClock, In, cpuVars
  <2>3. CASE StartTimers \/ PollEnd \/ PollKey \/ PollNothing \/ UpdateTimers
    BY <2>1, <2>3, GoesOnToIs
    DEF StartTimers, PollEnd, PollKey, PollNothing, UpdateTimers, In, loopVars, cpuVars
  <2>4. CASE Step  BY <2>4 DEF Step, Goes, ShownInv
  <2>5. CASE Sleep  BY <2>5, StopsIs DEF Sleep, In, Goes, ShownInv
  <2>6. CASE Render  BY <2>6 DEF Render, Goes, ShownInv, cpuVars
  <2>7. CASE UserActs \/ UNCHANGED vars
    BY <2>1, <2>7 DEF UserActs, loopVars, vars, cpuVars
  <2> QED  BY <2>2, <2>3, <2>4, <2>5, <2>6, <2>7 DEF Next, MainLoop
<1>3. ShownInv => ShownBeforeNextStep  BY DEF ShownInv, ShownBeforeNextStep
<1> QED  BY <1>1, <1>2, <1>3, PTL DEF Spec

\* Whatever program is loaded, no assertion or division traps but at a zero word or
\* because 0 Hz were asked for.
THEOREM MachineTrapsOnlyAtZero == Spec => []TrapsOnlyAtZero
<1>1. Init => TrapsOnlyAtZero  BY DEF Init, TrapsOnlyAtZero
<1>2. MachineInv /\ TrapsOnlyAtZero /\ [Next]_vars => TrapsOnlyAtZero'
  <2> SUFFICES ASSUME MachineInv, TrapsOnlyAtZero, [Next]_vars, status' = "aborted",
                      phase' # "load"
               PROVE  TrapsOnlyAtZero'
    BY DEF TrapsOnlyAtZero
  <2>1. launch' = launch  BY LaunchStays
  <2>2. CASE status = "running"
    <3>1. CASE Step
      <4>1. step_zero_opcode  BY <3>1, StepFacts DEF Step
      <4>2. InMemory(pc, 2) /\ opcode = 0 /\ pc' = pc /\ memory' = memory
        BY <4>1 DEF step_zero_opcode, Fetches, Ends
      <4> QED  BY <4>2 DEF TrapsOnlyAtZero, opcode
    <3>2. CASE Sleep
      <4>1. phase = "sleep" /\ cpu_clock_speed_hz = 0
        BY <2>2, <3>2 DEF Sleep, In, cpuVars
      <4>2. ClockIs  BY <4>1 DEF MachineInv, ConfigInv
      <4>3. launch.CPU_CLOCK_HZ[1] = "word" \/ launch.CPU_CLOCK_HZ = << "number", 0 >>
        BY <4>1, <4>2 DEF ClockIs, CONFIG_CPU_CLOCK_SPEED_HZ_DEFAULT_VALUE
      <4> QED  BY <2>1, <4>3 DEF TrapsOnlyAtZero
    <3>3. CASE ~Step /\ ~Sleep
      <4>1. status' # "aborted" \/ phase' = "load"
        BY <2>2, <3>3, StopsIs, GoesOnToIs
        DEF Next, StartAndEnd, MainLoop, config_init_log_level, config_init_cpu_clock_speed,
          CheckArguments, InitMachine, LoadRom, Disassemble, FreeMachine, StartTimers,
          PollEnd, PollKey, PollNothing, UpdateTimers, Render, UserActs, SetsClock, In, vars,
          cpuVars
      <4> QED  BY <4>1
    <3> QED  BY <3>1, <3>2, <3>3
  <2>3. CASE status # "running"
    <3>1. UNCHANGED vars
      BY <2>3
      DEF Next, StartAndEnd, MainLoop, config_init_log_level, config_init_cpu_clock_speed,
        CheckArguments, InitMachine, LoadRom, Disassemble, FreeMachine, StartTimers,
        PollEnd, PollKey, PollNothing, UpdateTimers, Step, Sleep, Render, UserActs, In
    <3>2. status' = status /\ phase' = phase /\ pc' = pc /\ memory' = memory
      BY <3>1 DEF vars, loopVars, cpuVars
    <3> QED  BY <2>1, <3>2 DEF TrapsOnlyAtZero, opcode
  <2> QED  BY <2>2, <2>3
<1> QED  BY <1>1, <1>2, MachineInvariance, PTL DEF Spec
=============================================================================
