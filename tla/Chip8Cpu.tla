------------------------------ MODULE Chip8Cpu ------------------------------
(***************************************************************************)
(* The interpreter of the CHIP-8 emulator (cpu.c), with the memory, frame  *)
(* buffer, timers and keyboard it works on.  Every action is one call of   *)
(* cpu_step that decodes to the exec_ function of the same name: the bound *)
(* check on the program counter, the fetch, the assertion on the opcode,   *)
(* the advance of the program counter and the whole function.              *)
(*                                                                         *)
(* status is what has become of the emulator process:                      *)
(*   "running"    the process is alive;                                    *)
(*   "exited"     it called exit(1), directly or through log_fatal;        *)
(*   "aborted"    an assert failed, or an integer division trapped;        *)
(*   "undefined"  it accessed memory[] or keymap[] outside the array.  What*)
(*                follows memory[] in struct machine is the CPU itself, so *)
(*                nothing is claimed about such a process any more;        *)
(*   "finished"   the main loop ended and main returned.                   *)
(*                                                                         *)
(* The keyboard and the timers change between two instructions.  Here they *)
(* change as they please (a timer never rises by itself); Chip8Machine is  *)
(* the loop that really drives them.                                       *)
(***************************************************************************)
EXTENDS Integers, Sequences, Chip8Memory, Chip8Display, Chip8Keyboard

CONSTANTS STACK_CAPACITY,
          Roms,            \* the program files the emulator may be given
          KeyboardStates,  \* the sets of scan codes that may be down
          RandomBytes      \* the bytes random_u8 may return

ASSUME CpuAssumption ==
  /\ STACK_CAPACITY \in Nat
  /\ Roms \subseteq Seq(Byte)
  /\ {} \in KeyboardStates
  /\ RandomBytes \subseteq Byte

VARIABLES memory, registers, pc, i, stack, stack_count,  \* struct cpu
          buffer,                                        \* struct display
          delay_timer, sound_timer,                      \* the timers' values
          keyboard_state, status

stackVars == << stack, stack_count >>
timerVars == << delay_timer, sound_timer >>
cpuVars   == << memory, registers, pc, i, stackVars, buffer, timerVars,
                keyboard_state, status >>

StackSlot == 0 .. STACK_CAPACITY - 1

CpuTypeOK ==
  /\ memory \in [Address -> Byte]
  /\ registers \in [RegisterName -> Byte]
  /\ pc \in Word
  /\ i \in Word
  /\ stack \in [StackSlot -> Word]
  /\ stack_count \in 0 .. STACK_CAPACITY
  /\ buffer \subseteq Pixels
  /\ delay_timer \in Byte
  /\ sound_timer \in Byte
  /\ keyboard_state \in KeyboardStates
  /\ status \in {"running", "exited", "aborted", "undefined", "finished"}

\* cpu_init, display_clear and timer_init, as machine_init calls them.
cpu_init ==
  /\ registers = [ r \in RegisterName |-> 0 ]
  /\ pc = MEMORY_PROGRAM_STARTING_ADDRESS
  /\ i  = MEMORY_PROGRAM_STARTING_ADDRESS
  /\ stack = [ s \in StackSlot |-> 0 ]
  /\ stack_count = 0
  /\ buffer = display_clear
  /\ delay_timer = 0
  /\ sound_timer = 0
  /\ keyboard_state = {}

\* machine_init and machine_load_rom have returned, or a ROM was too large.
CpuInit ==
  /\ \E rom \in Roms :
       \/ /\ rom_fits(rom)
          /\ memory = machine_load_rom(memory_init, rom)
          /\ status = "running"
       \/ /\ ~rom_fits(rom)
          /\ memory = memory_init
          /\ status = "exited"
  /\ cpu_init

-----------------------------------------------------------------------------
(***************************************************************************)
(* Fetch and decode                                                        *)
(***************************************************************************)
\* fetch_opcode: two bytes, big-endian.
opcode == memory[pc] * 256 + memory[pc + 1]

X   == opcode_decode_register_x(opcode)
Y   == opcode_decode_register_y(opcode)
KK  == opcode_decode_const_8bit(opcode)
N   == opcode_decode_const_4bit(opcode)
NNN == opcode_decode_address(opcode)
Vx  == registers[X]
Vy  == registers[Y]

\* cpu_pc_advance, once for the fetch and once more for a skip.
pc_advanced == U16(pc + 2)
pc_skipped  == U16(pc_advanced + 2)

Fetches == status = "running" /\ InMemory(pc, 2)

Executing(exec) == Fetches /\ opcode # 0 /\ cpu_decode(opcode) = exec

(***************************************************************************)
(* What an instruction may do: one operator per kind of effect, each of    *)
(* which says what becomes of the whole state.                             *)
(***************************************************************************)
\* The process ends in the middle of the instruction.
Ends(how) ==
  /\ status' = how
  /\ UNCHANGED << memory, registers, pc, i, stackVars, buffer, timerVars,
                  keyboard_state >>

SetsRegisters(regs) ==
  /\ registers' = regs
  /\ pc' = pc_advanced
  /\ UNCHANGED << memory, i, stackVars, buffer, timerVars, keyboard_state,
                  status >>

SetsI(addr) ==
  /\ i' = addr
  /\ pc' = pc_advanced
  /\ UNCHANGED << memory, registers, stackVars, buffer, timerVars,
                  keyboard_state, status >>

SetsMemory(mem) ==
  /\ memory' = mem
  /\ pc' = pc_advanced
  /\ UNCHANGED << registers, i, stackVars, buffer, timerVars, keyboard_state,
                  status >>

GoesTo(addr) ==
  /\ pc' = addr
  /\ UNCHANGED << memory, registers, i, stackVars, buffer, timerVars,
                  keyboard_state, status >>

SkipsIf(condition) == GoesTo(IF condition THEN pc_skipped ELSE pc_advanced)

-----------------------------------------------------------------------------
(***************************************************************************)
(* Ways cpu_step ends without executing an instruction                     *)
(***************************************************************************)
step_pc_overflow == status = "running" /\ pc >= MEMORY_SIZE /\ Ends("exited")

\* The program counter is on the last byte: memory[pc + 1] is not in memory[].
step_fetch_overrun ==
  status = "running" /\ pc < MEMORY_SIZE /\ ~InMemory(pc, 2) /\ Ends("undefined")

step_zero_opcode == Fetches /\ opcode = 0 /\ Ends("aborted")

step_unsupported == Executing("unsupported") /\ Ends("exited")

-----------------------------------------------------------------------------
(***************************************************************************)
(* Control flow                                                            *)
(***************************************************************************)
\* Mutated form of Calls: the return address is one instruction too far.
Calls_far(addr) ==
  \/ stack_count >= STACK_CAPACITY /\ Ends("exited")
  \/ /\ stack_count < STACK_CAPACITY
     /\ stack' = [ stack EXCEPT ![stack_count] = pc_skipped ]
     /\ stack_count' = stack_count + 1
     /\ pc' = addr
     /\ UNCHANGED << memory, registers, i, buffer, timerVars, keyboard_state,
                     status >>

\* cpu_stack_push of the advanced program counter, then cpu_goto_address.
Calls(addr) ==
  \/ stack_count >= STACK_CAPACITY /\ Ends("exited")
  \/ /\ stack_count < STACK_CAPACITY
     /\ stack' = [ stack EXCEPT ![stack_count] = pc_advanced ]
     /\ stack_count' = stack_count + 1
     /\ pc' = addr
     /\ UNCHANGED << memory, registers, i, buffer, timerVars, keyboard_state,
                     status >>

exec_call            == Executing("exec_call") /\ Calls(NNN)
exec_call_subroutine == Executing("exec_call_subroutine") /\ Calls(NNN)

\* Mutated form of exec_return: the slot is read before the count is decremented.
exec_return_early ==
  /\ Executing("exec_return")
  /\ \/ stack_count = 0 /\ Ends("exited")
     \/ /\ stack_count > 0
        /\ stack_count' = stack_count - 1
        /\ pc' = stack[stack_count % STACK_CAPACITY]
        /\ UNCHANGED << memory, registers, i, stack, buffer, timerVars,
                        keyboard_state, status >>

\* cpu_stack_pop, then cpu_goto_address.
exec_return ==
  /\ Executing("exec_return")
  /\ \/ stack_count = 0 /\ Ends("exited")
     \/ /\ stack_count > 0
        /\ stack_count' = stack_count - 1
        /\ pc' = stack[stack_count - 1]
        /\ UNCHANGED << memory, registers, i, stack, buffer, timerVars,
                        keyboard_state, status >>

exec_goto == Executing("exec_goto") /\ GoesTo(NNN)

exec_jump_to_addr_plus_v0 ==
  Executing("exec_jump_to_addr_plus_v0") /\ GoesTo(NNN + registers[0])

exec_if_equals     == Executing("exec_if_equals") /\ SkipsIf(Vx = KK)
exec_if_not_equals == Executing("exec_if_not_equals") /\ SkipsIf(Vx # KK)

exec_skip_next_if_vx_equals_vy ==
  Executing("exec_skip_next_if_vx_equals_vy") /\ SkipsIf(Vx = Vy)

exec_if_vx_not_equals_to_vy ==
  Executing("exec_if_vx_not_equals_to_vy") /\ SkipsIf(Vx # Vy)

-----------------------------------------------------------------------------
(***************************************************************************)
(* Registers                                                               *)
(***************************************************************************)
exec_set_register ==
  /\ Executing("exec_set_register")
  /\ SetsRegisters([ registers EXCEPT ![X] = KK ])

exec_add_to_vx ==
  /\ Executing("exec_add_to_vx")
  /\ SetsRegisters([ registers EXCEPT ![X] = U8(Vx + KK) ])

exec_set_vx_from_vy ==
  /\ Executing("exec_set_vx_from_vy")
  /\ SetsRegisters([ registers EXCEPT ![X] = Vy ])

exec_set_vx_to_vx_or ==
  /\ Executing("exec_set_vx_to_vx_or")
  /\ SetsRegisters([ registers EXCEPT ![X] = BitOr(Vx, Vy) ])

exec_set_vx_to_vx_and ==
  /\ Executing("exec_set_vx_to_vx_and")
  /\ SetsRegisters([ registers EXCEPT ![X] = BitAnd(Vx, Vy) ])

exec_set_vx_to_vx_xor ==
  /\ Executing("exec_set_vx_to_vx_xor")
  /\ SetsRegisters([ registers EXCEPT ![X] = BitXor(Vx, Vy) ])

exec_set_vx_rand_and ==
  /\ Executing("exec_set_vx_rand_and")
  /\ \E random_u8 \in RandomBytes :
       SetsRegisters([ registers EXCEPT ![X] = BitAnd(random_u8, KK) ])

\* The arithmetic that reports in VF refuses operands (the set regs of register
\* names) that are VF themselves: log_fatal ends the process.
SetsFlagged(regs, flag, result) ==
  \/ VF \in regs /\ Ends("exited")
  \/ /\ VF \notin regs
     /\ SetsRegisters([ registers EXCEPT ![VF] = IF flag THEN 1 ELSE 0,
                                         ![X]  = result ])

\* Mutated form of exec_vx_plus_vy: the sum is not truncated to a byte.
exec_vx_plus_vy_wide ==
  /\ Executing("exec_vx_plus_vy")
  /\ SetsFlagged({X, Y}, Vx + Vy > REGISTER_MAX, Vx + Vy)

exec_vx_plus_vy ==
  /\ Executing("exec_vx_plus_vy")
  /\ SetsFlagged({X, Y}, Vx + Vy > REGISTER_MAX, U8(Vx + Vy))

\* Mutated form of exec_vx_minus_vy: VF is the borrow, not its negation.
exec_vx_minus_vy_borrow ==
  /\ Executing("exec_vx_minus_vy")
  /\ SetsFlagged({X, Y}, Vy > Vx, U8(Vx - Vy))

exec_vx_minus_vy ==
  /\ Executing("exec_vx_minus_vy")
  /\ SetsFlagged({X, Y}, Vx > Vy, U8(Vx - Vy))

exec_set_vx_vy_minus_vx ==
  /\ Executing("exec_set_vx_vy_minus_vx")
  /\ SetsFlagged({X, Y}, Vy > Vx, U8(Vy - Vx))

exec_set_vx_rshift_one ==
  /\ Executing("exec_set_vx_rshift_one")
  /\ SetsFlagged({X}, bit_is_set(Vx, 0), Vx \div 2)

exec_set_vx_lshift_one ==
  /\ Executing("exec_set_vx_lshift_one")
  /\ SetsFlagged({X}, bit_is_set(Vx, 7), U8(Vx * 2))

-----------------------------------------------------------------------------
(***************************************************************************)
(* The address register and memory                                         *)
(***************************************************************************)
exec_set_i_register == Executing("exec_set_i_register") /\ SetsI(NNN)
exec_add_vx_to_i    == Executing("exec_add_vx_to_i") /\ SetsI(U16(i + Vx))

exec_set_i_to_sprite_addr ==
  /\ Executing("exec_set_i_to_sprite_addr")
  /\ SetsI(memory_address_from_sprite_value(Vx))

exec_set_bcd ==
  /\ Executing("exec_set_bcd")
  /\ \/ ~InMemory(i, 3) /\ Ends("undefined")
     \/ /\ InMemory(i, 3)
        /\ SetsMemory([ memory EXCEPT ![i]     = (Vx % 1000) \div 100,
                                      ![i + 1] = (Vx % 100) \div 10,
                                      ![i + 2] = Vx % 10 ])

exec_reg_dump ==
  /\ Executing("exec_reg_dump")
  /\ \/ ~InMemory(i, X + 1) /\ Ends("undefined")
     \/ /\ InMemory(i, X + 1)
        /\ SetsMemory([ a \in Address |-> IF a \in i .. i + X
                                          THEN registers[a - i]
                                          ELSE memory[a] ])

exec_reg_load ==
  /\ Executing("exec_reg_load")
  /\ \/ ~InMemory(i, X + 1) /\ Ends("undefined")
     \/ /\ InMemory(i, X + 1)
        /\ SetsRegisters([ r \in RegisterName |-> IF r <= X
                                                  THEN memory[i + r]
                                                  ELSE registers[r] ])

-----------------------------------------------------------------------------
(***************************************************************************)
(* Display, timers and keyboard                                            *)
(***************************************************************************)
exec_display_clear ==
  /\ Executing("exec_display_clear")
  /\ buffer' = display_clear
  /\ pc' = pc_advanced
  /\ UNCHANGED << memory, registers, i, stackVars, timerVars, keyboard_state,
                  status >>

Sprite == [ row \in 0 .. N - 1 |-> memory[i + row] ]

exec_display_draw_sprite_at ==
  /\ Executing("exec_display_draw_sprite_at")
  /\ \/ ~InMemory(i, N) /\ Ends("undefined")
     \/ /\ InMemory(i, N)
        /\ buffer' = display_draw_sprite(buffer, Vx, Vy, Sprite, N)
        /\ registers' = [ registers EXCEPT
             ![VF] = IF pixel_erased(buffer, Vx, Vy, Sprite, N) THEN 1 ELSE 0 ]
        /\ pc' = pc_advanced
        /\ UNCHANGED << memory, i, stackVars, timerVars, keyboard_state,
                        status >>

exec_set_vx_from_delay_timer ==
  /\ Executing("exec_set_vx_from_delay_timer")
  /\ SetsRegisters([ registers EXCEPT ![X] = delay_timer ])

exec_set_delay_timer_from_vx ==
  /\ Executing("exec_set_delay_timer_from_vx")
  /\ delay_timer' = Vx
  /\ pc' = pc_advanced
  /\ UNCHANGED << memory, registers, i, stackVars, buffer, sound_timer,
                  keyboard_state, status >>

exec_set_sound_timer ==
  /\ Executing("exec_set_sound_timer")
  /\ sound_timer' = Vx
  /\ pc' = pc_advanced
  /\ UNCHANGED << memory, registers, i, stackVars, buffer, delay_timer,
                  keyboard_state, status >>

exec_if_key_equals_to_vx ==
  /\ Executing("exec_if_key_equals_to_vx")
  /\ \/ ~InKeymap(Vx) /\ Ends("undefined")
     \/ /\ InKeymap(Vx)
        /\ SkipsIf(keyboard_is_key_pressed(keyboard_state, Vx))

exec_if_key_not_equals_to_vx ==
  /\ Executing("exec_if_key_not_equals_to_vx")
  /\ \/ ~InKeymap(Vx) /\ Ends("undefined")
     \/ /\ InKeymap(Vx)
        /\ SkipsIf(~keyboard_is_key_pressed(keyboard_state, Vx))

\* Mutated form of exec_set_vx_from_key: the program counter is always moved back.
exec_set_vx_from_key_stuck ==
  /\ Executing("exec_set_vx_from_key")
  /\ GoesTo(U16(pc_advanced - 2))

\* With no key down, cpu_pc_advance_back undoes the advance: the instruction
\* is executed again by the next call of cpu_step.
exec_set_vx_from_key ==
  /\ Executing("exec_set_vx_from_key")
  /\ \/ /\ PressedKeys(keyboard_state) = {}
        /\ GoesTo(U16(pc_advanced - 2))
     \/ /\ PressedKeys(keyboard_state) # {}
        /\ SetsRegisters([ registers EXCEPT
                           ![X] = keyboard_get_pressed_key(keyboard_state) ])

-----------------------------------------------------------------------------
ControlFlowStep ==
  \/ exec_call \/ exec_call_subroutine \/ exec_return
  \/ exec_goto \/ exec_jump_to_addr_plus_v0
  \/ exec_if_equals \/ exec_if_not_equals
  \/ exec_skip_next_if_vx_equals_vy \/ exec_if_vx_not_equals_to_vy

RegisterStep ==
  \/ exec_set_register \/ exec_add_to_vx \/ exec_set_vx_from_vy
  \/ exec_set_vx_to_vx_or \/ exec_set_vx_to_vx_and \/ exec_set_vx_to_vx_xor
  \/ exec_set_vx_rand_and
  \/ exec_vx_plus_vy \/ exec_vx_minus_vy \/ exec_set_vx_vy_minus_vx
  \/ exec_set_vx_rshift_one \/ exec_set_vx_lshift_one

MemoryStep ==
  \/ exec_set_i_register \/ exec_add_vx_to_i \/ exec_set_i_to_sprite_addr
  \/ exec_set_bcd \/ exec_reg_dump \/ exec_reg_load

DeviceStep ==
  \/ exec_display_clear \/ exec_display_draw_sprite_at
  \/ exec_set_vx_from_delay_timer \/ exec_set_delay_timer_from_vx
  \/ exec_set_sound_timer
  \/ exec_if_key_equals_to_vx \/ exec_if_key_not_equals_to_vx
  \/ exec_set_vx_from_key

FailedStep ==
  \/ step_pc_overflow \/ step_fetch_overrun
  \/ step_zero_opcode \/ step_unsupported

\* One call of cpu_step.
cpu_step ==
  ControlFlowStep \/ RegisterStep \/ MemoryStep \/ DeviceStep \/ FailedStep

-----------------------------------------------------------------------------
(***************************************************************************)
(* What the rest of the machine does between two instructions              *)
(***************************************************************************)
KeyboardChanges ==
  /\ status = "running"
  /\ keyboard_state' \in KeyboardStates
  /\ UNCHANGED << memory, registers, pc, i, stackVars, buffer, timerVars,
                  status >>

TimersRun ==
  /\ status = "running"
  /\ delay_timer' \in 0 .. delay_timer
  /\ sound_timer' \in 0 .. sound_timer
  /\ UNCHANGED << memory, registers, pc, i, stackVars, buffer, keyboard_state,
                  status >>

\* The main loop ends, or fails outside cpu_step.
LoopEnds ==
  status = "running" /\ (Ends("finished") \/ Ends("aborted"))

CpuNext == cpu_step \/ KeyboardChanges \/ TimersRun \/ LoopEnds

CpuSpec == CpuInit /\ [][CpuNext]_cpuVars

-----------------------------------------------------------------------------
(***************************************************************************)
(* Properties                                                              *)
(***************************************************************************)
\* The addresses of the pending returns, the innermost one last.
PendingReturns == [ k \in 1 .. stack_count |-> stack[k - 1] ]

\* cpu_pc_advance works on a 16-bit program counter and cpu_step checks it only
\* against MEMORY_SIZE before a fetch.  Neither an instruction, a skip, a jump
\* with offset V0 nor a return can bring the program counter to where advancing
\* it would wrap around to address 0: a return address is at most one past the
\* end of memory, and the next cpu_step catches that.
ProgramCounterInReach ==
  /\ pc <= MEMORY_SIZE + 2 \/ pc <= 4095 + REGISTER_MAX
  /\ \A k \in 1 .. stack_count : PendingReturns[k] \in 2 .. MEMORY_SIZE

\* The subroutine instructions of cpu.c, over an array and a count, keep the
\* promise of Chip8CallStack.
CallStack == INSTANCE Chip8CallStack
  WITH Start <- MEMORY_PROGRAM_STARTING_ADDRESS, MaxDepth <- STACK_CAPACITY,
       at <- pc, pending <- PendingReturns

CallsNest == CallStack!Spec

\* The instructions that truncate lose nothing: the truncated result and VF (or
\* the three BCD digits) still determine the exact one.
ExactStep ==
  LET flag   == registers'[VF]
      result == registers'[X]
  IN status' = "running" =>
       /\ Executing("exec_vx_plus_vy") => result + 256 * flag = Vx + Vy
       /\ Executing("exec_vx_minus_vy") /\ Vx # Vy =>
            result = Vx - Vy + 256 * (1 - flag)
       /\ Executing("exec_set_vx_vy_minus_vx") /\ Vx # Vy =>
            result = Vy - Vx + 256 * (1 - flag)
       /\ Executing("exec_set_vx_rshift_one") => 2 * result + flag = Vx
       /\ Executing("exec_set_vx_lshift_one") => result + 256 * flag = 2 * Vx
       /\ Executing("exec_set_bcd") =>
            100 * memory'[i] + 10 * memory'[i + 1] + memory'[i + 2] = Vx

ArithmeticIsExact == [][cpu_step => ExactStep]_cpuVars

\* cpu.c:862 says of the draw instruction: "If this causes any pixels to be
\* erased, VF is set to 1, otherwise it is set to 0."
CollisionFlag ==
  [][ Executing("exec_display_draw_sprite_at") /\ cpu_step /\ status' = "running"
      => registers'[VF] = IF buffer \ buffer' # {} THEN 1 ELSE 0 ]_cpuVars
=============================================================================
