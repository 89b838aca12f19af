---------------------------- MODULE Chip8Machine ----------------------------
(***************************************************************************)
(* The emulator process from its start to its end: main with the           *)
(* configuration, the command line and the ROM file, the disassemble       *)
(* command, and the main loop of machine_run, which in every turn drains   *)
(* the SDL event queue, updates the timers, executes one instruction,      *)
(* sleeps, and shows the display.  Once there is a window the user presses *)
(* keys and closes it at any time; SDL (external) queues the events in     *)
(* order and its keyboard state follows the events that have been pumped.  *)
(***************************************************************************)
EXTENDS Chip8Cpu, Chip8Config, Chip8Mnemonics

CONSTANTS Keys,         \* the scan codes the user may press
          Launches,     \* what the emulator may be started with
          Latencies,    \* ms by which a turn of the loop may be late
          MaxTime,      \* bound: the clock stops at this time
          MaxInputs     \* bound: how often the user acts

\* The programs and keyboard states of the CPU are those of the machine.
ASSUME MachineAssumption ==
  /\ Launches \subseteq [ LOG_LEVEL : Text, CPU_CLOCK_HZ : Text, argc : Nat,
                          command : STRING, file : File ]
  /\ \A l \in Launches : rom_fits(l.file.bytes) => l.file.bytes \in Roms
  /\ SUBSET Keys \subseteq KeyboardStates
  /\ Latencies \subseteq Nat /\ MaxTime \in Nat

VARIABLES launch,                           \* environment, arguments, file
          phase,                            \* where main or machine_run is
          now, delay_last_tick, sound_last_tick,
          cpu_clock_speed_hz,
          events,                           \* SDL's queue
          inputs,                           \* how often the user has acted
          presented                         \* the picture in the window

loopVars == << phase, now, delay_last_tick, sound_last_tick,
               cpu_clock_speed_hz, presented >>
userVars == << events, inputs >>
vars     == << cpuVars, loopVars, userVars, launch >>

Delay == INSTANCE Chip8Timer
  WITH value <- delay_timer, last_tick_timestamp_ms <- delay_last_tick
Sound == INSTANCE Chip8Timer
  WITH value <- sound_timer, last_tick_timestamp_ms <- sound_last_tick

Startup == {"log_level", "clock", "arguments", "init", "load"}

Quit == << "QUIT" >>
Event == { Quit } \cup ({"KEYDOWN", "KEYUP"} \X Keys)

\* The events on which the loop ends.
EndsLoop(event) == event \in { Quit, << "KEYDOWN", "ESC" >> }

\* The configuration is a zeroed static object.  The machine is a local object
\* of main that nothing reads before machine_init has given it these values.
Init ==
  /\ launch \in Launches
  /\ memory = memory_init /\ cpu_init /\ status = "running"
  /\ phase = "log_level"
  /\ now = 0 /\ delay_last_tick = 0 /\ sound_last_tick = 0
  /\ cpu_clock_speed_hz = 0
  /\ events = << >> /\ inputs = 0
  /\ presented = {}

-----------------------------------------------------------------------------
In(p) == status = "running" /\ phase = p
Goes(p) == phase' = p

(***************************************************************************)
(* main                                                                    *)
(***************************************************************************)
\* The step after which the process is at p, having changed nothing else.
GoesOnTo(p) ==
  /\ Goes(p)
  /\ UNCHANGED << cpuVars, now, delay_last_tick, sound_last_tick,
                  cpu_clock_speed_hz, presented, userVars, launch >>

\* exit(1), or a failed assertion.
Stops(how) == Ends(how) /\ UNCHANGED << loopVars, userVars, launch >>

config_init_log_level ==
  /\ In("log_level")
  /\ \/ log_level_parses(launch.LOG_LEVEL) /\ GoesOnTo("clock")
     \/ ~log_level_parses(launch.LOG_LEVEL) /\ Stops("exited")

SetsClock(hz) ==
  /\ Goes("arguments")
  /\ cpu_clock_speed_hz' = hz
  /\ UNCHANGED << cpuVars, now, delay_last_tick, sound_last_tick, presented,
                  userVars, launch >>

\* Mutated form of config_init_cpu_clock_speed: the default is forgotten.
config_init_cpu_clock_speed_zero ==
  /\ In("clock")
  /\ \/ parses_to_u32(launch.CPU_CLOCK_HZ)
        /\ SetsClock(parse_string_to_u32(launch.CPU_CLOCK_HZ))
     \/ ~parses_to_u32(launch.CPU_CLOCK_HZ) /\ Stops("exited")

config_init_cpu_clock_speed ==
  /\ In("clock")
  /\ \/ /\ launch.CPU_CLOCK_HZ = Unset
        /\ SetsClock(CONFIG_CPU_CLOCK_SPEED_HZ_DEFAULT_VALUE)
     \/ /\ launch.CPU_CLOCK_HZ # Unset /\ parses_to_u32(launch.CPU_CLOCK_HZ)
        /\ SetsClock(parse_string_to_u32(launch.CPU_CLOCK_HZ))
     \/ /\ launch.CPU_CLOCK_HZ # Unset /\ ~parses_to_u32(launch.CPU_CLOCK_HZ)
        /\ Stops("exited")

UsageIsRight == launch.argc = 3 /\ cli_parse_command(launch.command)

\* Mutated form of CheckArguments: the usage is printed and main goes on.
CheckArguments_goes_on == In("arguments") /\ GoesOnTo("init")

CheckArguments ==
  /\ In("arguments")
  /\ \/ UsageIsRight /\ GoesOnTo("init")
     \/ ~UsageIsRight /\ Stops("exited")

\* SDL may fail to initialise or to make a window.
InitMachine ==
  In("init") /\ (GoesOnTo("load") \/ Stops("exited"))

\* The command the switch of main goes on with.
CommandPhase == IF launch.command = "run" THEN "start" ELSE "disassemble"

Rom == file_read_contents(launch.file)

LoadRom ==
  /\ In("load")
  /\ \/ ReadFails(launch.file) /\ Stops("exited")
     \/ NeedsBuffer(launch.file) /\ Stops("aborted")
     \/ ~ReadFails(launch.file) /\ ~rom_fits(Rom) /\ Stops("exited")
     \/ /\ ~ReadFails(launch.file) /\ rom_fits(Rom)
        /\ Goes(CommandPhase)
        /\ memory' = machine_load_rom(memory, Rom)
        /\ UNCHANGED << registers, pc, i, stackVars, buffer, timerVars,
                        keyboard_state, status, now, delay_last_tick,
                        sound_last_tick, cpu_clock_speed_hz, presented,
                        userVars, launch >>

WordAt(a) == memory[a] * 256 + memory[a + 1]

\* machine_disassemble as a whole (Chip8Disassembler has its steps): it exits at
\* a word without a line, unless a zero word comes first.
FindsUnsupported ==
  \E n \in 0 .. PROGRAM_MAX_SIZE \div 2 - 1 :
    LET word(k) == WordAt(MEMORY_PROGRAM_STARTING_ADDRESS + 2 * k)
    IN  /\ \A k \in 0 .. n : word(k) # 0
        /\ disassembler_disassemble(word(n)) = Unsupported

Disassemble ==
  /\ In("disassemble")
  /\ \/ FindsUnsupported /\ Stops("exited")
     \/ ~FindsUnsupported /\ GoesOnTo("free")

\* machine_free, and main returns.
FreeMachine == In("free") /\ Stops("finished")

(***************************************************************************)
(* machine_run                                                             *)
(***************************************************************************)
StartTimers ==
  /\ In("start") /\ Goes("events")
  /\ Delay!timer_start /\ Sound!timer_start
  /\ UNCHANGED << memory, registers, pc, i, stackVars, buffer, keyboard_state,
                  status, now, cpu_clock_speed_hz, presented, userVars, launch >>

\* Mutated form of PollEnd: only the loop over the events is left.
PollEnd_breaks ==
  /\ In("events") /\ events # << >> /\ EndsLoop(Head(events))
  /\ Goes("timers")
  /\ events' = Tail(events)
  /\ UNCHANGED << cpuVars, now, delay_last_tick, sound_last_tick,
                  cpu_clock_speed_hz, presented, inputs, launch >>

\* SDL_PollEvent returned an event that ends the loop.
PollEnd ==
  /\ In("events") /\ events # << >> /\ EndsLoop(Head(events))
  /\ Goes("free")
  /\ events' = Tail(events)
  /\ UNCHANGED << cpuVars, now, delay_last_tick, sound_last_tick,
                  cpu_clock_speed_hz, presented, inputs, launch >>

\* SDL_PollEvent returned another event, which the loop ignores; SDL's keyboard
\* state follows it.
PollKey ==
  /\ In("events") /\ events # << >> /\ ~EndsLoop(Head(events))
  /\ LET key == Head(events)[2]
     IN  keyboard_state' = IF Head(events)[1] = "KEYDOWN"
                           THEN keyboard_state \cup {key}
                           ELSE keyboard_state \ {key}
  /\ events' = Tail(events)
  /\ UNCHANGED << memory, registers, pc, i, stackVars, buffer, timerVars, status,
                  loopVars, inputs, launch >>

\* SDL_PollEvent found the queue empty.
PollNothing == In("events") /\ events = << >> /\ GoesOnTo("timers")

UpdateTimers ==
  /\ In("timers") /\ Goes("step")
  /\ Delay!timer_update /\ Sound!timer_update
  /\ UNCHANGED << memory, registers, pc, i, stackVars, buffer, keyboard_state,
                  status, now, cpu_clock_speed_hz, presented, userVars, launch >>

Step ==
  /\ In("step") /\ Goes("sleep")
  /\ cpu_step
  /\ UNCHANGED << now, delay_last_tick, sound_last_tick, cpu_clock_speed_hz,
                  presented, userVars, launch >>

\* The rest of the time an instruction should take, in whole milliseconds.  With
\* a clock speed of 0 the division 1000 / cpu_clock_speed_hz traps.
Sleep ==
  \/ In("sleep") /\ cpu_clock_speed_hz = 0 /\ Stops("aborted")
  \/ /\ In("sleep") /\ cpu_clock_speed_hz # 0 /\ Goes("render")
     /\ LET ideal_duration_ms == 1000 \div cpu_clock_speed_hz
        IN  \E late \in Latencies :
              now' = Min({MaxTime, now + ideal_duration_ms + late})
     /\ UNCHANGED << cpuVars, delay_last_tick, sound_last_tick,
                     cpu_clock_speed_hz, presented, userVars, launch >>

\* Mutated form of Render: the picture is drawn and not flushed to the window.
Render_unflushed == In("render") /\ GoesOnTo("events")

\* display_render and display_render_flush.
Render ==
  /\ In("render") /\ Goes("events")
  /\ presented' = buffer
  /\ UNCHANGED << cpuVars, now, delay_last_tick, sound_last_tick,
                  cpu_clock_speed_hz, userVars, launch >>

\* The user (external) presses or releases a key or closes the window, which
\* there is once display_init has returned.
UserActs ==
  /\ status = "running" /\ phase \notin Startup \ {"load"}
  /\ inputs < MaxInputs
  /\ inputs' = inputs + 1
  /\ \E event \in Event : events' = Append(events, event)
  /\ UNCHANGED << cpuVars, loopVars, launch >>

StartAndEnd ==
  \/ config_init_log_level \/ config_init_cpu_clock_speed \/ CheckArguments
  \/ InitMachine \/ LoadRom \/ Disassemble \/ FreeMachine

MainLoop ==
  \/ StartTimers \/ PollEnd \/ PollKey \/ PollNothing
  \/ UpdateTimers \/ Step \/ Sleep \/ Render

Next == StartAndEnd \/ MainLoop \/ UserActs

\* The emulator is one thread that never blocks: SDL_PollEvent returns at once
\* and SDL_Delay returns after a bounded time.  Nothing is assumed of the user.
Spec == Init /\ [][Next]_vars /\ WF_vars(StartAndEnd \/ MainLoop)

-----------------------------------------------------------------------------
\* machine_run drives its CPU only as Chip8Cpu lets an environment do: it begins
\* where the specification of the CPU begins, and keyboard and timers change
\* between instructions, where a timer never rises by itself.
DrivesCpu ==
  /\ [](status = "running" /\ phase = "start" => CpuInit)
  /\ [][(phase \in Startup \cup {"disassemble"}) \/ CpuNext]_cpuVars

\* No command is carried out on what main should have refused: the clock speed is
\* the default or the number in the environment, in range (a negative one counts
\* modulo ULLONG_MAX + 1), and the program in memory is the whole ROM file.  A file
\* that cannot be opened is not refused; it counts as an empty program, which never
\* executes an instruction.
StartsAsConfigured ==
  status = "running" /\ phase \notin Startup =>
    /\ launch.argc = 3 /\ launch.command \in {"run", "disassemble"}
    /\ launch.command = "disassemble" => phase \in {"disassemble", "free"}
    /\ launch.LOG_LEVEL # << "word", "loud" >>
    /\ \/ launch.CPU_CLOCK_HZ = Unset /\ cpu_clock_speed_hz = 600
       \/ launch.CPU_CLOCK_HZ = << "number", cpu_clock_speed_hz >>
       \/ launch.CPU_CLOCK_HZ[1] = "word" /\ cpu_clock_speed_hz = 0
       \/ launch.CPU_CLOCK_HZ = << "number", cpu_clock_speed_hz - 1 - ULLONG_MAX >>
    /\ cpu_clock_speed_hz < UINT32_MAX
    /\ phase \in {"start", "disassemble"} =>
         \A k \in 1 .. Len(launch.file.bytes) :
           memory[MEMORY_PROGRAM_STARTING_ADDRESS + k - 1] = launch.file.bytes[k]
    /\ launch.file.bytes = << >> => pc = MEMORY_PROGRAM_STARTING_ADDRESS

\* Once the program is loaded, the emulator dies of an assertion or a trap only
\* when the program reaches a zero word, or when the environment asks for 0 Hz
\* (in digits, or in a word that is no number), which no check refuses.
TrapsOnlyAtZero ==
  status = "aborted" /\ phase # "load" =>
    \/ InMemory(pc, 2) /\ opcode = 0
    \/ launch.CPU_CLOCK_HZ[1] = "word" \/ launch.CPU_CLOCK_HZ = << "number", 0 >>

\* No instruction runs on a screen the user has not been shown: the picture in
\* the window is the frame buffer again before the next cpu_step.
ShownBeforeNextStep ==
  status = "running" /\ phase \in {"start", "events", "timers", "step", "free"}
    => presented = buffer

\* Closing the window or pressing Escape ends the program, whatever else is
\* queued before it and whatever the CHIP-8 program is doing (a program that
\* waits for a key included).
QuitEndsProgram ==
  (\E k \in 1 .. Len(events) : EndsLoop(events[k])) ~> status # "running"

WaitingForKey == Executing("exec_set_vx_from_key")

\* A program that waits for a key goes on when a mapped key stays down.
HeldKeyEndsWait ==
  []<>( \/ status # "running" \/ ~WaitingForKey
        \/ PressedKeys(keyboard_state) = {} )
=============================================================================
