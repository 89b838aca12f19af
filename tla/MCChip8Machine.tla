--------------------------- MODULE MCChip8Machine ---------------------------
(***************************************************************************)
(* Instance of Chip8Machine: programs that wait for a key and draw it, that*)
(* poll the delay timer and the keyboard, and that fail, and the ways to   *)
(* start the emulator wrongly.                                             *)
(***************************************************************************)
EXTENDS Chip8Machine

Words(words) == [ k \in 1 .. 2 * Len(words) |->
  IF k % 2 = 1 THEN words[(k + 1) \div 2] \div 256 ELSE words[k \div 2] % 256 ]

\* Wait for a key, draw its digit, start again.
DrawKeys == Words(<< \hF00A, \hF029, \hD125, \h1200 >>)
\* Set both timers to 3 and wait for the delay timer to run out.
WaitTimer == Words(<< \h6003, \hF015, \hF018, \hF107, \h3100, \h1206, \h120C >>)
\* Skip over a jump to itself while key 3 is down; then return from nowhere.
PollKey3 == Words(<< \h6003, \hE09E, \h1202, \h00EE >>)

\* A word that is no instruction, and a program that is too large.
NoInstruction == Words(<< \h6003, \h8898 >>)
TooLarge == [ k \in 1 .. PROGRAM_MAX_SIZE + 1 |-> 1 ]

Readable(rom) == [ state |-> "readable", bytes |-> rom ]
Broken == { [ state |-> s, bytes |-> << >> ] : s \in {"missing", "unreadable"} }

MCRoms == { DrawKeys, WaitTimer, PollKey3, NoInstruction, << >> }

Run(rom) ==
  [ LOG_LEVEL |-> Unset, CPU_CLOCK_HZ |-> Unset,
    argc |-> 3, command |-> "run", file |-> Readable(rom) ]

Numbers == { UINT32_MAX - 1, UINT32_MAX, ULLONG_MAX + 1, -1, -ULLONG_MAX,
             -ULLONG_MAX - 1 }

MCLaunches ==
  { Run(rom) : rom \in {DrawKeys, WaitTimer, PollKey3, << >>, TooLarge} }
    \cup { [ Run(WaitTimer) EXCEPT !.CPU_CLOCK_HZ = text ] :
             text \in { << "number", 0 >>, << "word", "fast" >> } }
    \cup { [ Run(<< >>) EXCEPT !.CPU_CLOCK_HZ = text ] :
             text \in {"number"} \X Numbers }
    \cup { [ Run(<< >>) EXCEPT !.LOG_LEVEL = << "word", level >> ] :
             level \in {"info", "loud"} }
    \cup { [ Run(PollKey3) EXCEPT !.argc = n ] : n \in {1, 4} }
    \cup { [ Run(PollKey3) EXCEPT !.command = "running" ] }
    \cup { [ Run(rom) EXCEPT !.command = "disassemble" ] :
             rom \in {PollKey3, NoInstruction, << >>} }
    \cup { [ Run(<< >>) EXCEPT !.file = file, !.command = command ] :
             file \in Broken, command \in {"run", "disassemble"} }

MCKeys == { "3", "V", "ESC" }
MCKeyboardStates == SUBSET MCKeys
=============================================================================
