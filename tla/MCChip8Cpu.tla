----------------------------- MODULE MCChip8Cpu -----------------------------
(***************************************************************************)
(* Instance of Chip8Cpu with the real sizes of the machine and programs of *)
(* two instructions, the second of which is any instruction.               *)
(***************************************************************************)
EXTENDS Chip8Cpu

\* Every program begins with FF65, which loads V0..VF with the first sixteen
\* bytes of the program itself; the data after it chooses the registers.
\* V0 = 255, V1 = 101, V8 = 3, V9 = 200, VA = VB = 100, VC = 1, VD = 60.
Data == << 3, 200, 100, 100, 1, 60, 85, 0 >>

Bytes(word) == << word \div 256, word % 256 >>

Program(first, second) ==
  Bytes(\hFF65) \o Bytes(first) \o Bytes(second) \o << 0, 0 >> \o Data

\* The two instructions are at addresses 0x202 and 0x204, a zero opcode follows
\* them.  8898, 5891 and F808 are not instructions.
Pool ==
  { \h00E0, \h00EE, \h0204, \h1204, \h1FFF, \h1FFE,
    \h2202, \h2204, \h3067, \h3165, \h31FF, \h4164,
    \h5890, \h5AB0, \h6AFF, \h70FF, \h7AFF,
    \h8890, \h89A1, \h89A2, \h89A3,
    \h89A4, \h8014, \h8AB4, \h8BF4, \h8FA4,
    \h89A5, \h8A95, \h8AB5, \h8FA5, \h89A7, \h8A97, \h8AF7,
    \h8116, \h8966, \h8F06, \h811E, \h896E, \h8F0E,
    \h9AB0, \h98A0, \hA000, \hA300, \hAFFF,
    \hB1FE, \hBFFF, \hC9F5,
    \hDCC5, \hDDC5, \hD0AF, \hDA80, \hE89E, \hE8A1, \hE99E, \hE9A1,
    \hF807, \hF90A, \hF808, \h8898, \h5891,
    \hF815, \hF818, \hFA1E, \hF81E, \hF829, \hF933,
    \hF955, \hF165, \hFF55 }

\* The largest program, whose last word is a call, and one a byte too large.
LastWordCalls ==
  [ k \in 1 .. PROGRAM_MAX_SIZE |->
      CASE k = 1 -> \h1F [] k = 2 -> \hFE
        [] k = PROGRAM_MAX_SIZE - 1 -> \h22 [] k = PROGRAM_MAX_SIZE -> \h00
        [] OTHER -> 0 ]
TooLarge == [ k \in 1 .. PROGRAM_MAX_SIZE + 1 |-> \h60 ]

\* First instructions that leave the machine in different states.
FirstPool ==
  { \h00EE, \h0204, \h1204, \h1FFF, \h2202, \h2204, \h3165, \h4164, \h6AFF,
    \h7AFF, \h89A1, \h89A4, \h8AB5, \h896E, \h98A0, \hA000, \hA300, \hAFFF,
    \hBFFF, \hC9F5, \hDCC5, \hD0AF, \hE89E, \hF90A, \hF815, \hF818, \hFA1E,
    \hF829, \hF933, \hFF55 }

MCRoms == { Program(first, second) : first \in FirstPool, second \in Pool }
            \cup { << >>, LastWordCalls, TooLarge }

MCKeyboardStates == { {}, {"3", "V", "ESC"} }
=============================================================================
