--------------------------- MODULE Chip8CallStack ---------------------------
(***************************************************************************)
(* What the subroutine instructions promise a CHIP-8 program: a return     *)
(* resumes right after the call it belongs to, calls nest to a fixed depth,*)
(* and nothing but a call or a return touches the pending returns.         *)
(***************************************************************************)
EXTENDS Naturals, Sequences

CONSTANTS Start,    \* where the program begins
          MaxDepth  \* how many calls may be pending

VARIABLES at,       \* the address of the next instruction
          pending   \* the addresses to return to, the innermost one last

vars == << at, pending >>

Init == at = Start /\ pending = << >>

Call ==
  /\ Len(pending) < MaxDepth
  /\ pending' = Append(pending, at + 2)
  /\ at' \in Nat

Return ==
  /\ pending # << >>
  /\ at' = pending[Len(pending)]
  /\ pending' = SubSeq(pending, 1, Len(pending) - 1)

\* Any other instruction: on to the next one, over it, or a jump.
Move == at' \in Nat /\ UNCHANGED pending

Next == Call \/ Return \/ Move

Spec == Init /\ [][Next]_vars
=============================================================================
