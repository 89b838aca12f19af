--------------------------- MODULE LifoResources ---------------------------
(***************************************************************************)
(* What a program with a clean-up ladder promises: resources are given up  *)
(* in the reverse of the order in which they were obtained, each once.     *)
(***************************************************************************)
EXTENDS Naturals, Sequences, SequencesExt

CONSTANT Resource

VARIABLE held

Obtain == \E r \in Resource : r \notin ToSet(held) /\ held' = Append(held, r)

GiveUp == held # << >> /\ held' = Front(held)

Spec == held = << >> /\ [][Obtain \/ GiveUp]_held
=============================================================================
