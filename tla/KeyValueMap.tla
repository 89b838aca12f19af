---------------------------- MODULE KeyValueMap ----------------------------
(***************************************************************************)
(* What a table of keys and values promises: a function from keys to       *)
(* values.  A put that has begun takes effect at one moment, at its key and*)
(* nowhere else; besides that the map can only be thrown away.             *)
(***************************************************************************)
CONSTANTS Keys, Values, NULL

VARIABLES contents,  \* NULL for a key that is not in the map
          pending    \* the key and the value of the put in progress, or << >>

Init == contents = [ key \in Keys |-> NULL ] /\ pending = << >>

Begin(key, value) ==
  /\ pending = << >>
  /\ pending' = << key, value >>
  /\ UNCHANGED contents

TakeEffect ==
  /\ pending # << >>
  /\ contents' = [ contents EXCEPT ![pending[1]] = pending[2] ]
  /\ pending' = << >>

Clear ==
  /\ pending = << >>
  /\ contents' = [ key \in Keys |-> NULL ]
  /\ UNCHANGED pending

Next ==
  TakeEffect \/ Clear \/ \E key \in Keys, value \in Values : Begin(key, value)

Spec == Init /\ [][Next]_<< contents, pending >>
=============================================================================
