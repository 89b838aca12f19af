--------------------------- MODULE ResourceLedger ---------------------------
(***************************************************************************)
(* What an example program owns while it runs: memory blocks, open files,  *)
(* library handles (all external), in the order in which it obtained them. *)
(* step is where the program is, rc what it returned.  "exited" and        *)
(* "aborted" end the process: the system takes back what is still held.    *)
(***************************************************************************)
EXTENDS Integers, Sequences, SequencesExt

CONSTANT UINT_MAX   \* the largest unsigned int; the programs keep sizes in size_t

ASSUME LedgerAssumption == UINT_MAX \in Nat /\ UINT_MAX % 2 = 1

INT_MAX == UINT_MAX \div 2

\* What is left of a size_t passed as an unsigned int, and as an int.
ToUnsigned(n) == n % (UINT_MAX + 1)
ToInt(n) ==
  IF ToUnsigned(n) <= INT_MAX THEN ToUnsigned(n) ELSE ToUnsigned(n) - (UINT_MAX + 1)

VARIABLES step, rc,
          held,       \* obtained and not yet given up
          lost,       \* obtained, and no pointer to it is left
          misused     \* something was given up that was not held

ledgerVars == << held, lost, misused >>
processVars == << step, rc, ledgerVars >>

LedgerInit == rc = -1 /\ held = << >> /\ lost = {} /\ misused = FALSE

At(s) == step = s
GoTo(s) == step' = s

KeepsAll == UNCHANGED ledgerVars

Acquire(r) == held' = Append(held, r) /\ UNCHANGED << lost, misused >>

Held(r) == \E n \in 1 .. Len(held) : held[n] = r

\* r is not held any more, wherever in the order it stands.
GivesAway(r) ==
  \/ ~Held(r) /\ UNCHANGED held
  \/ \E n \in 1 .. Len(held) : held[n] = r /\ held' = RemoveAt(held, n)

Release(r) ==
  /\ GivesAway(r)
  /\ misused' = (misused \/ ~Held(r))
  /\ UNCHANGED lost

\* The last pointer to r is overwritten.
Lose(r) ==
  /\ GivesAway(r)
  /\ lost' = lost \cup {r}
  /\ UNCHANGED misused
=============================================================================
