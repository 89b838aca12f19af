---------------------------- MODULE DeferExample ----------------------------
(***************************************************************************)
(* defer/: three functions that allocate four blocks and release them, one *)
(* with repeated frees, one with a ladder of labels, one with deferred     *)
(* calls, run one after the other by main.  Each allocation may fail.  The *)
(* stack of deferred calls (defer.c) also has a user of its own, who       *)
(* defers calls of both kinds and ends the scope when it likes.            *)
(***************************************************************************)
EXTENDS ResourceLedger

CONSTANTS DEFER_ITEMS_MAX_SIZE,
          MaxScopes     \* bound: how many scopes the user of defer.c opens

ASSUME DeferAssumption == DEFER_ITEMS_MAX_SIZE \in Nat /\ MaxScopes \in Nat

VARIABLES function,   \* the function that runs, and the number of functions done
          done,
          allocated,  \* how many of the blocks x1, x2, ... it has allocated
          frees,      \* the numbers of the blocks it is about to free
          items       \* struct defer: the first len items

deferVars == << function, done, allocated, frees, items >>

Functions == << "gotoless_duplicated_approach", "goto_approach",
                "defer_gotoless_approach" >>
BLOCKS == 4
Block(k) == << "x", k >>
KINDS == {"NO_ARG", "SINGLE_PTR_ARG"}

DeferInit ==
  /\ function = "gotoless_duplicated_approach" /\ done = 0
  /\ allocated = 0 /\ frees = << >> /\ items = << >>

-----------------------------------------------------------------------------
(* defer.c                                                                 *)

DeferFull == Len(items) >= DEFER_ITEMS_MAX_SIZE

\* _defer_push_no_arg and _defer_push_single_ptr_arg, behind their assertion.
defer_push(kind, k) ==
  \/ /\ ~DeferFull
     /\ items' = Append(items, [ kind |-> kind, block |-> k ])
     /\ UNCHANGED step
  \/ /\ DeferFull
     /\ GoTo("aborted")
     /\ UNCHANGED items

\* The calls _defer_scope_end makes, the last item first; calling an item of either
\* kind gives its block up.
defer_scope_end ==
  [ k \in 1 .. Len(items) |-> items[Len(items) + 1 - k].block ]

-----------------------------------------------------------------------------
(* main.c: what a function frees when its allocation k fails, and when none *)
(* does (k = 5).                                                            *)

\* Mutated form: the third error path was copied from the second.
gotoless_frees_copied(k) ==
  << << >>, << 1 >>, << 1 >>, << 3, 2, 1 >>, << 4, 3, 2, 1 >> >>[k]

gotoless_frees(k) ==
  << << >>, << 1 >>, << 2, 1 >>, << 3, 2, 1 >>, << 4, 3, 2, 1 >> >>[k]

\* Mutated form: the last label is missing.
goto_frees_short(k) == [ n \in 1 .. k - 2 |-> k - n ]

\* Failure k jumps to label err_free_<k - 1>, and each label falls through to the
\* one below; the first failure returns at once.
goto_frees(k) == [ n \in 1 .. k - 1 |-> k - n ]

Frees(k) ==
  CASE function = "gotoless_duplicated_approach" -> gotoless_frees(k)
    [] function = "goto_approach" -> goto_frees(k)
    [] OTHER -> defer_scope_end

\* malloc gives the next block; with deferred calls its free is pushed.
malloc_block ==
  /\ At("malloc") /\ allocated < BLOCKS
  /\ allocated' = allocated + 1
  /\ Acquire(Block(allocated'))
  /\ \/ /\ function # "defer_gotoless_approach"
        /\ UNCHANGED << step, items >>
     \/ /\ function = "defer_gotoless_approach"
        /\ defer_push("SINGLE_PTR_ARG", allocated')
  /\ UNCHANGED << rc, function, done, frees >>

\* malloc fails, or there is nothing more to allocate.
leave_function ==
  /\ At("malloc") /\ GoTo("free")
  /\ frees' = Frees(allocated + 1)
  /\ KeepsAll
  /\ UNCHANGED << rc, function, done, allocated, items >>

free_block ==
  /\ At("free") /\ frees # << >>
  /\ Release(Block(Head(frees)))
  /\ frees' = Tail(frees)
  /\ UNCHANGED << step, rc, function, done, allocated, items >>

\* The function returns and main calls the next one; a new scope is empty.
return_to_main ==
  /\ At("free") /\ frees = << >>
  /\ done' = done + 1
  /\ allocated' = 0 /\ items' = << >>
  /\ \/ /\ done' < Len(Functions)
        /\ function' = Functions[done' + 1]
        /\ GoTo("malloc") /\ UNCHANGED rc
     \/ /\ done' = Len(Functions)
        /\ GoTo("end") /\ rc' = 0
        /\ UNCHANGED function
  /\ KeepsAll
  /\ UNCHANGED frees

DeferMain == malloc_block \/ leave_function \/ free_block \/ return_to_main

-----------------------------------------------------------------------------
(* A user of defer.h.                                                      *)

user_defers ==
  /\ At("scope")
  /\ Acquire(Block(Len(items) + 1))
  /\ \E kind \in KINDS : defer_push(kind, Len(items) + 1)
  /\ UNCHANGED << rc, function, done, allocated, frees >>

user_ends_scope ==
  /\ At("scope") /\ GoTo("calls")
  /\ frees' = defer_scope_end
  /\ KeepsAll
  /\ UNCHANGED << rc, function, done, allocated, items >>

\* The loop of _defer_scope_end, and len = 0 at its end.
deferred_call ==
  /\ At("calls")
  /\ \/ /\ frees # << >>
        /\ Release(Block(Head(frees)))
        /\ frees' = Tail(frees)
        /\ UNCHANGED << step, rc, done, items >>
     \/ /\ frees = << >>
        /\ items' = << >>
        /\ done' = done + 1
        /\ IF done' = MaxScopes THEN GoTo("end") /\ rc' = 0
                                ELSE GoTo("scope") /\ UNCHANGED rc
        /\ KeepsAll /\ UNCHANGED frees
  /\ UNCHANGED << function, allocated >>

DeferUser == user_defers \/ user_ends_scope \/ deferred_call
=============================================================================
