---------------------------- MODULE DynamicArray ----------------------------
(***************************************************************************)
(* dynamic-array.h: the growing byte array of the http server, with a      *)
(* caller that makes any sequence of calls.  The block `items` points to   *)
(* is a sequence of bytes, << >> for NULL, and Junk is memory nobody wrote.*)
(* A byte that is pushed is the number of bytes pushed before it plus one, *)
(* so that every byte tells where it belongs.                              *)
(***************************************************************************)
EXTENDS Integers, Sequences

CONSTANTS DYNAMIC_ARRAY_INITIAL_CAPACITY,
          DYNAMIC_ARRAY_GROW_FACTOR,
          Junk,
          MaxPush,     \* bound: the longest buffer pushed
          MaxLength    \* bound: the length at which the caller stops pushing

ASSUME ArrayAssumption ==
  /\ DYNAMIC_ARRAY_INITIAL_CAPACITY \in Nat \ {0}
  /\ DYNAMIC_ARRAY_GROW_FACTOR = 2
  /\ MaxPush \in Nat /\ MaxLength \in Nat
  /\ Junk \notin Nat

VARIABLES items, length, capacity,
          failed,      \* some realloc has returned NULL
          crashed      \* a byte was written through a block that is too small

arrayVars == << items, length, capacity >>
vars == << arrayVars, failed, crashed >>

\* dynamic_array_init, and dynamic_array_init_with_capacity where calloc succeeds.
Init ==
  /\ length = 0
  /\ \E n \in 0 .. MaxPush : capacity = n /\ items = [ i \in 1 .. n |-> 0 ]
  /\ failed = FALSE
  /\ crashed = FALSE

dynamic_array_is_full == length >= capacity

\* For bytes = 0 the code asks is_full; push_back never passes 0.
dynamic_array_would_overflow(bytes) == length + bytes > capacity

realloc(block, n) ==
  [ i \in 1 .. n |-> IF i <= Len(block) THEN block[i] ELSE Junk ]

\* The bytes length + 1 .. length + n, stored after the ones that are there.
Stored(block, n) ==
  [ i \in 1 .. Len(block) |-> IF i \in length + 1 .. length + n THEN i ELSE block[i] ]

\* What both push functions do once there is room, or should be.
Store(block, n) ==
  /\ items' = Stored(block, n)
  /\ length' = length + n
  /\ crashed' = (length + n > Len(block))

\* Growing to new_capacity, which may fail, and then storing.
Grow(new_capacity, n) ==
  \/ /\ Store(realloc(items, new_capacity), n)
     /\ capacity' = new_capacity
     /\ UNCHANGED failed
  \/ /\ items' = << >>
     /\ failed' = TRUE
     /\ UNCHANGED << length, capacity, crashed >>

dynamic_array_push_back_byte ==
  /\ ~crashed /\ length < MaxLength
  /\ \/ /\ dynamic_array_is_full
        /\ Grow(IF capacity = 0 THEN DYNAMIC_ARRAY_INITIAL_CAPACITY
                ELSE DYNAMIC_ARRAY_GROW_FACTOR * capacity, 1)
     \/ /\ ~dynamic_array_is_full
        /\ Store(items, 1)
        /\ UNCHANGED << capacity, failed >>

MAX(a, b) == IF a > b THEN a ELSE b

extra_count(n) == (length + n) - capacity

\* Mutated form of push_capacity: an empty array ignores how much is pushed.
push_capacity_initial(n) ==
  IF capacity = 0 THEN DYNAMIC_ARRAY_INITIAL_CAPACITY
  ELSE DYNAMIC_ARRAY_GROW_FACTOR * (capacity + extra_count(n))

push_capacity(n) ==
  IF capacity = 0 THEN MAX(DYNAMIC_ARRAY_INITIAL_CAPACITY, extra_count(n))
  ELSE DYNAMIC_ARRAY_GROW_FACTOR * (capacity + extra_count(n))

dynamic_array_push_back(n) ==
  /\ ~crashed /\ length < MaxLength
  /\ \/ dynamic_array_would_overflow(n) /\ Grow(push_capacity(n), n)
     \/ /\ ~dynamic_array_would_overflow(n)
        /\ Store(items, n)
        /\ UNCHANGED << capacity, failed >>

\* dynamic_array_ensure_capacity answers and changes nothing.
dynamic_array_free ==
  /\ ~crashed
  /\ items' = << >>
  /\ capacity' = 0
  /\ length' = 0
  /\ UNCHANGED << failed, crashed >>

Next ==
  \/ dynamic_array_push_back_byte
  \/ \E n \in 1 .. MaxPush : dynamic_array_push_back(n)
  \/ dynamic_array_free

Spec == Init /\ [][Next]_vars

-----------------------------------------------------------------------------
TypeOK ==
  /\ length \in Nat
  /\ capacity \in Nat
  /\ items \in Seq(Nat \cup {Junk})
  /\ length <= capacity

\* As long as no allocation failed, the bytes that were pushed are in the block,
\* each where it belongs, through every growth; nothing is written beside it.
KeepsWhatWasPushed ==
  ~failed => /\ ~crashed
             /\ Len(items) = capacity
             /\ \A i \in 1 .. length : items[i] = i
=============================================================================
