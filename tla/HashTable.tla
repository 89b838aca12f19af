----------------------------- MODULE HashTable -----------------------------
(***************************************************************************)
(* The hash table of hash-table/main.c: open addressing with linear        *)
(* probing in an array of fixed capacity.  A call of hash_table_put or     *)
(* hash_table_get walks the array one entry at a time; the module follows  *)
(* it step by step.  The hash of a key (FNV-1a of its characters) is       *)
(* abstracted to any function of the keys.                                 *)
(*                                                                         *)
(* status: "running"; "aborted" (the assert in the loop of put failed);    *)
(* "undefined" (strcmp was given a NULL key); "no_memory" (strcpy was given*)
(* the NULL of a failed calloc); "freed".                                  *)
(***************************************************************************)
EXTENDS Naturals, FiniteSets

CONSTANTS Keys, Values,
          NULL,       \* the key of an unused entry, and what get may return
          ht_capacity,
          HashValues  \* what hash_fnv_1a_32 may compute

ASSUME HashTableAssumption ==
  /\ ht_capacity \in Nat \ {0}
  /\ NULL \notin Keys /\ NULL \notin Values
  /\ HashValues \subseteq Nat

VARIABLES hash,       \* hash_fnv_1a_32; never changes
          keys,       \* the keys and the values of ht->entries
          values,
          count,      \* ht->count
          call,       \* the call being executed: its function, key, value, index
                      \* and the local variable count
          result,     \* what the last hash_table_get returned
          status

table == << keys, values, count >>
tableVars == << hash, table, call, result, status >>

Index == 0 .. ht_capacity - 1
NoCall == [ op |-> "none" ]

\* hash_fnv_1a_32(key) % ht->capacity.
Home(key) == hash[key] % ht_capacity
Following(index) == (index + 1) % ht_capacity

\* hash_table_init
TableInit ==
  /\ hash \in [Keys -> HashValues]
  /\ keys = [ index \in Index |-> NULL ]
  /\ values = [ index \in Index |-> NULL ]
  /\ count = 0
  /\ call = NoCall
  /\ result = NULL
  /\ status = "running"

-----------------------------------------------------------------------------
\* Mutated form of Stores: the value goes to the home entry.
Stores_home(index, key, value) ==
  /\ keys' = [ keys EXCEPT ![index] = key ]
  /\ values' = [ values EXCEPT ![Home(key)] = value ]
  /\ count' = IF keys[index] = NULL THEN count + 1 ELSE count
  /\ call' = NoCall
  /\ UNCHANGED << hash, result, status >>

Stores(index, key, value) ==
  /\ keys' = [ keys EXCEPT ![index] = key ]
  /\ values' = [ values EXCEPT ![index] = value ]
  /\ count' = IF keys[index] = NULL THEN count + 1 ELSE count
  /\ call' = NoCall
  /\ UNCHANGED << hash, result, status >>

\* hash_table_put is called and computes the home entry.
hash_table_put(key, value) ==
  /\ status = "running" /\ call = NoCall
  /\ call' = [ op |-> "put", key |-> key, value |-> value,
               i |-> Home(key), count |-> 0 ]
  /\ UNCHANGED << hash, table, result, status >>

\* Mutated forms of PutProbes: the probe skips every other entry, or is not counted.
PutProbes_as(next, counted) ==
  /\ status = "running" /\ call.op = "put"
  /\ keys[call.i] \notin {NULL, call.key}
  /\ \/ /\ call.count + 1 < ht_capacity
        /\ call' = [ call EXCEPT !.count = @ + counted, !.i = next ]
        /\ UNCHANGED << hash, table, result, status >>
     \/ /\ call.count + 1 >= ht_capacity
        /\ status' = "aborted"
        /\ UNCHANGED << hash, table, call, result >>
PutProbes_skipping  == PutProbes_as((call.i + 2) % ht_capacity, 1)
PutProbes_uncounted == PutProbes_as(Following(call.i), 0)

\* The entry belongs to another key: assert(++count < ht->capacity), and on to the
\* next one.
PutProbes ==
  /\ status = "running" /\ call.op = "put"
  /\ keys[call.i] \notin {NULL, call.key}
  /\ \/ /\ call.count + 1 < ht_capacity
        /\ call' = [ call EXCEPT !.count = @ + 1, !.i = Following(@) ]
        /\ UNCHANGED << hash, table, result, status >>
     \/ /\ call.count + 1 >= ht_capacity
        /\ status' = "aborted"
        /\ UNCHANGED << hash, table, call, result >>

\* The entry is unused, or holds the key already.  (An unused home entry is
\* taken before the loop, with the same effect.)
PutStores ==
  /\ status = "running" /\ call.op = "put"
  /\ keys[call.i] \in {NULL, call.key}
  /\ Stores(call.i, call.key, call.value)

\* Mutated form of PutLacksMemory: a new string for every put, also of a stored key.
PutLacksMemory_always ==
  /\ status = "running" /\ call.op = "put"
  /\ keys[call.i] \in {NULL, call.key}
  /\ status' = "no_memory"
  /\ UNCHANGED << hash, table, call, result >>

\* The copy of a new key: calloc returns NULL, which is not looked at, and strcpy
\* writes to it.
PutLacksMemory ==
  /\ status = "running" /\ call.op = "put"
  /\ keys[call.i] = NULL
  /\ status' = "no_memory"
  /\ UNCHANGED << hash, table, call, result >>

Returns(value) ==
  /\ result' = value
  /\ call' = NoCall
  /\ UNCHANGED << hash, table, status >>

\* hash_table_get as far as the loop.
hash_table_get(key) ==
  /\ status = "running" /\ call = NoCall
  /\ \/ keys[Home(key)] = NULL /\ Returns(NULL)
     \/ /\ keys[Home(key)] # NULL
        /\ call' = [ op |-> "get", key |-> key, i |-> Home(key), count |-> 0 ]
        /\ UNCHANGED << hash, table, result, status >>

\* Mutated form of GetProbes: the value of the entry that ended the probe is returned.
GetProbes_last ==
  /\ status = "running" /\ call.op = "get"
  /\ keys[call.i] \notin {NULL, call.key}
  /\ \/ call.count + 1 < count /\ Returns(values[call.i])
     \/ /\ call.count + 1 >= count
        /\ call' = [ call EXCEPT !.count = @ + 1, !.i = Following(@) ]
        /\ UNCHANGED << hash, table, result, status >>

\* Mutated form of GetProbes: the probe goes on as long as it has met fewer entries
\* than the table holds.
GetProbes_further ==
  /\ status = "running" /\ call.op = "get"
  /\ keys[call.i] \notin {NULL, call.key}
  /\ \/ call.count + 1 >= count /\ Returns(NULL)
     \/ /\ call.count + 1 < count
        /\ call' = [ call EXCEPT !.count = @ + 1, !.i = Following(@) ]
        /\ UNCHANGED << hash, table, result, status >>

\* The entry belongs to another key: NULL as soon as ++count < ht->count.
GetProbes ==
  /\ status = "running" /\ call.op = "get"
  /\ keys[call.i] \notin {NULL, call.key}
  /\ \/ call.count + 1 < count /\ Returns(NULL)
     \/ /\ call.count + 1 >= count
        /\ call' = [ call EXCEPT !.count = @ + 1, !.i = Following(@) ]
        /\ UNCHANGED << hash, table, result, status >>

\* The loop condition compares the key before it looks whether there is one.
GetMeetsUnused ==
  /\ status = "running" /\ call.op = "get"
  /\ keys[call.i] = NULL
  /\ status' = "undefined"
  /\ UNCHANGED << hash, table, call, result >>

GetReturns ==
  /\ status = "running" /\ call.op = "get"
  /\ keys[call.i] = call.key
  /\ Returns(values[call.i])

hash_table_free ==
  /\ status = "running" /\ call = NoCall
  /\ keys' = [ index \in Index |-> NULL ]
  /\ values' = [ index \in Index |-> NULL ]
  /\ count' = 0
  /\ status' = "freed"
  /\ UNCHANGED << hash, call, result >>

Working ==
  \/ PutProbes \/ PutStores \/ PutLacksMemory
  \/ GetProbes \/ GetMeetsUnused \/ GetReturns

TableNext ==
  \/ \E key \in Keys, value \in Values : hash_table_put(key, value)
  \/ \E key \in Keys : hash_table_get(key)
  \/ Working
  \/ hash_table_free

\* A call that has begun goes on; nobody has to make calls.
TableSpec == TableInit /\ [][TableNext]_tableVars /\ WF_tableVars(Working)

-----------------------------------------------------------------------------
Used == { index \in Index : keys[index] # NULL }

\* The entries a probe for key visits before it comes to index.
ProbedBefore(key, index) ==
  { (Home(key) + d) % ht_capacity :
      d \in { d \in Index : \A e \in 0 .. d : (Home(key) + e) % ht_capacity # index } }

\* What makes linear probing work: no key is stored twice, and there is no unused
\* entry between the home of a key and the entry that holds it.  An unused entry
\* ends the search, so a gap would hide a key and let put store it again.
ChainsUnbroken ==
  \A index \in Used :
    /\ \A other \in Used : keys[other] = keys[index] => other = index
    /\ ProbedBefore(keys[index], index) \subseteq Used

\* The table as a function from keys to values.
Contents ==
  [ key \in Keys |->
      IF \E index \in Used : keys[index] = key
      THEN values[CHOOSE index \in Used : keys[index] = key]
      ELSE NULL ]

\* The table is a map: a put that ends has changed it at its key, to its value,
\* and nowhere else, and nothing but a put (and free) changes it.
Map == INSTANCE KeyValueMap
  WITH contents <- Contents,
       pending <- IF call.op = "put" THEN << call.key, call.value >> ELSE << >>
IsAMap == Map!Spec

\* A put always comes to an end, by storing, by the assertion that says that every
\* entry belongs to another key, or for want of memory.
PutEnds == (call.op = "put") ~> (call.op # "put" \/ status # "running")

\* The three ways in which a call can fail.  The assertion of put speaks the truth:
\* it fails only on a table with no room.  Only a key that is not in the table needs
\* memory, whose lack nobody notices (main.c:126 and 143): a put that replaces a
\* value cannot fail.  And get compares an unused entry's NULL key (main.c:160) in
\* one case only: the table holds a single key, another one than get is asked for,
\* at the home entry of both.
FailsOnlyForCause ==
  /\ status = "aborted" => count = ht_capacity
  /\ status = "no_memory" =>
       count < ht_capacity /\ \A index \in Used : keys[index] # call.key
  /\ status = "undefined" =>
       /\ count = 1
       /\ Used = {Home(call.key)} /\ keys[Home(call.key)] # call.key

\* hash_table_get never gives the value of another key, and misses a stored key
\* only where a collision has moved the key away from its home (main.c:161 ends
\* the probe there).
GetMissesOnlyMovedKeys ==
  [][ call.op = "get" /\ call' = NoCall =>
        \/ result' = Contents[call.key]
        \/ result' = NULL /\ keys[Home(call.key)] \notin {NULL, call.key} ]_tableVars
=============================================================================
