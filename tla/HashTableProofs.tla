-------------------------- MODULE HashTableProofs --------------------------
(***************************************************************************)
(* Proofs about the hash table for every capacity, every set of keys and   *)
(* every hash function.  The argument: the entries of a probe are counted  *)
(* from the home of its key (At), a probe in progress knows that all the   *)
(* entries behind it belong to other keys, and the count of the table is   *)
(* the number of its used entries.                                         *)
(***************************************************************************)
EXTENDS HashTable, FiniteSetTheorems, TLAPS

\* The entry at distance d of the home of a key.
At(key, d) == (Home(key) + d) % ht_capacity

PutCall == [ op : {"put"}, key : Keys, value : Values, i : Index, count : Index ]
GetCall == [ op : {"get"}, key : Keys, i : Index, count : Nat ]

TypeOK ==
  /\ hash \in [Keys -> Nat]
  /\ keys \in [Index -> Keys \cup {NULL}]
  /\ values \in [Index -> Values \cup {NULL}]
  /\ call \in {NoCall} \cup PutCall \cup GetCall
  /\ status \in {"running", "aborted", "undefined", "no_memory", "freed"}

KeysUnique ==
  \A i, j \in Index : keys[i] # NULL /\ keys[i] = keys[j] => i = j

\* Between the home of a stored key and its entry there is no unused entry.
NoGaps ==
  \A key \in Keys, d \in Index :
    keys[At(key, d)] = key => \A e \in 0 .. d - 1 : keys[At(key, e)] # NULL

\* A put stands at distance count of the home of its key, and the entries it has
\* left behind belong to other keys.
PutKnows ==
  call.op = "put" =>
    /\ call.i = At(call.key, call.count)
    /\ \A e \in 0 .. call.count - 1 : keys[At(call.key, e)] \notin {NULL, call.key}

\* A get has found a key at home, and goes on from there only if that is the only
\* key of the table and another one.
GetKnows ==
  call.op = "get" =>
    /\ keys[Home(call.key)] # NULL
    /\ call.count = 0 => call.i = Home(call.key)
    /\ call.count # 0 => count = 1 /\ keys[Home(call.key)] # call.key

\* A call that has failed stands where it failed.
FailedAt ==
  /\ status = "aborted" =>
       /\ call.op = "put" /\ call.count + 1 = ht_capacity
       /\ keys[call.i] # NULL
  /\ status = "no_memory" => call.op = "put" /\ keys[call.i] = NULL
  /\ status = "undefined" => call.op = "get" /\ call.count # 0

CountsUsed == count = Cardinality(Used)

TableInv ==
  /\ TypeOK
  /\ KeysUnique
  /\ NoGaps
  /\ PutKnows
  /\ GetKnows
  /\ FailedAt
  /\ CountsUsed

-----------------------------------------------------------------------------
\* Indices wrap around once: a sum of two indices exceeds the capacity at most once.
LEMMA WrapOnce ==
  ASSUME NEW n \in Nat \ {0}, NEW a \in Nat
  PROVE  /\ a < n => a % n = a
         /\ n <= a /\ a < n + n => a % n = a - n
         /\ a % n \in 0 .. n - 1
OBVIOUS

\* The home of a key and every entry at a distance of it are entries of the array.
LEMMA AtIs ==
  ASSUME hash \in [Keys -> Nat], NEW key \in Keys, NEW d \in Index
  PROVE  /\ Home(key) \in Index
         /\ At(key, d) \in Index
         /\ At(key, d) = IF Home(key) + d < ht_capacity THEN Home(key) + d
                         ELSE Home(key) + d - ht_capacity
<1>1. ht_capacity \in Nat \ {0}
  BY HashTableAssumption
<1>2. Home(key) \in Index
  BY <1>1, WrapOnce DEF Home, Index
<1>3. Home(key) + d \in Nat /\ Home(key) + d < ht_capacity + ht_capacity
  BY <1>1, <1>2 DEF Index
<1> DEFINE sum == Home(key) + d
<1>4. /\ sum % ht_capacity \in 0 .. ht_capacity - 1
      /\ sum < ht_capacity => sum % ht_capacity = sum
      /\ ht_capacity <= sum /\ sum < ht_capacity + ht_capacity => sum % ht_capacity = sum - ht_capacity
  <2> HIDE DEF sum
  <2>1. sum \in Nat
    BY <1>3 DEF sum
  <2>2. QED
    BY <1>1, <2>1, WrapOnce
<1>5. At(key, d) = sum % ht_capacity
  BY DEF At
<1> HIDE DEF sum
<1>6. sum = Home(key) + d
  BY DEF sum
<1> DEFINE rest == sum % ht_capacity
<1>7. /\ At(key, d) = rest
      /\ rest \in 0 .. ht_capacity - 1
      /\ sum < ht_capacity => rest = sum
      /\ ht_capacity <= sum /\ sum < ht_capacity + ht_capacity => rest = sum - ht_capacity
  BY <1>4, <1>5
<1> HIDE DEF rest
<1>8. QED
  BY <1>1, <1>2, <1>3, <1>6, <1>7 DEF Index

\* The home is at distance 0, and one step of the probe adds one to the distance.
LEMMA AtSteps ==
  ASSUME hash \in [Keys -> Nat], NEW key \in Keys
  PROVE  /\ 0 \in Index
         /\ At(key, 0) = Home(key)
         /\ \A d \in Index : d + 1 < ht_capacity =>
              /\ d + 1 \in Index
              /\ Following(At(key, d)) = At(key, d + 1)
         /\ \A index \in Index : Following(index) \in Index
<1>1. ht_capacity \in Nat \ {0}
  BY HashTableAssumption
<1>2. 0 \in Index /\ At(key, 0) = Home(key)
  BY <1>1, AtIs DEF Index
<1>3. ASSUME NEW index \in Index
      PROVE  /\ Following(index) \in Index
             /\ Following(index) = IF index + 1 < ht_capacity THEN index + 1 ELSE 0
  <2>1. index + 1 \in Nat /\ index + 1 <= ht_capacity
    BY <1>1 DEF Index
  <2>2. CASE index + 1 < ht_capacity
    BY <1>1, <2>1, <2>2, WrapOnce DEF Following, Index
  <2>3. CASE index + 1 = ht_capacity
    <3>1. ht_capacity % ht_capacity = 0
      BY <1>1, WrapOnce
    <3>2. Following(index) = 0
      BY <2>3, <3>1 DEF Following
    <3>3. QED
      BY <1>1, <1>2, <2>3, <3>2
  <2>4. QED
    BY <1>1, <2>1, <2>2, <2>3
<1>4. ASSUME NEW d \in Index, d + 1 < ht_capacity
      PROVE  /\ d + 1 \in Index
             /\ Following(At(key, d)) = At(key, d + 1)
  <2>1. d + 1 \in Index
    BY <1>1, <1>4 DEF Index
  <2>2. Home(key) \in Index
    BY AtIs
  <2>3. At(key, d) = IF Home(key) + d < ht_capacity THEN Home(key) + d
                     ELSE Home(key) + d - ht_capacity
    BY AtIs
  <2>4. At(key, d + 1) = IF Home(key) + d + 1 < ht_capacity THEN Home(key) + d + 1
                         ELSE Home(key) + d + 1 - ht_capacity
    <3>1. At(key, d + 1) = IF Home(key) + (d + 1) < ht_capacity THEN Home(key) + (d + 1)
                           ELSE Home(key) + (d + 1) - ht_capacity
      BY <2>1, AtIs
    <3>2. QED
      BY <1>1, <2>1, <2>2, <3>1 DEF Index
  <2>5. At(key, d) \in Index
    BY AtIs
  <2>6. Following(At(key, d)) = IF At(key, d) + 1 < ht_capacity THEN At(key, d) + 1 ELSE 0
    BY <2>5, <1>3
  <2>7. QED
    BY <1>1, <1>4, <2>1, <2>2, <2>3, <2>4, <2>6 DEF Index
<1>5. QED
  BY <1>2, <1>3, <1>4

\* Every entry is at exactly one distance below the ht_capacity.
LEMMA AtOnce ==
  ASSUME hash \in [Keys -> Nat], NEW key \in Keys
  PROVE  /\ \A d, e \in Index : At(key, d) = At(key, e) => d = e
         /\ \A index \in Index : \E d \in Index : At(key, d) = index
<1>1. ht_capacity \in Nat \ {0}
  BY HashTableAssumption
<1>2. ASSUME NEW d \in Index, NEW e \in Index, At(key, d) = At(key, e)
      PROVE  d = e
  <2>1. Home(key) \in Index
    BY AtIs
  <2>2. At(key, d) = IF Home(key) + d < ht_capacity THEN Home(key) + d
                     ELSE Home(key) + d - ht_capacity
    BY AtIs
  <2>3. At(key, e) = IF Home(key) + e < ht_capacity THEN Home(key) + e
                     ELSE Home(key) + e - ht_capacity
    BY AtIs
  <2>4. /\ Home(key) \in Int /\ d \in Int /\ e \in Int /\ ht_capacity \in Int
        /\ 0 <= d /\ d < ht_capacity /\ 0 <= e /\ e < ht_capacity
    BY <1>1, <2>1 DEF Index
  <2>5. \/ Home(key) + d = Home(key) + e
        \/ Home(key) + d = Home(key) + e - ht_capacity
        \/ Home(key) + d - ht_capacity = Home(key) + e
        \/ Home(key) + d - ht_capacity = Home(key) + e - ht_capacity
    BY <1>2, <2>2, <2>3
  <2>6. QED
    BY <2>4, <2>5
<1>3. ASSUME NEW index \in Index
      PROVE  \E d \in Index : At(key, d) = index
  <2> DEFINE dist == IF index < Home(key) THEN index - Home(key) + ht_capacity
                     ELSE index - Home(key)
  <2>1. Home(key) \in Index
    BY <1>1, WrapOnce DEF Home, Index
  <2>2. dist \in Index
    BY <1>1, <2>1 DEF Index
  <2>3. At(key, dist) = IF Home(key) + dist < ht_capacity THEN Home(key) + dist
                        ELSE Home(key) + dist - ht_capacity
    BY <2>2, AtIs
  <2>4. At(key, dist) = index
    BY <1>1, <2>1, <2>2, <2>3 DEF Index
  <2>5. QED
    BY <2>2, <2>4
<1>4. QED
  BY <1>2, <1>3

-----------------------------------------------------------------------------
\* What a call in progress consists of.
LEMMA CallShape ==
  ASSUME TypeOK
  PROVE  /\ call.op = "put" => call \in PutCall
         /\ call.op = "get" => call \in GetCall
         /\ call = NoCall => call.op = "none"
BY DEF TypeOK, PutCall, GetCall, NoCall

\* The places of the entries depend on the hash function alone, which never changes.
LEMMA PlacesStay ==
  ASSUME hash' = hash
  PROVE  /\ \A key : Home(key)' = Home(key)
         /\ \A key, d : At(key, d)' = At(key, d)
BY DEF Home, At

\* The used entries are finitely many.
LEMMA UsedFinite ==
  /\ IsFiniteSet(Index) /\ Cardinality(Index) = ht_capacity
  /\ IsFiniteSet(Used) /\ Used \subseteq Index
<1>1. IsFiniteSet(Index) /\ Cardinality(Index) = ht_capacity
  BY HashTableAssumption, FS_Interval DEF Index
<1>2. Used \subseteq Index
  BY DEF Used
<1>3. QED
  BY <1>1, <1>2, FS_Subset

\* The invariant holds of the table that hash_table_init makes.
LEMMA InitTable == TableInit => TableInv
<1> SUFFICES ASSUME TableInit PROVE TableInv
  OBVIOUS
<1>1. TypeOK
  BY HashTableAssumption DEF TableInit, TypeOK, NoCall
<1>2. \A index \in Index : keys[index] = NULL
  BY DEF TableInit
<1>3. KeysUnique
  BY <1>2 DEF KeysUnique
<1>4. NoGaps
  <2>1. \A key \in Keys, d \in Index : At(key, d) \in Index
    BY <1>1, AtIs DEF TypeOK
  <2>2. QED
    BY <1>2, <2>1, HashTableAssumption DEF NoGaps
<1>5. PutKnows /\ GetKnows /\ FailedAt
  BY DEF TableInit, PutKnows, GetKnows, FailedAt, NoCall
<1>6. CountsUsed
  <2>1. Used = {}
    BY <1>2 DEF Used
  <2>2. QED
    BY <2>1, FS_EmptySet DEF CountsUsed, TableInit
<1>7. QED
  BY <1>1, <1>3, <1>4, <1>5, <1>6 DEF TableInv

\* A step that leaves the entries alone keeps what the invariant says of them.
LEMMA TableStays ==
  ASSUME TableInv, UNCHANGED << hash, table >>
  PROVE  KeysUnique' /\ NoGaps' /\ CountsUsed'
<1>1. hash' = hash /\ keys' = keys /\ count' = count
  BY DEF table
<1>2. KeysUnique'
  BY <1>1 DEF TableInv, KeysUnique
<1>3. NoGaps'
  BY <1>1, PlacesStay DEF TableInv, NoGaps
<1>4. CountsUsed'
  BY <1>1 DEF TableInv, CountsUsed, Used
<1>5. QED
  BY <1>2, <1>3, <1>4

\* A call of hash_table_put begins at the home of its key.
LEMMA PutBegins ==
  ASSUME TableInv, NEW key \in Keys, NEW value \in Values, hash_table_put(key, value)
  PROVE  TableInv'
<1> USE DEF hash_table_put
<1>1. hash' = hash /\ keys' = keys /\ UNCHANGED << hash, table >>
  BY DEF table
<1>2. 0 \in Index /\ Home(key) \in Index /\ At(key, 0) = Home(key)
  BY AtIs, AtSteps DEF TableInv, TypeOK
<1>3. /\ call' \in PutCall
      /\ call'.op = "put" /\ call'.key = key /\ call'.i = Home(key) /\ call'.count = 0
  BY <1>2 DEF PutCall
<1>4. TypeOK'
  BY <1>1, <1>3 DEF TableInv, TypeOK, table
<1>5. KeysUnique' /\ NoGaps' /\ CountsUsed'
  BY <1>1, TableStays
<1>6. PutKnows'
  BY <1>1, <1>2, <1>3, PlacesStay DEF PutKnows
<1>7. GetKnows'
  BY <1>3 DEF GetKnows
<1>8. FailedAt'
  BY DEF FailedAt
<1>9. QED
  BY <1>4, <1>5, <1>6, <1>7, <1>8 DEF TableInv

\* hash_table_put goes on to the next entry, or its assertion fails.
LEMMA PutProbesKeeps ==
  ASSUME TableInv, PutProbes
  PROVE  TableInv'
<1> USE DEF PutProbes
<1>1. hash' = hash /\ keys' = keys /\ UNCHANGED << hash, table >> /\ ht_capacity \in Nat \ {0}
  BY HashTableAssumption DEF table
<1>2. /\ call \in PutCall /\ call.key \in Keys /\ call.count \in Index
      /\ call.i = At(call.key, call.count)
      /\ \A e \in 0 .. call.count - 1 : keys[At(call.key, e)] \notin {NULL, call.key}
  BY CallShape DEF TableInv, PutCall, PutKnows
<1>3. KeysUnique' /\ NoGaps' /\ CountsUsed'
  BY <1>1, TableStays
<1>4. CASE call.count + 1 < ht_capacity
  <2>1. /\ call' = [ call EXCEPT !.count = @ + 1, !.i = Following(@) ]
        /\ UNCHANGED << hash, table, result, status >>
    BY <1>1, <1>2, <1>4 DEF Index
  <2>2. /\ call.count + 1 \in Index
        /\ Following(call.i) = At(call.key, call.count + 1)
        /\ Following(call.i) \in Index
    BY <1>2, <1>4, AtSteps DEF TableInv, TypeOK, PutCall
  <2>3. /\ call' \in PutCall /\ call'.op = "put" /\ call'.key = call.key
        /\ call'.count = call.count + 1 /\ call'.i = Following(call.i)
    BY <1>2, <2>1, <2>2 DEF PutCall
  <2>4. TypeOK'
    BY <1>1, <2>1, <2>3 DEF TableInv, TypeOK, table
  <2>5. PutKnows'
    <3>1. \A e \in 0 .. call.count : keys[At(call.key, e)] \notin {NULL, call.key}
      BY <1>2 DEF Index
    <3>2. call'.count - 1 = call.count
      BY <1>2, <2>3 DEF Index
    <3>3. call'.i = At(call.key, call.count)'
      BY <1>1, <2>2, <2>3, PlacesStay
    <3>4. \A e \in 0 .. call'.count - 1 : keys'[At(call.key, e)'] \notin {NULL, call'.key}
      BY <1>1, <2>3, <3>1, <3>2, PlacesStay
    <3>5. QED
      BY <3>3, <3>4 DEF PutKnows
  <2>6. GetKnows' /\ FailedAt'
    BY <2>1, <2>3 DEF GetKnows, FailedAt
  <2>7. QED
    BY <1>3, <2>4, <2>5, <2>6 DEF TableInv
<1>5. CASE call.count + 1 >= ht_capacity
  <2>1. status' = "aborted" /\ UNCHANGED << hash, table, call, result >>
    BY <1>1, <1>2, <1>5 DEF Index
  <2>2. call.count + 1 = ht_capacity
    BY <1>1, <1>2, <1>5 DEF Index
  <2>3. TypeOK'
    BY <2>1 DEF TableInv, TypeOK, table
  <2>4. PutKnows' /\ GetKnows'
    BY <1>1, <1>2, <2>1, PlacesStay DEF TableInv, PutKnows, GetKnows, table
  <2>5. FailedAt'
    BY <1>1, <2>1, <2>2 DEF FailedAt
  <2>6. QED
    BY <1>3, <2>3, <2>4, <2>5 DEF TableInv
<1>6. QED
  BY <1>1, <1>2, <1>4, <1>5 DEF Index

\* The key of a put that has come to an unused entry, or to its own, is nowhere else.
LEMMA PutFindsThePlace ==
  ASSUME TableInv, call.op = "put", keys[call.i] \in {NULL, call.key}
  PROVE  \A j \in Index : keys[j] = call.key => j = call.i
<1>1. /\ call.key \in Keys /\ call.count \in Index /\ call.i \in Index
      /\ call.i = At(call.key, call.count)
      /\ \A e \in 0 .. call.count - 1 : keys[At(call.key, e)] \notin {NULL, call.key}
  BY CallShape DEF TableInv, PutCall, PutKnows
<1> SUFFICES ASSUME NEW j \in Index, keys[j] = call.key
             PROVE  j = call.i
  OBVIOUS
<1>2. CASE keys[call.i] = call.key
  BY <1>1, <1>2, HashTableAssumption DEF TableInv, KeysUnique
<1>3. CASE keys[call.i] = NULL
  <2>1. PICK d \in Index : At(call.key, d) = j
    BY <1>1, AtOnce DEF TableInv, TypeOK
  <2>2. d \in Int /\ call.count \in Int /\ 0 <= d /\ 0 <= call.count
    BY <1>1, HashTableAssumption DEF Index
  <2>3. CASE d < call.count
    BY <1>1, <2>1, <2>2, <2>3
  <2>4. CASE d = call.count
    BY <1>1, <2>1, <2>4
  <2>5. CASE d > call.count
    <3>1. call.count \in 0 .. d - 1
      BY <2>2, <2>5
    <3>2. QED
      BY <1>1, <1>3, <2>1, <3>1 DEF TableInv, NoGaps
  <2>6. QED
    BY <2>2, <2>3, <2>4, <2>5
<1>4. QED
  BY <1>2, <1>3

\* hash_table_put stores its key and its value in the entry it has come to.
LEMMA PutStoresKeeps ==
  ASSUME TableInv, PutStores
  PROVE  TableInv'
<1>1. /\ call \in PutCall /\ call.key \in Keys /\ call.value \in Values
      /\ call.count \in Index /\ call.i \in Index
      /\ call.i = At(call.key, call.count)
      /\ \A e \in 0 .. call.count - 1 : keys[At(call.key, e)] \notin {NULL, call.key}
  BY CallShape DEF TableInv, PutCall, PutKnows, PutStores
<1>2. /\ keys' = [ keys EXCEPT ![call.i] = call.key ]
      /\ values' = [ values EXCEPT ![call.i] = call.value ]
      /\ count' = IF keys[call.i] = NULL THEN count + 1 ELSE count
      /\ call' = NoCall
      /\ hash' = hash /\ result' = result /\ status' = status
      /\ status = "running"
  BY DEF PutStores, Stores
<1>3. TypeOK /\ keys \in [Index -> Keys \cup {NULL}] /\ call.key # NULL
  BY <1>1, HashTableAssumption DEF TableInv, TypeOK
<1>4. \A j \in Index : keys[j] # NULL => keys'[j] # NULL
  BY <1>1, <1>2, <1>3
<1>5. TypeOK'
  BY <1>1, <1>2, <1>3 DEF TypeOK
<1>6. KeysUnique'
  BY <1>1, <1>2, <1>3, PutFindsThePlace DEF TableInv, KeysUnique, PutStores
<1>7. NoGaps'
  <2> SUFFICES ASSUME NEW key \in Keys, NEW d \in Index, keys'[At(key, d)] = key,
                      NEW e \in 0 .. d - 1
               PROVE  keys'[At(key, e)] # NULL
    BY <1>2, PlacesStay DEF NoGaps
  <2>1. e \in Index
    BY HashTableAssumption DEF Index
  <2>2. At(key, d) \in Index /\ At(key, e) \in Index
    BY <1>3, <2>1, AtIs DEF TypeOK
  <2>3. CASE At(key, d) = call.i
    <3>1. key = call.key
      BY <1>1, <1>2, <1>3, <2>3
    <3>2. d = call.count
      BY <1>1, <1>3, <2>3, <3>1, AtOnce DEF TypeOK
    <3>3. QED
      BY <1>1, <1>4, <2>2, <3>1, <3>2
  <2>4. CASE At(key, d) # call.i
    <3>1. keys[At(key, d)] = key
      BY <1>2, <1>3, <2>2, <2>4
    <3>2. QED
      BY <1>4, <2>2, <3>1 DEF TableInv, NoGaps
  <2>5. QED
    BY <2>3, <2>4
<1>8. CountsUsed'
  <2>1. Used' = Used \cup {call.i}
    BY <1>1, <1>2, <1>3 DEF Used
  <2>2. call.i \in Used <=> keys[call.i] # NULL
    BY <1>1 DEF Used
  <2>3. Cardinality(Used') = IF call.i \in Used THEN Cardinality(Used)
                             ELSE Cardinality(Used) + 1
    BY <2>1, UsedFinite, FS_AddElement
  <2>4. QED
    BY <1>2, <2>2, <2>3 DEF TableInv, CountsUsed
<1>9. PutKnows' /\ GetKnows' /\ FailedAt'
  BY <1>2 DEF PutKnows, GetKnows, FailedAt, NoCall
<1>10. QED
  BY <1>5, <1>6, <1>7, <1>8, <1>9 DEF TableInv

\* hash_table_put finds no memory for its key.
LEMMA PutLacksMemoryKeeps ==
  ASSUME TableInv, PutLacksMemory
  PROVE  TableInv'
<1>1. /\ UNCHANGED << hash, table >> /\ hash' = hash /\ keys' = keys /\ values' = values
      /\ count' = count /\ call' = call /\ status' = "no_memory"
      /\ call.op = "put" /\ keys[call.i] = NULL
  BY DEF PutLacksMemory, table
<1>2. TypeOK'
  BY <1>1 DEF TableInv, TypeOK
<1>3. KeysUnique' /\ NoGaps' /\ CountsUsed'
  BY <1>1, TableStays
<1>4. PutKnows'
  BY <1>1, PlacesStay DEF TableInv, PutKnows
<1>5. GetKnows' /\ FailedAt'
  BY <1>1 DEF GetKnows, FailedAt
<1>6. QED
  BY <1>2, <1>3, <1>4, <1>5 DEF TableInv

\* A get that ends leaves the table as it was.
LEMMA ReturnsKeeps ==
  ASSUME TableInv, status = "running", NEW value, Returns(value)
  PROVE  TableInv'
<1>1. /\ call' = NoCall /\ UNCHANGED << hash, table, status >>
      /\ hash' = hash /\ keys' = keys /\ values' = values
  BY DEF Returns, table
<1>2. TypeOK'
  BY <1>1 DEF TableInv, TypeOK
<1>3. KeysUnique' /\ NoGaps' /\ CountsUsed'
  BY <1>1, TableStays
<1>4. PutKnows' /\ GetKnows' /\ FailedAt'
  BY <1>1 DEF PutKnows, GetKnows, FailedAt, NoCall
<1>5. QED
  BY <1>2, <1>3, <1>4 DEF TableInv

\* A call of hash_table_get returns at once or begins at a used home entry.
LEMMA GetBegins ==
  ASSUME TableInv, NEW key \in Keys, hash_table_get(key)
  PROVE  TableInv'
<1>1. CASE keys[Home(key)] = NULL /\ Returns(NULL)
  BY <1>1, ReturnsKeeps DEF hash_table_get
<1>2. CASE /\ keys[Home(key)] # NULL
           /\ call' = [ op |-> "get", key |-> key, i |-> Home(key), count |-> 0 ]
           /\ UNCHANGED << hash, table, result, status >>
  <2>1. hash' = hash /\ keys' = keys /\ UNCHANGED << hash, table >>
    BY <1>2 DEF table
  <2>2. 0 \in Index /\ Home(key) \in Index
    BY AtIs, AtSteps DEF TableInv, TypeOK
  <2>3. /\ call' \in GetCall
        /\ call'.op = "get" /\ call'.key = key /\ call'.i = Home(key) /\ call'.count = 0
    BY <1>2, <2>2 DEF GetCall
  <2>4. TypeOK'
    BY <1>2, <2>1, <2>3 DEF TableInv, TypeOK, table
  <2>5. KeysUnique' /\ NoGaps' /\ CountsUsed'
    BY <2>1, TableStays
  <2>6. GetKnows'
    BY <1>2, <2>1, <2>3, PlacesStay DEF GetKnows
  <2>7. PutKnows' /\ FailedAt'
    BY <1>2, <2>3 DEF PutKnows, FailedAt, hash_table_get
  <2>8. QED
    BY <2>4, <2>5, <2>6, <2>7 DEF TableInv
<1>3. QED
  BY <1>1, <1>2 DEF hash_table_get

\* A get that goes on after the home entry does so in a table of one key.
LEMMA SingleKey ==
  ASSUME TableInv, call.op = "get", count <= 1
  PROVE  count = 1 /\ Used = {Home(call.key)}
<1>1. Home(call.key) \in Used
  BY AtSteps, AtIs, CallShape DEF TableInv, TypeOK, GetCall, GetKnows, Used
<1>2. IsFiniteSet(Used) /\ count = Cardinality(Used)
  BY UsedFinite DEF TableInv, CountsUsed
<1>3. count \in Nat /\ count # 0
  BY <1>1, <1>2, FS_CardinalityType, FS_EmptySet
<1>4. count = 1
  BY <1>3
<1>5. PICK x : Used = {x}
  BY <1>2, <1>4, FS_Singleton
<1>6. QED
  BY <1>1, <1>4, <1>5

\* hash_table_get gives up, or goes on to the next entry.
LEMMA GetProbesKeeps ==
  ASSUME TableInv, GetProbes
  PROVE  TableInv'
<1> USE DEF GetProbes
<1>1. CASE Returns(NULL)
  BY <1>1, ReturnsKeeps
<1>2. CASE /\ call.count + 1 >= count
           /\ call' = [ call EXCEPT !.count = @ + 1, !.i = Following(@) ]
           /\ UNCHANGED << hash, table, result, status >>
  <2>1. hash' = hash /\ keys' = keys /\ count' = count /\ UNCHANGED << hash, table >>
    BY <1>2 DEF table
  <2>2. /\ call \in GetCall /\ call.key \in Keys /\ call.count \in Nat
        /\ Following(call.i) \in Index
    BY CallShape, AtSteps DEF TableInv, TypeOK, GetCall
  <2> DEFINE further == call.count + 1
             next == Following(call.i)
  <2>2a. further \in Nat /\ next \in Index
    BY <2>2
  <2>2b. call' = [ call EXCEPT !.count = further, !.i = next ]
    BY <1>2, <2>2 DEF GetCall
  <2>3. /\ call' \in GetCall /\ call'.op = "get" /\ call'.key = call.key
        /\ call'.count = call.count + 1
    <3>1. call'.count = further
      BY <2>2, <2>2b DEF GetCall
    <3> HIDE DEF further, next
    <3>2. /\ call' \in GetCall /\ call'.op = "get" /\ call'.key = call.key
      BY <2>2, <2>2a, <2>2b DEF GetCall
    <3>3. QED
      BY <3>1, <3>2 DEF further
  <2>4. TypeOK'
    BY <1>2, <2>1, <2>3 DEF TableInv, TypeOK, table
  <2>5. KeysUnique' /\ NoGaps' /\ CountsUsed'
    BY <2>1, TableStays
  <2>6. count = 1 /\ keys[Home(call.key)] # call.key
    <3>1. CASE call.count = 0
      <4>1. count \in Nat /\ count <= 1
        BY <1>2, <3>1, UsedFinite, FS_CardinalityType DEF TableInv, CountsUsed
      <4>2. QED
        BY <3>1, <4>1, SingleKey DEF TableInv, GetKnows
    <3>2. CASE call.count # 0
      BY <3>2 DEF TableInv, GetKnows
    <3>3. QED
      BY <3>1, <3>2
  <2>7. GetKnows'
    <3>1. call'.count # 0 /\ keys[Home(call.key)] # NULL
      BY <2>2, <2>3 DEF TableInv, GetKnows
    <3>2. Home(call.key)' = Home(call.key)
      BY <2>1, <2>3, PlacesStay
    <3>3. QED
      BY <2>1, <2>3, <2>6, <3>1, <3>2 DEF GetKnows
  <2>8. PutKnows' /\ FailedAt'
    BY <1>2, <2>3 DEF PutKnows, FailedAt
  <2>9. QED
    BY <2>4, <2>5, <2>7, <2>8 DEF TableInv
<1>3. QED
  BY <1>1, <1>2

\* hash_table_get compares the key of an unused entry.
LEMMA GetMeetsUnusedKeeps ==
  ASSUME TableInv, GetMeetsUnused
  PROVE  TableInv'
<1> USE DEF GetMeetsUnused
<1>1. hash' = hash /\ keys' = keys /\ call' = call /\ UNCHANGED << hash, table >>
  BY DEF table
<1>2. TypeOK' /\ PutKnows'
  BY <1>1 DEF TableInv, TypeOK, PutKnows, table
<1>3. KeysUnique' /\ NoGaps' /\ CountsUsed'
  BY <1>1, TableStays
<1>4. GetKnows'
  BY <1>1, PlacesStay DEF TableInv, GetKnows, table
<1>5. FailedAt'
  BY <1>1 DEF TableInv, GetKnows, FailedAt
<1>6. QED
  BY <1>2, <1>3, <1>4, <1>5 DEF TableInv

\* hash_table_free leaves no entry.
LEMMA FreeKeeps ==
  ASSUME TableInv, hash_table_free
  PROVE  TableInv'
<1> USE DEF hash_table_free
<1>1. \A index \in Index : keys'[index] = NULL
  OBVIOUS
<1>2. TypeOK'
  BY DEF TableInv, TypeOK
<1>3. KeysUnique'
  BY <1>1 DEF KeysUnique
<1>4. NoGaps'
  <2>1. \A key \in Keys, d \in Index : At(key, d)' \in Index
    BY PlacesStay, AtIs DEF TableInv, TypeOK
  <2>2. QED
    BY <1>1, <2>1, HashTableAssumption DEF NoGaps
<1>5. PutKnows' /\ GetKnows' /\ FailedAt'
  BY DEF PutKnows, GetKnows, FailedAt, NoCall
<1>6. CountsUsed'
  <2>1. Used' = {}
    BY <1>1 DEF Used
  <2>2. QED
    BY <2>1, FS_EmptySet DEF CountsUsed
<1>7. QED
  BY <1>2, <1>3, <1>4, <1>5, <1>6 DEF TableInv

\* Every step of the table keeps the invariant.
LEMMA NextTable == TableInv /\ [TableNext]_tableVars => TableInv'
<1> SUFFICES ASSUME TableInv, [TableNext]_tableVars PROVE TableInv'
  OBVIOUS
<1>1. ASSUME NEW key \in Keys, NEW value \in Values, hash_table_put(key, value)
      PROVE  TableInv'
  BY <1>1, PutBegins
<1>2. ASSUME NEW key \in Keys, hash_table_get(key)
      PROVE  TableInv'
  BY <1>2, GetBegins
<1>3. CASE PutProbes
  BY <1>3, PutProbesKeeps
<1>4. CASE PutStores
  BY <1>4, PutStoresKeeps
<1>5. CASE GetProbes
  BY <1>5, GetProbesKeeps
<1>6. CASE GetMeetsUnused
  BY <1>6, GetMeetsUnusedKeeps
<1>7. CASE GetReturns
  BY <1>7, ReturnsKeeps DEF GetReturns
<1>8. CASE hash_table_free
  BY <1>8, FreeKeeps
<1>9. CASE UNCHANGED tableVars
  BY <1>9 DEF tableVars, table, TableInv, TypeOK, KeysUnique, NoGaps, PutKnows, GetKnows,
              FailedAt, CountsUsed, Used, At, Home
<1>10. CASE PutLacksMemory
  BY <1>10, PutLacksMemoryKeeps
<1>11. QED
  BY <1>1, <1>2, <1>3, <1>4, <1>5, <1>6, <1>7, <1>8, <1>9, <1>10 DEF TableNext, Working

\* The inductive invariant holds throughout.
LEMMA TableInvariant == TableSpec => []TableInv
BY InitTable, NextTable, PTL DEF TableSpec

-----------------------------------------------------------------------------
\* No sequence of puts breaks a probe chain or stores a key twice (ChainsUnbroken),
\* whatever the ht_capacity and the hash function.
THEOREM ChainsStayUnbroken == TableSpec => []ChainsUnbroken
<1>1. TableInv => ChainsUnbroken
  <2> SUFFICES ASSUME TableInv, NEW index \in Used
               PROVE  /\ \A other \in Used : keys[other] = keys[index] => other = index
                      /\ ProbedBefore(keys[index], index) \subseteq Used
    BY DEF ChainsUnbroken
  <2>1. index \in Index /\ keys[index] \in Keys
    BY DEF Used, TableInv, TypeOK
  <2>2. \A other \in Used : keys[other] = keys[index] => other = index
    BY <2>1 DEF Used, TableInv, KeysUnique
  <2>3. ASSUME NEW d \in Index, \A e \in 0 .. d : At(keys[index], e) # index
        PROVE  At(keys[index], d) \in Used
    <3>1. PICK here \in Index : At(keys[index], here) = index
      BY <2>1, AtOnce DEF TableInv, TypeOK
    <3>2. d \in 0 .. here - 1
      BY <2>3, <3>1, HashTableAssumption DEF Index
    <3>3. keys[At(keys[index], d)] # NULL
      BY <2>1, <3>1, <3>2 DEF TableInv, NoGaps
    <3>4. QED
      BY <2>1, <3>3, AtIs DEF Used, TableInv, TypeOK
  <2>4. ProbedBefore(keys[index], index) \subseteq Used
    BY <2>3 DEF ProbedBefore, At
  <2>5. QED
    BY <2>2, <2>4
<1>2. QED
  BY <1>1, TableInvariant, PTL

\* The assertion of hash_table_put fails only in a full table, memory can be missing
\* only for a key that is not in the table, and hash_table_get compares an unused
\* entry only in a table of one key (FailsOnlyForCause).
THEOREM CallsFailOnlyForCause == TableSpec => []FailsOnlyForCause
<1>1. TableInv => FailsOnlyForCause
  <2> SUFFICES ASSUME TableInv PROVE FailsOnlyForCause
    OBVIOUS
  <2>1. ASSUME status = "aborted"
        PROVE  count = ht_capacity
    <3>1. /\ call.key \in Keys /\ call.count \in Index /\ call.count + 1 = ht_capacity
          /\ keys[At(call.key, call.count)] # NULL
          /\ \A e \in 0 .. call.count - 1 : keys[At(call.key, e)] # NULL
      BY <2>1, CallShape DEF TableInv, FailedAt, PutCall, PutKnows
    <3>2. \A d \in Index : keys[At(call.key, d)] # NULL
      BY <3>1, HashTableAssumption DEF Index
    <3>3. \A index \in Index : keys[index] # NULL
      <4> SUFFICES ASSUME NEW index \in Index PROVE keys[index] # NULL
        OBVIOUS
      <4>1. PICK d \in Index : At(call.key, d) = index
        BY <3>1, AtOnce DEF TableInv, TypeOK
      <4>2. QED
        BY <3>2, <4>1
    <3>4. Used = Index
      BY <3>3 DEF Used
    <3>5. QED
      BY <3>4, UsedFinite DEF TableInv, CountsUsed
  <2>2. ASSUME status = "undefined"
        PROVE  /\ count = 1
               /\ Used = {Home(call.key)} /\ keys[Home(call.key)] # call.key
    <3>1. call.op = "get" /\ count = 1 /\ keys[Home(call.key)] # call.key
      BY <2>2 DEF TableInv, FailedAt, GetKnows
    <3>2. QED
      BY <3>1, SingleKey
  <2>3. ASSUME status = "no_memory"
        PROVE  count < ht_capacity /\ \A index \in Used : keys[index] # call.key
    <3>1. call.op = "put" /\ keys[call.i] = NULL
      BY <2>3 DEF TableInv, FailedAt
    <3>2. call.key \in Keys /\ call.i \in Index /\ call.key # NULL
      BY <3>1, CallShape, HashTableAssumption DEF TableInv, PutCall
    <3>3. \A index \in Used : keys[index] # call.key
      BY <3>1, <3>2, PutFindsThePlace DEF Used
    <3>4. call.i \notin Used /\ Used # Index
      BY <3>1, <3>2 DEF Used
    <3>5. Cardinality(Used) <= Cardinality(Index) /\ Cardinality(Used) # Cardinality(Index)
          /\ Cardinality(Used) \in Nat
      BY <3>4, UsedFinite, FS_Subset, FS_CardinalityType
    <3>6. QED
      BY <3>3, <3>5, UsedFinite, HashTableAssumption DEF TableInv, CountsUsed
  <2>4. QED
    BY <2>1, <2>2, <2>3 DEF FailsOnlyForCause
<1>2. QED
  BY <1>1, TableInvariant, PTL

-----------------------------------------------------------------------------
\* A stored key is mapped to the value beside it, and every other key to NULL.
ContentsFits ==
  \A key \in Keys :
    /\ \A index \in Index : keys[index] = key => Contents[key] = values[index]
    /\ (\A index \in Index : keys[index] # key) => Contents[key] = NULL

\* Contents is the function that the entries describe.
LEMMA ContentsIs == TableInv => ContentsFits
<1> SUFFICES ASSUME TableInv, NEW key \in Keys
             PROVE  /\ \A index \in Index : keys[index] = key => Contents[key] = values[index]
                    /\ (\A index \in Index : keys[index] # key) => Contents[key] = NULL
  BY DEF ContentsFits
<1>1. Contents[key] = IF \E index \in Used : keys[index] = key
                      THEN values[CHOOSE index \in Used : keys[index] = key]
                      ELSE NULL
  BY DEF Contents
<1>2. ASSUME NEW index \in Index, keys[index] = key
      PROVE  Contents[key] = values[index]
  <2>1. index \in Used /\ keys[index] = key
    BY <1>2, HashTableAssumption DEF Used
  <2>2. \A other \in Used : keys[other] = key => other = index
    BY <2>1 DEF Used, TableInv, KeysUnique
  <2>3. (CHOOSE other \in Used : keys[other] = key) = index
    BY <2>1, <2>2
  <2>4. QED
    BY <1>1, <2>1, <2>3
<1>3. ASSUME \A index \in Index : keys[index] # key
      PROVE  Contents[key] = NULL
  BY <1>1, <1>3 DEF Used
<1>4. QED
  BY <1>2, <1>3

\* A get never gives the value of another key, and misses a stored key only if a
\* collision has moved it (GetMissesOnlyMovedKeys).
THEOREM GetMissesOnlyMoved == TableSpec => GetMissesOnlyMovedKeys
<1> DEFINE Right == call.op = "get" /\ call' = NoCall =>
                      \/ result' = Contents[call.key]
                      \/ result' = NULL /\ keys[Home(call.key)] \notin {NULL, call.key}
<1>1. TableInv /\ [TableNext]_tableVars => [Right]_tableVars
  <2> SUFFICES ASSUME TableInv, TableNext, call.op = "get", call' = NoCall
               PROVE  \/ result' = Contents[call.key]
                      \/ result' = NULL /\ keys[Home(call.key)] \notin {NULL, call.key}
    BY DEF tableVars
  <2>1. call # NoCall /\ call \in GetCall
    BY CallShape DEF TableInv, NoCall
  <2>2. CASE GetProbes
    <3>1. CASE call.count + 1 < count /\ Returns(NULL)
      <4>1. call.count = 0
        BY <2>1, <3>1 DEF TableInv, GetKnows, GetCall
      <4>2. QED
        BY <2>2, <3>1, <4>1 DEF GetProbes, Returns, TableInv, GetKnows
    <3>2. CASE call' = [ call EXCEPT !.count = @ + 1, !.i = Following(@) ]
      BY <2>1, <3>2 DEF GetCall, NoCall
    <3>3. QED
      BY <2>2, <3>1, <3>2 DEF GetProbes
  <2>3. CASE GetReturns
    BY <2>1, <2>3, ContentsIs DEF GetReturns, Returns, ContentsFits, GetCall
  <2>4. CASE GetMeetsUnused
    BY <2>1, <2>4 DEF GetMeetsUnused
  <2>5. QED
    BY <2>1, <2>2, <2>3, <2>4 DEF TableNext, Working, hash_table_put, hash_table_get,
                                  PutProbes, PutStores, PutLacksMemory, hash_table_free
<1>2. QED
  BY <1>1, TableInvariant, PTL DEF TableSpec, GetMissesOnlyMovedKeys

\* A put that stores changes the contents at its key, to its value, and nowhere else.
LEMMA StoresAsMap ==
  ASSUME TableInv, TableInv', PutStores
  PROVE  Contents' = [ Contents EXCEPT ![call.key] = call.value ]
<1>1. /\ call.key \in Keys /\ call.i \in Index
      /\ keys' = [ keys EXCEPT ![call.i] = call.key ]
      /\ values' = [ values EXCEPT ![call.i] = call.value ]
  BY CallShape DEF TableInv, PutCall, PutStores, Stores
<1>2. /\ keys \in [Index -> Keys \cup {NULL}] /\ values \in [Index -> Values \cup {NULL}]
      /\ NULL \notin Keys
  BY HashTableAssumption DEF TableInv, TypeOK
<1>3. ContentsFits
  BY ContentsIs
<1>4. ContentsFits'
  BY ContentsIs, PTL
<1>5. Contents'[call.key] = call.value
  <2>1. keys'[call.i] = call.key /\ values'[call.i] = call.value
    BY <1>1, <1>2
  <2>2. QED
    BY <1>1, <1>4, <2>1 DEF ContentsFits
<1>6. ASSUME NEW key \in Keys, key # call.key
      PROVE  Contents'[key] = Contents[key]
  <2>1. CASE \E index \in Index : keys[index] = key
    <3>1. PICK index \in Index : keys[index] = key
      BY <2>1
    <3>2. index # call.i
      BY <1>2, <1>6, <3>1 DEF PutStores
    <3>3. keys'[index] = key /\ values'[index] = values[index]
      BY <1>1, <1>2, <3>1, <3>2
    <3>4. QED
      BY <1>3, <1>4, <3>1, <3>3 DEF ContentsFits
  <2>2. CASE \A index \in Index : keys[index] # key
    <3>1. \A index \in Index : keys'[index] # key
      BY <1>1, <1>2, <1>6, <2>2
    <3>2. QED
      BY <1>3, <1>4, <2>2, <3>1 DEF ContentsFits
  <2>3. QED
    BY <2>1, <2>2
<1>7. /\ Contents = [ key \in Keys |-> Contents[key] ]
      /\ Contents' = [ key \in Keys |-> Contents'[key] ]
  BY DEF Contents
<1>8. QED
  BY <1>1, <1>5, <1>6, <1>7

\* The contents of a table without keys.
LEMMA EmptyContents ==
  ASSUME \A index \in Index : keys[index] = NULL
  PROVE  Contents = [ key \in Keys |-> NULL ]
BY HashTableAssumption DEF Contents, Used

\* The open-addressing table implements a map from keys to values (IsAMap).
THEOREM TableIsAMap == TableSpec => IsAMap
<1> DEFINE pending == IF call.op = "put" THEN << call.key, call.value >> ELSE << >>
<1>1. TableInit => Map!Init
  <2> SUFFICES ASSUME TableInit PROVE Map!Init
    OBVIOUS
  <2>1. Contents = [ key \in Keys |-> NULL ]
    BY EmptyContents DEF TableInit
  <2>2. pending = << >>
    BY DEF TableInit, NoCall
  <2>3. QED
    BY <2>1, <2>2 DEF Map!Init
<1>2. TableInv /\ TableInv' /\ [TableNext]_tableVars => [Map!Next]_<< Contents, pending >>
  <2> SUFFICES ASSUME TableInv, TableInv', [TableNext]_tableVars
               PROVE  Map!Next \/ UNCHANGED << Contents, pending >>
    OBVIOUS
  <2>1. table' = table => Contents' = Contents
    BY DEF Contents, Used, table
  <2>2. ASSUME NEW key \in Keys, NEW value \in Values, hash_table_put(key, value)
        PROVE  Map!Next
    <3>1. pending = << >> /\ pending' = << key, value >> /\ Contents' = Contents
      BY <2>1, <2>2 DEF hash_table_put, NoCall
    <3>2. QED
      BY <3>1 DEF Map!Next, Map!Begin
  <2>3. CASE PutProbes
    <3>1. call.op = "put" /\ call'.op = "put" /\ call'.key = call.key /\ call'.value = call.value
      BY <2>3, CallShape DEF PutProbes, TableInv, PutCall
    <3>2. QED
      BY <2>1, <2>3, <3>1 DEF PutProbes
  <2>4. CASE PutStores
    <3>1. /\ Contents' = [ Contents EXCEPT ![call.key] = call.value ]
          /\ pending = << call.key, call.value >> /\ pending' = << >>
      BY <2>4, StoresAsMap DEF PutStores, Stores, NoCall
    <3>2. QED
      BY <3>1 DEF Map!Next, Map!TakeEffect
  <2>5. ASSUME NEW key \in Keys, hash_table_get(key)
        PROVE  UNCHANGED << Contents, pending >>
    BY <2>1, <2>5 DEF hash_table_get, Returns, NoCall
  <2>6. CASE GetProbes \/ GetMeetsUnused \/ GetReturns
    <3>1. call.op = "get" /\ call'.op # "put" /\ table' = table
      <4>1. call.op = "get" /\ call \in GetCall /\ table' = table
        BY <2>6, CallShape DEF GetProbes, GetMeetsUnused, GetReturns, Returns, TableInv
      <4>2. \/ call' = NoCall
            \/ call' = call
            \/ call' = [ call EXCEPT !.count = @ + 1, !.i = Following(@) ]
        BY <2>6 DEF GetProbes, GetMeetsUnused, GetReturns, Returns
      <4>3. CASE call' = [ call EXCEPT !.count = @ + 1, !.i = Following(@) ]
        BY <4>1, <4>3 DEF GetCall
      <4>4. QED
        BY <4>1, <4>2, <4>3 DEF NoCall
    <3>2. QED
      BY <2>1, <3>1
  <2>7. CASE hash_table_free
    <3>1. pending = << >> /\ pending' = << >>
      BY <2>7 DEF hash_table_free, NoCall
    <3>2. Contents' = [ key \in Keys |-> NULL ]
      BY <2>7, HashTableAssumption DEF hash_table_free, Contents, Used
    <3>3. QED
      BY <3>1, <3>2 DEF Map!Next, Map!Clear
  <2>8. CASE UNCHANGED tableVars
    BY <2>1, <2>8 DEF tableVars
  <2>9. CASE PutLacksMemory
    BY <2>1, <2>9 DEF PutLacksMemory
  <2>10. QED
    BY <2>2, <2>3, <2>4, <2>5, <2>6, <2>7, <2>8, <2>9 DEF TableNext, Working
<1>3. QED
  BY <1>1, <1>2, TableInvariant, PTL DEF TableSpec, IsAMap, Map!Spec
=============================================================================
