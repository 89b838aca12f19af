----------------------------- MODULE AqlsProofs -----------------------------
(***************************************************************************)
(* Proofs about the AQLS lexer and parser: for a ring buffer of any        *)
(* capacity, texts of any length, any order of peeks and takes.            *)
(***************************************************************************)
EXTENDS AqlsLexerUse, AqlsParser, SequenceTheorems, WellFoundedInduction, TLAPS

-----------------------------------------------------------------------------
(* The ring buffer.  Slots are counted from the oldest token on; the slot   *)
(* for the next token is the one len places further.                        *)

RingInv ==
  /\ QueueTypeOK
  /\ queue.end = SlotOf(queue.len)
  /\ \A k \in 0 .. queue.len - 1 : queue.items[SlotOf(k)] \in Token

\* An index wraps around once.
LEMMA WrapOnce ==
  ASSUME NEW n \in Nat \ {0}, NEW a \in Nat
  PROVE  /\ a < n => a % n = a
         /\ n <= a /\ a < n + n => a % n = a - n
         /\ a % n \in 0 .. n - 1
OBVIOUS

Wrap(a) == IF a < capacity THEN a ELSE a - capacity

LEMMA WrapIs ==
  ASSUME NEW a \in 0 .. capacity + capacity - 1
  PROVE  a % capacity = Wrap(a) /\ Wrap(a) \in Slot
<1>1. capacity \in Nat \ {0} /\ a \in Nat /\ a < capacity + capacity  BY QueueAssumption
<1> DEFINE rest == a % capacity
<1>2. /\ a < capacity => rest = a
      /\ capacity <= a /\ a < capacity + capacity => rest = a - capacity
      /\ rest \in 0 .. capacity - 1
  BY <1>1, WrapOnce
<1> HIDE DEF rest
<1>3. rest = Wrap(a) /\ Wrap(a) \in Slot  BY <1>1, <1>2 DEF Wrap, Slot
<1> QED  BY <1>3 DEF rest

LEMMA WrapStep ==
  ASSUME NEW s \in Slot, NEW k \in 0 .. capacity - 1
  PROVE  Wrap(Wrap(s + 1) + k) = Wrap(s + (k + 1))
<1>1. capacity \in Nat \ {0} /\ s \in Int /\ k \in Int /\ s < capacity /\ 0 <= s
  BY QueueAssumption DEF Slot
<1>2. CASE s + 1 < capacity
  <2>1. Wrap(s + 1) = s + 1  BY <1>2 DEF Wrap
  <2>2. s + 1 + k = s + (k + 1)  BY <1>1
  <2> QED  BY <2>1, <2>2
<1>3. CASE s + 1 = capacity
  <2>1. Wrap(s + 1) = 0  BY <1>1, <1>3 DEF Wrap
  <2>2. k < capacity /\ s + (k + 1) = capacity + k /\ ~(capacity + k < capacity)
    BY <1>1, <1>3
  <2>3. Wrap(0 + k) = k  BY <1>1, <2>2 DEF Wrap
  <2>4. Wrap(s + (k + 1)) = k  BY <1>1, <2>2 DEF Wrap
  <2> QED  BY <2>1, <2>3, <2>4
<1> QED  BY <1>1, <1>2, <1>3

\* The fields of the queue, and what the operations do to them.
LEMMA QueueFields ==
  ASSUME QueueTypeOK
  PROVE  /\ queue.start \in Slot /\ queue.end \in Slot /\ queue.len \in 0 .. capacity
         /\ queue.items \in [Slot -> Token \cup {NoToken}]
         /\ capacity \in Nat \ {0}
         /\ \A k \in 0 .. queue.len : SlotOf(k) = Wrap(queue.start + k) /\ SlotOf(k) \in Slot
<1>1. /\ queue.start \in Slot /\ queue.end \in Slot /\ queue.len \in 0 .. capacity
      /\ queue.items \in [Slot -> Token \cup {NoToken}]
      /\ capacity \in Nat \ {0}
  BY QueueAssumption DEF QueueTypeOK
<1>2. ASSUME NEW k \in 0 .. queue.len
      PROVE  SlotOf(k) = Wrap(queue.start + k) /\ SlotOf(k) \in Slot
  <2>1. queue.start + k \in 0 .. capacity + capacity - 1  BY <1>1 DEF Slot
  <2> QED  BY <2>1, WrapIs DEF SlotOf
<1> QED  BY <1>1, <1>2

LEMMA PendingIs ==
  ASSUME RingInv
  PROVE  /\ Pending \in Seq(Token) /\ Len(Pending) = queue.len
         /\ \A k \in 1 .. queue.len : Pending[k] = queue.items[SlotOf(k - 1)]
<1>1. queue.len \in Nat  BY QueueFields DEF RingInv
<1>2. \A k \in 1 .. queue.len : k - 1 \in 0 .. queue.len - 1  BY <1>1
<1>3. \A k \in 1 .. queue.len : queue.items[SlotOf(k - 1)] \in Token  BY <1>2 DEF RingInv
<1> DEFINE n == queue.len
<1>4. /\ Pending \in [1 .. n -> Token] /\ n \in Nat
      /\ \A k \in 1 .. n : Pending[k] = queue.items[SlotOf(k - 1)]
  BY <1>1, <1>3 DEF Pending
<1> HIDE DEF n
<1>5. Pending \in Seq(Token) /\ Len(Pending) = n  BY <1>4
<1> QED  BY <1>4, <1>5 DEF n

\* An append puts the token behind the ones that are pending.
LEMMA AppendIsPut ==
  ASSUME RingInv, NEW item \in Token, aqls_token_queue_append(item)
  PROVE  /\ RingInv' /\ Fifo!Put(item)
         /\ queue'.len = queue.len + 1 /\ queue'.items[SlotOf(queue.len)] = item
         /\ queue'.start = queue.start
<1> DEFINE s == queue.start
           e == queue.end
           n == queue.len
           items == queue.items
<1>1. /\ s \in Slot /\ e \in Slot /\ n \in 0 .. capacity /\ n # capacity
      /\ items \in [Slot -> Token \cup {NoToken}] /\ capacity \in Nat \ {0}
      /\ e = Wrap(s + n)
      /\ \A k \in 0 .. n : SlotOf(k) = Wrap(s + k) /\ SlotOf(k) \in Slot
      /\ \A k \in 0 .. n - 1 : items[SlotOf(k)] \in Token
  BY QueueFields DEF RingInv, aqls_token_queue_append, aqls_token_queue_is_full
<1>a. /\ s \in 0 .. capacity - 1 /\ e \in 0 .. capacity - 1 /\ n \in 0 .. capacity - 1
      /\ capacity \in Nat \ {0} /\ e = IF s + n < capacity THEN s + n ELSE s + n - capacity
  <2>1. s \in Slot /\ e \in Slot /\ n \in 0 .. capacity /\ n # capacity /\ capacity \in Nat \ {0}
    BY <1>1
  <2>2. e = Wrap(s + n)  BY <1>1
  <2> QED  BY <2>1, <2>2 DEF Slot, Wrap
<1>2. /\ queue'.start = s /\ queue'.len = n + 1
      /\ queue'.items = [ items EXCEPT ![e] = item ]
      /\ queue'.end = (e + 1) % capacity
  BY DEF aqls_token_queue_append, RingInv, QueueTypeOK
<1>3. queue'.end = Wrap(e + 1) /\ Wrap(e + 1) \in Slot
  <2>1. e + 1 \in 0 .. capacity + capacity - 1  BY <1>a
  <2> QED  BY <1>2, <2>1, WrapIs
<1>4. QueueTypeOK'
  <2> DEFINE newItems == [ items EXCEPT ![e] = item ]
             newEnd == (e + 1) % capacity
             newLen == n + 1
  <2>1. /\ newItems \in [Slot -> Token \cup {NoToken}] /\ newEnd \in Slot
        /\ newLen \in 0 .. capacity
    BY <1>1, <1>2, <1>3
  <2>2. queue' = [ queue EXCEPT !.items = newItems, !.end = newEnd, !.len = newLen ]
    BY DEF aqls_token_queue_append
  <2>3. queue \in [ items : [Slot -> Token \cup {NoToken}], start : Slot, end : Slot,
                    len : 0 .. capacity ]
    BY DEF RingInv, QueueTypeOK
  <2> HIDE DEF newItems, newEnd, newLen
  <2> QED  BY <2>1, <2>2, <2>3 DEF QueueTypeOK, Slot
<1>5. \A k \in 0 .. n + 1 : SlotOf(k)' = Wrap(s + k)
  <2>1. \A k \in 0 .. n + 1 : s + k \in 0 .. capacity + capacity - 1  BY <1>a
  <2> QED  BY <1>2, <2>1, WrapIs DEF SlotOf
<1>6. \A k \in 0 .. n - 1 : Wrap(s + k) # e
  BY <1>a DEF Wrap
<1>7. Wrap(e + 1) = Wrap(s + n + 1)
  BY <1>a DEF Wrap
<1>8. queue'.end = SlotOf(queue.len)'
  <2>1. n + 1 \in 0 .. n + 1 /\ s + n + 1 = s + (n + 1)  BY <1>a
  <2>2. Wrap(s + (n + 1)) = Wrap(s + n + 1)  BY <2>1
  <2>3. SlotOf(queue.len)' = Wrap(s + (n + 1))  BY <1>2, <1>5, <2>1 DEF SlotOf
  <2> QED  BY <1>3, <1>7, <2>2, <2>3
<1>9. /\ \A k \in 0 .. n - 1 : queue'.items[Wrap(s + k)] = items[Wrap(s + k)]
                                /\ items[Wrap(s + k)] \in Token
      /\ queue'.items[Wrap(s + n)] = item
  <2>1. \A k \in 0 .. n - 1 : Wrap(s + k) \in Slot /\ items[Wrap(s + k)] \in Token
    <3>1. \A k \in 0 .. n - 1 : k \in 0 .. n  BY <1>1
    <3> QED  BY <1>1, <3>1
  <2> HIDE DEF s, e, n, items
  <2> QED  BY <1>1, <1>2, <1>6, <2>1
<1>10. \A k \in 0 .. n : queue'.items[SlotOf(k)'] \in Token
  <2> SUFFICES ASSUME NEW k \in 0 .. n PROVE queue'.items[Wrap(s + k)] \in Token
    <3>1. \A k \in 0 .. n : k \in 0 .. n + 1  BY <1>1
    <3> QED  BY <1>5, <3>1
  <2>1. k \in 0 .. n - 1 \/ k = n  BY <1>1
  <2> HIDE DEF s, e, n, items
  <2> QED  BY <1>9, <2>1
<1>11. RingInv'
  <2>1. queue'.len - 1 = n  BY <1>1, <1>2
  <2>2. \A k \in 0 .. queue'.len - 1 : queue'.items[SlotOf(k)'] \in Token
    BY <1>10, <2>1, Zenon
  <2>3. (\A k \in 0 .. queue.len - 1 : queue.items[SlotOf(k)] \in Token)'
    BY <2>2
  <2> QED  BY <1>4, <1>8, <2>3 DEF RingInv
<1>12. Pending' = Append(Pending, item)
  <2>1. /\ Pending \in Seq(Token) /\ Len(Pending) = n
        /\ \A k \in 1 .. n : Pending[k] = items[SlotOf(k - 1)]
    BY PendingIs
  <2>2. (RingInv => /\ Pending \in Seq(Token) /\ Len(Pending) = queue.len
                    /\ \A k \in 1 .. queue.len : Pending[k] = queue.items[SlotOf(k - 1)])'
    BY PendingIs, PTL
  <2>3. /\ Pending' \in Seq(Token) /\ Len(Pending') = n + 1
        /\ \A k \in 1 .. n + 1 : Pending'[k] = queue'.items[SlotOf(k - 1)']
    BY <1>2, <1>11, <2>2
  <2>4. ASSUME NEW k \in 1 .. n + 1 PROVE Pending'[k] = Append(Pending, item)[k]
    <3>1. k - 1 \in 0 .. n /\ k - 1 \in 0 .. n + 1  BY <1>1
    <3>2. Pending'[k] = queue'.items[Wrap(s + (k - 1))]  BY <1>5, <2>3, <3>1
    <3>3. CASE k = n + 1
      <4>1. k - 1 = n  BY <1>1, <3>3
      <4>2. Append(Pending, item)[k] = item  BY <1>1, <2>1, <3>3
      <4> QED  BY <1>9, <3>2, <4>1, <4>2, Zenon
    <3>4. CASE k \in 1 .. n
      <4>1. k - 1 \in 0 .. n - 1  BY <1>1, <3>4
      <4>2. Append(Pending, item)[k] = Pending[k]  BY <1>1, <2>1, <3>4
      <4>3. Pending[k] = items[Wrap(s + (k - 1))]  BY <1>1, <2>1, <3>1, <3>4
      <4> QED  BY <1>9, <3>2, <4>1, <4>2, <4>3, Zenon
    <3>5. k = n + 1 \/ k \in 1 .. n  BY <1>1
    <3> QED  BY <3>3, <3>4, <3>5, Zenon
  <2>5. Append(Pending, item) \in Seq(Token) /\ Len(Append(Pending, item)) = n + 1
    BY <2>1
  <2> QED  BY <2>3, <2>4, <2>5, SeqEqual
<1>13. Fifo!Put(item)
  <2>1. Len(Pending) < capacity  BY <1>1, PendingIs
  <2> QED  BY <1>12, <2>1 DEF Fifo!Put
<1> QED  BY <1>1, <1>2, <1>9, <1>11, <1>13

\* A pop takes the oldest token.
LEMMA PopIsTake ==
  ASSUME RingInv, aqls_token_queue_pop
  PROVE  RingInv' /\ Fifo!Take /\ queue'.len = queue.len - 1
<1> DEFINE s == queue.start
           e == queue.end
           n == queue.len
           items == queue.items
<1>1. /\ s \in Slot /\ e \in Slot /\ n \in 1 .. capacity
      /\ items \in [Slot -> Token \cup {NoToken}] /\ capacity \in Nat \ {0}
      /\ e = Wrap(s + n)
      /\ \A k \in 0 .. n : SlotOf(k) = Wrap(s + k) /\ SlotOf(k) \in Slot
      /\ \A k \in 0 .. n - 1 : items[SlotOf(k)] \in Token
  BY QueueFields DEF RingInv, aqls_token_queue_pop, aqls_token_queue_is_empty
<1>a. s \in 0 .. capacity - 1 /\ n \in 1 .. capacity /\ capacity \in Nat \ {0}
  BY <1>1 DEF Slot
<1>2. /\ queue'.start = (s + 1) % capacity /\ queue'.len = n - 1
      /\ queue'.items = items /\ queue'.end = e
  BY DEF aqls_token_queue_pop, RingInv, QueueTypeOK
<1>3. queue'.start = Wrap(s + 1) /\ Wrap(s + 1) \in Slot
  <2>1. s + 1 \in 0 .. capacity + capacity - 1  BY <1>a
  <2> QED  BY <1>2, <2>1, WrapIs
<1>4. QueueTypeOK'
  <2> DEFINE newStart == (s + 1) % capacity
             newLen == n - 1
  <2>1. newStart \in Slot /\ newLen \in 0 .. capacity
    BY <1>1, <1>2, <1>3
  <2>2. queue' = [ queue EXCEPT !.start = newStart, !.len = newLen ]
    BY DEF aqls_token_queue_pop
  <2>3. queue \in [ items : [Slot -> Token \cup {NoToken}], start : Slot, end : Slot,
                    len : 0 .. capacity ]
    BY DEF RingInv, QueueTypeOK
  <2> HIDE DEF newStart, newLen
  <2> QED  BY <2>1, <2>2, <2>3 DEF QueueTypeOK, Slot
<1>5. \A k \in 0 .. n - 1 : SlotOf(k)' = SlotOf(k + 1)
  <2> SUFFICES ASSUME NEW k \in 0 .. n - 1 PROVE SlotOf(k)' = SlotOf(k + 1)
    OBVIOUS
  <2>1. Wrap(s + 1) + k \in 0 .. capacity + capacity - 1
    <3>1. Wrap(s + 1) \in 0 .. capacity - 1  BY <1>3 DEF Slot
    <3>2. k \in 0 .. capacity - 1  BY <1>a
    <3> QED  BY <1>a, <3>1, <3>2
  <2>2. SlotOf(k)' = Wrap(Wrap(s + 1) + k)  BY <1>3, <2>1, WrapIs DEF SlotOf
  <2>3. k + 1 \in 0 .. n  BY <1>1
  <2>4. Wrap(Wrap(s + 1) + k) = Wrap(s + (k + 1))
    <3>1. k \in 0 .. capacity - 1  BY <1>1
    <3> QED  BY <1>1, <3>1, WrapStep
  <2> QED  BY <1>1, <2>2, <2>3, <2>4
<1>6. queue'.end = SlotOf(queue.len)'
  <2>1. PICK m \in 0 .. n - 1 : m = n - 1 /\ m + 1 = n /\ n \in 0 .. n  BY <1>1
  <2>2. SlotOf(m)' = SlotOf(n)  BY <1>5, <2>1
  <2>3. SlotOf(queue.len)' = SlotOf(m)'  BY <1>2, <2>1 DEF SlotOf
  <2> QED  BY <1>1, <1>2, <2>1, <2>2, <2>3
<1>7. RingInv'
  <2>1. queue'.len - 1 = n - 2  BY <1>1, <1>2
  <2>2. \A k \in 0 .. n - 2 : queue'.items[SlotOf(k)'] \in Token
    <3>1. \A k \in 0 .. n - 2 : k \in 0 .. n - 1 /\ k + 1 \in 0 .. n - 1  BY <1>1
    <3> QED  BY <1>1, <1>2, <1>5, <3>1
  <2>3. (\A k \in 0 .. queue.len - 1 : queue.items[SlotOf(k)] \in Token)'
    BY <2>1, <2>2, Zenon
  <2> QED  BY <1>4, <1>6, <2>3 DEF RingInv
<1>8. Pending' = Tail(Pending) /\ Pending # << >>
  <2>1. /\ Pending \in Seq(Token) /\ Len(Pending) = n
        /\ \A k \in 1 .. n : Pending[k] = items[SlotOf(k - 1)]
    BY PendingIs
  <2>2. (RingInv => /\ Pending \in Seq(Token) /\ Len(Pending) = queue.len
                    /\ \A k \in 1 .. queue.len : Pending[k] = queue.items[SlotOf(k - 1)])'
    BY PendingIs, PTL
  <2>3. /\ Pending' \in Seq(Token) /\ Len(Pending') = n - 1
        /\ \A k \in 1 .. n - 1 : Pending'[k] = queue'.items[SlotOf(k - 1)']
    BY <1>2, <1>7, <2>2
  <2>4. /\ Pending # << >> /\ Tail(Pending) \in Seq(Token) /\ Len(Tail(Pending)) = n - 1
        /\ \A k \in 1 .. n - 1 : Tail(Pending)[k] = Pending[k + 1]
    BY <1>1, <2>1
  <2>5. ASSUME NEW k \in 1 .. n - 1 PROVE Pending'[k] = Tail(Pending)[k]
    <3>1. k - 1 \in 0 .. n - 1 /\ k + 1 \in 1 .. n /\ (k - 1) + 1 = k /\ (k + 1) - 1 = k
      BY <1>1
    <3>2. Pending'[k] = items[SlotOf(k)]  BY <1>2, <1>5, <2>3, <3>1
    <3>3. Tail(Pending)[k] = items[SlotOf(k)]  BY <2>1, <2>4, <3>1
    <3> QED  BY <3>2, <3>3
  <2> QED  BY <2>3, <2>4, <2>5, SeqEqual
<1> QED  BY <1>2, <1>7, <1>8 DEF Fifo!Take

LEMMA RingInit ==
  ASSUME aqls_token_queue_init
  PROVE  RingInv /\ queue.len = 0 /\ Fifo!Init
<1>1. capacity \in Nat \ {0} /\ 0 \in Slot  BY QueueAssumption DEF Slot
<1>2. QueueTypeOK /\ queue.len = 0 /\ queue.start = 0 /\ queue.end = 0
  BY <1>1 DEF aqls_token_queue_init, QueueTypeOK
<1>3. queue.end = SlotOf(queue.len)
  <2>1. 0 % capacity = 0  BY <1>1, WrapOnce
  <2> QED  BY <1>2, <2>1 DEF SlotOf
<1>4. RingInv  BY <1>2, <1>3 DEF RingInv
<1>5. Pending = << >>  BY <1>2, <1>4, PendingIs
<1> QED  BY <1>2, <1>4, <1>5 DEF Fifo!Init

\* Under any use of aqls_token_queue_append and _pop, also when its contents wrap
\* around the end of the array, the ring buffer of queue.c is a bounded queue.
THEOREM QueueIsFifo == QueueSpec => IsFifo
<1>1. RingInv /\ [QueueNext]_queue => RingInv' /\ [Fifo!Next]_Pending
  <2> SUFFICES ASSUME RingInv, [QueueNext]_queue PROVE RingInv' /\ [Fifo!Next]_Pending
    OBVIOUS
  <2>1. CASE aqls_token_queue_pop  BY <2>1, PopIsTake DEF Fifo!Next
  <2>2. ASSUME NEW item \in Token, aqls_token_queue_append(item)
        PROVE  RingInv' /\ [Fifo!Next]_Pending
    BY <2>2, AppendIsPut DEF Fifo!Next
  <2>3. CASE UNCHANGED queue
    BY <2>3 DEF RingInv, QueueTypeOK, SlotOf, Pending
  <2> QED  BY <2>1, <2>2, <2>3 DEF QueueNext
<1> QED  BY <1>1, RingInit, PTL DEF QueueSpec, IsFifo, Fifo!Spec

-----------------------------------------------------------------------------
(* The scanner.                                                            *)

LEMMA LeastElement ==
  ASSUME NEW T, T \subseteq Nat, T # {}
  PROVE  Min(T) \in T /\ \A y \in T : Min(T) <= y
<1> DEFINE R == OpToRel(<, Nat)
<1>1. IsWellFoundedOn(R, Nat)  BY NatLessThanWellFounded
<1>2. \A x, y \in Nat : x < y => << x, y >> \in R  BY DEF OpToRel
<1> HIDE DEF R
<1>3. PICK x \in T : \A y \in T : ~ (<< y, x >> \in R)  BY <1>1, WFMin
<1>4. \A y \in T : ~ (y < x)  BY <1>2, <1>3, Zenon
<1>5. \A y \in T : x <= y  BY <1>4
<1> QED  BY <1>5 DEF Min

\* A run of characters ends at the end of the text or in front of another character.
LEMMA RunEnds ==
  ASSUME input_len \in Nat, NEW p \in 0 .. input_len, NEW C
  PROVE  /\ RunLength(p, C) \in 0 .. input_len - p
         /\ p + RunLength(p, C) < input_len => input[p + RunLength(p, C) + 1] \notin C
         /\ p = input_len \/ input[p + 1] \notin C => RunLength(p, C) = 0
<1> DEFINE others == { k \in p + 1 .. input_len : input[k] \notin C }
           stops == others \cup {input_len + 1}
           m == Min(stops)
<1>1. stops \subseteq p + 1 .. input_len + 1 /\ stops \subseteq Nat /\ stops # {}  OBVIOUS
<1>2. m \in stops /\ \A y \in stops : m <= y  BY <1>1, LeastElement
<1>3. RunLength(p, C) = m - (p + 1)  BY DEF RunLength
<1>4. m \in others \/ m = input_len + 1  BY <1>2
<1>5. p < input_len /\ input[p + 1] \notin C => p + 1 \in stops  OBVIOUS
<1>6. m \in p + 1 .. input_len + 1 /\ (m # input_len + 1 => input[m] \notin C)
  BY <1>4
<1>7. p < input_len /\ input[p + 1] \notin C => m <= p + 1  BY <1>2, <1>5
<1> HIDE DEF m
<1>8. RunLength(p, C) \in 0 .. input_len - p  BY <1>3, <1>6
<1>9. p + RunLength(p, C) + 1 = m  BY <1>3, <1>6
<1>10. p + RunLength(p, C) < input_len => input[p + RunLength(p, C) + 1] \notin C
  BY <1>3, <1>6, <1>9
<1>11. p = input_len \/ input[p + 1] \notin C => RunLength(p, C) = 0
  <2>1. CASE p = input_len  BY <1>3, <1>6, <2>1
  <2>2. CASE p < input_len /\ input[p + 1] \notin C  BY <1>3, <1>6, <1>7, <2>2
  <2> QED  BY <2>1, <2>2
<1> QED  BY <1>8, <1>10, <1>11

\* What the patterns match at a position stays inside the text.
LEMMA PatternsInText ==
  ASSUME input_len \in Nat, NEW p \in 0 .. input_len
  PROVE  string_literal(p) \in 0 .. input_len - p /\ id(p) \in 0 .. input_len - p
<1> DEFINE closing == { n \in 2 .. input_len - p : input[p + n] = Quote }
<1>1. closing # {} => Min(closing) \in closing
  <2>1. closing \subseteq Nat  OBVIOUS
  <2> QED  BY <2>1, LeastElement
<1>2. string_literal(p) \in 0 .. input_len - p  BY <1>1 DEF string_literal
<1>3. id(p) \in 0 .. input_len - p
  <2>1. CASE p < input_len
    <3>1. p + 1 \in 0 .. input_len  BY <2>1
    <3>2. RunLength(p + 1, IdRest) \in 0 .. input_len - (p + 1)  BY <3>1, RunEnds
    <3> QED  BY <2>1, <3>2 DEF id
  <2>2. CASE ~(p < input_len)  BY <2>2 DEF id
  <2> QED  BY <2>1, <2>2
<1> QED  BY <1>2, <1>3

LEMMA MatchIs ==
  ASSUME input_len \in Nat, NEW p \in 0 .. input_len
  PROVE  /\ Match(p) \in TokensUpTo(input_len)
         /\ Match(p).at = p /\ Match(p).len \in 0 .. input_len - p
<1> DEFINE literal == string_literal(p)
           word == id(p)
<1>1. literal \in 0 .. input_len - p /\ word \in 0 .. input_len - p  BY PatternsInText
<1>2. \/ Match(p) = TokenOf("STRING_LITERAL", p, literal)
      \/ Match(p) = TokenOf("ID", p, word)
      \/ Match(p) = TokenOf("ERROR", p, 0)
  BY <1>1 DEF Match
<1> HIDE DEF literal, word
<1>3. ASSUME NEW kind \in {"STRING_LITERAL", "ID", "ERROR"}, NEW n \in 0 .. input_len - p
      PROVE  /\ TokenOf(kind, p, n) \in TokensUpTo(input_len)
             /\ TokenOf(kind, p, n).at = p /\ TokenOf(kind, p, n).len = n
  <2>1. p \in -1 .. input_len /\ n \in 0 .. input_len  OBVIOUS
  <2> QED  BY <2>1 DEF TokenOf, TokensUpTo
<1>4. 0 \in 0 .. input_len - p  OBVIOUS
<1> QED  BY <1>1, <1>2, <1>3, <1>4

\* The first token behind a position: it begins where the blanks end, it is the end
\* of the text exactly when only blanks are left, and scanning from any blank in
\* front of it finds it again.
LEMMA ScanIs ==
  ASSUME input_len \in Nat, NEW p \in 0 .. input_len
  PROVE  LET start == p + ignore(p)
         IN  /\ start \in p .. input_len
             /\ Scan(p) \in TokensUpTo(input_len)
             /\ start = input_len => Scan(p) = Eof
             /\ start # input_len => /\ Scan(p).at = start
                                     /\ Scan(p).len \in 0 .. input_len - start
             /\ Scan(start) = Scan(p)
<1> DEFINE start == p + ignore(p)
<1>1. /\ start \in p .. input_len
      /\ start < input_len => input[start + 1] \notin Blank
  BY RunEnds DEF ignore
<1>2. start \in 0 .. input_len  BY <1>1
<1>3. ignore(start) = 0
  <2> HIDE DEF start
  <2>1. start = input_len \/ input[start + 1] \notin Blank  BY <1>1
  <2> QED  BY <1>2, <2>1, RunEnds DEF ignore
<1>4. Scan(p) = IF start >= input_len THEN Eof ELSE Match(start)  BY DEF Scan
<1> HIDE DEF start
<1>5. Scan(start) = IF start >= input_len THEN Eof ELSE Match(start)
  <2>1. start + ignore(start) = start  BY <1>2, <1>3
  <2> QED  BY <2>1 DEF Scan
<1>6. Eof \in TokensUpTo(input_len)  BY DEF Eof, TokensUpTo
<1>7. /\ Match(start) \in TokensUpTo(input_len)
      /\ Match(start).at = start /\ Match(start).len \in 0 .. input_len - start
  BY <1>2, MatchIs
<1>8. start = input_len => Scan(p) = Eof  BY <1>2, <1>4
<1>9. start # input_len => Scan(p) = Match(start)  BY <1>2, <1>4
<1> QED  BY <1>1, <1>4, <1>5, <1>6, <1>7, <1>8, <1>9 DEF start

\* The scanner reads the text only.
LEMMA ScanStays ==
  ASSUME input' = input
  PROVE  /\ input_len' = input_len
         /\ \A p : Scan(p)' = Scan(p)
         /\ \A t : Behind(t)' = Behind(t)
<1>1. input_len' = input_len  BY DEF input_len
<1>2. \A p, C : RunLength(p, C)' = RunLength(p, C)  BY DEF RunLength, input_len
<1>3. \A p : string_literal(p)' = string_literal(p)  BY DEF string_literal, input_len
<1>4. \A p : id(p)' = id(p)  BY <1>1, <1>2 DEF id
<1>5. \A p : Match(p)' = Match(p)  BY <1>3, <1>4 DEF Match
<1>6. \A p : ignore(p)' = ignore(p)  BY <1>2 DEF ignore
<1>7. \A p : Scan(p)' = Scan(p)  BY <1>1, <1>5, <1>6 DEF Scan
<1> QED  BY <1>1, <1>7 DEF Behind

-----------------------------------------------------------------------------
(* The two calls of the lexer.  The one token that may be in the queue is   *)
(* the first behind the position.                                           *)

LookaheadInv ==
  /\ input \in Inputs /\ pos \in 0 .. input_len
  /\ RingInv /\ queue.len <= 1
  /\ queue.len = 1 => aqls_token_queue_peek = Scan(pos)

LEMMA TextIs ==
  ASSUME input \in Inputs
  PROVE  /\ input_len \in Nat
         /\ \A p \in 0 .. input_len : Scan(p) \in Token
<1>1. input_len \in Nat /\ TokensUpTo(input_len) \subseteq Token
  BY LexerAssumption DEF input_len
<1> QED  BY <1>1, ScanIs

LEMMA LookaheadInit ==
  ASSUME aqls_lexer_init
  PROVE  LookaheadInv /\ Fifo!Init
<1>1. input \in Inputs /\ pos = 0 /\ aqls_token_queue_init  BY DEF aqls_lexer_init
<1>2. pos \in 0 .. input_len  BY <1>1, TextIs
<1> QED  BY <1>1, <1>2, RingInit DEF LookaheadInv

LEMMA UpcomingIs ==
  ASSUME LookaheadInv
  PROVE  /\ input_len \in Nat /\ queue.len \in {0, 1}
         /\ Upcoming = Scan(pos) /\ Upcoming \in Token
BY TextIs, QueueFields DEF LookaheadInv, RingInv, Upcoming, aqls_token_queue_is_empty

LEMMA LookaheadStutters ==
  ASSUME LookaheadInv, UNCHANGED lexerVars
  PROVE  LookaheadInv' /\ Pending' = Pending
<1>1. input' = input /\ pos' = pos /\ queue' = queue  BY DEF lexerVars
<1>2. input_len' = input_len /\ \A p : Scan(p)' = Scan(p)  BY <1>1, ScanStays
<1>3. RingInv' /\ Pending' = Pending
  BY <1>1 DEF LookaheadInv, RingInv, QueueTypeOK, SlotOf, Pending
<1>4. aqls_token_queue_peek' = aqls_token_queue_peek  BY <1>1 DEF aqls_token_queue_peek
<1> QED  BY <1>1, <1>2, <1>3, <1>4 DEF LookaheadInv

\* A peek puts the first token behind the position into an empty queue.
LEMMA PeekIs ==
  ASSUME LookaheadInv, aqls_lexer_peek_token
  PROVE  /\ LookaheadInv' /\ [Fifo!Next]_Pending
         /\ input' = input /\ pos' = pos
<1>1. /\ input' = input /\ pos' = pos
      /\ input \in Inputs /\ pos \in 0 .. input_len /\ RingInv
  BY DEF aqls_lexer_peek_token, LookaheadInv
<1>2. CASE ~aqls_token_queue_is_empty /\ UNCHANGED queue
  BY <1>1, <1>2, LookaheadStutters DEF lexerVars
<1>3. CASE aqls_token_queue_is_empty /\ aqls_token_queue_append(Scan(pos))
  <2>1. Scan(pos) \in Token /\ queue.len = 0
    BY <1>1, <1>3, TextIs DEF aqls_token_queue_is_empty
  <2>2. /\ RingInv' /\ Fifo!Put(Scan(pos)) /\ queue'.len = 1
        /\ queue'.items[SlotOf(0)] = Scan(pos) /\ queue'.start = queue.start
    BY <1>1, <1>3, <2>1, AppendIsPut
  <2>3. SlotOf(0) = queue.start
    <3>1. queue.start \in 0 .. capacity - 1 /\ capacity \in Nat \ {0}
      BY <1>1, QueueFields DEF RingInv, Slot
    <3>2. queue.start + 0 = queue.start /\ queue.start % capacity = queue.start
      BY <3>1, WrapOnce
    <3> QED  BY <3>2 DEF SlotOf
  <2>4. input_len' = input_len /\ \A p : Scan(p)' = Scan(p)  BY <1>1, ScanStays
  <2>5. (queue.len = 1 => aqls_token_queue_peek = Scan(pos))' /\ (queue.len <= 1)'
    BY <1>1, <2>2, <2>3, <2>4 DEF aqls_token_queue_peek
  <2>6. Fifo!Next  BY <2>1, <2>2 DEF Fifo!Next
  <2> QED  BY <1>1, <2>2, <2>4, <2>5, <2>6 DEF LookaheadInv
<1> QED  BY <1>2, <1>3 DEF aqls_lexer_peek_token

\* What next_token returns is the first token behind the position, and afterwards
\* the position is where this token ends, blanks aside.
LEMMA NextTokenIs ==
  ASSUME LookaheadInv, aqls_lexer_next_token
  PROVE  /\ pos' \in 0 .. input_len
         /\ Scan(pos') = Scan(Behind(Upcoming))
<1> DEFINE t == Scan(pos)
           start == pos + ignore(pos)
<1>1. /\ input_len \in Nat /\ pos \in 0 .. input_len /\ queue.len \in {0, 1}
      /\ queue.len = 1 => aqls_token_queue_peek = t
  BY UpcomingIs DEF LookaheadInv
<1>2. Upcoming = t  BY UpcomingIs
<1>3. /\ start \in pos .. input_len
      /\ start = input_len => t = Eof
      /\ start # input_len => t.at = start /\ t.len \in 0 .. input_len - start
      /\ Scan(start) = t
  BY <1>1, ScanIs
<1>4. Eof.at = -1 /\ Eof.len = 0  BY DEF Eof
<1>5. \/ pos' = start + t.len
      \/ pos' = IF t.at = -1 THEN pos ELSE t.at + t.len
  BY <1>1 DEF aqls_lexer_next_token, aqls_token_queue_is_empty
<1> HIDE DEF t, start
<1>6. CASE start = input_len
  <2>1. Behind(t) = input_len /\ Scan(input_len) = t
    BY <1>3, <1>4, <1>6 DEF Behind
  <2>2. pos' = input_len \/ pos' = pos  BY <1>1, <1>3, <1>4, <1>5, <1>6
  <2> QED  BY <1>1, <1>2, <2>1, <2>2 DEF t
<1>7. CASE start # input_len
  <2>1. t.at # -1 /\ t.at = start /\ t.len \in 0 .. input_len - start  BY <1>1, <1>3, <1>7
  <2>2. Behind(t) = start + t.len /\ pos' = start + t.len  BY <1>5, <2>1 DEF Behind
  <2>3. start + t.len \in 0 .. input_len  BY <1>1, <1>3, <2>1
  <2> QED  BY <1>2, <2>2, <2>3
<1> QED  BY <1>6, <1>7

LEMMA NextTokenStep ==
  ASSUME LookaheadInv, aqls_lexer_next_token
  PROVE  LookaheadInv' /\ [Fifo!Next]_Pending /\ input' = input
<1>1. /\ input' = input /\ input \in Inputs /\ RingInv
      /\ pos' \in 0 .. input_len /\ queue.len \in {0, 1}
  BY NextTokenIs, UpcomingIs DEF aqls_lexer_next_token, LookaheadInv
<1>2. input_len' = input_len  BY <1>1, ScanStays
<1>3. CASE ~aqls_token_queue_is_empty /\ aqls_token_queue_pop
  <2>1. RingInv' /\ Fifo!Take /\ queue'.len = queue.len - 1  BY <1>1, <1>3, PopIsTake
  <2>2. queue'.len = 0  BY <1>1, <1>3, <2>1 DEF aqls_token_queue_is_empty
  <2> QED  BY <1>1, <1>2, <2>1, <2>2 DEF LookaheadInv, Fifo!Next
<1>4. CASE aqls_token_queue_is_empty /\ UNCHANGED queue
  <2>1. RingInv' /\ Pending' = Pending /\ queue'.len = 0
    BY <1>1, <1>4 DEF RingInv, QueueTypeOK, SlotOf, Pending, aqls_token_queue_is_empty
  <2> QED  BY <1>1, <1>2, <2>1 DEF LookaheadInv
<1> QED  BY <1>1, <1>3, <1>4 DEF aqls_lexer_next_token

-----------------------------------------------------------------------------
(* Peeks and takes in any order.                                           *)

\* Where the tokens taken so far end.
TakenEnd == IF taken = << >> THEN 0 ELSE Behind(taken[Len(taken)])

\* Blanks aside, the position is where the taken tokens end.
TakenInv ==
  /\ taken \in Seq(Token)
  /\ \A k \in 1 .. Len(taken) :
       taken[k] = Scan(IF k = 1 THEN 0 ELSE Behind(taken[k - 1]))
  /\ Scan(pos) = Scan(TakenEnd)

LexerInv == LookaheadInv /\ TakenInv

LEMMA LexerInit ==
  ASSUME UseInit
  PROVE  LexerInv /\ Fifo!Init
<1>1. aqls_lexer_init /\ pos = 0 /\ taken = << >>  BY DEF UseInit, aqls_lexer_init
<1> QED  BY <1>1, LookaheadInit DEF LexerInv, TakenInv, TakenEnd

LEMMA TakenStays ==
  ASSUME TakenInv, input' = input, pos' = pos, taken' = taken
  PROVE  TakenInv'
<1>1. (\A p : Scan(p)' = Scan(p)) /\ (\A t : Behind(t)' = Behind(t))  BY ScanStays
<1>2. TakenEnd' = TakenEnd  BY <1>1 DEF TakenEnd
<1> QED  BY <1>1, <1>2 DEF TakenInv

LEMMA TakeStep ==
  ASSUME LexerInv, Take
  PROVE  LexerInv' /\ [Fifo!Next]_Pending
<1> DEFINE t == Upcoming
           n == Len(taken)
<1>1. /\ aqls_lexer_next_token /\ LookaheadInv /\ taken' = Append(taken, t)
      /\ taken \in Seq(Token) /\ n \in Nat
  BY DEF Take, LexerInv, TakenInv
<1>2. LookaheadInv' /\ [Fifo!Next]_Pending /\ input' = input  BY <1>1, NextTokenStep
<1>3. (\A p : Scan(p)' = Scan(p)) /\ (\A u : Behind(u)' = Behind(u))  BY <1>2, ScanStays
<1>4. t = Scan(pos) /\ t \in Token /\ Scan(pos') = Scan(Behind(t))
  BY <1>1, UpcomingIs, NextTokenIs
<1>5. t = Scan(TakenEnd)  BY <1>4 DEF LexerInv, TakenInv
<1> HIDE DEF t
<1>6. /\ taken' \in Seq(Token) /\ Len(taken') = n + 1 /\ taken' # << >>
      /\ taken'[n + 1] = t /\ \A k \in 1 .. n : taken'[k] = taken[k]
  BY <1>1, <1>4
<1>7. TakenEnd' = Behind(t)
  <2>1. TakenEnd' = Behind(taken'[Len(taken')])  BY <1>3, <1>6 DEF TakenEnd
  <2> QED  BY <1>6, <2>1
<1>8. (Scan(pos) = Scan(TakenEnd))'  BY <1>3, <1>4, <1>7
<1>9. (\A k \in 1 .. Len(taken) : taken[k] = Scan(IF k = 1 THEN 0 ELSE Behind(taken[k - 1])))'
  <2> SUFFICES ASSUME NEW k \in 1 .. n + 1
               PROVE  taken'[k] = Scan(IF k = 1 THEN 0 ELSE Behind(taken'[k - 1]))
    BY <1>3, <1>6
  <2>1. CASE k = n + 1
    <3>1. CASE n = 0
      <4>1. TakenEnd = 0 /\ k = 1  BY <1>1, <2>1, <3>1 DEF TakenEnd
      <4> QED  BY <1>5, <1>6, <2>1, <4>1
    <3>2. CASE n # 0
      <4>1. TakenEnd = Behind(taken[n]) /\ k # 1 /\ k - 1 = n /\ n \in 1 .. n
        BY <1>1, <2>1, <3>2 DEF TakenEnd
      <4> QED  BY <1>5, <1>6, <2>1, <4>1
    <3> QED  BY <3>1, <3>2
  <2>2. CASE k \in 1 .. n
    <3>1. taken[k] = Scan(IF k = 1 THEN 0 ELSE Behind(taken[k - 1]))
      BY <2>2 DEF LexerInv, TakenInv
    <3>2. k # 1 => k - 1 \in 1 .. n  BY <1>1, <2>2
    <3> QED  BY <1>6, <2>2, <3>1, <3>2
  <2> QED  BY <1>1, <2>1, <2>2
<1> QED  BY <1>2, <1>6, <1>8, <1>9 DEF LexerInv, TakenInv

LEMMA LexerNext == LexerInv /\ [UseNext]_useVars => LexerInv' /\ [Fifo!Next]_Pending
<1> SUFFICES ASSUME LexerInv, [UseNext]_useVars PROVE LexerInv' /\ [Fifo!Next]_Pending
  OBVIOUS
<1>1. CASE Peek
  BY <1>1, PeekIs, TakenStays DEF Peek, LexerInv
<1>2. CASE UNCHANGED useVars
  <2>1. UNCHANGED lexerVars /\ input' = input /\ pos' = pos /\ taken' = taken
    BY <1>2 DEF useVars, lexerVars
  <2> QED  BY <2>1, LookaheadStutters, TakenStays DEF LexerInv
<1> QED  BY <1>1, <1>2, TakeStep DEF UseNext

LEMMA LexerInvariance == UseSpec => []LexerInv
<1>1. LexerInv /\ [UseNext]_useVars => LexerInv'  BY LexerNext
<1> QED  BY <1>1, LexerInit, PTL DEF UseSpec

\* In the lexer, too, where peek_token is the one that appends.
THEOREM LookaheadIsFifo == UseSpec => IsFifo
BY LexerInit, LexerNext, LexerInvariance, PTL DEF UseSpec, IsFifo, Fifo!Spec

\* For every text and every order of calls, next_token returns the tokens of the text
\* in order, none twice and none left out, however many of them were peeked before,
\* and the lexeme of a peeked token is never behind the cursor.
THEOREM LexerIsTransparent == UseSpec => []PeekingChangesNothing
<1>1. LexerInv => PeekingChangesNothing
  <2> SUFFICES ASSUME LexerInv PROVE PeekingChangesNothing  OBVIOUS
  <2>1. /\ input_len \in Nat /\ pos \in 0 .. input_len /\ queue.len \in {0, 1}
        /\ queue.len = 1 => aqls_token_queue_peek = Scan(pos)
    BY UpcomingIs DEF LexerInv, LookaheadInv
  <2>2. Scan(pos).at \in {-1} \cup pos .. input_len
    <3>1. Eof.at = -1  BY DEF Eof
    <3> QED  BY <2>1, <3>1, ScanIs
  <2> QED  BY <2>1, <2>2
           DEF LexerInv, TakenInv, PeekingChangesNothing, aqls_token_queue_is_empty
<1> QED  BY <1>1, LexerInvariance, PTL

-----------------------------------------------------------------------------
(* The parser.  In every phase it knows which token of the text comes next: *)
(* the one behind the nodes of the list, or behind the keyword it took.     *)

NodesInOrder ==
  \A k \in 1 .. Len(list) :
    /\ list[k][1] = Scan(BehindNode(k - 1)) /\ Spells(list[k][1], WRITE)
    /\ list[k][2] = Scan(Behind(list[k][1])) /\ list[k][2].kind = "STRING_LITERAL"

\* The first token behind the nodes of the list.
NextNode == Scan(BehindNode(Len(list)))

\* No statement and no END follows the nodes of the list.
Stuck ==
  /\ ~Spells(NextNode, END) \/ Spells(NextNode, WRITE)
  /\ Spells(NextNode, WRITE) => Scan(Behind(NextNode)).kind # "STRING_LITERAL"

PhaseInv ==
  /\ list \in Seq(Token \X Token)
  /\ phase \in {"statement", "write", "operand", "end", "parsed", "failed"}
  /\ phase \in {"statement", "write", "end"} => Scan(pos) = NextNode
  /\ phase = "write" => Spells(NextNode, WRITE)
  /\ phase = "operand" =>
       /\ keyword \in Token /\ keyword = NextNode /\ Spells(keyword, WRITE)
       /\ Scan(pos) = Scan(Behind(keyword))
  /\ phase = "end" => ~Spells(NextNode, WRITE)
  /\ phase = "parsed" => ast[1].end = NextNode /\ Spells(NextNode, END)
  /\ phase = "failed" => Stuck

ParserInv == LookaheadInv /\ NodesInOrder /\ PhaseInv

\* What the parser looks at depends on the text and the list only.
LEMMA ParserReads ==
  ASSUME input' = input
  PROVE  /\ \A t : Spells(t, WRITE)' = Spells(t, WRITE) /\ Spells(t, END)' = Spells(t, END)
         /\ list' = list => /\ NextNode' = NextNode /\ NodesInOrder' = NodesInOrder
                            /\ Stuck' = Stuck
<1>1. \A t : Spells(t, WRITE)' = Spells(t, WRITE) /\ Spells(t, END)' = Spells(t, END)
  BY DEF Spells, Lexeme
<1>2. (\A p : Scan(p)' = Scan(p)) /\ (\A t : Behind(t)' = Behind(t))  BY ScanStays
<1>3. ASSUME list' = list
      PROVE  NextNode' = NextNode /\ NodesInOrder' = NodesInOrder /\ Stuck' = Stuck
  <2>1. \A k : BehindNode(k)' = BehindNode(k)  BY <1>2, <1>3 DEF BehindNode
  <2>2. NextNode' = NextNode  BY <1>2, <1>3, <2>1 DEF NextNode, BehindNode
  <2>3. NodesInOrder' <=> NodesInOrder  BY <1>1, <1>2, <1>3, <2>1 DEF NodesInOrder
  <2>4. Spells(NextNode, WRITE)' = Spells(NextNode, WRITE)
    <3>1. Spells(NextNode, WRITE)' = Spells(NextNode', WRITE)  BY <1>1, <2>2
    <3> QED  BY <2>2, <3>1
  <2>5. Spells(NextNode, END)' = Spells(NextNode, END)
    <3>1. Spells(NextNode, END)' = Spells(NextNode', END)  BY <1>1, <2>2
    <3> QED  BY <2>2, <3>1
  <2>6. Scan(Behind(NextNode))' = Scan(Behind(NextNode))
    <3>1. Behind(NextNode)' = Behind(NextNode)  BY <1>2, <2>2
    <3> QED  BY <1>2, <3>1
  <2>7. Stuck' <=> Stuck  BY <2>4, <2>5, <2>6 DEF Stuck
  <2> QED  BY <2>2, <2>3, <2>7 DEF NodesInOrder, Stuck
<1> QED  BY <1>1, <1>3

LEMMA ParserInit ==
  ASSUME Init
  PROVE  ParserInv
<1>1. aqls_lexer_init /\ pos = 0 /\ list = << >> /\ phase = "statement"
  BY DEF Init, aqls_lexer_init
<1> QED  BY <1>1, LookaheadInit DEF ParserInv, NodesInOrder, PhaseInv, NextNode, BehindNode

\* A statement goes behind the nodes that are there.
LEMMA NodeAppended ==
  ASSUME list \in Seq(Token \X Token), NodesInOrder, input' = input,
         NEW k \in Token, NEW t \in Token, list' = Append(list, << k, t >>),
         k = NextNode, Spells(k, WRITE), t = Scan(Behind(k)), t.kind = "STRING_LITERAL"
  PROVE  /\ list' \in Seq(Token \X Token) /\ NodesInOrder' /\ NextNode' = Scan(Behind(t))
<1> DEFINE n == Len(list)
           node == << k, t >>
<1>1. n \in Nat /\ node \in Token \X Token /\ node[1] = k /\ node[2] = t  OBVIOUS
<1> HIDE DEF node
<1>2. /\ list' \in Seq(Token \X Token) /\ Len(list') = n + 1 /\ list'[n + 1] = node
      /\ \A m \in 1 .. n : list'[m] = list[m]
  BY <1>1 DEF node
<1>3. (\A p : Scan(p)' = Scan(p)) /\ (\A u : Behind(u)' = Behind(u))  BY ScanStays
<1>4. \A u : Spells(u, WRITE)' = Spells(u, WRITE)  BY ParserReads
<1>5. \A m \in 0 .. n : BehindNode(m)' = BehindNode(m)
  BY <1>1, <1>2, <1>3 DEF BehindNode
<1>6. ASSUME NEW m \in 1 .. n + 1
      PROVE  /\ list'[m][1] = Scan(BehindNode(m - 1)) /\ Spells(list'[m][1], WRITE)
             /\ list'[m][2] = Scan(Behind(list'[m][1])) /\ list'[m][2].kind = "STRING_LITERAL"
  <2>1. CASE m = n + 1
    <3>1. m - 1 = n  BY <1>1, <2>1
    <3> QED  BY <1>1, <1>2, <2>1, <3>1 DEF NextNode
  <2>2. CASE m \in 1 .. n
    <3>1. list'[m] = list[m]  BY <1>2, <2>2
    <3> QED  BY <2>2, <3>1 DEF NodesInOrder
  <2> QED  BY <1>1, <2>1, <2>2
<1>7. \A m \in 1 .. n + 1 : m - 1 \in 0 .. n  BY <1>1
<1>8. NodesInOrder'
  <2> DEFINE InOrder(m) ==
        /\ list[m][1] = Scan(BehindNode(m - 1)) /\ Spells(list[m][1], WRITE)
        /\ list[m][2] = Scan(Behind(list[m][1])) /\ list[m][2].kind = "STRING_LITERAL"
  <2>1. ASSUME NEW m \in 1 .. n + 1 PROVE InOrder(m)'
    <3>1. BehindNode(m - 1)' = BehindNode(m - 1)  BY <1>5, <1>7
    <3>2. Scan(BehindNode(m - 1))' = Scan(BehindNode(m - 1))  BY <1>3, <3>1
    <3> QED  BY <1>3, <1>4, <1>6, <3>2
  <2> QED  BY <1>2, <2>1 DEF NodesInOrder
<1>9. NextNode' = Scan(Behind(t))
  <2>1. list'[Len(list')][2] = t /\ Len(list') # 0  BY <1>1, <1>2
  <2>2. BehindNode(Len(list))' = Behind(t)  BY <1>3, <2>1 DEF BehindNode
  <2> QED  BY <1>3, <2>2 DEF NextNode
<1> QED  BY <1>2, <1>8, <1>9

\* A step that takes a token, in the terms of the text.
LEMMA ParserTakes ==
  ASSUME ParserInv, aqls_lexer_next_token
  PROVE  /\ LookaheadInv' /\ input' = input
         /\ Upcoming = Scan(pos) /\ Upcoming \in Token
         /\ Scan(pos)' = Scan(Behind(Upcoming))
<1>1. LookaheadInv  BY DEF ParserInv
<1>2. LookaheadInv' /\ input' = input  BY <1>1, NextTokenStep
<1>3. Scan(pos)' = Scan(pos')  BY <1>2, ScanStays
<1> QED  BY <1>1, <1>2, <1>3, UpcomingIs, NextTokenIs

LEMMA StatementStep ==
  ASSUME ParserInv, parse_statement
  PROVE  ParserInv'
<1>1. /\ LookaheadInv /\ NodesInOrder /\ list \in Seq(Token \X Token)
      /\ phase = "statement" /\ Scan(pos) = NextNode
      /\ aqls_lexer_peek_token /\ list' = list
      /\ phase' = IF Spells(Upcoming, WRITE) THEN "write" ELSE "end"
  BY DEF parse_statement, ParserInv, PhaseInv
<1>2. LookaheadInv' /\ input' = input /\ pos' = pos  BY <1>1, PeekIs
<1>3. Upcoming = NextNode  BY <1>1, UpcomingIs
<1>4. NodesInOrder' /\ NextNode' = NextNode
  <2>1. NextNode' = NextNode /\ NodesInOrder' = NodesInOrder  BY <1>1, <1>2, ParserReads
  <2> QED  BY <1>1, <2>1
<1>5. \A t : Spells(t, WRITE)' = Spells(t, WRITE)  BY <1>2, ParserReads
<1>6. Scan(pos)' = NextNode  BY <1>1, <1>2, ScanStays
<1>7. IF phase' = "write" THEN Spells(NextNode, WRITE)' ELSE ~Spells(NextNode, WRITE)'
  <2>1. IF phase' = "write" THEN Spells(NextNode, WRITE) ELSE ~Spells(NextNode, WRITE)
    BY <1>1, <1>3
  <2>2. Spells(NextNode, WRITE)' <=> Spells(NextNode, WRITE)  BY <1>4, <1>5
  <2> QED  BY <2>1, <2>2
<1>8. phase' \in {"write", "end"}  BY <1>1
<1>9. PhaseInv'  BY <1>1, <1>4, <1>6, <1>7, <1>8 DEF PhaseInv
<1> QED  BY <1>2, <1>4, <1>9 DEF ParserInv

LEMMA KeywordStep ==
  ASSUME ParserInv, parse_write_keyword
  PROVE  ParserInv'
<1>1. /\ NodesInOrder /\ list \in Seq(Token \X Token)
      /\ phase = "write" /\ Scan(pos) = NextNode /\ Spells(NextNode, WRITE)
      /\ aqls_lexer_next_token /\ list' = list /\ keyword' = Upcoming /\ phase' = "operand"
  BY DEF parse_write_keyword, ParserInv, PhaseInv
<1>2. /\ LookaheadInv' /\ input' = input /\ keyword' = NextNode /\ keyword' \in Token
      /\ Scan(pos)' = Scan(Behind(keyword'))
  BY <1>1, ParserTakes
<1>3. (\A p : Scan(p)' = Scan(p)) /\ (\A t : Behind(t)' = Behind(t))  BY <1>2, ScanStays
<1>4. NextNode' = NextNode /\ NodesInOrder' = NodesInOrder  BY <1>1, <1>2, ParserReads
<1>5. Spells(keyword, WRITE)'
  <2>1. \A t : Spells(t, WRITE)' = Spells(t, WRITE)  BY <1>2, ParserReads
  <2>2. Spells(keyword', WRITE)  BY <1>1, <1>2
  <2> QED  BY <2>1, <2>2
<1>6. (Scan(pos) = Scan(Behind(keyword)))'  BY <1>2, <1>3
<1>7. PhaseInv'  BY <1>1, <1>2, <1>4, <1>5, <1>6 DEF PhaseInv
<1> QED  BY <1>1, <1>2, <1>4, <1>7 DEF ParserInv

\* panic_unexpected_token ends the program with the list as it is.
LEMMA PanicStep ==
  ASSUME ParserInv, LookaheadInv', input' = input, list' = list, phase' = "failed", Stuck
  PROVE  ParserInv'
<1>1. NodesInOrder' = NodesInOrder /\ Stuck' = Stuck  BY ParserReads
<1>2. NodesInOrder' /\ Stuck'  BY <1>1 DEF ParserInv
<1>3. PhaseInv'  BY <1>2 DEF ParserInv, PhaseInv
<1> QED  BY <1>2, <1>3 DEF ParserInv

LEMMA OperandStep ==
  ASSUME ParserInv, parse_write_operand
  PROVE  ParserInv'
<1> DEFINE t == Upcoming
<1>1. /\ NodesInOrder /\ list \in Seq(Token \X Token)
      /\ keyword \in Token /\ keyword = NextNode /\ Spells(keyword, WRITE)
      /\ Scan(pos) = Scan(Behind(keyword))
      /\ aqls_lexer_next_token
  BY DEF parse_write_operand, ParserInv, PhaseInv
<1>2. /\ LookaheadInv' /\ input' = input /\ t = Scan(Behind(keyword)) /\ t \in Token
      /\ Scan(pos)' = Scan(Behind(t))
  BY <1>1, ParserTakes
<1>3. CASE t.kind # "STRING_LITERAL" /\ panic_unexpected_token(t)
  <2> HIDE DEF t
  <2>1. Stuck  BY <1>1, <1>2, <1>3 DEF Stuck
  <2> QED  BY <1>2, <1>3, <2>1, PanicStep DEF panic_unexpected_token
<1>4. CASE t.kind = "STRING_LITERAL" /\ phase' = "statement"
           /\ list' = aqls_ast_statements_append(list, << keyword, t >>)
  <2> HIDE DEF t
  <2>1. list' \in Seq(Token \X Token) /\ NodesInOrder' /\ NextNode' = Scan(Behind(t))
    BY <1>1, <1>2, <1>4, NodeAppended DEF aqls_ast_statements_append
  <2>2. PhaseInv'  BY <1>2, <1>4, <2>1 DEF PhaseInv
  <2> QED  BY <1>2, <2>1, <2>2 DEF ParserInv
<1> QED  BY <1>3, <1>4 DEF parse_write_operand

LEMMA EndStep ==
  ASSUME ParserInv, parse_end
  PROVE  ParserInv'
<1> DEFINE t == Upcoming
<1>1. /\ NodesInOrder /\ list \in Seq(Token \X Token) /\ Scan(pos) = NextNode
      /\ ~Spells(NextNode, WRITE) /\ aqls_lexer_next_token
  BY DEF parse_end, ParserInv, PhaseInv
<1>2. LookaheadInv' /\ input' = input /\ t = NextNode /\ t \in Token
  BY <1>1, ParserTakes
<1>3. CASE ~Spells(t, END) /\ panic_unexpected_token(t)
  <2> HIDE DEF t
  <2>1. Stuck  BY <1>1, <1>2, <1>3 DEF Stuck
  <2> QED  BY <1>2, <1>3, <2>1, PanicStep DEF panic_unexpected_token
<1>4. CASE /\ Spells(t, END) /\ phase' = "parsed" /\ list' = list
           /\ ast' = << aqls_ast_compilation_unit_new(<< >>, t) >>
  <2> HIDE DEF t
  <2>1. NextNode' = NextNode /\ NodesInOrder' = NodesInOrder  BY <1>2, <1>4, ParserReads
  <2>2. ast'[1].end = t  BY <1>4 DEF aqls_ast_compilation_unit_new
  <2>3. Spells(NextNode, END)'
    <3>1. \A u : Spells(u, END)' = Spells(u, END)  BY <1>2, ParserReads
    <3>2. Spells(NextNode', END)  BY <1>2, <1>4, <2>1
    <3> QED  BY <3>1, <3>2
  <2>4. PhaseInv'  BY <1>1, <1>2, <1>4, <2>1, <2>2, <2>3 DEF PhaseInv
  <2> QED  BY <1>1, <1>2, <2>1, <2>4 DEF ParserInv
<1> QED  BY <1>3, <1>4 DEF parse_end

LEMMA ParserStutters ==
  ASSUME ParserInv, UNCHANGED vars
  PROVE  ParserInv'
<1>1. /\ UNCHANGED lexerVars /\ input' = input /\ pos' = pos
      /\ phase' = phase /\ keyword' = keyword /\ list' = list /\ ast' = ast
  BY DEF vars, lexerVars, parserVars
<1>2. LookaheadInv'  BY <1>1, LookaheadStutters DEF ParserInv
<1>3. NextNode' = NextNode /\ NodesInOrder' = NodesInOrder /\ Stuck' = Stuck
  BY <1>1, ParserReads
<1>4. (\A p : Scan(p)' = Scan(p)) /\ (\A t : Behind(t)' = Behind(t))  BY <1>1, ScanStays
<1>5. \A t : Spells(t, WRITE)' = Spells(t, WRITE) /\ Spells(t, END)' = Spells(t, END)
  BY <1>1, ParserReads
<1>6. PhaseInv' <=> PhaseInv  BY <1>1, <1>3, <1>4, <1>5 DEF PhaseInv
<1> QED  BY <1>2, <1>3, <1>6 DEF ParserInv

LEMMA ParserInvariance == Spec => []ParserInv
<1>1. ParserInv /\ [Next]_vars => ParserInv'
  BY StatementStep, KeywordStep, OperandStep, EndStep, ParserStutters DEF Next
<1> QED  BY <1>1, ParserInit, PTL DEF Spec

\* For every text: when the parser is done, the nodes it has appended are the
\* statements of the text, each once and in its order, with nothing between them,
\* and END is the token that follows them.
THEOREM StatementsInOrder == Spec => []AppendsInOrder
<1>1. ParserInv => AppendsInOrder
  BY DEF ParserInv, PhaseInv, NodesInOrder, NextNode, AppendsInOrder
<1> QED  BY <1>1, ParserInvariance, PTL

-----------------------------------------------------------------------------
(* The whole text: what the parser decides token by token is what the       *)
(* stream of all tokens decides.  StreamFrom is a recursive function over    *)
(* the positions; that it satisfies its own equation, and every fact about   *)
(* it, follows by taking the least position from which on it does.           *)

Stops(t) == t.kind \in {"EOF", "ERROR"}

\* A token that is no stop has characters, and the text goes on behind them.
LEMMA ScanMoves ==
  ASSUME input_len \in Nat, NEW p \in 0 .. input_len, ~Stops(Scan(p))
  PROVE  /\ Scan(p).at # -1 /\ Behind(Scan(p)) = Scan(p).at + Scan(p).len
         /\ Behind(Scan(p)) \in p + 1 .. input_len
         /\ Scan(p).len \in Nat \ {0}
<1> DEFINE start == p + ignore(p)
<1>1. /\ start \in p .. input_len
      /\ start = input_len => Scan(p) = Eof
      /\ start # input_len => Scan(p).at = start /\ Scan(p).len \in 0 .. input_len - start
  BY ScanIs
<1>2. Scan(p) = IF start >= input_len THEN Eof ELSE Match(start)  BY DEF Scan
<1> HIDE DEF start
<1>3. start # input_len  BY <1>1 DEF Stops, Eof
<1>4. start \in 0 .. input_len /\ ~(start >= input_len)  BY <1>1, <1>3
<1>5. Scan(p) = Match(start)  BY <1>2, <1>4
<1>6. Match(start).len > 0
  <2> DEFINE literal == string_literal(start)
             word == id(start)
  <2>1. literal \in Nat /\ word \in Nat  BY <1>4, PatternsInText
  <2>2. TokenOf("ERROR", start, 0).kind = "ERROR"  BY DEF TokenOf
  <2>3. \/ literal > 0 /\ Match(start) = TokenOf("STRING_LITERAL", start, literal)
        \/ word > 0 /\ Match(start) = TokenOf("ID", start, word)
    BY <1>5, <2>1, <2>2 DEF Match, Stops
  <2> HIDE DEF literal, word
  <2> QED  BY <2>1, <2>3 DEF TokenOf
<1>7. Scan(p).at = start /\ Scan(p).len \in 1 .. input_len - start
  BY <1>1, <1>3, <1>5, <1>6
<1> QED  BY <1>1, <1>7 DEF Behind

\* The value of StreamFrom at p, from its values g at other positions.
StreamStep(g, p) ==
  LET t == Scan(p)
  IN  IF t.kind \in {"EOF", "ERROR"} THEN << t >> ELSE << t >> \o g[t.at + t.len]

\* Only the position behind the token is looked at.
LEMMA StreamStepReads ==
  ASSUME input_len \in Nat, NEW p \in 0 .. input_len, NEW g, NEW h,
         \A q \in p + 1 .. input_len : g[q] = h[q]
  PROVE  StreamStep(g, p) = StreamStep(h, p)
<1>1. CASE Stops(Scan(p))  BY <1>1 DEF Stops, StreamStep
<1>2. CASE ~Stops(Scan(p))
  <2>1. Scan(p).at + Scan(p).len \in p + 1 .. input_len  BY <1>2, ScanMoves
  <2> QED  BY <1>2, <2>1 DEF StreamStep
<1> QED  BY <1>1, <1>2

\* Some function satisfies the equation.  One that does so on the positions from m on
\* extends to the position before.
LEMMA StreamExists ==
  ASSUME input_len \in Nat
  PROVE  \E g : g = [ p \in 0 .. input_len |-> StreamStep(g, p) ]
<1> DEFINE N == input_len
           Solved(m) == \E g : g = [ p \in m .. N |-> StreamStep(g, p) ]
           solved == { m \in 0 .. N : Solved(m) }
<1>1. Solved(N)
  <2>1. Scan(N) = Eof
    <3>1. N \in 0 .. N /\ N + ignore(N) = N  BY ScanIs
    <3> QED  BY <3>1, ScanIs
  <2>2. \A g : StreamStep(g, N) = << Eof >>  BY <2>1 DEF StreamStep, Eof
  <2>3. N .. N = {N}  OBVIOUS
  <2> HIDE DEF N
  <2>4. WITNESS [ p \in {N} |-> << Eof >> ]
  <2> QED  BY <2>2, <2>3
<1>2. ASSUME NEW m \in 1 .. N, Solved(m) PROVE Solved(m - 1)
  <2>1. PICK g : g = [ p \in m .. N |-> StreamStep(g, p) ]  BY <1>2
  <2> DEFINE h == [ p \in m - 1 .. N |-> IF p = m - 1 THEN StreamStep(g, p) ELSE g[p] ]
  <2>2. \A q \in m .. N : q \in m - 1 .. N /\ q # m - 1  OBVIOUS
  <2>3. \A q \in m .. N : g[q] = h[q] /\ g[q] = StreamStep(g, q)  BY <2>1, <2>2, Zenon
  <2>4. h[m - 1] = StreamStep(g, m - 1)
    <3>1. m - 1 \in m - 1 .. N  OBVIOUS
    <3> QED  BY <3>1
  <2>5. DOMAIN h = m - 1 .. N /\ h = [ p \in m - 1 .. N |-> h[p] ]  OBVIOUS
  <2> HIDE DEF h
  <2>6. ASSUME NEW p \in m - 1 .. N PROVE h[p] = StreamStep(h, p)
    <3>1. p \in 0 .. N /\ \A q \in p + 1 .. N : q \in m .. N  OBVIOUS
    <3>2. StreamStep(g, p) = StreamStep(h, p)  BY <2>3, <3>1, StreamStepReads
    <3>3. p = m - 1 \/ p \in m .. N  OBVIOUS
    <3> QED  BY <2>3, <2>4, <3>2, <3>3
  <2>7. h = [ p \in m - 1 .. N |-> StreamStep(h, p) ]  BY <2>5, <2>6
  <2> QED  BY <2>7
<1> HIDE DEF Solved
<1>3. N \in solved /\ solved \subseteq Nat  BY <1>1
<1>4. Min(solved) \in solved /\ \A y \in solved : Min(solved) <= y  BY <1>3, LeastElement
<1>5. PICK m \in solved : \A y \in solved : m <= y  BY <1>4
<1>6. m = 0
  <2> SUFFICES ASSUME m # 0 PROVE FALSE  OBVIOUS
  <2>1. m \in 1 .. N /\ Solved(m)  OBVIOUS
  <2>2. m - 1 \in 0 .. N /\ Solved(m - 1) /\ ~(m <= m - 1)  BY <1>2, <2>1
  <2> QED  BY <1>5, <2>2
<1>7. Solved(0)  BY <1>6
<1> QED  BY <1>7 DEF Solved

\* So StreamFrom does.
LEMMA StreamEquation ==
  ASSUME input_len \in Nat
  PROVE  \A p \in 0 .. input_len : StreamFrom[p] = StreamStep(StreamFrom, p)
<1>1. StreamFrom = CHOOSE g : g = [ p \in 0 .. input_len |-> StreamStep(g, p) ]
  BY DEF StreamFrom, StreamStep
<1>2. StreamFrom = [ p \in 0 .. input_len |-> StreamStep(StreamFrom, p) ]
  BY <1>1, StreamExists
<1> QED  BY <1>2, Zenon

\* Every stream is a sequence of tokens.
LEMMA StreamTyped ==
  ASSUME input \in Inputs
  PROVE  \A p \in 0 .. input_len : StreamFrom[p] \in Seq(Token)
<1> DEFINE N == input_len
           Typed(m) == \A p \in m .. N : StreamFrom[p] \in Seq(Token)
           typed == { m \in 0 .. N + 1 : Typed(m) }
<1>1. /\ N \in Nat /\ \A p \in 0 .. N : Scan(p) \in Token
      /\ \A p \in 0 .. N : StreamFrom[p] = StreamStep(StreamFrom, p)
  BY TextIs, StreamEquation
<1>2. ASSUME NEW m \in 1 .. N + 1, Typed(m) PROVE Typed(m - 1)
  <2>1. m - 1 \in 0 .. N  BY <1>1
  <2>2. StreamFrom[m - 1] \in Seq(Token)
    <3> DEFINE t == Scan(m - 1)
    <3>1. t \in Token /\ << t >> \in Seq(Token)  BY <1>1, <2>1
    <3>2. CASE Stops(t)
      <4>1. StreamStep(StreamFrom, m - 1) = << t >>  BY <3>2 DEF Stops, StreamStep
      <4> QED  BY <1>1, <2>1, <3>1, <4>1
    <3>3. CASE ~Stops(t)
      <4>1. t.at + t.len \in m .. N
        <5>1. t.at + t.len \in (m - 1) + 1 .. N  BY <1>1, <2>1, <3>3, ScanMoves
        <5> QED  BY <1>1, <5>1
      <4>2. StreamFrom[t.at + t.len] \in Seq(Token)  BY <1>2, <4>1
      <4>3. StreamStep(StreamFrom, m - 1) = << t >> \o StreamFrom[t.at + t.len]
        BY <3>3 DEF Stops, StreamStep
      <4> HIDE DEF t
      <4>4. << t >> \o StreamFrom[t.at + t.len] \in Seq(Token)  BY <3>1, <4>2
      <4> QED  BY <1>1, <2>1, <4>3, <4>4
    <3> QED  BY <3>2, <3>3
  <2>3. \A p \in m - 1 .. N : p = m - 1 \/ p \in m .. N  BY <1>1
  <2> QED  BY <1>2, <2>2, <2>3
<1>3. Typed(N + 1)  BY <1>1
<1> HIDE DEF Typed
<1>4. N + 1 \in typed /\ typed \subseteq Nat  BY <1>1, <1>3
<1>5. Min(typed) \in typed /\ \A y \in typed : Min(typed) <= y  BY <1>4, LeastElement
<1>6. PICK m \in typed : \A y \in typed : m <= y  BY <1>5
<1>7. m = 0
  <2> SUFFICES ASSUME m # 0 PROVE FALSE  OBVIOUS
  <2>1. m \in 1 .. N + 1 /\ Typed(m)  BY <1>1
  <2>2. m - 1 \in 0 .. N + 1 /\ Typed(m - 1) /\ ~(m <= m - 1)  BY <1>1, <1>2, <2>1
  <2> QED  BY <1>6, <2>2
<1>8. Typed(0)  BY <1>7
<1> QED  BY <1>8 DEF Typed

\* The stream from a position on is the token there and, unless it is a stop, the
\* stream from behind it on.
LEMMA StreamUnfolds ==
  ASSUME input \in Inputs, NEW p \in 0 .. input_len
  PROVE  /\ StreamFrom[p] \in Seq(Token) /\ Len(StreamFrom[p]) >= 1
         /\ StreamFrom[p][1] = Scan(p)
         /\ ~Stops(Scan(p)) =>
              LET rest == StreamFrom[Behind(Scan(p))]
              IN  /\ Behind(Scan(p)) \in 0 .. input_len
                  /\ Len(StreamFrom[p]) = 1 + Len(rest)
                  /\ \A j \in 1 .. Len(rest) : StreamFrom[p][j + 1] = rest[j]
<1> DEFINE t == Scan(p)
           rest == StreamFrom[Behind(t)]
<1>1. /\ input_len \in Nat /\ t \in Token /\ StreamFrom[p] = StreamStep(StreamFrom, p)
      /\ StreamFrom[p] \in Seq(Token)
  BY TextIs, StreamEquation, StreamTyped
<1>2. CASE Stops(t)
  <2>1. StreamFrom[p] = << t >>  BY <1>1, <1>2 DEF Stops, StreamStep
  <2> QED  BY <1>1, <1>2, <2>1
<1>3. CASE ~Stops(t)
  <2>1. Behind(t) = t.at + t.len /\ Behind(t) \in p + 1 .. input_len  BY <1>1, <1>3, ScanMoves
  <2>2. Behind(t) \in 0 .. input_len  BY <1>1, <2>1
  <2>3. rest \in Seq(Token)  BY <2>2, StreamTyped
  <2>4. StreamFrom[p] = << t >> \o rest  BY <1>1, <1>3, <2>1 DEF Stops, StreamStep
  <2> HIDE DEF t, rest
  <2>5. /\ Len(<< t >> \o rest) = 1 + Len(rest) /\ (<< t >> \o rest)[1] = t
        /\ \A j \in 1 .. Len(rest) : (<< t >> \o rest)[j + 1] = rest[j]
    BY <1>1, <2>3
  <2> QED  BY <1>1, <1>3, <2>2, <2>3, <2>4, <2>5 DEF t, rest
<1> QED  BY <1>2, <1>3

\* Along the nodes of the list the stream goes on two tokens at a time.
LEMMA StreamAlongList ==
  ASSUME input \in Inputs, list \in Seq(Token \X Token), NodesInOrder
  PROVE  /\ Stream \in Seq(Token)
         /\ \A k \in 1 .. Len(list) : /\ Stream[2 * k - 1] = list[k][1]
                                     /\ Stream[2 * k] = list[k][2]
         /\ \A k \in 0 .. Len(list) : BehindNode(k) \in 0 .. input_len
         /\ LET rest == StreamFrom[BehindNode(Len(list))]
            IN  /\ Len(Stream) = 2 * Len(list) + Len(rest)
                /\ \A j \in 1 .. Len(rest) : Stream[2 * Len(list) + j] = rest[j]
<1> DEFINE n == Len(list)
           At(k) == /\ BehindNode(k) \in 0 .. input_len
                    /\ Len(Stream) = 2 * k + Len(StreamFrom[BehindNode(k)])
                    /\ \A j \in 1 .. Len(StreamFrom[BehindNode(k)]) :
                         Stream[2 * k + j] = StreamFrom[BehindNode(k)][j]
                    /\ k # 0 => Stream[2 * k - 1] = list[k][1] /\ Stream[2 * k] = list[k][2]
           missed == { k \in 0 .. n : ~At(k) }
<1>1. input_len \in Nat /\ n \in Nat /\ 0 \in 0 .. input_len  BY TextIs
<1>2. Stream \in Seq(Token) /\ Stream = StreamFrom[0]  BY <1>1, StreamTyped DEF Stream
<1>3. At(0)
  <2>1. BehindNode(0) = 0  BY DEF BehindNode
  <2>2. Len(Stream) \in Nat /\ \A j \in 1 .. Len(Stream) : 2 * 0 + j = j  BY <1>2
  <2> QED  BY <1>1, <1>2, <2>1, <2>2
<1>4. ASSUME NEW k \in 1 .. n, At(k - 1) PROVE At(k)
  <2> DEFINE p == BehindNode(k - 1)
             q == Behind(list[k][1])
             r == BehindNode(k)
             s == StreamFrom[p]
             u == StreamFrom[q]
             v == StreamFrom[r]
  <2>1. /\ list[k][1] = Scan(p) /\ Spells(list[k][1], WRITE)
        /\ list[k][2] = Scan(q) /\ list[k][2].kind = "STRING_LITERAL"
    BY <1>4 DEF NodesInOrder
  <2>2. ~Stops(Scan(p)) /\ ~Stops(Scan(q))  BY <2>1 DEF Stops, Spells
  <2>3. /\ q \in 0 .. input_len /\ s \in Seq(Token) /\ Len(s) = 1 + Len(u) /\ s[1] = list[k][1]
        /\ \A j \in 1 .. Len(u) : s[j + 1] = u[j]
    <3>1. p \in 0 .. input_len  BY <1>4
    <3>2. Behind(Scan(p)) = q  BY <2>1
    <3> QED  BY <2>1, <2>2, <3>1, <3>2, StreamUnfolds
  <2>4. r = Behind(Scan(q))
    <3>1. k # 0  BY <1>1
    <3> QED  BY <2>1, <3>1 DEF BehindNode
  <2>5. /\ r \in 0 .. input_len /\ u \in Seq(Token) /\ Len(u) = 1 + Len(v) /\ u[1] = list[k][2]
        /\ \A j \in 1 .. Len(v) : u[j + 1] = v[j]
    <3>1. q \in 0 .. input_len /\ Scan(q) = list[k][2]  BY <2>1, <2>3
    <3>2. v = StreamFrom[Behind(Scan(q))]  BY <2>4
    <3> HIDE DEF q, r, v
    <3> QED  BY <2>2, <2>4, <3>1, <3>2, StreamUnfolds
  <2>6. v \in Seq(Token)  BY <2>5, StreamTyped
  <2>7. /\ Len(Stream) = 2 * (k - 1) + Len(s)
        /\ \A j \in 1 .. Len(s) : Stream[2 * (k - 1) + j] = s[j]
    BY <1>4
  <2> HIDE DEF p, q, r, s, u, v
  <2>8. Len(s) \in Nat /\ Len(u) \in Nat /\ Len(v) \in Nat  BY <2>3, <2>5, <2>6
  <2>9. Len(Stream) = 2 * k + Len(v)
    <3>1. 2 * (k - 1) + (1 + (1 + Len(v))) = 2 * k + Len(v)  BY <1>1, <2>8
    <3> QED  BY <2>3, <2>5, <2>7, <3>1
  <2>10. Stream[2 * k - 1] = list[k][1] /\ Stream[2 * k] = list[k][2]
    <3>1. /\ 2 * (k - 1) + 1 = 2 * k - 1 /\ 1 \in 1 .. Len(s)
          /\ 2 * (k - 1) + 2 = 2 * k /\ 2 \in 1 .. Len(s) /\ 1 \in 1 .. Len(u) /\ 1 + 1 = 2
      BY <1>1, <2>3, <2>5, <2>8
    <3>2. Stream[2 * (k - 1) + 1] = s[1] /\ Stream[2 * (k - 1) + 2] = s[2]  BY <2>7, <3>1
    <3>3. s[2] = u[1]  BY <2>3, <3>1
    <3> QED  BY <2>3, <2>5, <3>1, <3>2, <3>3
  <2>11. ASSUME NEW j \in 1 .. Len(v) PROVE Stream[2 * k + j] = v[j]
    <3>1. /\ j + 1 \in 1 .. Len(u) /\ (j + 1) + 1 \in 1 .. Len(s)
          /\ 2 * (k - 1) + ((j + 1) + 1) = 2 * k + j
      BY <1>1, <2>3, <2>5, <2>8
    <3>2. Stream[2 * (k - 1) + ((j + 1) + 1)] = s[(j + 1) + 1]  BY <2>7, <3>1
    <3>3. s[(j + 1) + 1] = u[j + 1]  BY <2>3, <3>1
    <3>4. u[j + 1] = v[j]  BY <2>5
    <3> QED  BY <3>1, <3>2, <3>3, <3>4
  <2> QED  BY <2>5, <2>9, <2>10, <2>11 DEF r, v
<1> HIDE DEF At
<1>5. missed = {}
  <2> SUFFICES ASSUME missed # {} PROVE FALSE  OBVIOUS
  <2>1. missed \subseteq Nat  BY <1>1
  <2>2. PICK m \in missed : \A y \in missed : m <= y  BY <2>1, LeastElement
  <2>3. m \in 1 .. n /\ m - 1 \in 0 .. n /\ ~(m <= m - 1)  BY <1>1, <1>3
  <2>4. At(m - 1)  BY <2>2, <2>3
  <2> QED  BY <1>4, <2>3, <2>4
<1>6. \A k \in 0 .. n : At(k)  BY <1>5
<1>7. n \in 0 .. n /\ \A k \in 1 .. n : k \in 0 .. n /\ k # 0  BY <1>1
<1> QED  BY <1>2, <1>6, <1>7 DEF At

\* No word is taken for both keywords: it has a first character.
LEMMA KeywordsApart ==
  ASSUME input_len \in Nat, NEW p \in 0 .. input_len
  PROVE  ~(Spells(Scan(p), WRITE) /\ Spells(Scan(p), END))
<1> SUFFICES ASSUME Spells(Scan(p), WRITE), Spells(Scan(p), END) PROVE FALSE
  OBVIOUS
<1> DEFINE t == Scan(p)
<1>1. ~Stops(t)  BY DEF Spells, Stops
<1>2. t.len \in Nat \ {0}  BY <1>1, ScanMoves
<1>3. ASSUME NEW word \in Seq(STRING) \ {<< >>}, Spells(t, word) PROVE Lexeme(t)[1] = word[1]
  <2> DEFINE lengths == {t.len, Len(word)}
  <2>1. Len(word) \in Nat \ {0}  OBVIOUS
  <2>2. lengths \subseteq Nat \ {0} /\ lengths \subseteq Nat /\ lengths # {}  BY <1>2, <2>1
  <2>3. Min(lengths) \in lengths  BY <2>2, LeastElement
  <2>4. \A k \in 1 .. Min(lengths) : Lexeme(t)[k] = word[k]  BY <1>3 DEF Spells
  <2>5. Min(lengths) \in Nat \ {0}  BY <2>2, <2>3, Zenon
  <2> QED  BY <2>4, <2>5
<1> QED  BY <1>3, ParserAssumption

\* The numbers of statements n such that a text of these tokens begins with n
\* statements and END, by the comparison of the code.
Units(tokens) ==
  { n \in 0 .. (Len(tokens) - 1) \div 2 :
      /\ Spells(tokens[2 * n + 1], END)
      /\ \A k \in 1 .. n : /\ Spells(tokens[2 * k - 1], WRITE)
                           /\ tokens[2 * k].kind = "STRING_LITERAL" }

Recognises ==
  phase \in {"parsed", "failed"} => (phase = "parsed" <=> Units(Stream) # {})

\* What the parser decides, exactly: it accepts the texts whose tokens begin with
\* statements and END as Spells compares them.
LEMMA ParserDecides == ParserInv => Recognises
<1> SUFFICES ASSUME ParserInv, phase \in {"parsed", "failed"}
             PROVE  phase = "parsed" <=> Units(Stream) # {}
  BY DEF Recognises
<1> DEFINE n == Len(list)
           p == BehindNode(n)
           rest == StreamFrom[p]
<1>1. /\ input \in Inputs /\ list \in Seq(Token \X Token) /\ NodesInOrder
      /\ input_len \in Nat /\ n \in Nat
  BY TextIs DEF ParserInv, PhaseInv, LookaheadInv
<1>2. /\ Stream \in Seq(Token) /\ p \in 0 .. input_len
      /\ \A k \in 1 .. n : Stream[2 * k - 1] = list[k][1] /\ Stream[2 * k] = list[k][2]
      /\ \A k \in 0 .. n : BehindNode(k) \in 0 .. input_len
      /\ Len(Stream) = 2 * n + Len(rest)
      /\ \A j \in 1 .. Len(rest) : Stream[2 * n + j] = rest[j]
  <2>1. n \in 0 .. n  BY <1>1
  <2> QED  BY <1>1, <2>1, StreamAlongList
<1>3. rest \in Seq(Token) /\ Len(rest) >= 1 /\ rest[1] = Scan(p) /\ Scan(p) = NextNode
  BY <1>1, <1>2, StreamUnfolds DEF NextNode
<1> HIDE DEF p, rest
<1>4. Len(rest) \in Nat /\ Stream[2 * n + 1] = NextNode  BY <1>2, <1>3
<1>5. CASE phase = "parsed"
  <2>1. Spells(NextNode, END)  BY <1>5 DEF ParserInv, PhaseInv
  <2>2. n \in 0 .. (Len(Stream) - 1) \div 2  BY <1>1, <1>2, <1>3, <1>4
  <2>3. ASSUME NEW k \in 1 .. n
        PROVE  Spells(Stream[2 * k - 1], WRITE) /\ Stream[2 * k].kind = "STRING_LITERAL"
    BY <1>1, <1>2 DEF NodesInOrder
  <2>4. n \in Units(Stream)  BY <1>4, <2>1, <2>2, <2>3 DEF Units
  <2> QED  BY <1>5, <2>4
<1>6. CASE phase = "failed"
  <2>1. Stuck  BY <1>6 DEF ParserInv, PhaseInv
  <2>2. ASSUME NEW m \in Units(Stream) PROVE FALSE
    <3>1. /\ m \in Nat /\ Spells(Stream[2 * m + 1], END)
          /\ \A k \in 1 .. m : /\ Spells(Stream[2 * k - 1], WRITE)
                               /\ Stream[2 * k].kind = "STRING_LITERAL"
          /\ m <= (Len(Stream) - 1) \div 2
      BY <1>2 DEF Units
    <3>2. CASE m < n
      <4>1. m + 1 \in 1 .. n /\ 2 * (m + 1) - 1 = 2 * m + 1  BY <1>1, <3>1, <3>2
      <4>2. Spells(list[m + 1][1], END) /\ Spells(list[m + 1][1], WRITE)
        BY <1>1, <1>2, <3>1, <4>1 DEF NodesInOrder
      <4>3. list[m + 1][1] = Scan(BehindNode(m)) /\ m \in 0 .. n
        <5>1. (m + 1) - 1 = m /\ m \in 0 .. n  BY <1>1, <3>1, <3>2
        <5> QED  BY <1>1, <4>1, <5>1 DEF NodesInOrder
      <4>4. BehindNode(m) \in 0 .. input_len  BY <1>2, <4>3
      <4> QED  BY <1>1, <4>2, <4>3, <4>4, KeywordsApart
    <3>3. CASE m = n
      <4>1. Spells(Scan(p), END)  BY <1>3, <1>4, <3>1, <3>3
      <4>2. Spells(Scan(p), WRITE)  BY <1>3, <2>1, <4>1 DEF Stuck
      <4> QED  BY <1>1, <1>2, <4>1, <4>2, KeywordsApart
    <3>4. CASE m > n
      <4>1. n + 1 \in 1 .. m /\ 2 * (n + 1) - 1 = 2 * n + 1 /\ 2 * (n + 1) = 2 * n + 2
        BY <1>1, <3>1, <3>4
      <4>2. Spells(Scan(p), WRITE) /\ Stream[2 * n + 2].kind = "STRING_LITERAL"
        BY <1>3, <1>4, <3>1, <4>1
      <4>3. ~Stops(Scan(p))  BY <4>2 DEF Spells, Stops
      <4> DEFINE q == Behind(Scan(p))
      <4>4. /\ q \in 0 .. input_len /\ Len(rest) = 1 + Len(StreamFrom[q])
            /\ \A j \in 1 .. Len(StreamFrom[q]) : rest[j + 1] = StreamFrom[q][j]
        BY <1>1, <1>2, <4>3, StreamUnfolds DEF rest
      <4>5. /\ Len(StreamFrom[q]) >= 1 /\ StreamFrom[q] \in Seq(Token)
            /\ StreamFrom[q][1] = Scan(q)
        BY <1>1, <4>4, StreamUnfolds
      <4> HIDE DEF q
      <4>6. 1 \in 1 .. Len(StreamFrom[q]) /\ 2 \in 1 .. Len(rest) /\ 1 + 1 = 2
        BY <1>4, <4>4, <4>5
      <4>7. Stream[2 * n + 2] = Scan(q)
        <5>1. Stream[2 * n + 2] = rest[2]  BY <1>2, <4>6
        <5>2. rest[2] = StreamFrom[q][1]  BY <4>4, <4>6
        <5> QED  BY <4>5, <5>1, <5>2
      <4>8. Scan(Behind(NextNode)).kind # "STRING_LITERAL"  BY <1>3, <2>1, <4>2 DEF Stuck
      <4> QED  BY <1>3, <4>2, <4>7, <4>8 DEF q
    <3> QED  BY <1>1, <3>1, <3>2, <3>3, <3>4
  <2> QED  BY <1>6, <2>2
<1> QED  BY <1>5, <1>6

\* A word that is a keyword compares equal to it.
LEMMA WordSpells ==
  ASSUME NEW t, NEW word, IsWord(t, word)
  PROVE  Spells(t, word)
BY DEF IsWord, Spells

\* For every text and every two keywords that begin differently: a text that is a
\* program of the grammar of parser.c is never turned down.
THEOREM ParserAcceptsGrammar == Spec => []AcceptsGrammar
<1>1. ParserInv => AcceptsGrammar
  <2> SUFFICES ASSUME ParserInv, phase = "failed", InGrammar(Stream) PROVE FALSE
    BY DEF AcceptsGrammar
  <2>1. Units(Stream) = {}  BY ParserDecides DEF Recognises
  <2>2. PICK n \in 0 .. Len(Stream) :
          /\ Len(Stream) = 2 * n + 2
          /\ \A k \in 1 .. n : IsWord(Stream[2 * k - 1], WRITE)
                               /\ Stream[2 * k].kind = "STRING_LITERAL"
          /\ IsWord(Stream[2 * n + 1], END)
    BY DEF InGrammar
  <2>3. n \in 0 .. (Len(Stream) - 1) \div 2
    <3>1. n \in Nat  BY <2>2
    <3>2. (2 * n + 2 - 1) \div 2 = n  BY <3>1
    <3> QED  BY <2>2, <3>1, <3>2
  <2>4. Spells(Stream[2 * n + 1], END)  BY <2>2, WordSpells
  <2>5. ASSUME NEW k \in 1 .. n
        PROVE  Spells(Stream[2 * k - 1], WRITE) /\ Stream[2 * k].kind = "STRING_LITERAL"
    BY <2>2, WordSpells
  <2>6. n \in Units(Stream)  BY <2>3, <2>4, <2>5 DEF Units
  <2> QED  BY <2>1, <2>6
<1> QED  BY <1>1, ParserInvariance, PTL
=============================================================================
