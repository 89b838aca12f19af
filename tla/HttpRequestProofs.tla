------------------------- MODULE HttpRequestProofs -------------------------
(***************************************************************************)
(* Proofs about the dynamic array, the scanner and the request reader: for *)
(* every initial capacity, buffers, streams and arrays of every length,    *)
(* and every place where a call fails.                                     *)
(***************************************************************************)
EXTENDS HttpRequest, SequenceTheorems, WellFoundedInduction, TLAPS

-----------------------------------------------------------------------------
(* The dynamic array.                                                      *)

\* The state of the array, as a fact the cases below share.
ArrayInv == TypeOK /\ KeepsWhatWasPushed

\* Storing n bytes in a block with room for them keeps the bytes already there
\* and puts the new ones where they belong (memcpy at items + length).
LEMMA StoreKeeps ==
  ASSUME NEW block \in Seq(Nat \cup {Junk}), NEW n \in Nat,
         length \in Nat, length + n <= Len(block),
         \A i \in 1 .. length : block[i] = i
  PROVE  /\ Stored(block, n) \in Seq(Nat \cup {Junk})
         /\ Len(Stored(block, n)) = Len(block)
         /\ \A i \in 1 .. length + n : Stored(block, n)[i] = i
  BY DEF Stored

\* A block that grows keeps its bytes (realloc).
LEMMA ReallocKeeps ==
  ASSUME NEW block \in Seq(Nat \cup {Junk}), NEW size \in Nat
  PROVE  /\ realloc(block, size) \in Seq(Nat \cup {Junk})
         /\ Len(realloc(block, size)) = size
         /\ \A i \in 1 .. size : i <= Len(block) => realloc(block, size)[i] = block[i]
  BY DEF realloc

\* Growing to a capacity with room for n more bytes preserves the invariant,
\* whether realloc succeeds or not.
LEMMA GrowKeeps ==
  ASSUME ArrayInv, NEW n \in Nat, NEW size \in Nat, length + n <= size,
         Grow(size, n)
  PROVE  ArrayInv'
<1> DEFINE block == realloc(items, size)
<1>0. /\ length \in Nat /\ capacity \in Nat /\ items \in Seq(Nat \cup {Junk})
      /\ length <= capacity
  BY DEF ArrayInv, TypeOK
<1>1. CASE /\ Store(block, n)
           /\ capacity' = size
           /\ UNCHANGED failed
  <2>1. /\ block \in Seq(Nat \cup {Junk}) /\ Len(block) = size
        /\ \A i \in 1 .. size : i <= Len(items) => block[i] = items[i]
    BY <1>0, ReallocKeeps
  <2> HIDE DEF block
  <2>2. items' = Stored(block, n) /\ length' = length + n /\ crashed' = (length + n > Len(block))
    BY <1>1 DEF Store
  <2>3. TypeOK'
    <3>1. items' \in Seq(Nat \cup {Junk})
      BY <2>1, <2>2 DEF Stored
    <3> QED  BY <1>0, <1>1, <2>2, <3>1 DEF TypeOK
  <2>4. CASE failed
    <3>1. failed'
      BY <2>4, <1>1
    <3> QED  BY <2>3, <3>1 DEF ArrayInv, KeepsWhatWasPushed
  <2>5. CASE ~failed
    <3>1. \A i \in 1 .. length : block[i] = i
      BY <1>0, <2>1, <2>5 DEF ArrayInv, KeepsWhatWasPushed
    <3>2. /\ Len(items') = size /\ \A i \in 1 .. length + n : items'[i] = i
      BY <1>0, <2>1, <2>2, <3>1, StoreKeeps
    <3>3. ~crashed'
      <4>1. ~(length + n > Len(block))
        BY <1>0, <2>1
      <4> QED  BY <2>2, <4>1
    <3> QED  BY <1>1, <2>2, <2>3, <3>2, <3>3 DEF ArrayInv, KeepsWhatWasPushed
  <2> QED  BY <2>4, <2>5
<1>2. CASE /\ items' = << >> /\ failed' = TRUE
           /\ UNCHANGED << length, capacity, crashed >>
  BY <1>0, <1>2 DEF ArrayInv, TypeOK, KeepsWhatWasPushed
<1> QED  BY <1>1, <1>2 DEF Grow

\* Storing without growing, where capacity says that there is room.
LEMMA StoreInPlaceKeeps ==
  ASSUME ArrayInv, NEW n \in Nat, length + n <= capacity,
         Store(items, n), UNCHANGED << capacity, failed >>
  PROVE  ArrayInv'
<1>0. /\ length \in Nat /\ capacity \in Nat /\ items \in Seq(Nat \cup {Junk})
  BY DEF ArrayInv, TypeOK
<1>1. items' = Stored(items, n) /\ length' = length + n /\ crashed' = (length + n > Len(items))
  BY DEF Store
<1>2. TypeOK'
  <2>1. items' \in Seq(Nat \cup {Junk})
    BY <1>0, <1>1 DEF Stored
  <2> QED  BY <1>0, <1>1, <2>1 DEF TypeOK
<1>3. CASE failed
  BY <1>2, <1>3 DEF ArrayInv, KeepsWhatWasPushed
<1>4. CASE ~failed
  <2>1. Len(items) = capacity /\ \A i \in 1 .. length : items[i] = i
    BY <1>4 DEF ArrayInv, KeepsWhatWasPushed
  <2>2. Len(items') = capacity /\ \A i \in 1 .. length + n : items'[i] = i
    BY <1>0, <1>1, <2>1, StoreKeeps
  <2>3. ~crashed'
    <3>1. ~(length + n > Len(items))
      BY <1>0, <2>1
    <3> QED  BY <1>1, <3>1
  <2> QED  BY <1>1, <1>2, <2>2, <2>3 DEF ArrayInv, KeepsWhatWasPushed
<1> QED  BY <1>3, <1>4

\* Either an allocation has failed, or n bytes more are in the array.
Added(n) == failed' \/ (~failed /\ length' = length + n)

LEMMA GrowAdds ==
  ASSUME NEW n, NEW size, Grow(size, n)
  PROVE  failed \/ Added(n)
BY DEF Grow, Store, Added

LEMMA PushByteKeeps ==
  ASSUME ArrayInv, dynamic_array_push_back_byte
  PROVE  ArrayInv' /\ (failed => failed') /\ (~failed => Added(1))
<1>1. length \in Nat /\ capacity \in Nat /\ length <= capacity  BY DEF ArrayInv, TypeOK
<1> DEFINE size == IF capacity = 0 THEN DYNAMIC_ARRAY_INITIAL_CAPACITY
                   ELSE DYNAMIC_ARRAY_GROW_FACTOR * capacity
<1>2. size \in Nat /\ length + 1 <= size  BY <1>1, ArrayAssumption
<1> HIDE DEF size
<1>3. CASE Grow(size, 1)
  <2>1. failed => failed'  BY <1>3 DEF Grow
  <2> QED  BY <1>2, <1>3, <2>1, GrowKeeps, GrowAdds
<1>4. CASE ~dynamic_array_is_full /\ Store(items, 1) /\ UNCHANGED << capacity, failed >>
  <2>1. length + 1 <= capacity  BY <1>1, <1>4 DEF dynamic_array_is_full
  <2> QED  BY <1>4, <2>1, StoreInPlaceKeeps DEF Added, Store
<1> QED  BY <1>3, <1>4 DEF dynamic_array_push_back_byte, size

LEMMA PushKeeps ==
  ASSUME ArrayInv, NEW n \in Nat, dynamic_array_push_back(n)
  PROVE  ArrayInv' /\ (failed => failed') /\ (~failed => Added(n))
<1>1. length \in Nat /\ capacity \in Nat /\ length <= capacity  BY DEF ArrayInv, TypeOK
<1>2. CASE dynamic_array_would_overflow(n) /\ Grow(push_capacity(n), n)
  <2>1. push_capacity(n) \in Nat /\ length + n <= push_capacity(n)
    BY <1>1, <1>2, ArrayAssumption
    DEF push_capacity, extra_count, MAX, dynamic_array_would_overflow
  <2>2. failed => failed'  BY <1>2 DEF Grow
  <2> QED  BY <1>2, <2>1, <2>2, GrowKeeps, GrowAdds
<1>3. CASE /\ ~dynamic_array_would_overflow(n)
           /\ Store(items, n) /\ UNCHANGED << capacity, failed >>
  <2>1. length + n <= capacity  BY <1>1, <1>3 DEF dynamic_array_would_overflow
  <2> QED  BY <1>3, <2>1, StoreInPlaceKeeps DEF Added, Store
<1> QED  BY <1>2, <1>3 DEF dynamic_array_push_back

LEMMA FreeKeeps ==
  ASSUME ArrayInv, dynamic_array_free
  PROVE  ArrayInv' /\ length' = 0 /\ failed' = failed
BY DEF dynamic_array_free, ArrayInv, TypeOK, KeepsWhatWasPushed

LEMMA ArrayStutters ==
  ASSUME ArrayInv, UNCHANGED vars
  PROVE  ArrayInv' /\ length' = length /\ failed' = failed /\ items' = items
BY DEF vars, arrayVars, ArrayInv, TypeOK, KeepsWhatWasPushed

LEMMA ArrayInit ==
  ASSUME Init
  PROVE  ArrayInv /\ length = 0
<1>1. PICK n \in 0 .. MaxPush : capacity = n /\ items = [ i \in 1 .. n |-> 0 ]
  BY DEF Init
<1>2. n \in Nat /\ items \in Seq(Nat \cup {Junk}) /\ Len(items) = n
  BY <1>1, ArrayAssumption
<1> QED  BY <1>1, <1>2 DEF Init, ArrayInv, TypeOK, KeepsWhatWasPushed

\* Whatever sequence of pushes and frees is made, with blocks of any size and
\* allocations that fail at any time: as long as none failed, every byte pushed is
\* at its place in a block of `capacity` bytes and nothing was written beside it.
THEOREM ArrayKeepsWhatWasPushed == Spec => []KeepsWhatWasPushed
<1>1. ArrayInv /\ [Next]_vars => ArrayInv'
  <2> SUFFICES ASSUME ArrayInv, [Next]_vars PROVE ArrayInv'
    OBVIOUS
  <2>1. ASSUME NEW n \in 1 .. MaxPush, dynamic_array_push_back(n) PROVE ArrayInv'
    <3>1. n \in Nat  BY ArrayAssumption
    <3> QED  BY <2>1, <3>1, PushKeeps
  <2> QED  BY <2>1, PushByteKeeps, FreeKeeps, ArrayStutters DEF Next
<1>2. ArrayInv => KeepsWhatWasPushed  BY DEF ArrayInv
<1> QED  BY <1>1, <1>2, ArrayInit, PTL DEF Spec

-----------------------------------------------------------------------------
(* Sequences, and what the scanner cuts off.                               *)

LEMMA LeastElement ==
  ASSUME NEW T, T \subseteq Nat, T # {}
  PROVE  Min(T) \in T /\ \A y \in T : Min(T) <= y
<1> DEFINE R == OpToRel(<, Nat)
<1>1. IsWellFoundedOn(R, Nat)  BY NatLessThanWellFounded
<1>2. \A x, y \in Nat : x < y => << x, y >> \in R  BY DEF OpToRel
<1> HIDE DEF R
<1>3. PICK x \in T : \A y \in T : ~ (<< y, x >> \in R)  BY <1>1, WFMin
<1>4. \A y \in T : ~ (y < x)  BY <1>2, <1>3, Zenon
<1>5. \A y \in T : x <= y  BY <1>4
<1> QED  BY <1>5 DEF Min

\* Neighbouring pieces of a sequence.
LEMMA Pasted ==
  ASSUME NEW S, NEW s \in Seq(S), NEW a \in Nat, NEW b \in Nat, NEW c \in Nat,
         a <= b, b <= c, c <= Len(s)
  PROVE  SubSeq(s, a + 1, b) \o SubSeq(s, b + 1, c) = SubSeq(s, a + 1, c)
<1> DEFINE u == SubSeq(s, a + 1, b)
           v == SubSeq(s, b + 1, c)
           w == SubSeq(s, a + 1, c)
<1>1. u \in Seq(S) /\ Len(u) = b - a /\ \A i \in 1 .. b - a : u[i] = s[a + i]  OBVIOUS
<1>2. v \in Seq(S) /\ Len(v) = c - b /\ \A i \in 1 .. c - b : v[i] = s[b + i]  OBVIOUS
<1>3. w \in Seq(S) /\ Len(w) = c - a /\ \A i \in 1 .. c - a : w[i] = s[a + i]  OBVIOUS
<1> HIDE DEF u, v, w
<1>4. u \o v \in Seq(S) /\ Len(u \o v) = c - a
  <2>1. (b - a) + (c - b) = c - a  OBVIOUS
  <2>2. u \o v \in Seq(S) /\ Len(u \o v) = Len(u) + Len(v)
    BY <1>1, <1>2, ConcatProperties
  <2> QED  BY <1>1, <1>2, <2>1, <2>2
<1>5. ASSUME NEW i \in 1 .. c - a PROVE (u \o v)[i] = w[i]
  <2>0. (u \o v)[i] = IF i <= Len(u) THEN u[i] ELSE v[i - Len(u)]
    <3>1. i \in 1 .. Len(u) + Len(v)  BY <1>1, <1>2
    <3> QED  BY <1>1, <1>2, <3>1, ConcatProperties
  <2>1. CASE i \in 1 .. b - a
    <3>1. u[i] = s[a + i] /\ i <= Len(u)  BY <1>1, <2>1
    <3>2. w[i] = s[a + i]  BY <1>3
    <3> QED  BY <2>0, <3>1, <3>2
  <2>2. CASE i \in b - a + 1 .. c - a
    <3>1. i - (b - a) \in 1 .. c - b /\ b + (i - (b - a)) = a + i  BY <2>2
    <3>2. (u \o v)[i] = v[i - (b - a)]  BY <1>1, <2>0, <2>2
    <3> QED  BY <1>2, <1>3, <3>1, <3>2
  <2>3. i \in 1 .. b - a \/ i \in b - a + 1 .. c - a  OBVIOUS
  <2> QED  BY <2>1, <2>2, <2>3
<1> QED  BY <1>3, <1>4, <1>5, SeqEqual DEF u, v, w

\* Two bytes in a row.
LEMMA TwoBytes ==
  ASSUME NEW S, NEW s \in Seq(S), NEW k \in Nat, k + 2 <= Len(s)
  PROVE  LET two == SubSeq(s, k + 1, k + 2)
         IN  two \in Seq(S) /\ Len(two) = 2 /\ two[1] = s[k + 1] /\ two[2] = s[k + 2]
<1> DEFINE m == k + 2
           two == SubSeq(s, k + 1, m)
<1>1. m \in Nat /\ k <= m /\ m <= Len(s) /\ m - k = 2  OBVIOUS
<1> HIDE DEF m
<1>2. two \in Seq(S) /\ Len(two) = m - k /\ \A i \in 1 .. m - k : two[i] = s[k + i]
  BY <1>1
<1> HIDE DEF two
<1>3. two[1] = s[k + 1] /\ two[2] = s[k + 2] /\ Len(two) = 2  BY <1>1, <1>2
<1> QED  BY <1>2, <1>3 DEF two, m

\* What is appended does not touch the front.
LEMMA FrontStays ==
  ASSUME NEW S, NEW s \in Seq(S), NEW t \in Seq(S), NEW k \in 0 .. Len(s)
  PROVE  SubSeq(s \o t, 1, k) = SubSeq(s, 1, k)
<1> DEFINE u == SubSeq(s \o t, 1, k)
           v == SubSeq(s, 1, k)
<1>1. s \o t \in Seq(S) /\ Len(s \o t) = Len(s) + Len(t) /\ k \in Nat
      /\ \A i \in 1 .. k : (s \o t)[i] = s[i]
  OBVIOUS
<1>2. u \in Seq(S) /\ Len(u) = k /\ \A i \in 1 .. k : u[i] = (s \o t)[i]
  BY <1>1
<1>3. v \in Seq(S) /\ Len(v) = k /\ \A i \in 1 .. k : v[i] = s[i]  OBVIOUS
<1> HIDE DEF u, v
<1> QED  BY <1>1, <1>2, <1>3, SeqEqual DEF u, v

\* A line: bytes without CR LF, and then CR LF.
IsLine(text, n) ==
  /\ n \in Nat /\ n + 2 <= Len(text)
  /\ SubSeq(text, 1, n + 2) = SubSeq(text, 1, n) \o CRLF
  /\ Places(SubSeq(text, 1, n), Slice(0, n), CRLF) = {}

LEMMA LineStays ==
  ASSUME NEW S, NEW text \in Seq(S), NEW more \in Seq(S), NEW n, IsLine(text, n)
  PROVE  IsLine(text \o more, n)
<1>1. n \in Nat /\ n \in 0 .. Len(text) /\ n + 2 \in 0 .. Len(text)  BY DEF IsLine
<1>2. /\ SubSeq(text \o more, 1, n) = SubSeq(text, 1, n)
      /\ SubSeq(text \o more, 1, n + 2) = SubSeq(text, 1, n + 2)
  BY <1>1, FrontStays
<1>3. n + 2 <= Len(text \o more)  BY <1>1
<1> QED  BY <1>1, <1>2, <1>3 DEF IsLine

\* What scanner_next_until_slice finds from the start of a buffer is its first line.
LEMMA FirstLineIs ==
  ASSUME NEW S, NEW text \in Seq(S), "CR" \in S, "LF" \in S,
         scanner_next_until_slice(text, Slice(0, Len(text)), CRLF).ok
  PROVE  LET line == scanner_next_until_slice(text, Slice(0, Len(text)), CRLF)
         IN  line.out = Slice(0, line.out.len) /\ IsLine(text, line.out.len)
<1> DEFINE s == Slice(0, Len(text))
           places == Places(text, s, CRLF)
           line == scanner_next_until_slice(text, s, CRLF)
           n == Min(places)
<1>1. s.ptr = 0 /\ s.len = Len(text) /\ Len(CRLF) = 2 /\ Len(text) \in Nat
  BY DEF Slice, CRLF
<1>2. places = { k \in 0 .. Len(text) - 2 : SubSeq(text, k + 1, k + 2) = CRLF }
  <2>1. \A k \in Int : 0 + k + 1 = k + 1 /\ 0 + k + 2 = k + 2  OBVIOUS
  <2>2. places = { k \in 0 .. Len(text) - 2 : SubSeq(text, 0 + k + 1, 0 + k + 2) = CRLF }
    BY <1>1 DEF Places
  <2>3. \A k \in 0 .. Len(text) - 2 : SubSeq(text, 0 + k + 1, 0 + k + 2) = SubSeq(text, k + 1, k + 2)
    BY <1>1, <2>1
  <2> HIDE DEF places
  <2> QED  BY <2>2, <2>3, Zenon
<1>3. places # {} /\ line = CutAt(s, n)
  BY DEF scanner_next_until_slice, ScanError
<1>4. places \subseteq Nat  BY <1>1, <1>2
<1>5. n \in places /\ \A k \in places : n <= k  BY <1>3, <1>4, LeastElement
<1>6. line.out = Slice(0, n) /\ line.out.len = n  BY <1>1, <1>3 DEF CutAt, Slice
<1> HIDE DEF n, line
<1> HIDE DEF places
<1>7. n \in Nat /\ n + 2 <= Len(text) /\ SubSeq(text, n + 1, n + 2) = CRLF
  <2>1. n \in 0 .. Len(text) - 2 /\ SubSeq(text, n + 1, n + 2) = CRLF  BY <1>2, <1>5
  <2> QED  BY <1>1, <2>1
<1>8. SubSeq(text, 1, n + 2) = SubSeq(text, 1, n) \o CRLF
  <2>1. 0 \in Nat /\ n + 2 \in Nat /\ 0 <= n /\ n <= n + 2 /\ 0 + 1 = 1  BY <1>7
  <2>2. SubSeq(text, 0 + 1, n) \o SubSeq(text, n + 1, n + 2) = SubSeq(text, 0 + 1, n + 2)
    BY <1>7, <2>1, Pasted
  <2> QED  BY <1>7, <2>1, <2>2
<1>9. Places(SubSeq(text, 1, n), Slice(0, n), CRLF) = {}
  <2> DEFINE front == SubSeq(text, 1, n)
  <2>1. /\ front \in Seq(S) /\ Len(front) = n
        /\ \A i \in 1 .. n : front[i] = text[i]
    BY <1>7
  <2> HIDE DEF front
  <2>2. ASSUME NEW k \in Places(front, Slice(0, n), CRLF) PROVE FALSE
    <3>1. k \in 0 .. n - 2 /\ SubSeq(front, k + 1, k + 2) = CRLF
      BY <1>1, <2>2 DEF Places, Slice
    <3>2. SubSeq(front, k + 1, k + 2) = SubSeq(text, k + 1, k + 2)
      <4> DEFINE x == SubSeq(front, k + 1, k + 2)
                 y == SubSeq(text, k + 1, k + 2)
      <4>1. k + 1 \in 1 .. n /\ k + 2 \in 1 .. n  BY <1>7, <3>1
      <4>2. x \in Seq(S) /\ Len(x) = 2 /\ x[1] = front[k + 1] /\ x[2] = front[k + 2]
        <5>1. k \in Nat /\ k + 2 <= Len(front)  BY <2>1, <3>1, <4>1
        <5> QED  BY <2>1, <5>1, TwoBytes
      <4>3. y \in Seq(S) /\ Len(y) = 2 /\ y[1] = text[k + 1] /\ y[2] = text[k + 2]
        <5>1. k \in Nat /\ k + 2 <= Len(text)  BY <1>1, <1>7, <3>1, <4>1
        <5> QED  BY <5>1, TwoBytes
      <4>4. x[1] = y[1] /\ x[2] = y[2]  BY <2>1, <4>1, <4>2, <4>3
      <4> HIDE DEF x, y
      <4>5. \A i \in 1 .. Len(x) : x[i] = y[i]  BY <4>2, <4>4
      <4>6. x = y  BY <4>2, <4>3, <4>5, SeqEqual
      <4> QED  BY <4>6 DEF x, y
    <3>3. k \in places  BY <1>2, <1>7, <3>1, <3>2
    <3> QED  BY <1>5, <1>7, <3>1, <3>3
  <2> QED  BY <2>2 DEF front
<1> QED  BY <1>6, <1>7, <1>8, <1>9 DEF IsLine, line

\* What the owner's scanner cuts off, and what is left of its input, are the input:
\* the input reaches to the end of the data, or is empty.
Reaches(slice, n) ==
  /\ slice \in [ ptr : Nat, len : Nat ]
  /\ slice.len = 0 \/ slice.ptr + slice.len = n

IsCut(answer, n) ==
  /\ answer.out \in [ ptr : Nat, len : Nat ] /\ answer.input \in [ ptr : Nat, len : Nat ]
  /\ answer.input.ptr = answer.out.ptr + answer.out.len
  /\ answer.input.ptr + answer.input.len = n

LEMMA CutIs ==
  ASSUME NEW n \in Nat, NEW s, Reaches(s, n), s.len # 0, NEW k \in 0 .. s.len
  PROVE  CutAt(s, k).ok /\ IsCut(CutAt(s, k), n) /\ Reaches(CutAt(s, k).input, n)
<1>1. s.ptr \in Nat /\ s.len \in Nat /\ s.ptr + s.len = n  BY DEF Reaches
<1> DEFINE p == s.ptr
           l == s.len
           q == p + k
           m == l - k
<1>2. /\ p \in Nat /\ k \in Nat /\ q \in Nat /\ m \in Nat /\ q + m = n  BY <1>1
<1>3. CutAt(s, k) = [ ok |-> TRUE, out |-> Slice(p, k), input |-> Slice(q, m) ]
  BY DEF CutAt
<1> HIDE DEF p, l, m
<1> QED  BY <1>2, <1>3 DEF IsCut, Reaches, Slice

LEMMA ScanErrorIs ==
  ASSUME NEW n \in Nat, NEW s, Reaches(s, n)
  PROVE  ~ScanError(s).ok /\ Reaches(ScanError(s).input, n)
BY DEF ScanError

LEMMA AnswerIs ==
  ASSUME NEW n \in Nat, NEW s, Reaches(s, n), NEW text, NEW answer,
         \/ answer = scanner_next_until_end(text, s)
         \/ \E pattern \in Seq(Byte) : answer = scanner_next_until_slice(text, s, pattern)
  PROVE  /\ answer.ok => IsCut(answer, n)
         /\ Reaches(answer.input, n)
<1>1. CASE answer = ScanError(s)  BY <1>1, ScanErrorIs
<1>2. CASE s.len # 0 /\ \E k \in 0 .. s.len : answer = CutAt(s, k)
  BY <1>2, CutIs
<1>3. s.len \in Nat  BY DEF Reaches
<1>4. CASE answer = scanner_next_until_end(text, s)
  <2>1. s.len \in 0 .. s.len  BY <1>3
  <2> QED  BY <1>1, <1>2, <1>4, <2>1 DEF scanner_next_until_end, str_slice_is_empty
<1>5. CASE \E pattern \in Seq(Byte) : answer = scanner_next_until_slice(text, s, pattern)
  <2>1. PICK pattern \in Seq(Byte) : answer = scanner_next_until_slice(text, s, pattern)
    BY <1>5
  <2> DEFINE places == Places(text, s, pattern)
  <2>2. places \subseteq 0 .. s.len
    <3>1. Len(pattern) \in Nat  OBVIOUS
    <3>2. 0 .. s.len - Len(pattern) \subseteq 0 .. s.len  BY <1>3, <3>1
    <3> QED  BY <3>2 DEF Places
  <2>3. places \subseteq Nat  BY <1>3, <2>2
  <2>4. places # {} => Min(places) \in 0 .. s.len
    <3> HIDE DEF places
    <3> QED  BY <2>2, <2>3, LeastElement
  <2> QED  BY <1>1, <1>2, <2>1, <2>4 DEF scanner_next_until_slice, str_slice_is_empty
<1> QED  BY <1>4, <1>5

-----------------------------------------------------------------------------
(* The reader and the owner.  `pushed` is the contents of the array as long *)
(* as no allocation has failed.                                             *)

PeerOK ==
  /\ peer \in [ sent : Seq(Byte), closes : BOOLEAN, taken : Nat ]
  /\ peer.taken <= Len(peer.sent)

ContentsInv ==
  /\ pushed \in Seq(Byte) /\ Len(pushed) = length
  /\ before \in Seq(Byte)
  /\ running => pushed = before \o SubSeq(peer.sent, 1, peer.taken)

ScanInv ==
  /\ running /\ scan.ok => scan.out = Slice(0, scan.out.len) /\ IsLine(pushed, scan.out.len)
  /\ ~running => Reaches(scanner, Len(pushed)) /\ (scan.ok => IsCut(scan, Len(pushed)))

RequestInv ==
  /\ ArrayInv /\ PeerOK
  /\ ~failed => ContentsInv /\ ScanInv

LEMMA DataIs ==
  ASSUME ArrayInv, ~failed, ContentsInv
  PROVE  Data = pushed
<1>1. /\ length \in Nat /\ Len(items) = capacity /\ length <= capacity /\ capacity \in Nat
      /\ \A i \in 1 .. length : items[i] = i
  BY DEF ArrayInv, TypeOK, KeepsWhatWasPushed
<1>2. Min({length, Len(items)}) = length  BY <1>1 DEF Min
<1>3. pushed \in Seq(Byte) /\ Len(pushed) = length  BY DEF ContentsInv
<1>4. \A i \in 1 .. length : items[i] # Junk  BY <1>1, ArrayAssumption
<1>5. /\ Data = [ i \in 1 .. length |-> pushed[items[i]] ]
  BY <1>2, <1>4 DEF Data
<1>6. Data = [ i \in 1 .. length |-> pushed[i] ]  BY <1>1, <1>5
<1>7. pushed = [ i \in 1 .. Len(pushed) |-> pushed[i] ]  BY <1>3
<1> QED  BY <1>3, <1>6, <1>7

\* Nothing is scanned while the scanner is empty.
NothingScanned == scanner = Slice(0, 0) /\ scan = NoScan

LEMMA ScanReset ==
  ASSUME pushed \in Seq(Byte), NothingScanned
  PROVE  ScanInv
<1>1. Reaches(scanner, Len(pushed))  BY DEF Reaches, NothingScanned, Slice
<1>2. ~scan.ok  BY DEF NothingScanned, NoScan, ScanError
<1> QED  BY <1>1, <1>2 DEF ScanInv

LEMMA RequestInitially ==
  ASSUME RequestInit
  PROVE  RequestInv
<1>1. ArrayInv /\ length = 0  BY ArrayInit DEF RequestInit
<1>2. PeerOK  BY DEF RequestInit, PeerOK, NoPeer
<1>3. ContentsInv  BY <1>1 DEF RequestInit, ContentsInv
<1>4. ScanInv  BY ScanReset DEF RequestInit, NothingScanned
<1> QED  BY <1>1, <1>2, <1>3, <1>4 DEF RequestInv

\* Outside of the reader, with a scanner that was not used yet.
LEMMA OutsideReader ==
  ASSUME ArrayInv', PeerOK', ~running', NothingScanned',
         ~failed' => pushed' \in Seq(Byte) /\ Len(pushed') = length' /\ before' \in Seq(Byte)
  PROVE  RequestInv'
<1>1. (pushed \in Seq(Byte) /\ NothingScanned => ScanInv)'  BY ScanReset, PTL
<1>2. ~failed' => ContentsInv'  BY DEF ContentsInv
<1> QED  BY <1>1, <1>2 DEF RequestInv

\* Every way out of http_request_poll_and_read.
LEMMA Returned ==
  ASSUME ArrayInv', returns_error,
         ~failed' => pushed' \in Seq(Byte) /\ Len(pushed') = length'
  PROVE  RequestInv'
<1>1. PeerOK'  BY DEF returns_error, NoPeer, PeerOK
<1>2. ~running' /\ NothingScanned' /\ before' = << >>  BY DEF returns_error, NothingScanned
<1> QED  BY <1>1, <1>2, OutsideReader

\* A push of bytes, as both the owner and the reader make it.
LEMMA BytesPushed ==
  ASSUME RequestInv, NEW bytes \in Seq(Byte), bytes # << >>,
         failed => failed', ~failed => Added(Len(bytes)),
         pushed' = IF length' = length THEN pushed ELSE pushed \o bytes
  PROVE  ~failed' => /\ ~failed /\ length' # length
                     /\ pushed' = pushed \o bytes
                     /\ pushed' \in Seq(Byte) /\ Len(pushed') = length'
<1> SUFFICES ASSUME ~failed'
             PROVE  /\ ~failed /\ length' # length
                    /\ pushed' = pushed \o bytes
                    /\ pushed' \in Seq(Byte) /\ Len(pushed') = length'
  OBVIOUS
<1>1. ~failed /\ length' = length + Len(bytes)  BY DEF Added
<1>2. pushed \in Seq(Byte) /\ Len(pushed) = length /\ length \in Nat
  BY <1>1 DEF RequestInv, ContentsInv, ArrayInv, TypeOK
<1>3. Len(bytes) \in Nat /\ Len(bytes) # 0  OBVIOUS
<1>4. length' # length  BY <1>1, <1>2, <1>3
<1>5. pushed \o bytes \in Seq(Byte) /\ Len(pushed \o bytes) = Len(pushed) + Len(bytes)
  BY <1>2, ConcatProperties
<1> QED  BY <1>1, <1>2, <1>4, <1>5

LEMMA OwnerPushesStep ==
  ASSUME RequestInv, OwnerPushes
  PROVE  RequestInv'
<1>1. PICK bytes \in Buffers :
        /\ \/ Len(bytes) = 1 /\ dynamic_array_push_back_byte
           \/ dynamic_array_push_back(Len(bytes))
        /\ Pushes(bytes)
  BY DEF OwnerPushes
<1>2. bytes \in Seq(Byte) /\ Len(bytes) \in Nat /\ bytes # << >>
  BY RequestAssumption
<1>3. ~running' /\ peer' = peer /\ before' = before  BY DEF OwnerPushes
<1>4. /\ NothingScanned'
      /\ pushed' = IF length' = length THEN pushed ELSE pushed \o bytes
  BY <1>1 DEF Pushes, NothingScanned
<1>5. ArrayInv  BY DEF RequestInv
<1>6. ArrayInv' /\ (failed => failed') /\ (~failed => Added(Len(bytes)))
  <2>1. CASE Len(bytes) = 1 /\ dynamic_array_push_back_byte
    BY <1>5, <2>1, PushByteKeeps
  <2>2. CASE dynamic_array_push_back(Len(bytes))
    BY <1>2, <1>5, <2>2, PushKeeps
  <2> QED  BY <1>1, <2>1, <2>2
<1>7. ~failed' => pushed' \in Seq(Byte) /\ Len(pushed') = length' /\ ~failed
  BY <1>2, <1>4, <1>6, BytesPushed
<1>8. ~failed' => before' \in Seq(Byte)  BY <1>3, <1>7 DEF RequestInv, ContentsInv
<1>9. PeerOK'  BY <1>3 DEF RequestInv, PeerOK
<1> QED  BY <1>3, <1>4, <1>6, <1>7, <1>8, <1>9, OutsideReader

LEMMA OwnerFreesStep ==
  ASSUME RequestInv, OwnerFrees
  PROVE  RequestInv'
<1>1. /\ dynamic_array_free /\ pushed' = << >> /\ NothingScanned'
      /\ ~running' /\ peer' = peer /\ before' = before
  BY DEF OwnerFrees, NothingScanned
<1>2. ArrayInv' /\ length' = 0 /\ failed' = failed  BY <1>1, FreeKeeps DEF RequestInv
<1>3. PeerOK'  BY <1>1 DEF RequestInv, PeerOK
<1>4. ~failed' => before' \in Seq(Byte)  BY <1>1, <1>2 DEF RequestInv, ContentsInv
<1> QED  BY <1>1, <1>2, <1>3, <1>4, OutsideReader

LEMMA OwnerScansStep ==
  ASSUME RequestInv, OwnerScans
  PROVE  RequestInv'
<1>1. /\ ~running /\ UNCHANGED << vars, pushed, running, first_chunk, peer, before >>
  BY DEF OwnerScans
<1>2. ArrayInv' /\ failed' = failed /\ length' = length
  BY <1>1, ArrayStutters DEF RequestInv
<1>3. PeerOK'  BY <1>1 DEF RequestInv, PeerOK
<1>4. ASSUME ~failed PROVE ContentsInv' /\ ScanInv'
  <2>1. ContentsInv /\ ScanInv /\ Data = pushed
    BY <1>4, DataIs DEF RequestInv
  <2>2. ContentsInv'  BY <1>1, <1>2, <2>1 DEF ContentsInv
  <2>3. Reaches(scanner, Len(pushed)) /\ pushed \in Seq(Byte) /\ Len(pushed) \in Nat
    BY <1>1, <2>1 DEF ScanInv, ContentsInv
  <2>4. CASE scanner' = str_slice_from_buffer(Data) /\ scan' = NoScan
    <3>1. Reaches(scanner', Len(pushed))
      BY <2>1, <2>3, <2>4 DEF Reaches, str_slice_from_buffer, Slice
    <3>2. ~scan'.ok  BY <2>4 DEF NoScan, ScanError
    <3> QED  BY <1>1, <2>2, <3>1, <3>2 DEF ScanInv
  <2>5. CASE /\ \/ scan' = scanner_next_until_slice(Data, scanner, CRLF)
                \/ \E c \in Byte : scan' = scanner_next_until_char(Data, scanner, c)
                \/ scan' = scanner_next_until_end(Data, scanner)
             /\ scanner' = scan'.input
    <3>1. CRLF \in Seq(Byte) /\ \A c \in Byte : << c >> \in Seq(Byte)
      BY RequestAssumption DEF CRLF
    <3>2. \/ scan' = scanner_next_until_end(Data, scanner)
          \/ \E pattern \in Seq(Byte) : scan' = scanner_next_until_slice(Data, scanner, pattern)
      BY <2>5, <3>1 DEF scanner_next_until_char
    <3>3. (scan'.ok => IsCut(scan', Len(pushed))) /\ Reaches(scan'.input, Len(pushed))
      BY <2>3, <3>2, AnswerIs
    <3> QED  BY <1>1, <2>2, <2>5, <3>3 DEF ScanInv
  <2> QED  BY <2>4, <2>5 DEF OwnerScans
<1> QED  BY <1>2, <1>3, <1>4 DEF RequestInv

LEMMA CallStep ==
  ASSUME RequestInv, http_request_poll_and_read
  PROVE  RequestInv'
<1>1. /\ UNCHANGED << vars, pushed >> /\ before' = Data /\ NothingScanned'
      /\ \E sent \in Streams, closes \in BOOLEAN :
           peer' = [ sent |-> sent, closes |-> closes, taken |-> 0 ]
  BY DEF http_request_poll_and_read, NothingScanned
<1>2. ArrayInv' /\ failed' = failed /\ length' = length
  BY <1>1, ArrayStutters DEF RequestInv
<1>3. PeerOK' /\ peer'.taken = 0  BY <1>1, RequestAssumption DEF PeerOK
<1>4. ASSUME ~failed PROVE ContentsInv' /\ ScanInv'
  <2>1. ContentsInv /\ Data = pushed /\ pushed \in Seq(Byte)
    BY <1>4, DataIs DEF RequestInv, ContentsInv
  <2>2. SubSeq(peer'.sent, 1, 0) = << >> /\ pushed \o << >> = pushed
    BY <1>3, <2>1 DEF PeerOK
  <2>3. ContentsInv'  BY <1>1, <1>2, <1>3, <2>1, <2>2 DEF ContentsInv
  <2>4. (pushed \in Seq(Byte) /\ NothingScanned => ScanInv)'  BY ScanReset, PTL
  <2> QED  BY <1>1, <2>1, <2>3, <2>4
<1> QED  BY <1>2, <1>3, <1>4 DEF RequestInv

\* The ways out that push nothing.
LEMMA LeaveStep ==
  ASSUME RequestInv, returns_error, UNCHANGED << vars, pushed >>
  PROVE  RequestInv'
<1>1. ArrayInv' /\ failed' = failed /\ length' = length
  BY ArrayStutters DEF RequestInv
<1> QED  BY <1>1, Returned DEF RequestInv, ContentsInv

\* recv returns a piece of what the peer has sent, the next one.
LEMMA PieceIs ==
  ASSUME PeerOK, NEW bytes \in Pieces
  PROVE  /\ bytes \in Seq(Byte) /\ bytes # << >> /\ Len(bytes) \in Nat
         /\ peer.taken + Len(bytes) <= Len(peer.sent)
         /\ SubSeq(peer.sent, 1, peer.taken) \o bytes
              = SubSeq(peer.sent, 1, peer.taken + Len(bytes))
<1> DEFINE sent == peer.sent
           taken == peer.taken
           left == Len(sent) - taken
<1>1. sent \in Seq(Byte) /\ taken \in Nat /\ taken <= Len(sent)  BY DEF PeerOK
<1>2. Len(sent) \in Nat /\ left \in Nat /\ RECV_BUFFER_SIZE \in Nat
  BY <1>1, RequestAssumption, ArrayAssumption
<1> HIDE DEF left
<1>3. Min({RECV_BUFFER_SIZE, left}) <= left /\ Min({RECV_BUFFER_SIZE, left}) \in Nat
  <2>1. {RECV_BUFFER_SIZE, left} \subseteq Nat /\ {RECV_BUFFER_SIZE, left} # {}  BY <1>2
  <2> QED  BY <2>1, LeastElement
<1>4. PICK n \in 1 .. Min({RECV_BUFFER_SIZE, left}) :
        bytes = SubSeq(sent, taken + 1, taken + n)
  BY DEF Pieces, left
<1>5. n \in Nat /\ n # 0 /\ n <= left  BY <1>2, <1>3
<1> DEFINE m == taken + n
<1>6. m \in Nat /\ taken <= m /\ m <= Len(sent) /\ m - taken = n
  BY <1>1, <1>2, <1>5 DEF left
<1>7. bytes = SubSeq(sent, taken + 1, m)  BY <1>4
<1> HIDE DEF m, sent, taken
<1>8. bytes \in Seq(Byte) /\ Len(bytes) = n
  BY <1>1, <1>6, <1>7
<1>9. SubSeq(sent, 1, taken) \o bytes = SubSeq(sent, 1, m)
  <2>1. 0 \in Nat /\ 0 <= taken /\ 0 + 1 = 1  BY <1>1
  <2>2. SubSeq(sent, 0 + 1, taken) \o SubSeq(sent, taken + 1, m) = SubSeq(sent, 0 + 1, m)
    BY <1>1, <1>6, <2>1, Pasted
  <2> QED  BY <1>7, <2>1, <2>2
<1> QED  BY <1>5, <1>6, <1>8, <1>9 DEF m, sent, taken

LEMMA ChunkStep ==
  ASSUME RequestInv, ReceiveChunk
  PROVE  RequestInv'
<1> DEFINE goes_on == length' # length /\ ~crashed' /\ (first_chunk => FirstLine.ok)
<1>1. PICK bytes \in Pieces :
        /\ dynamic_array_push_back(Len(bytes))
        /\ pushed' = IF length' = length THEN pushed ELSE pushed \o bytes
        /\ IF goes_on
           THEN /\ first_chunk' = FALSE
                /\ peer' = [ peer EXCEPT !.taken = @ + Len(bytes) ]
                /\ UNCHANGED << running, before >>
                /\ IF first_chunk
                   THEN /\ scan' = FirstLine
                        /\ scanner' = [ FirstLine.input EXCEPT !.len = @ + Len(CRLF) ]
                   ELSE UNCHANGED << scanner, scan >>
           ELSE returns_error
  BY DEF ReceiveChunk
<1>2. running /\ ArrayInv /\ PeerOK  BY DEF ReceiveChunk, RequestInv
<1>3. /\ bytes \in Seq(Byte) /\ bytes # << >> /\ Len(bytes) \in Nat
      /\ peer.taken + Len(bytes) <= Len(peer.sent)
      /\ SubSeq(peer.sent, 1, peer.taken) \o bytes
           = SubSeq(peer.sent, 1, peer.taken + Len(bytes))
  BY <1>2, PieceIs
<1>4. ArrayInv' /\ (failed => failed') /\ (~failed => Added(Len(bytes)))
  BY <1>1, <1>2, <1>3, PushKeeps
<1>5. ~failed' => /\ ~failed /\ pushed' = pushed \o bytes
                  /\ pushed' \in Seq(Byte) /\ Len(pushed') = length'
  BY <1>1, <1>3, <1>4, BytesPushed
<1>6. CASE ~goes_on
  <2>1. returns_error  BY <1>1, <1>6
  <2> QED  BY <1>4, <1>5, <2>1, Returned
<1>7. CASE goes_on
  <2>1. running' = running /\ before' = before /\ peer' = [ peer EXCEPT !.taken = @ + Len(bytes) ]
    BY <1>1, <1>7
  <2>2. PeerOK' /\ peer'.sent = peer.sent /\ peer'.taken = peer.taken + Len(bytes)
    <3> DEFINE taken == peer.taken + Len(bytes)
    <3>1. /\ peer \in [ sent : Seq(Byte), closes : BOOLEAN, taken : Nat ]
          /\ taken \in Nat /\ taken <= Len(peer.sent)
      BY <1>2, <1>3 DEF PeerOK
    <3>2. peer' = [ peer EXCEPT !.taken = taken ]  BY <2>1
    <3> HIDE DEF taken
    <3>3. PeerOK' /\ peer'.sent = peer.sent /\ peer'.taken = taken
      BY <3>1, <3>2 DEF PeerOK
    <3> QED  BY <3>3 DEF taken
  <2>3. ASSUME ~failed' PROVE ContentsInv' /\ ScanInv'
    <3>1. /\ ~failed /\ pushed' = pushed \o bytes
          /\ pushed' \in Seq(Byte) /\ Len(pushed') = length'
          /\ ContentsInv /\ ScanInv
      BY <1>5, <2>3 DEF RequestInv
    <3>2. pushed \in Seq(Byte) /\ before \in Seq(Byte)
          /\ pushed = before \o SubSeq(peer.sent, 1, peer.taken)
      BY <1>2, <3>1 DEF ContentsInv
    <3>3. pushed' = before \o SubSeq(peer'.sent, 1, peer'.taken)
      <4> DEFINE received == SubSeq(peer.sent, 1, peer.taken)
      <4>1. received \in Seq(Byte)
        <5>1. peer.sent \in Seq(Byte) /\ peer.taken \in Nat /\ peer.taken <= Len(peer.sent)
          BY <1>2 DEF PeerOK
        <5> QED  BY <5>1
      <4> HIDE DEF received
      <4>2. (before \o received) \o bytes = before \o (received \o bytes)
        <5>1. before \in Seq(Byte) /\ bytes \in Seq(Byte)  BY <1>3, <3>2
        <5>2. \A x, y, z \in Seq(Byte) : (x \o y) \o z = x \o (y \o z)
          BY ConcatAssociative
        <5> QED  BY <4>1, <5>1, <5>2, Zenon
      <4> QED  BY <1>3, <2>2, <3>1, <3>2, <4>2 DEF received
    <3>4. ContentsInv'  BY <2>1, <3>1, <3>2, <3>3 DEF ContentsInv
    <3>5. running'  BY <1>2, <2>1
    <3>6. CASE first_chunk
      <4>1. Data' = pushed'
        <5>1. (ArrayInv /\ ~failed /\ ContentsInv => Data = pushed)'  BY DataIs, PTL
        <5> QED  BY <1>4, <2>3, <3>4, <5>1
      <4>2. scan' = FirstLine /\ FirstLine.ok  BY <1>1, <1>7, <3>6
      <4>3. FirstLine = scanner_next_until_slice(pushed', Slice(0, Len(pushed')), CRLF)
        BY <4>1 DEF FirstLine, str_slice_from_buffer
      <4>4. scan'.out = Slice(0, scan'.out.len) /\ IsLine(pushed', scan'.out.len)
        BY <3>1, <4>2, <4>3, RequestAssumption, FirstLineIs
      <4> QED  BY <3>4, <3>5, <4>4 DEF ScanInv
    <3>7. CASE ~first_chunk
      <4>1. scan' = scan  BY <1>1, <1>7, <3>7
      <4>2. scan.ok => scan.out = Slice(0, scan.out.len) /\ IsLine(pushed, scan.out.len)
        BY <1>2, <3>1 DEF ScanInv
      <4>3. scan.ok => IsLine(pushed', scan.out.len)
        BY <1>3, <3>1, <3>2, <4>2, LineStays
      <4> QED  BY <3>4, <3>5, <4>1, <4>2, <4>3 DEF ScanInv
    <3> QED  BY <3>6, <3>7
  <2> QED  BY <1>4, <2>2, <2>3 DEF RequestInv
<1> QED  BY <1>6, <1>7

LEMMA RequestInvariance == RequestSpec => []RequestInv
<1>1. RequestInv /\ [RequestNext]_allVars => RequestInv'
  <2> SUFFICES ASSUME RequestInv, [RequestNext]_allVars PROVE RequestInv'
    OBVIOUS
  <2>1. CASE PollOrRecvFails  BY <2>1, LeaveStep DEF PollOrRecvFails
  <2>2. CASE PollTimesOut  BY <2>2, LeaveStep DEF PollTimesOut
  <2>3. CASE ReceiveEnd  BY <2>3, LeaveStep DEF ReceiveEnd
  <2>4. CASE UNCHANGED allVars
    <3>1. UNCHANGED vars /\ UNCHANGED requestVars  BY <2>4 DEF allVars
    <3>2. ArrayInv' /\ failed' = failed /\ length' = length
      BY <3>1, ArrayStutters DEF RequestInv
    <3>3. /\ pushed' = pushed /\ running' = running /\ peer' = peer /\ before' = before
          /\ scanner' = scanner /\ scan' = scan
      BY <3>1 DEF requestVars
    <3> QED  BY <3>2, <3>3 DEF RequestInv, PeerOK, ContentsInv, ScanInv
  <2> QED  BY <2>1, <2>2, <2>3, <2>4, OwnerPushesStep, OwnerFreesStep, OwnerScansStep,
              CallStep, ChunkStep
           DEF RequestNext, Reader
<1> QED  BY <1>1, RequestInitially, PTL DEF RequestSpec

\* In the hands of any owner and of http_request_poll_and_read, too.
THEOREM RequestKeepsWhatWasPushed == RequestSpec => []KeepsWhatWasPushed
<1>1. RequestInv => KeepsWhatWasPushed  BY DEF RequestInv, ArrayInv
<1> QED  BY <1>1, RequestInvariance, PTL

\* For streams, chunks and arrays of any length: while a request is read the array
\* holds what it held before and then what the peer sent, however recv cuts it;
\* reading goes on only behind a first line; and a scanner that an owner uses cuts
\* its input into a piece and the rest, without losing a byte.
THEOREM RequestReadInOrder == RequestSpec => []RequestInOrder
<1>1. RequestInv => RequestInOrder
  <2> SUFFICES ASSUME RequestInv, ~failed PROVE RequestInOrder
    BY DEF RequestInOrder
  <2>1. ContentsInv /\ ScanInv /\ PeerOK /\ Data = pushed /\ pushed \in Seq(Byte)
    BY DataIs DEF RequestInv, ContentsInv
  <2> DEFINE n == Len(pushed)
             line == Text(Data, scan.out)
  <2>2. running => /\ peer.taken <= Len(peer.sent)
                   /\ Data = before \o SubSeq(peer.sent, 1, peer.taken)
    BY <2>1 DEF ContentsInv, PeerOK
  <2>3. ASSUME running, scan.ok
        PROVE  /\ scan.out.ptr + scan.out.len <= Len(Data)
               /\ Len(line) + 2 <= Len(Data)
               /\ SubSeq(Data, 1, Len(line) + 2) = line \o CRLF
               /\ Places(line, str_slice_from_buffer(line), CRLF) = {}
    <3> DEFINE l == scan.out.len
    <3>1. scan.out.ptr = 0 /\ IsLine(pushed, l)  BY <2>1, <2>3 DEF ScanInv, Slice
    <3>2. l \in Nat /\ l + 2 <= n /\ n \in Nat  BY <2>1, <3>1 DEF IsLine
    <3> HIDE DEF l, n
    <3>3. scan.out.ptr + l = l /\ scan.out.ptr + 1 = 1  BY <3>1, <3>2
    <3>4. line = SubSeq(pushed, 1, l)  BY <2>1, <3>3 DEF Text, l
    <3>5. Len(line) = l  BY <2>1, <3>2, <3>4 DEF n
    <3> HIDE DEF line
    <3>6. scan.out.ptr + scan.out.len <= Len(Data)  BY <2>1, <3>2, <3>3 DEF l, n
    <3> QED  BY <2>1, <3>1, <3>2, <3>4, <3>5, <3>6 DEF IsLine, str_slice_from_buffer, n
  <2>4. ASSUME ~running, scan.ok
        PROVE  /\ scan.out.ptr + scan.out.len <= Len(Data)
               /\ line \o Text(Data, scan.input) = SubSeq(Data, scan.out.ptr + 1, Len(Data))
    <3> DEFINE p == scan.out.ptr
               q == scan.input.ptr
    <3>1. /\ p \in Nat /\ scan.out.len \in Nat /\ scan.input.len \in Nat
          /\ q = p + scan.out.len /\ q + scan.input.len = n
      BY <2>1, <2>4 DEF ScanInv, IsCut
    <3>2. q \in Nat /\ n \in Nat /\ p <= q /\ q <= n /\ n <= Len(pushed)
      <4>1. n \in Nat /\ n <= Len(pushed)  BY <2>1
      <4>2. \A x, y \in Nat : x <= x + y /\ x + y \in Nat  OBVIOUS
      <4>3. q \in Nat /\ p <= q  BY <3>1, <4>2, Zenon
      <4>4. q <= n  BY <3>1, <4>2, <4>3, Zenon
      <4> QED  BY <4>1, <4>3, <4>4, Zenon
    <3>3. line = SubSeq(pushed, p + 1, q) /\ Text(Data, scan.input) = SubSeq(pushed, q + 1, n)
      BY <2>1, <3>1 DEF Text
    <3> HIDE DEF p, q, n
    <3>4. SubSeq(pushed, p + 1, q) \o SubSeq(pushed, q + 1, n) = SubSeq(pushed, p + 1, n)
      <4>1. pushed \in Seq(Byte) /\ p \in Nat /\ q \in Nat /\ n \in Nat  BY <2>1, <3>1, <3>2
      <4>2. p <= q /\ q <= n /\ n <= Len(pushed)  BY <3>2
      <4> QED  BY <4>1, <4>2, Pasted
    <3> QED  BY <2>1, <3>1, <3>2, <3>3, <3>4 DEF p, n
  <2> QED  BY <2>2, <2>3, <2>4 DEF RequestInOrder
<1> QED  BY <1>1, RequestInvariance, PTL
=============================================================================
