-------------------------- MODULE ScgiServerProofs --------------------------
(***************************************************************************)
(* Proofs about the SCGI backend: for any number of clients, requests of   *)
(* any length and any size of the arrays of the parser.                    *)
(***************************************************************************)
EXTENDS ScgiServer, SequenceTheorems, FiniteSetTheorems, WellFoundedInduction, TLAPS

-----------------------------------------------------------------------------
(* Connections.  One is open at a time; the ones that wait are different    *)
(* from it and from each other.                                             *)

Reading == {"digits", "headers", "comma", "parse", "answer"}

TypesOK ==
  /\ phase \in Reading \cup {"accept", "close", "killed"}
  /\ backlog \in Seq(Client)
  /\ unsent \in [ Client -> Seq(STRING) ] /\ wire \in [ Client -> Seq(STRING) ]
  /\ read \in [ Client -> Seq(STRING) ]
  /\ left \in [ Client -> BOOLEAN ] /\ closed \in [ Client -> BOOLEAN ]
  /\ answered \in [ Client -> BOOLEAN ] /\ accepted \in SUBSET Client
  /\ phase = "accept" => current = {}
  /\ phase # "accept" => \E c \in Client : current = {c}

ConnInv ==
  /\ \A i, j \in 1 .. Len(backlog) : backlog[i] = backlog[j] => i = j
  /\ \A i \in 1 .. Len(backlog) : backlog[i] \notin current /\ ~closed[backlog[i]]
  /\ \A c \in current : ~closed[c]
  /\ \A c \in Client : read[c] # << >> => c \in current \/ closed[c]
  /\ \A c \in Client : closed[c] \/ c \in current <=> c \in accepted

LEMMA ConnIs ==
  ASSUME TypesOK, phase # "accept"
  PROVE  Conn \in Client /\ current = {Conn}
<1>1. PICK c \in Client : current = {c}  BY DEF TypesOK
<1>2. Conn = c  BY <1>1 DEF Conn
<1> QED  BY <1>1, <1>2

\* What is taken from the stream is what is read, and nothing else changes.
LEMMA TakesIs ==
  ASSUME TypesOK, phase # "accept", NEW n \in 0 .. Len(wire[Conn]), Takes(n)
  PROVE  /\ wire' \in [ Client -> Seq(STRING) ] /\ read' \in [ Client -> Seq(STRING) ]
         /\ read'[Conn] = read[Conn] \o SubSeq(wire[Conn], 1, n)
         /\ \A c \in Client : c # Conn => read'[c] = read[c]
<1>1. Conn \in Client  BY ConnIs
<1>2. wire[Conn] \in Seq(STRING) /\ read[Conn] \in Seq(STRING)  BY <1>1 DEF TypesOK
<1>3. SubSeq(wire[Conn], 1, n) \in Seq(STRING)
      /\ SubSeq(wire[Conn], n + 1, Len(wire[Conn])) \in Seq(STRING)
  BY <1>2
<1>4. read[Conn] \o SubSeq(wire[Conn], 1, n) \in Seq(STRING)  BY <1>2, <1>3, ConcatProperties
<1> DEFINE piece == read[Conn] \o SubSeq(wire[Conn], 1, n)
           rest == SubSeq(wire[Conn], n + 1, Len(wire[Conn]))
<1>5. wire' = [ wire EXCEPT ![Conn] = rest ] /\ read' = [ read EXCEPT ![Conn] = piece ]
  BY DEF Takes
<1> HIDE DEF piece, rest
<1>6. piece \in Seq(STRING) /\ rest \in Seq(STRING)  BY <1>3, <1>4 DEF piece, rest
<1>7. /\ wire' \in [ Client -> Seq(STRING) ] /\ read' \in [ Client -> Seq(STRING) ]
      /\ read'[Conn] = piece
      /\ \A c \in Client : c # Conn => read'[c] = read[c]
  BY <1>1, <1>5, <1>6 DEF TypesOK
<1> QED  BY <1>7 DEF piece

-----------------------------------------------------------------------------
(* The size: the number that the digits in front of the colon are.         *)

LEMMA LeastElement ==
  ASSUME NEW T, T \subseteq Nat, T # {}
  PROVE  Min(T) \in T /\ \A y \in T : Min(T) <= y
<1> DEFINE R == OpToRel(<, Nat)
<1>1. IsWellFoundedOn(R, Nat)  BY NatLessThanWellFounded
<1>2. \A x, y \in Nat : x < y => << x, y >> \in R  BY DEF OpToRel
<1> HIDE DEF R
<1>3. PICK x \in T : \A y \in T : ~ (<< y, x >> \in R)  BY <1>1, WFMin
<1>4. \A y \in T : ~ (y < x)  BY <1>2, <1>3, Zenon
<1>5. \A y \in T : x <= y  BY <1>4
<1> QED  BY <1>5 DEF Min

LEMMA DigitsAre ==
  /\ "colon" \notin Digit
  /\ \A d \in Digit : DigitValue(d) \in Nat
<1>1. Len(Digits) = 5 /\ Digits[1] = "0" /\ Digits[2] = "1" /\ Digits[3] = "2"
      /\ Digits[4] = "3" /\ Digits[5] = "4"
  BY DEF Digits
<1>2. Digit = {"0", "1", "2", "3", "4"}
  <2>1. 1 .. 5 = {1, 2, 3, 4, 5}  OBVIOUS
  <2> QED  BY <1>1, <2>1 DEF Digit
<1>3. ASSUME NEW d \in Digit PROVE DigitValue(d) \in Nat
  <2>1. \E i \in 1 .. Len(Digits) : Digits[i] = d  BY DEF Digit
  <2> DEFINE i == CHOOSE i \in 1 .. Len(Digits) : Digits[i] = d
  <2>2. i \in 1 .. 5  BY <1>1, <2>1
  <2>3. DigitValue(d) = i - 1  BY DEF DigitValue
  <2> HIDE DEF i
  <2> QED  BY <2>2, <2>3
<1>4. "colon" \notin {"0", "1", "2", "3", "4"}  OBVIOUS
<1> QED  BY <1>2, <1>3, <1>4

\* A value for every prefix of the digits, as the loop of cstr_parse_size_t has them.
IsValue(g, ds, n) ==
  \A i \in 0 .. n : g[i] = IF i = 0 THEN 0 ELSE 10 * g[i - 1] + DigitValue(ds[i])

LEMMA ValuesExist ==
  ASSUME NEW ds \in Seq(Digit)
  PROVE  \E g \in [ 0 .. Len(ds) -> Nat ] : IsValue(g, ds, Len(ds))
<1>1. Len(ds) \in Nat /\ \A i \in 1 .. Len(ds) : DigitValue(ds[i]) \in Nat
  <2>1. Len(ds) \in Nat /\ \A i \in 1 .. Len(ds) : ds[i] \in Digit  OBVIOUS
  <2> QED  BY <2>1, DigitsAre
<1> DEFINE Some(n) == \E g \in [ 0 .. n -> Nat ] : IsValue(g, ds, n)
           none == { n \in 0 .. Len(ds) : ~Some(n) }
           m == Min(none)
<1>2. Some(0)
  <2> DEFINE g == [ i \in 0 .. 0 |-> 0 ]
  <2>1. g \in [ 0 .. 0 -> Nat ] /\ IsValue(g, ds, 0)  BY DEF IsValue
  <2> QED  BY <2>1
<1>3. ASSUME NEW n \in 1 .. Len(ds), Some(n - 1) PROVE Some(n)
  <2>1. PICK g \in [ 0 .. n - 1 -> Nat ] : IsValue(g, ds, n - 1)  BY <1>3
  <2> DEFINE v == 10 * g[n - 1] + DigitValue(ds[n])
             h == [ i \in 0 .. n |-> IF i = n THEN v ELSE g[i] ]
  <2>2. n \in Nat /\ n - 1 \in 0 .. n - 1 /\ g[n - 1] \in Nat /\ DigitValue(ds[n]) \in Nat
    BY <1>1, <1>3
  <2>3. v \in Nat
    <3>1. \A x, y \in Nat : 10 * x + y \in Nat  OBVIOUS
    <3> QED  BY <2>2, <3>1
  <2>4. \A i \in 0 .. n : i = n \/ i \in 0 .. n - 1  BY <2>2
  <2> HIDE DEF v
  <2>5. h \in [ 0 .. n -> Nat ]  BY <2>3, <2>4
  <2>6. ASSUME NEW i \in 0 .. n
        PROVE  h[i] = IF i = 0 THEN 0 ELSE 10 * h[i - 1] + DigitValue(ds[i])
    <3>1. CASE i = n
      <4>1. h[i] = v /\ i # 0  BY <2>2, <3>1
      <4>2. h[n - 1] = g[n - 1]  BY <2>2
      <4> QED  BY <3>1, <4>1, <4>2 DEF v
    <3>2. CASE i \in 0 .. n - 1
      <4>1. i # n /\ (i # 0 => i - 1 \in 0 .. n - 1 /\ i - 1 # n)  BY <2>2, <3>2
      <4>2. \A k \in 0 .. n - 1 : k \in 0 .. n  BY <2>2
      <4>3. h[i] = g[i] /\ (i # 0 => h[i - 1] = g[i - 1])  BY <3>2, <4>1, <4>2
      <4> QED  BY <2>1, <3>2, <4>3 DEF IsValue
    <3> QED  BY <2>4, <3>1, <3>2
  <2> HIDE DEF h
  <2> QED  BY <2>5, <2>6 DEF IsValue
<1> HIDE DEF Some
<1>4. none = {}
  <2> SUFFICES ASSUME none # {} PROVE FALSE  OBVIOUS
  <2>1. none \subseteq Nat  BY <1>1
  <2>2. m \in none /\ \A n \in none : m <= n  BY <2>1, LeastElement
  <2> HIDE DEF m
  <2>3. m \in 1 .. Len(ds) /\ ~Some(m)  BY <1>1, <1>2, <2>2
  <2>4. m - 1 \in 0 .. Len(ds) /\ ~(m <= m - 1)  BY <1>1, <2>3
  <2>5. Some(m - 1)  BY <2>2, <2>4
  <2> QED  BY <1>3, <2>3, <2>5
<1> QED  BY <1>1, <1>4 DEF Some

LEMMA ParsedIsNat ==
  ASSUME NEW ds \in Seq(Digit)
  PROVE  cstr_parse_size_t(ds) \in Nat
<1> DEFINE Step(f) == [ i \in 0 .. Len(ds) |->
                          IF i = 0 THEN 0 ELSE 10 * f[i - 1] + DigitValue(ds[i]) ]
           value == CHOOSE f : f = Step(f)
<1>1. PICK g \in [ 0 .. Len(ds) -> Nat ] : IsValue(g, ds, Len(ds))  BY ValuesExist
<1>2. g = Step(g)  BY <1>1 DEF IsValue
<1>3. value = Step(value)  BY <1>2
<1>4. cstr_parse_size_t(ds) = value[Len(ds)]  BY DEF cstr_parse_size_t
<1> HIDE DEF value
<1>5. \A i \in 0 .. Len(ds) : value[i] = IF i = 0 THEN 0 ELSE 10 * value[i - 1] + DigitValue(ds[i])
  BY <1>3
<1> DEFINE bad == { i \in 0 .. Len(ds) : value[i] \notin Nat }
           m == Min(bad)
<1>6. Len(ds) \in Nat /\ \A i \in 1 .. Len(ds) : DigitValue(ds[i]) \in Nat
  BY DigitsAre
<1>7. bad = {}
  <2> SUFFICES ASSUME bad # {} PROVE FALSE  OBVIOUS
  <2>1. bad \subseteq Nat  BY <1>6
  <2>2. m \in bad /\ \A n \in bad : m <= n  BY <2>1, LeastElement
  <2> HIDE DEF m
  <2>3. value[0] = 0 /\ m \in 0 .. Len(ds) /\ value[m] \notin Nat  BY <1>5, <1>6, <2>2
  <2>4. m \in 1 .. Len(ds)  BY <1>6, <2>3
  <2>5. m - 1 \in 0 .. Len(ds) /\ ~(m <= m - 1) /\ m # 0  BY <1>6, <2>4
  <2>6. value[m - 1] \in Nat  BY <2>2, <2>5
  <2>7. value[m] = 10 * value[m - 1] + DigitValue(ds[m])  BY <1>5, <2>3, <2>5
  <2> QED  BY <1>6, <2>3, <2>4, <2>6, <2>7
<1> QED  BY <1>4, <1>6, <1>7

-----------------------------------------------------------------------------
(* What the server has read of the connection that is open: the digits, the *)
(* colon, as many bytes as the digits say, and at most one more.            *)

FullHeaders(c) ==
  /\ \E i \in 1 .. Len(read[c]) : read[c][i] = "colon"
  /\ LET size == cstr_parse_size_t(SubSeq(read[c], 1, Colon(c) - 1))
     IN  Len(read[c]) - Colon(c) - size \in {0, 1}

\* The bytes read from c begin with the digits and a colon.
Starts(c) ==
  /\ Len(digits) + 1 <= Len(read[c])
  /\ \A i \in 1 .. Len(digits) : read[c][i] = digits[i]
  /\ read[c][Len(digits) + 1] = "colon"

Extra(c) == Len(read[c]) - (Len(digits) + 1) - headers_size

Sized == {"headers", "comma", "parse", "answer"}

HeaderInv ==
  /\ digits \in Seq(Digit) /\ headers_size \in Nat
  /\ phase = "digits" => /\ Len(read[Conn]) = Len(digits)
                         /\ \A i \in 1 .. Len(digits) : read[Conn][i] = digits[i]
  /\ phase \in Sized => headers_size = cstr_parse_size_t(digits) /\ Starts(Conn)
  /\ phase = "headers" => Len(read[Conn]) = Len(digits) + 1
  /\ phase = "comma" => Extra(Conn) = 0
  /\ phase \in {"parse", "answer"} => Extra(Conn) \in {0, 1}
  /\ phase \in Reading => ~answered[Conn]
  /\ \A c \in Client : answered[c] => FullHeaders(c)

LEMMA StartsFull ==
  ASSUME NEW c \in Client, read[c] \in Seq(STRING), digits \in Seq(Digit), headers_size \in Nat,
         headers_size = cstr_parse_size_t(digits), Starts(c), Extra(c) \in {0, 1}
  PROVE  FullHeaders(c)
<1> DEFINE text == read[c]
           n == Len(digits)
           colons == { i \in 1 .. Len(text) : text[i] = "colon" }
<1>1. /\ Len(text) \in Nat /\ n \in Nat /\ n + 1 \in 1 .. Len(text) /\ text[n + 1] = "colon"
      /\ \A i \in 1 .. n : text[i] = digits[i] /\ digits[i] \in Digit
  BY DEF Starts
<1>2. colons \subseteq Nat /\ n + 1 \in colons  BY <1>1
<1>3. Colon(c) \in colons /\ \A i \in colons : Colon(c) <= i
  BY <1>2, LeastElement DEF Colon
<1>4. \A i \in 1 .. n : i \notin colons  BY <1>1, DigitsAre
<1>5. Colon(c) = n + 1
  <2> DEFINE k == Colon(c)
  <2>1. k \in Nat /\ k >= 1 /\ k <= n + 1 /\ k \notin 1 .. n  BY <1>1, <1>2, <1>3, <1>4
  <2> HIDE DEF k
  <2> QED  BY <1>1, <2>1 DEF k
<1>6. SubSeq(text, 1, n) = digits
  <2> DEFINE front == SubSeq(text, 1, n)
             Any == STRING \cup Digit
  <2>1. front \in Seq(STRING) /\ Len(front) = n /\ \A i \in 1 .. n : front[i] = text[i]
    BY <1>1
  <2>2. digits \in Seq(Any) /\ front \in Seq(Any)  BY <2>1
  <2> HIDE DEF front, Any
  <2>3. \A i \in 1 .. Len(front) : front[i] = digits[i]  BY <1>1, <2>1
  <2>4. front = digits  BY <2>1, <2>2, <2>3, SeqEqual
  <2> QED  BY <2>4 DEF front
<1>7. Colon(c) - 1 = n  BY <1>1, <1>5
<1> QED  BY <1>1, <1>2, <1>5, <1>6, <1>7 DEF FullHeaders, Extra

\* What was read from a client says whether it was in full, and nothing else.
LEMMA FullStays ==
  ASSUME NEW c, read'[c] = read[c]
  PROVE  FullHeaders(c)' <=> FullHeaders(c)
BY DEF FullHeaders, Colon

LEMMA ConnStays ==
  ASSUME current' = current
  PROVE  Conn' = Conn
BY DEF Conn

\* Steps that read nothing, of the clients or to one of the ends of connection_handle.
LEMMA HeadersStay ==
  ASSUME HeaderInv, read' = read, answered' = answered,
         current' = current, digits' = digits, headers_size' = headers_size,
         phase' = phase \/ (phase = "parse" /\ phase' = "answer")
  PROVE  HeaderInv'
<1>1. Conn' = Conn  BY ConnStays
<1>2. \A c : FullHeaders(c)' <=> FullHeaders(c)  BY FullStays
<1>3. Starts(Conn)' <=> Starts(Conn)  BY <1>1 DEF Starts
<1>4. Extra(Conn)' = Extra(Conn)  BY <1>1 DEF Extra
<1> QED  BY <1>1, <1>2, <1>3, <1>4 DEF HeaderInv, Sized, Reading

LEMMA HeadersEnd ==
  ASSUME HeaderInv, digits' \in Seq(Digit), headers_size' \in Nat, phase' \notin Reading,
         \A c \in Client : answered'[c] => FullHeaders(c)'
  PROVE  HeaderInv'
<1>1. phase' \notin Sized \cup {"digits"}  BY DEF Reading, Sized
<1> QED  BY <1>1 DEF HeaderInv, Sized

-----------------------------------------------------------------------------
(* The steps.                                                              *)

ServerInv == TypesOK /\ ConnInv /\ HeaderInv

LEMMA ConnectStep ==
  ASSUME ServerInv, NEW c \in Client, Connect(c)
  PROVE  ServerInv'
<1>1. /\ phase' = phase /\ current' = current /\ digits' = digits
      /\ headers_size' = headers_size /\ unsent' = unsent /\ wire' = wire /\ left' = left
      /\ closed' = closed /\ accepted' = accepted /\ read' = read /\ answered' = answered
      /\ backlog' = Append(backlog, c) /\ ~Connected(c) /\ ~closed[c]
  BY DEF Connect, serverVars, clientVars, history
<1>2. TypesOK /\ ConnInv /\ HeaderInv /\ backlog \in Seq(Client)  BY DEF ServerInv, TypesOK
<1>3. /\ backlog' \in Seq(Client) /\ Len(backlog') = Len(backlog) + 1 /\ Len(backlog) \in Nat
      /\ backlog'[Len(backlog) + 1] = c
      /\ \A i \in 1 .. Len(backlog) : backlog'[i] = backlog[i]
  BY <1>1, <1>2
<1>4. c \notin current /\ \A i \in 1 .. Len(backlog) : backlog[i] # c
  BY <1>1 DEF Connected, Queued
<1>5. TypesOK'  BY <1>1, <1>2, <1>3 DEF TypesOK
<1>6. \A i \in 1 .. Len(backlog') : i \in 1 .. Len(backlog) \/ i = Len(backlog) + 1
  BY <1>3
<1>7. ConnInv'  BY <1>1, <1>2, <1>3, <1>4, <1>6 DEF ConnInv
<1>8. HeaderInv'  BY <1>1, <1>2, HeadersStay
<1> QED  BY <1>5, <1>7, <1>8 DEF ServerInv

LEMMA DeliverStep ==
  ASSUME ServerInv, NEW c \in Client, Deliver(c)
  PROVE  ServerInv'
<1>1. /\ phase' = phase /\ current' = current /\ digits' = digits
      /\ headers_size' = headers_size /\ backlog' = backlog /\ left' = left
      /\ closed' = closed /\ accepted' = accepted /\ read' = read /\ answered' = answered
  BY DEF Deliver, serverVars, history
<1>2. TypesOK /\ ConnInv /\ HeaderInv /\ unsent[c] \in Seq(STRING) /\ wire[c] \in Seq(STRING)
  BY DEF ServerInv, TypesOK
<1>3. PICK n \in 1 .. Len(unsent[c]) :
        /\ wire' = [ wire EXCEPT ![c] = @ \o SubSeq(unsent[c], 1, n) ]
        /\ unsent' = [ unsent EXCEPT ![c] = SubSeq(@, n + 1, Len(@)) ]
  BY DEF Deliver
<1>4. SubSeq(unsent[c], 1, n) \in Seq(STRING)
      /\ SubSeq(unsent[c], n + 1, Len(unsent[c])) \in Seq(STRING)
  BY <1>2
<1>5. wire[c] \o SubSeq(unsent[c], 1, n) \in Seq(STRING)  BY <1>2, <1>4, ConcatProperties
<1>6. wire' \in [ Client -> Seq(STRING) ] /\ unsent' \in [ Client -> Seq(STRING) ]
  BY <1>2, <1>3, <1>4, <1>5 DEF TypesOK
<1>7. TypesOK'  BY <1>1, <1>2, <1>6 DEF TypesOK
<1>8. ConnInv'  BY <1>1, <1>2 DEF ConnInv
<1>9. HeaderInv'  BY <1>1, <1>2, HeadersStay
<1> QED  BY <1>7, <1>8, <1>9 DEF ServerInv

LEMMA LeaveStep ==
  ASSUME ServerInv, NEW c \in Client, Leave(c)
  PROVE  ServerInv'
<1>1. /\ phase' = phase /\ current' = current /\ digits' = digits
      /\ headers_size' = headers_size /\ backlog' = backlog
      /\ unsent' = unsent /\ wire' = wire
      /\ closed' = closed /\ accepted' = accepted /\ read' = read /\ answered' = answered
      /\ left' = [ left EXCEPT ![c] = TRUE ]
  BY DEF Leave, serverVars, history
<1>2. TypesOK /\ ConnInv /\ HeaderInv  BY DEF ServerInv
<1>3. TypesOK'  BY <1>1, <1>2 DEF TypesOK
<1>4. ConnInv'  BY <1>1, <1>2 DEF ConnInv
<1>5. HeaderInv'  BY <1>1, <1>2, HeadersStay
<1> QED  BY <1>3, <1>4, <1>5 DEF ServerInv

LEMMA AcceptStep ==
  ASSUME ServerInv, accept
  PROVE  ServerInv'
<1> DEFINE c == Head(backlog)
<1>1. /\ phase = "accept" /\ backlog # << >> /\ current' = {c} /\ backlog' = Tail(backlog)
      /\ digits' = << >> /\ headers_size' = 0 /\ phase' = "digits"
      /\ unsent' = unsent /\ wire' = wire /\ left' = left
      /\ closed' = closed /\ accepted' = accepted \cup {c} /\ read' = read /\ answered' = answered
  BY DEF accept, clientVars
<1>2. TypesOK /\ ConnInv /\ HeaderInv /\ backlog \in Seq(Client)  BY DEF ServerInv, TypesOK
<1>3. /\ c \in Client /\ c = backlog[1] /\ Len(backlog) \in Nat /\ 1 \in 1 .. Len(backlog)
      /\ backlog' \in Seq(Client) /\ Len(backlog') = Len(backlog) - 1
      /\ \A i \in 1 .. Len(backlog) - 1 : backlog'[i] = backlog[i + 1]
  BY <1>1, <1>2
<1>4. current = {} /\ ~closed[c]  BY <1>1, <1>2, <1>3 DEF TypesOK, ConnInv
<1>5. read[c] = << >> /\ ~answered[c]
  <2>1. read[c] = << >>  BY <1>2, <1>3, <1>4 DEF ConnInv
  <2>2. ~FullHeaders(c)  BY <2>1 DEF FullHeaders
  <2> QED  BY <1>2, <1>3, <2>1, <2>2 DEF HeaderInv
<1> HIDE DEF c
<1>6. TypesOK'  BY <1>1, <1>2, <1>3 DEF TypesOK, Reading
<1>7. ConnInv'
  <2>1. \A i \in 1 .. Len(backlog') : i + 1 \in 1 .. Len(backlog) /\ i + 1 # 1
        /\ backlog'[i] = backlog[i + 1]
    BY <1>3
  <2>2. \A i, j \in 1 .. Len(backlog') : i + 1 = j + 1 => i = j  BY <1>3
  <2>3. \A i, j \in 1 .. Len(backlog') : backlog'[i] = backlog'[j] => i = j
    BY <1>2, <2>1, <2>2 DEF ConnInv
  <2>4. \A i \in 1 .. Len(backlog') : backlog'[i] # c /\ ~closed[backlog'[i]]
    BY <1>2, <1>3, <2>1 DEF ConnInv
  <2>5. \A d \in Client : read'[d] # << >> => closed'[d]
    BY <1>1, <1>2, <1>4 DEF ConnInv
  <2>6. \A d \in Client : closed'[d] \/ d \in current' <=> d \in accepted'
    BY <1>1, <1>2, <1>4 DEF ConnInv
  <2> QED  BY <1>1, <1>4, <2>3, <2>4, <2>5, <2>6 DEF ConnInv
<1>8. HeaderInv'
  <2>1. Conn' = c  BY <1>1 DEF Conn
  <2>2. \A d : FullHeaders(d)' <=> FullHeaders(d)  BY <1>1, FullStays
  <2>3. \A d \in Client : answered'[d] => FullHeaders(d)'  BY <1>1, <1>2, <2>2 DEF HeaderInv
  <2>4. ~answered'[Conn'] /\ Len(read'[Conn']) = 0  BY <1>1, <1>5, <2>1
  <2> QED  BY <1>1, <2>3, <2>4 DEF HeaderInv, Sized
<1> QED  BY <1>6, <1>7, <1>8 DEF ServerInv

\* The open connection stays open and the queue as it is: only what is read from it
\* changes, and whether it was answered.
LEMMA OpenStays ==
  ASSUME ServerInv, phase # "accept", current' = current, backlog' = backlog,
         unsent' = unsent, left' = left, closed' = closed, accepted' = accepted,
         wire' \in [ Client -> Seq(STRING) ], read' \in [ Client -> Seq(STRING) ],
         answered' \in [ Client -> BOOLEAN ],
         phase' \in Reading \cup {"close", "killed"},
         \A c \in Client : c # Conn => read'[c] = read[c]
  PROVE  TypesOK' /\ ConnInv' /\ Conn' = Conn /\ Conn \in Client
<1>1. TypesOK /\ ConnInv  BY DEF ServerInv
<1>2. Conn \in Client /\ current = {Conn} /\ Conn' = Conn  BY <1>1, ConnIs, ConnStays
<1>3. phase' # "accept" /\ phase' \in Reading \cup {"accept", "close", "killed"}
  BY DEF Reading
<1>4. TypesOK'  BY <1>1, <1>2, <1>3 DEF TypesOK
<1>5. ConnInv'  BY <1>1, <1>2 DEF ConnInv
<1> QED  BY <1>2, <1>4, <1>5

\* Answers given before do not depend on what is read from the open connection.
LEMMA AnswersStay ==
  ASSUME ServerInv, phase \in Reading, answered' = answered,
         \A c \in Client : c # Conn => read'[c] = read[c]
  PROVE  \A c \in Client : answered'[c] => FullHeaders(c)'
<1>1. ~answered[Conn] /\ \A c \in Client : answered[c] => FullHeaders(c)
  BY DEF ServerInv, HeaderInv
<1>2. \A c \in Client : c # Conn => (FullHeaders(c)' <=> FullHeaders(c))  BY FullStays
<1> QED  BY <1>1, <1>2

LEMMA RecvFailsStep ==
  ASSUME ServerInv, recv_fails
  PROVE  ServerInv'
<1>1. /\ phase \in Reading /\ phase # "accept" /\ phase' = "close" /\ current' = current
      /\ digits' = digits
      /\ headers_size' = headers_size /\ backlog' = backlog /\ unsent' = unsent
      /\ wire' = wire /\ left' = left /\ closed' = closed
      /\ accepted' = accepted /\ read' = read
      /\ answered' = answered
  BY DEF recv_fails, clientVars, history, Reading
<1>2. TypesOK' /\ ConnInv'
  BY <1>1, OpenStays DEF ServerInv, TypesOK
<1>3. HeaderInv'
  <2>1. \A c \in Client : answered'[c] => FullHeaders(c)'  BY <1>1, AnswersStay
  <2>2. phase' \notin Reading  BY <1>1 DEF Reading
  <2> QED  BY <1>1, <2>1, <2>2, HeadersEnd DEF ServerInv, HeaderInv
<1> QED  BY <1>2, <1>3 DEF ServerInv

\* One byte more is read.
LEMMA OneMore ==
  ASSUME ServerInv, phase \in Reading, wire[Conn] # << >>, Takes(1)
  PROVE  /\ wire' \in [ Client -> Seq(STRING) ] /\ read' \in [ Client -> Seq(STRING) ]
         /\ read[Conn] \in Seq(STRING) /\ Len(read'[Conn]) = Len(read[Conn]) + 1
         /\ \A i \in 1 .. Len(read[Conn]) : read'[Conn][i] = read[Conn][i]
         /\ read'[Conn][Len(read[Conn]) + 1] = Head(wire[Conn])
         /\ \A c \in Client : c # Conn => read'[c] = read[c]
<1>1. TypesOK /\ phase # "accept"  BY DEF ServerInv, Reading
<1>2. wire[Conn] \in Seq(STRING) /\ read[Conn] \in Seq(STRING)  BY <1>1, ConnIs DEF TypesOK
<1>3. 1 \in 0 .. Len(wire[Conn])  BY <1>2
<1> DEFINE old == read[Conn]
           one == SubSeq(wire[Conn], 1, 1)
<1>4. /\ wire' \in [ Client -> Seq(STRING) ] /\ read' \in [ Client -> Seq(STRING) ]
      /\ read'[Conn] = old \o one
      /\ \A c \in Client : c # Conn => read'[c] = read[c]
  BY <1>1, <1>3, TakesIs
<1>5. one \in Seq(STRING) /\ Len(one) = 1 /\ one[1] = Head(wire[Conn])  BY <1>2, <1>3
<1> HIDE DEF one, old
<1>6. old \in Seq(STRING)  BY <1>2 DEF old
<1>7. /\ Len(old \o one) = Len(old) + 1 /\ (old \o one)[Len(old) + 1] = one[1]
      /\ \A i \in 1 .. Len(old) : (old \o one)[i] = old[i]
  <2>1. Len(old) \in Nat /\ Len(old) + 1 - Len(old) = 1  BY <1>6
  <2>2. /\ Len(old \o one) = Len(old) + Len(one)
        /\ \A i \in 1 .. Len(old) + Len(one) :
             (old \o one)[i] = IF i <= Len(old) THEN old[i] ELSE one[i - Len(old)]
    BY <1>5, <1>6, ConcatProperties
  <2> QED  BY <1>5, <2>1, <2>2
<1> QED  BY <1>4, <1>5, <1>6, <1>7 DEF old

LEMMA ReadDigitStep ==
  ASSUME ServerInv, read_digit
  PROVE  ServerInv'
<1> DEFINE c == Head(wire[Conn])
<1>1. /\ phase = "digits" /\ phase \in Reading /\ phase # "accept" /\ wire[Conn] # << >>
      /\ Takes(1) /\ current' = current
      /\ backlog' = backlog /\ unsent' = unsent /\ left' = left /\ closed' = closed
      /\ accepted' = accepted
      /\ answered' = answered
  BY DEF read_digit, Reading
<1>2. /\ wire' \in [ Client -> Seq(STRING) ] /\ read' \in [ Client -> Seq(STRING) ]
      /\ read[Conn] \in Seq(STRING) /\ Len(read'[Conn]) = Len(read[Conn]) + 1
      /\ \A i \in 1 .. Len(read[Conn]) : read'[Conn][i] = read[Conn][i]
      /\ read'[Conn][Len(read[Conn]) + 1] = c
      /\ \A d \in Client : d # Conn => read'[d] = read[d]
  BY <1>1, OneMore
<1>3. /\ digits \in Seq(Digit) /\ headers_size \in Nat /\ Len(read[Conn]) = Len(digits)
      /\ \A i \in 1 .. Len(digits) : read[Conn][i] = digits[i]
      /\ ~answered[Conn] /\ HeaderInv
  BY <1>1 DEF ServerInv, HeaderInv
<1>4. \/ /\ c \in Digit /\ digits' = Append(digits, c)
         /\ phase' = phase /\ headers_size' = headers_size
      \/ /\ c = "colon" /\ headers_size' = cstr_parse_size_t(digits) /\ digits' = digits
         /\ phase' = IF headers_size' >= SCGI_HEADERS_MAX_SIZE THEN "close" ELSE "headers"
      \/ /\ phase' = "close" /\ digits' = digits /\ headers_size' = headers_size
  BY DEF read_digit
<1>5. phase' \in {"digits", "headers", "close"}  BY <1>1, <1>4
<1>6. TypesOK' /\ ConnInv' /\ Conn' = Conn
  <2>1. phase' \in Reading \cup {"close", "killed"}  BY <1>5 DEF Reading
  <2>2. answered' \in [ Client -> BOOLEAN ]  BY <1>1 DEF ServerInv, TypesOK
  <2> QED  BY <1>1, <1>2, <2>1, <2>2, OpenStays
<1>7. \A d \in Client : answered'[d] => FullHeaders(d)'  BY <1>1, <1>2, AnswersStay
<1>8. ~answered'[Conn']  BY <1>1, <1>3, <1>6
<1> HIDE DEF c
<1>9. CASE /\ c \in Digit /\ digits' = Append(digits, c)
           /\ phase' = phase /\ headers_size' = headers_size
  <2>1. /\ digits' \in Seq(Digit) /\ Len(digits') = Len(digits) + 1
        /\ digits'[Len(digits) + 1] = c /\ Len(digits) \in Nat
        /\ \A i \in 1 .. Len(digits) : digits'[i] = digits[i]
    BY <1>3, <1>9
  <2>2. \A i \in 1 .. Len(digits') : i \in 1 .. Len(digits) \/ i = Len(digits) + 1  BY <2>1
  <2>3. \A i \in 1 .. Len(digits') : read'[Conn][i] = digits'[i]
    BY <1>2, <1>3, <2>1, <2>2
  <2>4. Len(read'[Conn]) = Len(digits')  BY <1>2, <1>3, <2>1
  <2>5. HeaderInv'
    BY <1>1, <1>3, <1>6, <1>7, <1>8, <1>9, <2>1, <2>3, <2>4 DEF HeaderInv, Sized
  <2> QED  BY <1>6, <2>5 DEF ServerInv
<1>10. CASE /\ c = "colon" /\ headers_size' = cstr_parse_size_t(digits) /\ digits' = digits
            /\ phase' = IF headers_size' >= SCGI_HEADERS_MAX_SIZE THEN "close" ELSE "headers"
  <2>1. headers_size' \in Nat /\ digits' \in Seq(Digit)  BY <1>3, <1>10, ParsedIsNat
  <2>2. CASE phase' = "close"
    <3>1. phase' \notin Reading  BY <2>2 DEF Reading
    <3> QED  BY <1>3, <1>6, <1>7, <2>1, <3>1, HeadersEnd DEF ServerInv
  <2>3. CASE phase' = "headers"
    <3>1. Len(read'[Conn]) = Len(digits) + 1 /\ Len(digits) \in Nat  BY <1>2, <1>3
    <3>2. Starts(Conn)'
      <4>1. /\ Len(digits') + 1 <= Len(read'[Conn])
            /\ \A i \in 1 .. Len(digits') : read'[Conn][i] = digits'[i]
            /\ read'[Conn][Len(digits') + 1] = "colon"
        BY <1>2, <1>3, <1>10, <3>1
      <4> QED  BY <1>6, <4>1 DEF Starts
    <3>3. Len(read'[Conn']) = Len(digits') + 1  BY <1>6, <1>10, <3>1
    <3>4. HeaderInv'
      BY <1>7, <1>8, <1>10, <2>1, <2>3, <3>2, <3>3 DEF HeaderInv, Sized
    <3> QED  BY <1>6, <3>4 DEF ServerInv
  <2> QED  BY <1>10, <2>2, <2>3
<1>11. CASE phase' = "close" /\ digits' = digits /\ headers_size' = headers_size
  <2>1. phase' \notin Reading  BY <1>11 DEF Reading
  <2> QED  BY <1>3, <1>6, <1>7, <1>11, <2>1, HeadersEnd DEF ServerInv
<1> QED  BY <1>4, <1>9, <1>10, <1>11 DEF c

\* Bytes read behind the colon leave the size as it is.
LEMMA MoreRead ==
  ASSUME ServerInv, phase \in Sized, digits' = digits, headers_size' = headers_size,
         Conn' = Conn, NEW n \in 0 .. Len(wire[Conn]), Takes(n)
  PROVE  /\ wire' \in [ Client -> Seq(STRING) ] /\ read' \in [ Client -> Seq(STRING) ]
         /\ \A c \in Client : c # Conn => read'[c] = read[c]
         /\ Starts(Conn)' /\ Extra(Conn)' = Extra(Conn) + n
<1>1. /\ TypesOK /\ phase # "accept" /\ digits \in Seq(Digit) /\ headers_size \in Nat
      /\ Starts(Conn)
  BY DEF ServerInv, HeaderInv, Sized
<1>2. wire[Conn] \in Seq(STRING) /\ read[Conn] \in Seq(STRING)  BY <1>1, ConnIs DEF TypesOK
<1> DEFINE old == read[Conn]
           more == SubSeq(wire[Conn], 1, n)
<1>3. /\ wire' \in [ Client -> Seq(STRING) ] /\ read' \in [ Client -> Seq(STRING) ]
      /\ read'[Conn] = old \o more
      /\ \A c \in Client : c # Conn => read'[c] = read[c]
  BY <1>1, TakesIs
<1>4. more \in Seq(STRING) /\ Len(more) = n /\ n \in Nat  BY <1>2
<1>5. old \in Seq(STRING) /\ Len(old) \in Nat  BY <1>2
<1>6. /\ Len(digits) \in Nat /\ Len(digits) + 1 <= Len(old) /\ old[Len(digits) + 1] = "colon"
      /\ \A i \in 1 .. Len(digits) : old[i] = digits[i]
  BY <1>1 DEF Starts
<1>7. Extra(Conn) = Len(old) - (Len(digits) + 1) - headers_size  BY DEF Extra
<1> HIDE DEF old, more
<1>8. /\ Len(old \o more) = Len(old) + n
      /\ \A i \in 1 .. Len(old) : (old \o more)[i] = old[i]
  <2>1. /\ Len(old \o more) = Len(old) + Len(more)
        /\ \A i \in 1 .. Len(old) + Len(more) :
             (old \o more)[i] = IF i <= Len(old) THEN old[i] ELSE more[i - Len(old)]
    BY <1>4, <1>5, ConcatProperties
  <2>2. \A i \in 1 .. Len(old) : i \in 1 .. Len(old) + Len(more) /\ i <= Len(old)
    BY <1>4, <1>5
  <2> QED  BY <1>4, <2>1, <2>2
<1>9. Starts(Conn)'
  <2>1. Len(digits) + 1 \in 1 .. Len(old) /\ \A i \in 1 .. Len(digits) : i \in 1 .. Len(old)
    BY <1>5, <1>6
  <2>2. /\ Len(digits) + 1 <= Len(read'[Conn]) /\ read'[Conn][Len(digits) + 1] = "colon"
        /\ \A i \in 1 .. Len(digits) : read'[Conn][i] = digits[i]
    BY <1>3, <1>4, <1>5, <1>6, <1>8, <2>1
  <2> QED  BY <2>2 DEF Starts
<1>10. Extra(Conn)' = Len(old \o more) - (Len(digits) + 1) - headers_size
  BY <1>3 DEF Extra
<1>11. Extra(Conn)' = Extra(Conn) + n  BY <1>1, <1>4, <1>5, <1>6, <1>7, <1>8, <1>10
<1> QED  BY <1>3, <1>9, <1>11

\* A step of connection_handle behind the colon that goes on with enough bytes, or
\* gives up.
LEMMA SizedStep ==
  ASSUME ServerInv, phase \in Sized, phase # "accept", phase \in Reading,
         current' = current, backlog' = backlog,
         unsent' = unsent, left' = left, closed' = closed,
         accepted' = accepted, answered' = answered,
         digits' = digits, headers_size' = headers_size,
         \/ \E n \in 0 .. Len(wire[Conn]) : Takes(n)
         \/ UNCHANGED << wire, read >>,
         \/ phase' = "comma" /\ Extra(Conn)' = 0
         \/ phase' \in {"parse", "answer"} /\ Extra(Conn)' \in {0, 1}
         \/ phase' \in {"close", "killed"}
  PROVE  ServerInv'
<1>1. /\ TypesOK /\ HeaderInv /\ digits \in Seq(Digit) /\ headers_size \in Nat
      /\ headers_size = cstr_parse_size_t(digits) /\ ~answered[Conn] /\ Starts(Conn)
      /\ Conn' = Conn
  BY ConnStays DEF ServerInv, HeaderInv
<1>2. /\ wire' \in [ Client -> Seq(STRING) ] /\ read' \in [ Client -> Seq(STRING) ]
      /\ \A c \in Client : c # Conn => read'[c] = read[c]
      /\ Starts(Conn)'
  <2>1. CASE \E n \in 0 .. Len(wire[Conn]) : Takes(n)
    BY <1>1, <2>1, MoreRead
  <2>2. CASE UNCHANGED << wire, read >>
    BY <1>1, <2>2 DEF TypesOK, Starts
  <2> QED  BY <2>1, <2>2
<1>3. phase' \in Reading \cup {"close", "killed"}  BY DEF Reading
<1>4. answered' \in [ Client -> BOOLEAN ]  BY <1>1 DEF TypesOK
<1>5. TypesOK' /\ ConnInv'  BY <1>2, <1>3, <1>4, OpenStays
<1>6. \A c \in Client : answered'[c] => FullHeaders(c)'  BY <1>2, AnswersStay
<1>7. HeaderInv'
  <2>1. CASE phase' \in {"close", "killed"}
    <3>1. phase' \notin Reading  BY <2>1 DEF Reading
    <3> QED  BY <1>1, <1>6, <3>1, HeadersEnd
  <2>2. CASE \/ phase' = "comma" /\ Extra(Conn)' = 0
             \/ phase' \in {"parse", "answer"} /\ Extra(Conn)' \in {0, 1}
    BY <1>1, <1>2, <1>6, <2>2 DEF HeaderInv
  <2> QED  BY <2>1, <2>2
<1> QED  BY <1>5, <1>7 DEF ServerInv

LEMMA ReadHeadersStep ==
  ASSUME ServerInv, read_headers
  PROVE  ServerInv'
<1>1. /\ phase = "headers" /\ phase \in Sized /\ phase \in Reading /\ phase # "accept"
      /\ current' = current /\ backlog' = backlog
      /\ unsent' = unsent /\ left' = left /\ closed' = closed
      /\ accepted' = accepted /\ answered' = answered
      /\ digits' = digits /\ headers_size' = headers_size
  BY DEF read_headers, Sized, Reading
<1>2. /\ TypesOK /\ headers_size \in Nat /\ Len(read[Conn]) = Len(digits) + 1 /\ Conn' = Conn
      /\ digits \in Seq(Digit)
  BY <1>1, ConnStays DEF ServerInv, HeaderInv
<1>3. Len(wire[Conn]) \in Nat /\ Extra(Conn) = 0 - headers_size
  <2>1. wire[Conn] \in Seq(STRING)  BY <1>1, <1>2, ConnIs DEF TypesOK
  <2> QED  BY <1>2, <2>1 DEF Extra
<1>4. CASE Len(wire[Conn]) >= headers_size /\ Takes(headers_size) /\ phase' = "comma"
  <2>1. headers_size \in 0 .. Len(wire[Conn])  BY <1>2, <1>3, <1>4
  <2>2. Extra(Conn)' = Extra(Conn) + headers_size  BY <1>1, <1>2, <1>4, <2>1, MoreRead
  <2>3. Extra(Conn)' = 0  BY <1>2, <1>3, <2>2
  <2> QED  BY <1>1, <1>4, <2>1, <2>3, SizedStep
<1>5. CASE Takes(Len(wire[Conn])) /\ phase' = "close"
  <2>1. Len(wire[Conn]) \in 0 .. Len(wire[Conn])  BY <1>3
  <2> QED  BY <1>1, <1>5, <2>1, SizedStep
<1> QED  BY <1>4, <1>5 DEF read_headers, StoresHeaders

LEMMA ReadCommaStep ==
  ASSUME ServerInv, read_comma
  PROVE  ServerInv'
<1>1. /\ phase = "comma" /\ phase \in Sized /\ phase \in Reading /\ phase # "accept"
      /\ current' = current /\ backlog' = backlog
      /\ unsent' = unsent /\ left' = left /\ closed' = closed
      /\ accepted' = accepted /\ answered' = answered
      /\ digits' = digits /\ headers_size' = headers_size /\ phase' \in {"parse", "close"}
  BY DEF read_comma, AcceptsByte, Sized, Reading
<1>2. /\ TypesOK /\ Extra(Conn) = 0 /\ Conn' = Conn
  BY <1>1, ConnStays DEF ServerInv, HeaderInv
<1>3. CASE wire[Conn] # << >> /\ Takes(1)
  <2>1. 1 \in 0 .. Len(wire[Conn])
    <3>1. wire[Conn] \in Seq(STRING)  BY <1>1, <1>2, ConnIs DEF TypesOK
    <3> QED  BY <1>3, <3>1
  <2>2. Extra(Conn)' = Extra(Conn) + 1  BY <1>1, <1>2, <1>3, <2>1, MoreRead
  <2>3. Extra(Conn)' \in {0, 1}  BY <1>2, <2>2
  <2> QED  BY <1>1, <1>3, <2>1, <2>3, SizedStep
<1>4. CASE UNCHANGED << wire, read >>
  <2>1. Extra(Conn)' = Extra(Conn)  BY <1>1, <1>2, <1>4 DEF Extra
  <2> QED  BY <1>1, <1>2, <1>4, <2>1, SizedStep
<1> QED  BY <1>3, <1>4 DEF read_comma

LEMMA ParseStep ==
  ASSUME ServerInv, parse
  PROVE  ServerInv'
<1>1. /\ phase = "parse" /\ phase \in Sized /\ phase \in Reading /\ phase # "accept"
      /\ current' = current /\ backlog' = backlog
      /\ unsent' = unsent /\ wire' = wire /\ left' = left /\ closed' = closed
      /\ accepted' = accepted
      /\ read' = read /\ answered' = answered
      /\ digits' = digits /\ headers_size' = headers_size /\ phase' \in {"parse", "answer"}
  BY DEF parse, clientVars, history, Sized, Reading
<1>2. Extra(Conn) \in {0, 1} /\ Conn' = Conn
  BY <1>1, ConnStays DEF ServerInv, HeaderInv
<1>3. Extra(Conn)' = Extra(Conn)  BY <1>1, <1>2 DEF Extra
<1> QED  BY <1>1, <1>2, <1>3, SizedStep

LEMMA SendStep ==
  ASSUME ServerInv, scgi_send_text
  PROVE  ServerInv'
<1>1. /\ phase = "answer" /\ phase \in Sized /\ phase \in Reading /\ phase # "accept"
      /\ current' = current /\ backlog' = backlog
      /\ unsent' = unsent /\ wire' = wire /\ left' = left /\ closed' = closed
      /\ accepted' = accepted /\ read' = read
      /\ digits' = digits /\ headers_size' = headers_size /\ phase' \in {"close", "killed"}
  BY DEF scgi_send_text, clientVars, Sized, Reading
<1>2. CASE answered' = answered  BY <1>1, <1>2, SizedStep
<1>3. CASE answered' = [ answered EXCEPT ![Conn] = TRUE ]
  <2>1. /\ TypesOK /\ HeaderInv /\ digits \in Seq(Digit) /\ headers_size \in Nat
        /\ headers_size = cstr_parse_size_t(digits) /\ Starts(Conn) /\ Extra(Conn) \in {0, 1}
        /\ \A c \in Client : answered[c] => FullHeaders(c)
    BY <1>1 DEF ServerInv, HeaderInv
  <2>2. Conn \in Client /\ read[Conn] \in Seq(STRING)  BY <1>1, <2>1, ConnIs DEF TypesOK
  <2>3. FullHeaders(Conn)  BY <2>1, <2>2, StartsFull
  <2>4. answered' \in [ Client -> BOOLEAN ]
        /\ \A c \in Client : c # Conn => answered'[c] = answered[c]
    BY <1>3, <2>1, <2>2 DEF TypesOK
  <2>5. phase' \in Reading \cup {"close", "killed"} /\ phase' \notin Reading
    BY <1>1 DEF Reading
  <2>6. TypesOK' /\ ConnInv'  BY <1>1, <2>1, <2>4, <2>5, OpenStays DEF TypesOK
  <2>7. \A c \in Client : FullHeaders(c)' <=> FullHeaders(c)  BY <1>1, FullStays
  <2>8. \A c \in Client : answered'[c] => FullHeaders(c)  BY <2>1, <2>3, <2>4
  <2>9. HeaderInv'  BY <1>1, <2>1, <2>5, <2>7, <2>8, HeadersEnd
  <2> QED  BY <2>6, <2>9 DEF ServerInv
<1> QED  BY <1>2, <1>3 DEF scgi_send_text

LEMMA CloseStep ==
  ASSUME ServerInv, close
  PROVE  ServerInv'
<1>1. /\ phase = "close" /\ current' = {} /\ phase' = "accept" /\ backlog' = backlog
      /\ unsent' = unsent /\ wire' = wire /\ left' = left
      /\ closed' = [ closed EXCEPT ![Conn] = TRUE ]
      /\ accepted' = accepted /\ read' = read /\ answered' = answered
      /\ digits' = digits /\ headers_size' = headers_size
  BY DEF close, history
<1>2. TypesOK /\ ConnInv /\ HeaderInv  BY DEF ServerInv
<1>3. Conn \in Client /\ current = {Conn}  BY <1>1, <1>2, ConnIs
<1>4. TypesOK'  BY <1>1, <1>2, <1>3 DEF TypesOK
<1>5. ConnInv'
  <2>1. /\ closed \in [ Client -> BOOLEAN ] /\ closed'[Conn] = TRUE
        /\ \A c \in Client : c # Conn => closed'[c] = closed[c]
    BY <1>1, <1>2, <1>3 DEF TypesOK
  <2>2. \A i \in 1 .. Len(backlog) : backlog[i] \in Client /\ backlog[i] # Conn
    <3>1. backlog \in Seq(Client)  BY <1>2 DEF TypesOK
    <3>2. \A i \in 1 .. Len(backlog) : backlog[i] \in Client  BY <3>1
    <3>3. \A i \in 1 .. Len(backlog) : backlog[i] \notin {Conn}  BY <1>2, <1>3 DEF ConnInv
    <3> QED  BY <3>2, <3>3
  <2>3. \A i \in 1 .. Len(backlog) : ~closed'[backlog[i]]
    BY <1>2, <2>1, <2>2 DEF ConnInv
  <2>4. \A c \in Client : read[c] # << >> => closed'[c]
    BY <1>2, <1>3, <2>1 DEF ConnInv
  <2>5. \A c \in Client : closed'[c] <=> c \in accepted
    BY <1>2, <1>3, <2>1 DEF ConnInv
  <2> QED  BY <1>1, <1>2, <2>3, <2>4, <2>5 DEF ConnInv
<1>6. HeaderInv'
  <2>1. \A c : FullHeaders(c)' <=> FullHeaders(c)  BY <1>1, FullStays
  <2>2. phase' \notin Reading  BY <1>1 DEF Reading
  <2> QED  BY <1>1, <1>2, <2>1, <2>2, HeadersEnd DEF HeaderInv
<1> QED  BY <1>4, <1>5, <1>6 DEF ServerInv

LEMMA ServerStutters ==
  ASSUME ServerInv, UNCHANGED vars
  PROVE  ServerInv'
<1>1. /\ phase' = phase /\ current' = current /\ digits' = digits
      /\ headers_size' = headers_size /\ backlog' = backlog
      /\ unsent' = unsent /\ wire' = wire /\ left' = left
      /\ closed' = closed /\ accepted' = accepted /\ read' = read /\ answered' = answered
  BY DEF vars, serverVars, clientVars, history
<1>2. TypesOK'  BY <1>1 DEF ServerInv, TypesOK
<1>3. ConnInv'  BY <1>1 DEF ServerInv, ConnInv
<1>4. HeaderInv'  BY <1>1, HeadersStay DEF ServerInv
<1> QED  BY <1>2, <1>3, <1>4 DEF ServerInv

LEMMA ServerInit ==
  ASSUME Init
  PROVE  ServerInv
<1>1. TypesOK  BY ScgiServerAssumption DEF Init, TypesOK
<1>2. ConnInv  BY DEF Init, ConnInv
<1>3. HeaderInv  BY DEF Init, HeaderInv, Sized, Reading
<1> QED  BY <1>1, <1>2, <1>3 DEF ServerInv

LEMMA ServerInvariance == Spec => []ServerInv
<1>1. ServerInv /\ [Next]_vars => ServerInv'
  BY ConnectStep, DeliverStep, LeaveStep, AcceptStep, RecvFailsStep, ReadDigitStep,
     ReadHeadersStep, ReadCommaStep, ParseStep, SendStep, CloseStep, ServerStutters
  DEF Next, Server
<1> QED  BY <1>1, ServerInit, PTL DEF Spec

\* For any number of clients: from every return of connection_handle, also before a
\* byte was read, the connection is closed before the next one is accepted, and only a
\* connection that was accepted is ever closed.
THEOREM ServerClosesEveryPath == Spec => []EveryPathCloses
<1>1. ServerInv => EveryPathCloses
  BY DEF ServerInv, TypesOK, ConnInv, EveryPathCloses
<1> QED  BY <1>1, ServerInvariance, PTL

\* However the requests are cut into pieces, only a client that sent a size and at
\* least as many bytes gets an answer, and at most one byte behind them is read.
THEOREM ServerAnswersFullHeaders == Spec => []AnswersOnlyFullHeaders
<1>1. ServerInv => AnswersOnlyFullHeaders
  BY DEF ServerInv, HeaderInv, FullHeaders, AnswersOnlyFullHeaders
<1> QED  BY <1>1, ServerInvariance, PTL

-----------------------------------------------------------------------------
(* The parser.  Behind the last terminator lies the field that is being     *)
(* read; the terminators so far are even in number in front of a name.      *)

Bytes == STRING \cup {"comma", "x"}

InField == state \in {"HEADER_NAME", "HEADER_VALUE"}

CursorsOK ==
  /\ input \in Seq(Bytes) /\ fields \in Seq(Nat \X Nat)
  /\ cursor_start \in Nat /\ cursor_end \in Nat
  /\ cursor_start <= cursor_end /\ cursor_end <= Len(input)
  /\ state \in {"HEADER_NAME", "HEADER_VALUE", "BODY", "DONE"}
  /\ rc \in {-1, 0, 1} /\ (rc = -1 => state # "DONE")

\* Field k of the request, copied.
FieldOK(k) ==
  LET from == fields[k][1]
      to   == fields[k][2]
  IN  /\ Short(from, to)
      /\ from = IF k = 1 THEN 0 ELSE fields[k - 1][2] + 1
      /\ input[to + 1] = "nul"
      /\ \A i \in from + 1 .. to : input[i] # "nul"

\* Where the field that is being read begins.
NextField == IF fields = << >> THEN 0 ELSE fields[Len(fields)][2] + 1

FieldsInv ==
  /\ \A k \in 1 .. Len(fields) : FieldOK(k)
  /\ InField => /\ cursor_start = NextField
                /\ \A i \in cursor_start + 1 .. cursor_end : input[i] # "nul"
  /\ state = "BODY" => cursor_start > 0 /\ input[cursor_start] = "comma"
  /\ rc = 0 => /\ Short(body[1], body[2]) /\ body[2] = Len(input)
               /\ input[body[1]] = "comma"

\* The terminator at e ends a field that is short enough.
ShortUpTo(e) == Short(Max({0} \cup Nuls(e)), e - 1)

\* The names and values up to position p are short enough.
AllShort(p) == \A e \in Nuls(p + 1) : ShortUpTo(e)

ExactInv ==
  /\ InField => /\ Cardinality(Nuls(cursor_end + 1)) % 2 =
                     (IF state = "HEADER_NAME" THEN 0 ELSE 1)
                /\ \A i \in NameCommas : i > cursor_end
                /\ AllShort(cursor_end)
                /\ Max({0} \cup Nuls(cursor_end + 1)) = cursor_start
  /\ state = "BODY" => /\ cursor_start \in NameCommas
                       /\ \A i \in NameCommas : cursor_start <= i
                       /\ \A e \in Nuls(cursor_start) : ShortUpTo(e)
  /\ ParsesExactly

ParserInv == CursorsOK /\ FieldsInv /\ ExactInv

LEMMA NulsAre ==
  ASSUME NEW i \in Nat
  PROVE  /\ IsFiniteSet(Nuls(i)) /\ Cardinality(Nuls(i)) \in Nat
         /\ Nuls(i) \subseteq 1 .. i - 1 /\ i \notin Nuls(i)
         /\ i > 0 /\ input[i] = "nul" =>
              /\ Nuls(i + 1) = Nuls(i) \cup {i}
              /\ Cardinality(Nuls(i + 1)) = Cardinality(Nuls(i)) + 1
         /\ input[i] # "nul" => Nuls(i + 1) = Nuls(i)
<1>1. Nuls(i) \subseteq 1 .. i - 1 /\ i \notin Nuls(i)  BY DEF Nuls
<1>2. IsFiniteSet(1 .. i - 1)  BY FS_Interval
<1>3. IsFiniteSet(Nuls(i))  BY <1>1, <1>2, FS_Subset
<1>4. Cardinality(Nuls(i)) \in Nat  BY <1>3, FS_CardinalityType
<1>5. i > 0 /\ input[i] = "nul" => Nuls(i + 1) = Nuls(i) \cup {i}
  BY DEF Nuls
<1>6. input[i] # "nul" => Nuls(i + 1) = Nuls(i)  BY DEF Nuls
<1>7. Cardinality(Nuls(i) \cup {i}) = Cardinality(Nuls(i)) + 1
  BY <1>1, <1>3, FS_AddElement
<1> QED  BY <1>1, <1>3, <1>4, <1>5, <1>6, <1>7

\* The end of the headers, and the fields in front of it, looked at as a whole.
LEMMA RequestIs ==
  ASSUME NEW m \in NameCommas, \A i \in NameCommas : m <= i
  PROVE  IsRequest <=> (\A e \in Nuls(m) : ShortUpTo(e)) /\ Short(m, Len(input))
<1>1. NameCommas \subseteq Nat /\ NameCommas # {}  BY DEF NameCommas
<1>2. Min(NameCommas) = m
  <2>1. Min(NameCommas) \in NameCommas /\ \A i \in NameCommas : Min(NameCommas) <= i
    BY <1>1, LeastElement
  <2>2. Min(NameCommas) <= m /\ m <= Min(NameCommas) /\ m \in Nat /\ Min(NameCommas) \in Nat
    BY <1>1, <2>1
  <2> QED  BY <2>2
<1>3. m \in Nat  BY <1>1
<1>4. \A e \in Nuls(m) : { j \in Nuls(m) : j < e } = Nuls(e)
  BY <1>3 DEF Nuls
<1> QED  BY <1>1, <1>2, <1>4 DEF IsRequest, ShortUpTo

\* These facts are about the input only.
LEMMA InputReads ==
  ASSUME input' = input
  PROVE  /\ \A i : Nuls(i)' = Nuls(i) /\ ShortUpTo(i)' = ShortUpTo(i)
         /\ \A p : AllShort(p)' = AllShort(p)
         /\ NameCommas' = NameCommas /\ (IsRequest' <=> IsRequest)
<1>1. \A i : Nuls(i)' = Nuls(i)  BY DEF Nuls
<1>2. \A i : ShortUpTo(i)' = ShortUpTo(i)  BY <1>1 DEF ShortUpTo
<1>3. \A p : AllShort(p)' = AllShort(p)  BY <1>1, <1>2 DEF AllShort
<1>4. NameCommas' = NameCommas  BY <1>1 DEF NameCommas
<1>5. IsRequest' <=> IsRequest  BY <1>1, <1>4 DEF IsRequest
<1> QED  BY <1>1, <1>2, <1>3, <1>4, <1>5

ParserFresh ==
  /\ state = "HEADER_NAME" /\ cursor_start = 0 /\ cursor_end = 0
  /\ fields = << >> /\ rc = -1

LEMMA FreshIs ==
  ASSUME input \in Seq(Bytes), ParserFresh
  PROVE  ParserInv
<1>1. CursorsOK  BY DEF ParserFresh, CursorsOK
<1>2. FieldsInv  BY DEF ParserFresh, FieldsInv, NextField, InField
<1>3. Nuls(1) = {} /\ cursor_end + 1 = 1  BY DEF Nuls, ParserFresh
<1>4. Cardinality({}) = 0 /\ Max({0} \cup {}) = 0  BY FS_EmptySet DEF Max
<1>5. Cardinality(Nuls(cursor_end + 1)) % 2 = 0 /\ Max({0} \cup Nuls(cursor_end + 1)) = 0
  <2>1. Nuls(cursor_end + 1) = {}  BY <1>3
  <2>2. 0 % 2 = 0  OBVIOUS
  <2> QED  BY <1>4, <2>1, <2>2
<1>6. AllShort(cursor_end)  BY <1>3 DEF AllShort
<1>7. \A i \in NameCommas : i > 0  BY DEF NameCommas
<1>8. ExactInv  BY <1>5, <1>6, <1>7 DEF ParserFresh, ExactInv, InField, ParsesExactly
<1> QED  BY <1>1, <1>2, <1>8 DEF ParserInv

\* The byte the parser looks at.
LEMMA ByteIs ==
  ASSUME ParserInv, Parsing
  PROVE  /\ cursor_end + 1 \in 1 .. Len(input) /\ cursor_end \in Nat /\ Byte = input[cursor_end + 1]
         /\ rc = -1
BY DEF ParserInv, CursorsOK, Parsing, scgi_parser_eof, Byte

\* One byte more of a name, a value or the body.
LEMMA AdvanceStep ==
  ASSUME ParserInv, Parsing, Advance,
         state = "BODY" \/ (state = "HEADER_NAME" /\ Byte \notin {"comma", "nul"})
                        \/ (state = "HEADER_VALUE" /\ Byte # "nul")
  PROVE  ParserInv'
<1> DEFINE p == cursor_end
           q == cursor_end + 1
<1>1. q \in 1 .. Len(input) /\ p \in Nat /\ q \in Nat /\ Byte = input[q] /\ rc = -1
  BY ByteIs
<1>2. /\ cursor_end' = q /\ input' = input /\ state' = state /\ cursor_start' = cursor_start
      /\ fields' = fields /\ body' = body /\ rc' = rc
  BY DEF Advance
<1>3. CursorsOK /\ FieldsInv /\ ExactInv  BY DEF ParserInv
<1>4. CursorsOK'
  <2>1. cursor_start \in Nat /\ cursor_start <= p  BY <1>3 DEF CursorsOK
  <2>2. cursor_start <= q /\ q <= Len(input)  BY <1>1, <2>1
  <2> QED  BY <1>1, <1>2, <1>3, <2>2 DEF CursorsOK
<1>5. FieldsInv'
  <2>1. NextField' = NextField /\ \A k : FieldOK(k)' <=> FieldOK(k)
    BY <1>2 DEF NextField, FieldOK
  <2>2. InField => \A i \in cursor_start + 1 .. q : input[i] # "nul"
    <3>1. \A i \in cursor_start + 1 .. q : i \in cursor_start + 1 .. p \/ i = q
      BY <1>1, <1>3 DEF CursorsOK
    <3>2. InField => input[q] # "nul"  BY <1>1 DEF InField
    <3> QED  BY <1>3, <3>1, <3>2 DEF FieldsInv
  <2> QED  BY <1>2, <1>3, <2>1, <2>2 DEF FieldsInv, InField
<1>6. ExactInv'
  <2>1. /\ \A i : Nuls(i)' = Nuls(i) /\ ShortUpTo(i)' = ShortUpTo(i)
        /\ NameCommas' = NameCommas
    BY <1>2, InputReads
  <2>2. ParsesExactly'  BY <1>1, <1>2 DEF ParsesExactly
  <2>3. CASE state = "BODY"
    BY <1>2, <1>3, <2>1, <2>2, <2>3 DEF ExactInv, InField
  <2>4. CASE InField
    <3>1. input[q] # "nul" /\ Nuls(q + 1) = Nuls(q)
      BY <1>1, <2>4, NulsAre DEF InField
    <3>2. /\ Cardinality(Nuls(q)) % 2 = (IF state = "HEADER_NAME" THEN 0 ELSE 1)
          /\ \A i \in NameCommas : i > p
          /\ AllShort(p) /\ Max({0} \cup Nuls(q)) = cursor_start
      BY <1>3, <2>4 DEF ExactInv
    <3>3. q \notin NameCommas
      BY <1>1, <3>2 DEF NameCommas
    <3>4. \A i \in NameCommas : i > q
      <4>1. NameCommas \subseteq Int  BY DEF NameCommas
      <4> QED  BY <1>1, <3>2, <3>3, <4>1
    <3>5. \A e \in Nuls(q) : ShortUpTo(e)  BY <3>2 DEF AllShort
    <3>6. Nuls(cursor_end + 1)' = Nuls(q)  BY <1>2, <2>1, <3>1 DEF Nuls
    <3>7. AllShort(cursor_end)'  BY <2>1, <3>5, <3>6 DEF AllShort
    <3> QED  BY <1>2, <2>1, <2>2, <2>4, <3>2, <3>4, <3>6, <3>7 DEF ExactInv, InField
  <2> QED  BY <2>3, <2>4 DEF InField
<1> QED  BY <1>4, <1>5, <1>6 DEF ParserInv

\* A terminator is the greatest of those up to it.
LEMMA LastNul ==
  ASSUME NEW q \in Nat, q > 0, input[q] = "nul"
  PROVE  Max({0} \cup Nuls(q + 1)) = q
<1>1. Nuls(q + 1) = Nuls(q) \cup {q} /\ Nuls(q) \subseteq 1 .. q - 1  BY NulsAre
<1> DEFINE T == {0} \cup Nuls(q + 1)
<1>2. q \in T /\ T \subseteq Int /\ \A y \in T : q >= y  BY <1>1
<1> HIDE DEF T
<1>3. \A x \in T : (\A y \in T : x >= y) => x = q  BY <1>2
<1>4. Max(T) = q  BY <1>2, <1>3 DEF Max
<1> QED  BY <1>4 DEF T

\* The terminator of a field that is too long: the request is none.
LEMMA TooLongStep ==
  ASSUME ParserInv, Parsing, InField, Byte = "nul",
         scgi_parser_cursor_size >= FIELD_SIZE - 1, rc' = 1,
         UNCHANGED << input, state, cursor_start, cursor_end, fields, body >>
  PROVE  ParserInv'
<1> DEFINE p == cursor_end
           q == cursor_end + 1
<1>1. q \in 1 .. Len(input) /\ p \in Nat /\ q \in Nat /\ Byte = input[q] /\ rc = -1
  BY ByteIs
<1>2. /\ input' = input /\ state' = state /\ cursor_start' = cursor_start
      /\ cursor_end' = cursor_end /\ fields' = fields /\ body' = body
  OBVIOUS
<1>3. CursorsOK /\ FieldsInv /\ ExactInv  BY DEF ParserInv
<1>4. CursorsOK'  BY <1>2, <1>3 DEF CursorsOK
<1>5. FieldsInv'
  <2>1. NextField' = NextField /\ \A k : FieldOK(k)' <=> FieldOK(k)
    BY <1>2 DEF NextField, FieldOK
  <2> QED  BY <1>2, <1>3, <2>1 DEF FieldsInv, InField
<1>6. ~IsRequest
  <2> SUFFICES ASSUME IsRequest PROVE FALSE  OBVIOUS
  <2> DEFINE m == Min(NameCommas)
  <2>1. NameCommas # {} /\ NameCommas \subseteq Nat  BY DEF IsRequest, NameCommas
  <2>2. m \in NameCommas /\ \A i \in NameCommas : m <= i  BY <2>1, LeastElement
  <2> HIDE DEF m
  <2>3. \A e \in Nuls(m) : ShortUpTo(e)  BY <2>2, RequestIs
  <2>4. m \in Nat /\ m > p /\ input[m] = "comma"
    BY <1>3, <2>1, <2>2 DEF ExactInv, NameCommas
  <2>5. m # q  BY <1>1, <2>4
  <2>6. q \in 1 .. m - 1  BY <1>1, <2>4, <2>5
  <2>7. q \in Nuls(m)  BY <1>1, <2>6 DEF Nuls
  <2>8. Max({0} \cup Nuls(q)) = cursor_start  BY <1>3 DEF ExactInv
  <2>9. Short(cursor_start, q - 1)  BY <2>3, <2>7, <2>8 DEF ShortUpTo
  <2>10. q - 1 = p  BY <1>1
  <2>11. p - cursor_start < FIELD_SIZE - 1  BY <2>9, <2>10 DEF Short
  <2>12. p - cursor_start \in Int /\ FIELD_SIZE \in Int
    BY <1>1, <1>3, ScgiParserAssumption DEF CursorsOK
  <2> QED  BY <2>11, <2>12 DEF scgi_parser_cursor_size
<1>7. ExactInv'
  <2>1. /\ \A i : Nuls(i)' = Nuls(i) /\ ShortUpTo(i)' = ShortUpTo(i)
        /\ NameCommas' = NameCommas /\ (IsRequest' <=> IsRequest)
    BY <1>2, InputReads
  <2>2. ParsesExactly'  BY <1>6, <2>1 DEF ParsesExactly
  <2>3. AllShort(cursor_end)' <=> AllShort(cursor_end)
    BY <1>2, <2>1 DEF AllShort
  <2> QED  BY <1>2, <1>3, <2>1, <2>2, <2>3 DEF ExactInv, InField
<1> QED  BY <1>4, <1>5, <1>7 DEF ParserInv

\* The terminator of a field that is copied.
LEMMA CopyStep ==
  ASSUME ParserInv, Parsing, InField, Byte = "nul", input' = input, body' = body, rc' = rc,
         scgi_parser_cursor_size < FIELD_SIZE - 1,
         fields' = Append(fields, << cursor_start, cursor_end >>),
         state' = (IF state = "HEADER_NAME" THEN "HEADER_VALUE" ELSE "HEADER_NAME"),
         cursor_end' = cursor_end + 1, cursor_start' = cursor_end + 1
  PROVE  ParserInv'
<1> DEFINE p == cursor_end
           q == cursor_end + 1
<1>1. /\ q \in 1 .. Len(input) /\ p \in Nat /\ q \in Nat /\ q > 0 /\ q - 1 = p
      /\ input[q] = "nul" /\ rc = -1
  BY ByteIs
<1>2. CursorsOK /\ FieldsInv /\ ExactInv  BY DEF ParserInv
<1>3. cursor_start \in Nat /\ Short(cursor_start, p) /\ fields \in Seq(Nat \X Nat)
  BY <1>2 DEF CursorsOK, Short, scgi_parser_cursor_size
<1>4. InField' /\ state' \in {"HEADER_NAME", "HEADER_VALUE"}  BY DEF InField
<1> DEFINE f == << cursor_start, cursor_end >>
           n == Len(fields)
<1>5. /\ f \in Nat \X Nat /\ f[1] = cursor_start /\ f[2] = cursor_end
      /\ fields' = Append(fields, f)
  BY <1>1, <1>3
<1> HIDE DEF f
<1>6. /\ fields' \in Seq(Nat \X Nat) /\ n \in Nat /\ Len(fields') = n + 1
      /\ \A k \in 1 .. n : fields'[k] = fields[k]
      /\ fields'[n + 1] = f
  BY <1>3, <1>5
<1>7. CursorsOK'  BY <1>1, <1>2, <1>4, <1>6 DEF CursorsOK
<1>8. FieldsInv'
  <2>1. ASSUME NEW k \in 1 .. n PROVE FieldOK(k)'
    <3>1. FieldOK(k)  BY <1>2 DEF FieldsInv
    <3>2. k # 1 => k - 1 \in 1 .. n
      <4>1. n \in Nat  BY <1>6
      <4> QED  BY <4>1
    <3>3. fields'[k] = fields[k] /\ (k # 1 => fields'[k - 1] = fields[k - 1])
      BY <1>6, <3>2
    <3> QED  BY <3>1, <3>3 DEF FieldOK
  <2>2. ASSUME NEW k, k = n + 1 PROVE FieldOK(k)'
    <3>1. fields'[k] = f  BY <1>6, <2>2
    <3>2. cursor_start = IF k = 1 THEN 0 ELSE fields'[k - 1][2] + 1
      <4>1. cursor_start = NextField  BY <1>2 DEF FieldsInv
      <4>2. CASE n = 0
        <5>1. fields = << >> /\ k = 1  BY <1>3, <2>2, <4>2
        <5> QED  BY <4>1, <5>1 DEF NextField
      <4>3. CASE n # 0
        <5>1. fields # << >> /\ k # 1 /\ k - 1 = n /\ n \in 1 .. n
          BY <1>3, <1>6, <2>2, <4>3
        <5>2. fields'[k - 1] = fields[n]  BY <1>6, <5>1
        <5> QED  BY <4>1, <5>1, <5>2 DEF NextField
      <4> QED  BY <4>2, <4>3
    <3>3. \A i \in cursor_start + 1 .. cursor_end : input[i] # "nul"
      BY <1>2 DEF FieldsInv
    <3> QED  BY <1>1, <1>3, <1>5, <3>1, <3>2, <3>3 DEF FieldOK, Short
  <2>3. \A k \in 1 .. Len(fields') : k \in 1 .. n \/ k = n + 1  BY <1>6
  <2>4. NextField' = q
    <3>1. fields' # << >>  BY <1>6
    <3> QED  BY <1>5, <1>6, <3>1 DEF NextField
  <2>5. \A i \in q + 1 .. q : FALSE  BY <1>1
  <2> QED  BY <1>1, <1>4, <2>1, <2>2, <2>3, <2>4, <2>5 DEF FieldsInv
<1>9. ExactInv'
  <2>1. /\ \A i : Nuls(i)' = Nuls(i) /\ ShortUpTo(i)' = ShortUpTo(i)
        /\ NameCommas' = NameCommas
    BY InputReads
  <2>2. ParsesExactly'  BY <1>1 DEF ParsesExactly
  <2>3. /\ Nuls(q + 1) = Nuls(q) \cup {q} /\ Cardinality(Nuls(q)) \in Nat
        /\ Cardinality(Nuls(q + 1)) = Cardinality(Nuls(q)) + 1
    BY <1>1, NulsAre
  <2>4. /\ Cardinality(Nuls(q)) % 2 = (IF state = "HEADER_NAME" THEN 0 ELSE 1)
        /\ \A i \in NameCommas : i > p
        /\ AllShort(p) /\ Max({0} \cup Nuls(q)) = cursor_start
    BY <1>2 DEF ExactInv
  <2>5. Cardinality(Nuls(q + 1)) % 2 = (IF state' = "HEADER_NAME" THEN 0 ELSE 1)
    <3>1. \A c \in Nat : /\ c % 2 = 0 => (c + 1) % 2 = 1
                         /\ c % 2 = 1 => (c + 1) % 2 = 0
      OBVIOUS
    <3>2. state = "HEADER_NAME" \/ state = "HEADER_VALUE"  BY DEF InField
    <3> QED  BY <2>3, <2>4, <3>1, <3>2
  <2>6. \A i \in NameCommas : i > q
    <3>1. NameCommas \subseteq Int /\ q \notin NameCommas  BY <1>1 DEF NameCommas
    <3> QED  BY <1>1, <2>4, <3>1
  <2>7. \A e \in Nuls(q + 1) : ShortUpTo(e)
    <3>1. ShortUpTo(q)  BY <1>1, <1>3, <2>4 DEF ShortUpTo
    <3> QED  BY <2>3, <2>4, <3>1 DEF AllShort
  <2>8. Max({0} \cup Nuls(q + 1)) = q  BY <1>1, LastNul
  <2>9. Nuls(cursor_end + 1)' = Nuls(q + 1)  BY <2>1 DEF Nuls
  <2>10. AllShort(cursor_end)'  BY <2>1, <2>7, <2>9 DEF AllShort
  <2>11. state' # "BODY"  BY <1>4
  <2> QED
    BY <2>1, <2>2, <2>5, <2>6, <2>8, <2>9, <2>10, <2>11 DEF ExactInv
<1> QED  BY <1>7, <1>8, <1>9 DEF ParserInv

\* The comma in place of a name is the first that ends the headers.
LEMMA CommaStep ==
  ASSUME ParserInv, Parsing, state = "HEADER_NAME", Byte = "comma", state' = "BODY",
         cursor_end' = cursor_end + 1, cursor_start' = cursor_end + 1,
         UNCHANGED << input, fields, body, rc >>
  PROVE  ParserInv'
<1> DEFINE p == cursor_end
           q == cursor_end + 1
<1>1. /\ q \in 1 .. Len(input) /\ p \in Nat /\ q \in Nat /\ q > 0
      /\ input[q] = "comma" /\ rc = -1
      /\ input' = input /\ fields' = fields /\ rc' = rc /\ body' = body
  BY ByteIs
<1>2. CursorsOK /\ FieldsInv /\ ExactInv  BY DEF ParserInv
<1>3. CursorsOK'  BY <1>1, <1>2 DEF CursorsOK
<1>4. FieldsInv'
  <2>1. \A k : FieldOK(k)' <=> FieldOK(k)  BY <1>1 DEF FieldOK
  <2> QED  BY <1>1, <1>2, <2>1 DEF FieldsInv, InField
<1>5. ExactInv'
  <2>1. /\ \A i : Nuls(i)' = Nuls(i) /\ ShortUpTo(i)' = ShortUpTo(i)
        /\ NameCommas' = NameCommas
    BY <1>1, InputReads
  <2>2. ParsesExactly'  BY <1>1 DEF ParsesExactly
  <2>3. /\ Cardinality(Nuls(q)) % 2 = 0 /\ \A i \in NameCommas : i > p
        /\ \A e \in Nuls(q) : ShortUpTo(e)
    BY <1>2 DEF ExactInv, InField, AllShort
  <2>4. q \in NameCommas  BY <1>1, <2>3 DEF NameCommas
  <2>5. \A i \in NameCommas : q <= i
    <3>1. NameCommas \subseteq Int  BY DEF NameCommas
    <3> QED  BY <1>1, <2>3, <3>1
  <2>6. Nuls(cursor_start)' = Nuls(q)  BY <2>1 DEF Nuls
  <2> QED  BY <2>1, <2>2, <2>3, <2>4, <2>5, <2>6 DEF ExactInv, InField
<1> QED  BY <1>3, <1>4, <1>5 DEF ParserInv

\* The end of the input.
LEMMA EndStep ==
  ASSUME ParserInv, ParseEnd
  PROVE  ParserInv'
<1>1. CursorsOK /\ FieldsInv /\ ExactInv  BY DEF ParserInv
<1>2. /\ rc = -1 /\ input' = input /\ cursor_end' = cursor_end /\ fields' = fields
      /\ cursor_end = Len(input) /\ cursor_end \in Nat /\ cursor_start \in Nat
      /\ cursor_start <= cursor_end
  BY <1>1 DEF ParseEnd, scgi_parser_eof, CursorsOK
<1>3. \A k : FieldOK(k)' <=> FieldOK(k)  BY <1>2 DEF FieldOK
<1>4. /\ \A i : Nuls(i)' = Nuls(i) /\ ShortUpTo(i)' = ShortUpTo(i)
      /\ NameCommas' = NameCommas /\ (IsRequest' <=> IsRequest)
  BY <1>2, InputReads
<1>5. state = "BODY" =>
        (IsRequest <=> scgi_parser_cursor_size < FIELD_SIZE - 1)
  <2> SUFFICES ASSUME state = "BODY"
               PROVE  IsRequest <=> scgi_parser_cursor_size < FIELD_SIZE - 1
    OBVIOUS
  <2>1. /\ cursor_start \in NameCommas /\ \A i \in NameCommas : cursor_start <= i
        /\ \A e \in Nuls(cursor_start) : ShortUpTo(e)
    BY <1>1 DEF ExactInv
  <2>2. IsRequest <=> Short(cursor_start, Len(input))  BY <2>1, RequestIs
  <2> QED  BY <1>2, <2>2 DEF Short, scgi_parser_cursor_size
<1>6. CASE /\ state = "BODY" /\ scgi_parser_cursor_size < FIELD_SIZE - 1
           /\ body' = << cursor_start, cursor_end >> /\ state' = "DONE"
           /\ cursor_start' = cursor_end /\ rc' = 0
  <2>1. CursorsOK'  BY <1>1, <1>2, <1>6 DEF CursorsOK
  <2>2. FieldsInv'
    <3>1. input[cursor_start] = "comma"  BY <1>1, <1>6 DEF FieldsInv
    <3>2. body'[1] = cursor_start /\ body'[2] = cursor_end  BY <1>6
    <3>3. Short(cursor_start, cursor_end)  BY <1>6 DEF Short, scgi_parser_cursor_size
    <3>4. /\ Short(body[1], body[2])' /\ body'[2] = Len(input') /\ input'[body'[1]] = "comma"
      BY <1>2, <3>1, <3>2, <3>3 DEF Short
    <3> QED  BY <1>1, <1>2, <1>3, <1>6, <3>4 DEF FieldsInv, InField
  <2>3. ExactInv'  BY <1>4, <1>5, <1>6 DEF ExactInv, InField, ParsesExactly
  <2> QED  BY <2>1, <2>2, <2>3 DEF ParserInv
<1>7. CASE /\ state # "BODY" \/ scgi_parser_cursor_size >= FIELD_SIZE - 1
           /\ rc' = 1 /\ state' = state /\ cursor_start' = cursor_start /\ body' = body
  <2>1. CursorsOK'  BY <1>1, <1>2, <1>7 DEF CursorsOK
  <2>2. NextField' = NextField  BY <1>2 DEF NextField
  <2>3. FieldsInv'  BY <1>1, <1>2, <1>3, <1>7, <2>2 DEF FieldsInv, InField
  <2>4. ~IsRequest
    <3>1. CASE state = "BODY"
      <4>1. scgi_parser_cursor_size \in Int /\ FIELD_SIZE - 1 \in Int
        BY <1>2, ScgiParserAssumption DEF scgi_parser_cursor_size
      <4> QED  BY <1>5, <1>7, <3>1, <4>1
    <3>2. CASE state # "BODY"
      <4>1. InField  BY <1>1, <1>2, <3>2 DEF CursorsOK, InField
      <4>2. \A i \in NameCommas : i > Len(input)  BY <1>1, <1>2, <4>1 DEF ExactInv
      <4>3. NameCommas = {}  BY <1>2, <4>2 DEF NameCommas
      <4> QED  BY <4>3 DEF IsRequest
    <3> QED  BY <3>1, <3>2
  <2>5. AllShort(cursor_end)' <=> AllShort(cursor_end)  BY <1>2, <1>4 DEF AllShort
  <2>6. ParsesExactly'  BY <1>4, <1>7, <2>4 DEF ParsesExactly
  <2>7. ExactInv'  BY <1>1, <1>2, <1>4, <1>7, <2>5, <2>6 DEF ExactInv, InField
  <2> QED  BY <2>1, <2>3, <2>7 DEF ParserInv
<1> QED  BY <1>6, <1>7 DEF ParseEnd

LEMMA ParserStep ==
  ASSUME ParserInv, scgi_parser_parse
  PROVE  ParserInv'
<1>1. CASE ParseName
  <2>1. Parsing /\ state = "HEADER_NAME" /\ InField  BY <1>1 DEF ParseName, InField
  <2> QED
    BY <1>1, <2>1, CommaStep, AdvanceStep, TooLongStep, CopyStep DEF ParseName, EndField
<1>2. CASE ParseValue
  <2>1. Parsing /\ state = "HEADER_VALUE" /\ InField  BY <1>2 DEF ParseValue, InField
  <2> QED  BY <1>2, <2>1, AdvanceStep, TooLongStep, CopyStep DEF ParseValue, EndField
<1>3. CASE ParseBody  BY <1>3, AdvanceStep DEF ParseBody
<1> QED  BY <1>1, <1>2, <1>3, EndStep DEF scgi_parser_parse

\* Until the comma has been read the parser waits at the start of the buffer.
RequestInv ==
  /\ ParserInv
  /\ phase \in {"digits", "headers", "comma"} => ParserFresh

LEMMA ParserStays ==
  ASSUME ParserInv, UNCHANGED parserVars
  PROVE  ParserInv' /\ (ParserFresh => ParserFresh')
<1>1. /\ input' = input /\ state' = state /\ cursor_start' = cursor_start
      /\ cursor_end' = cursor_end /\ fields' = fields /\ body' = body /\ rc' = rc
  BY DEF parserVars
<1>2. /\ \A i : Nuls(i)' = Nuls(i) /\ ShortUpTo(i)' = ShortUpTo(i)
      /\ NameCommas' = NameCommas /\ (IsRequest' <=> IsRequest)
  BY <1>1, InputReads
<1>3. CursorsOK'  BY <1>1 DEF ParserInv, CursorsOK
<1>4. FieldsInv'
  <2>1. NextField' = NextField /\ \A k : FieldOK(k)' <=> FieldOK(k)
    BY <1>1 DEF NextField, FieldOK
  <2> QED  BY <1>1, <2>1 DEF ParserInv, FieldsInv, InField
<1>5. ExactInv'
  <2>1. AllShort(cursor_end)' <=> AllShort(cursor_end)  BY <1>1, <1>2 DEF AllShort
  <2>2. ParsesExactly' <=> ParsesExactly  BY <1>1, <1>2 DEF ParsesExactly
  <2> QED  BY <1>1, <1>2, <2>1, <2>2 DEF ParserInv, ExactInv, InField
<1> QED  BY <1>1, <1>3, <1>4, <1>5 DEF ParserInv, ParserFresh

\* A parser that is new, or still is, over a buffer with other bytes.
LEMMA ParserRestarts ==
  ASSUME input' \in Seq(Bytes), ParserFresh'
  PROVE  RequestInv'
<1>1. (input \in Seq(Bytes) /\ ParserFresh => ParserInv)'  BY FreshIs, PTL
<1> QED  BY <1>1 DEF RequestInv

LEMMA RequestReadHeaders ==
  ASSUME ServerInv, RequestInv, read_headers
  PROVE  RequestInv'
<1>1. ParserFresh' /\ \E n \in Nat : n <= Len(wire[Conn]) /\ input' = SubSeq(wire[Conn], 1, n)
  <2>1. ParserFresh  BY DEF RequestInv, read_headers
  <2>2. phase = "headers" /\ TypesOK /\ headers_size \in Nat
    BY DEF read_headers, ServerInv, HeaderInv, Sized, Reading
  <2>3. Len(wire[Conn]) \in Nat
    BY <2>2, ConnIs DEF TypesOK
  <2> QED  BY <2>1, <2>2, <2>3 DEF read_headers, StoresHeaders, ParserFresh
<1>2. PICK n \in Nat : n <= Len(wire[Conn]) /\ input' = SubSeq(wire[Conn], 1, n)  BY <1>1
<1>3. wire[Conn] \in Seq(Bytes)
  <2>1. phase # "accept" /\ TypesOK  BY DEF ServerInv, read_headers
  <2>2. wire[Conn] \in Seq(STRING)  BY <2>1, ConnIs DEF TypesOK
  <2>3. \A i \in 1 .. Len(wire[Conn]) : wire[Conn][i] \in Bytes  BY <2>2 DEF Bytes
  <2> QED  BY <2>2, <2>3
<1>4. input' \in Seq(Bytes)  BY <1>2, <1>3
<1> QED  BY <1>1, <1>4, ParserRestarts

LEMMA RequestReadComma ==
  ASSUME ServerInv, RequestInv, read_comma
  PROVE  RequestInv'
<1>1. ParserInv /\ ParserFresh /\ input \in Seq(Bytes) /\ "comma" \in Bytes
  BY DEF RequestInv, read_comma, ParserInv, CursorsOK, Bytes
<1>2. CASE phase' = "parse" /\ scgi_parser_init(Append(input, "comma"))
  <2>1. input' \in Seq(Bytes)  BY <1>1, <1>2 DEF scgi_parser_init
  <2>2. ParserFresh'  BY <1>2 DEF scgi_parser_init, ParserFresh
  <2> QED  BY <2>1, <2>2, ParserRestarts
<1>3. CASE phase' = "close" /\ UNCHANGED parserVars
  BY <1>1, <1>3, ParserStays DEF RequestInv
<1> QED  BY <1>2, <1>3 DEF read_comma, AcceptsByte

LEMMA RequestInvariance == Spec => []RequestInv
<1>1. Init => RequestInv
  <2> SUFFICES ASSUME Init PROVE RequestInv  OBVIOUS
  <2>1. input \in Seq(Bytes) /\ ParserFresh  BY DEF Init, ParserZero, ParserFresh
  <2> QED  BY <2>1, FreshIs DEF RequestInv
<1>2. ServerInv /\ RequestInv /\ [Next]_vars => RequestInv'
  <2> SUFFICES ASSUME ServerInv, RequestInv, [Next]_vars PROVE RequestInv'  OBVIOUS
  <2>1. CASE accept
    <3>1. input' \in Seq(Bytes) /\ ParserFresh'
      BY <2>1 DEF accept, scgi_parser_init, ParserFresh
    <3> QED  BY <3>1, ParserRestarts
  <2>2. CASE UNCHANGED parserVars /\ (phase' = phase \/ phase' \in {"accept", "close", "killed"})
    BY <2>2, ParserStays DEF RequestInv
  <2>3. CASE recv_fails  BY <2>2, <2>3 DEF recv_fails
  <2>4. CASE read_digit
    <3>1. /\ UNCHANGED parserVars /\ phase = "digits"
          /\ phase' \in {"digits", "close", "headers"}
      BY <2>4 DEF read_digit
    <3> QED  BY <3>1, ParserStays DEF RequestInv
  <2>5. CASE read_headers  BY <2>5, RequestReadHeaders
  <2>6. CASE read_comma  BY <2>6, RequestReadComma
  <2>7. CASE parse
    <3>1. ParserInv'  BY <2>7, ParserStep DEF parse, RequestInv
    <3> QED  BY <2>7, <3>1 DEF parse, RequestInv
  <2>8. CASE scgi_send_text  BY <2>2, <2>8 DEF scgi_send_text
  <2>9. CASE close  BY <2>2, <2>9 DEF close
  <2>10. CASE \E c \in Client : Connect(c) \/ Deliver(c) \/ Leave(c)
    <3>1. UNCHANGED parserVars /\ phase' = phase
      BY <2>10 DEF Connect, Deliver, Leave, serverVars
    <3> QED  BY <2>2, <3>1
  <2>11. CASE UNCHANGED vars  BY <2>2, <2>11 DEF vars, serverVars
  <2> QED
    BY <2>1, <2>3, <2>4, <2>5, <2>6, <2>7, <2>8, <2>9, <2>10, <2>11 DEF Next, Server
<1> QED  BY <1>1, <1>2, ServerInvariance, PTL DEF Spec

\* Whatever the client sends: no copy overruns the array of a name, a value or the
\* body, and the fields copied are all that lies between the terminators.
THEOREM ParserCopiesInBounds == Spec => []FieldsInBounds
<1>1. RequestInv => FieldsInBounds
  BY DEF RequestInv, ParserInv, FieldsInv, FieldOK, FieldsInBounds
<1> QED  BY <1>1, RequestInvariance, PTL

\* For every input: scgi_parser_parse returns 0 exactly for a request, and 1 for all
\* else.
THEOREM ParserAcceptsRequests == Spec => []ParsesExactly
<1>1. RequestInv => ParsesExactly  BY DEF RequestInv, ParserInv, ExactInv
<1> QED  BY <1>1, RequestInvariance, PTL
=============================================================================
