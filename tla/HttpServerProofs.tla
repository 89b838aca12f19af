-------------------------- MODULE HttpServerProofs --------------------------
(***************************************************************************)
(* Proofs about the http server for any number of clients, requests of any *)
(* length cut in any pieces, and every environment.  The invariant says    *)
(* whose bytes the buffer holds in every phase, that a connection that has *)
(* not been accepted is untouched, and what the state of the scan knows of *)
(* the bytes behind it.                                                    *)
(***************************************************************************)
EXTENDS HttpServer, SequenceTheorems, FiniteSetTheorems, TLAPS

Handling == {"recv", "validate", "send", "close", "aborted", "poll_aborted",
             "killed"}

TypeOK ==
  /\ phase \in Handling \cup {"config", "init", "accept", "stopped"}
  /\ listening \in BOOLEAN
  /\ current \in SUBSET Client
  /\ buffer \in Seq(Bytes)
  /\ i \in Nat /\ state \in 0 .. 3
  /\ headers \in [ ok : BOOLEAN, offset : Int ]
  /\ backlog \in Seq(Client)
  /\ wire \in [Client -> Seq(Bytes)] /\ unsent \in [Client -> Seq(Bytes)]
  /\ left \in [Client -> BOOLEAN] /\ closed \in [Client -> BOOLEAN]
  /\ accepted \in SUBSET Client
  /\ read \in [Client -> Seq(Bytes)]
  /\ answer \in [Client -> {"none", "nothing", "part", "all"}]

\* A failure of the configuration is remembered and keeps the server from running.
ConfigInv ==
  /\ env \in Environments
  /\ stage \in 1 .. Len(Keys) + 1
  /\ failed \in BOOLEAN
  /\ (\E n \in 1 .. stage - 1 : OutOfRange(Keys[n])) => failed
  /\ failed => \E n \in 1 .. stage - 1 : OutOfRange(Keys[n]) \/ env[Keys[n]] = Word
  /\ phase = "config" <=> ~Done
  /\ phase \notin {"config", "stopped"} \/ listening => Done /\ ~failed

\* One connection at a time, from its accept to its close.
OneAtATime ==
  /\ phase \in Handling => \E c \in Client : current = {c} /\ ~closed[c]
  /\ phase \notin Handling => current = {}
  /\ \A c \in Client : closed[c] \/ c \in current <=> c \in accepted

\* The backlog holds connections that have never been accepted, each once.
BacklogFresh ==
  \A n \in 1 .. Len(backlog) :
    /\ ~closed[backlog[n]] /\ backlog[n] \notin current
    /\ \A m \in 1 .. Len(backlog) : backlog[m] = backlog[n] => m = n

Untouched ==
  \A c \in Client : ~closed[c] /\ c \notin current => read[c] = << >> /\ answer[c] = "none"

\* What has been read from the connection is what the buffer holds.
ReadOnce ==
  /\ phase \in Handling => \A c \in current : read[c] = buffer
  /\ phase \in {"recv", "validate", "aborted", "poll_aborted"} =>
       \A c \in current : answer[c] = "none"
  /\ phase = "recv" => buffer = << >>
  /\ phase = "validate" => Len(buffer) \in 1 .. UNSAFE_BUFFER_SIZE - 2
  /\ phase = "aborted" => Len(buffer) = 1
  /\ phase = "poll_aborted" => buffer = << >> /\ \A c \in current : left[c]
  /\ phase = "killed" => \A c \in current : left[c]

\* The bytes that end at position n.
EndsWith2(n) == n >= 2 /\ buffer[n - 1] = "CR" /\ buffer[n] = "LF"
EndsWith3(n) == n >= 3 /\ buffer[n - 2] = "CR" /\ buffer[n - 1] = "LF" /\ buffer[n] = "CR"
EndsWith4(n) == n >= 4 /\ EndsWith3(n - 1) /\ buffer[n] = "LF"

\* Every end of headers among the first n bytes follows directly on CR LF CR.
MissedUpTo(n) == \A m \in 4 .. n : EndsWith4(m) => EndsWith3(m - 4)

\* What the state of http_headers_validate knows of the i bytes it has seen, and
\* which line ends it may have forgotten: those behind a CR LF CR.
ScanKnows ==
  /\ i <= Len(buffer)
  /\ \A n \in 1 .. i : buffer[n] # "control"
  /\ state = 1 => i >= 1 /\ buffer[i] = "CR"
  /\ state = 2 => EndsWith2(i)
  /\ state = 3 => EndsWith3(i)
  /\ i >= 1 /\ buffer[i] = "CR" => state \in {1, 3} \/ EndsWith3(i - 1)
  /\ EndsWith2(i) => state = 2 \/ EndsWith3(i - 2)
  /\ EndsWith3(i) => state = 3 \/ EndsWith3(i - 3)
  /\ MissedUpTo(i)

\* The bytes up to n are free of bad ones and end with the end of the headers.
Complete(n) ==
  n \in 4 .. Len(buffer) /\ EndsWith4(n) /\ \A m \in 1 .. n : buffer[m] # "control"

Scanning ==
  /\ phase = "validate" => ScanKnows
  /\ phase \notin {"validate", "aborted"} => i = 0 /\ state = 0
  /\ phase \in {"recv", "validate"} => ~headers.ok
  /\ phase \in {"send", "killed"} => headers.ok
  /\ phase \in {"send", "killed", "close"} /\ headers.ok => Complete(headers.offset + 3)
  /\ phase = "close" /\ ~headers.ok =>
       \A n \in 4 .. Len(buffer) : Complete(n) => EndsWith3(n - 4)

\* Only complete headers have been answered, and all but the overlooked ones.
Answered ==
  /\ phase = "close" /\ headers.ok => \A c \in current : answer[c] # "none"
  /\ \A c \in Client : answer[c] # "none" => Ends(read[c]) # {}
  /\ \A c \in Client : closed[c] /\ answer[c] = "none" =>
       \A n \in Ends(read[c]) : Overlooked(read[c], n)

ServerInv ==
  /\ TypeOK
  /\ ConfigInv
  /\ OneAtATime
  /\ BacklogFresh
  /\ Untouched
  /\ ReadOnce
  /\ Scanning
  /\ Answered

-----------------------------------------------------------------------------
\* The positions that Ends finds are the ones Complete speaks of.
LEMMA EndsIs ==
  ASSUME NEW bytes \in Seq(Bytes), NEW n \in 4 .. Len(bytes)
  PROVE  SubSeq(bytes, n - 3, n) = EndOfHeaders
           <=> /\ bytes[n - 3] = "CR" /\ bytes[n - 2] = "LF"
               /\ bytes[n - 1] = "CR" /\ bytes[n] = "LF"
<1> DEFINE four == SubSeq(bytes, n - 3, n)
<1>1. n \in Int /\ n - 3 \in Int /\ n - 3 >= 1 /\ n <= Len(bytes) /\ Len(bytes) \in Nat
  BY LenProperties
<1>2. \A m \in n - 3 .. n : bytes[m] \in Bytes
  BY <1>1, ElementOfSeq
<1>3. /\ four \in Seq(Bytes) /\ Len(four) = 4
      /\ \A m \in 1 .. 4 : four[m] = bytes[n - 3 + m - 1]
  BY <1>1, <1>2, SubSeqProperties
<1>4. /\ four[1] = bytes[n - 3] /\ four[2] = bytes[n - 2]
      /\ four[3] = bytes[n - 1] /\ four[4] = bytes[n]
  BY <1>1, <1>3
<1>5. EndOfHeaders \in Seq(Bytes) /\ Len(EndOfHeaders) = 4
  BY DEF EndOfHeaders, Bytes
<1>6. four = EndOfHeaders <=> \A m \in 1 .. 4 : four[m] = EndOfHeaders[m]
  <2> HIDE DEF four
  <2>1. QED
    BY <1>3, <1>5, SeqEqual
<1>7. QED
  BY <1>4, <1>6 DEF EndOfHeaders

\* The same for the three bytes in front of a missed end.
LEMMA ThreeIs ==
  ASSUME NEW bytes \in Seq(Bytes), NEW n \in 7 .. Len(bytes)
  PROVE  bytes[n - 6] = "CR" /\ bytes[n - 5] = "LF" /\ bytes[n - 4] = "CR"
           => SubSeq(bytes, n - 6, n - 4) = << "CR", "LF", "CR" >>
<1> DEFINE three == SubSeq(bytes, n - 6, n - 4)
<1>1. /\ n \in Int /\ n - 6 \in Int /\ n - 4 \in Int /\ n - 6 >= 1 /\ n <= Len(bytes)
      /\ Len(bytes) \in Nat
  BY LenProperties
<1>2. \A m \in n - 6 .. n - 4 : bytes[m] \in Bytes
  BY <1>1, ElementOfSeq
<1>3. /\ three \in Seq(Bytes) /\ Len(three) = 3
      /\ \A m \in 1 .. 3 : three[m] = bytes[n - 6 + m - 1]
  BY <1>1, <1>2, SubSeqProperties
<1>4. three[1] = bytes[n - 6] /\ three[2] = bytes[n - 5] /\ three[3] = bytes[n - 4]
  BY <1>1, <1>3
<1>5. << "CR", "LF", "CR" >> \in Seq(Bytes) /\ Len(<< "CR", "LF", "CR" >>) = 3
  BY DEF Bytes
<1>6. (\A m \in 1 .. 3 : three[m] = << "CR", "LF", "CR" >>[m])
        => three = << "CR", "LF", "CR" >>
  <2> HIDE DEF three
  <2>1. QED
    BY <1>3, <1>5, SeqEqual
<1>7. QED
  BY <1>4, <1>6

\* Ends, of the buffer, position by position.
LEMMA EndsOfBuffer ==
  ASSUME buffer \in Seq(Bytes)
  PROVE  \A n \in Int : n \in Ends(buffer) <=> Complete(n)
BY EndsIs DEF Ends, EndsAt, Complete, EndsWith4, EndsWith3

\* Of refused headers every end was overlooked.
LEMMA RefusedAreOverlooked ==
  ASSUME TypeOK, Scanning, phase = "close", ~headers.ok
  PROVE  \A n \in Ends(buffer) : Overlooked(buffer, n)
<1>1. buffer \in Seq(Bytes)
  BY DEF TypeOK
<1> SUFFICES ASSUME NEW n \in Ends(buffer) PROVE Overlooked(buffer, n)
  OBVIOUS
<1>2. n \in 4 .. Len(buffer) /\ Len(buffer) \in Nat
  BY <1>1, LenProperties DEF Ends
<1>3. Complete(n)
  BY <1>1, <1>2, EndsOfBuffer
<1>4. EndsWith3(n - 4)
  BY <1>2, <1>3 DEF Scanning
<1>5. /\ n \in 7 .. Len(buffer)
      /\ buffer[n - 6] = "CR" /\ buffer[n - 5] = "LF" /\ buffer[n - 4] = "CR"
  BY <1>2, <1>4 DEF EndsWith3
<1>6. QED
  BY <1>1, <1>5, ThreeIs DEF Overlooked

\* The connection being handled.
LEMMA ConnIs ==
  ASSUME NEW c, current = {c}
  PROVE  Conn = c
BY DEF Conn

-----------------------------------------------------------------------------
(* The scan of http_headers_validate.                                      *)

\* What Follow computes, state by state.
LEMMA FollowIs ==
  ASSUME state \in 0 .. 3, NEW byte
  PROVE  /\ Follow(byte) \in 0 .. 4
         /\ byte = "CR" => Follow(byte) = IF state \in {0, 1} THEN 1
                                          ELSE IF state = 2 THEN 3 ELSE 0
         /\ byte = "LF" => Follow(byte) = IF state = 1 THEN 2
                                          ELSE IF state = 3 THEN 4 ELSE 0
         /\ byte \notin {"CR", "LF"} => Follow(byte) = 0
BY DEF Follow

\* Any other byte: the state goes on knowing what it has to.
LEMMA ScanGoesOn ==
  ASSUME TypeOK, ScanKnows, i < Len(buffer), buffer[i + 1] # "control",
         Follow(buffer[i + 1]) # 4,
         i' = i + 1, state' = Follow(buffer[i + 1]), buffer' = buffer
  PROVE  ScanKnows' /\ state' \in 0 .. 3
<1>1. /\ i \in Nat /\ state \in 0 .. 3 /\ Len(buffer) \in Nat
  BY LenProperties DEF TypeOK
<1>2. state' \in 0 .. 3
  BY <1>1, FollowIs
<1> DEFINE byte == buffer[i + 1]
<1>3. /\ byte = "CR" => state' = IF state \in {0, 1} THEN 1 ELSE IF state = 2 THEN 3 ELSE 0
      /\ byte = "LF" => state' = IF state = 1 THEN 2 ELSE 0
      /\ byte = "LF" => state # 3
      /\ byte \notin {"CR", "LF"} => state' = 0
  <2> HIDE DEF byte
  <2>1. state' = Follow(byte) /\ Follow(byte) # 4
    BY DEF byte
  <2>2. QED
    BY <1>1, <2>1, FollowIs
<1>4. i' <= Len(buffer) /\ \A n \in 1 .. i' : buffer[n] # "control"
  BY <1>1 DEF ScanKnows
<1>5. /\ state' = 1 => byte = "CR"
      /\ state' = 2 => EndsWith2(i + 1)
      /\ state' = 3 => EndsWith3(i + 1)
  BY <1>1, <1>3 DEF ScanKnows, EndsWith2, EndsWith3
<1>6. byte = "CR" => state' \in {1, 3} \/ EndsWith3(i)
  BY <1>1, <1>3 DEF ScanKnows
<1>7. EndsWith2(i + 1) => state' = 2 \/ EndsWith3(i - 1)
  BY <1>1, <1>3 DEF ScanKnows, EndsWith2
<1>8. EndsWith3(i + 1) => state' = 3 \/ EndsWith3(i - 2)
  <2>1. EndsWith3(i + 1) => byte = "CR" /\ EndsWith2(i)
    BY <1>1 DEF EndsWith3, EndsWith2
  <2>2. QED
    BY <1>1, <1>3, <2>1 DEF ScanKnows
<1>9. EndsWith4(i + 1) => EndsWith3(i - 3)
  <2>1. EndsWith4(i + 1) => byte = "LF" /\ EndsWith3(i)
    BY <1>1 DEF EndsWith4
  <2>2. QED
    BY <1>1, <1>3, <2>1 DEF ScanKnows
<1>10. MissedUpTo(i + 1)
  <2> SUFFICES ASSUME NEW m \in 4 .. i + 1, EndsWith4(m)
               PROVE  EndsWith3(m - 4)
    BY DEF MissedUpTo
  <2>1. CASE m \in 4 .. i
    BY <2>1 DEF ScanKnows, MissedUpTo
  <2>2. CASE m = i + 1
    <3>1. m - 4 = i - 3
      BY <1>1, <2>2
    <3>2. QED
      BY <1>9, <2>2, <3>1
  <2>3. QED
    BY <1>1, <2>1, <2>2
<1>11. ScanKnows'
  <2>1. /\ i' - 1 = i /\ i' - 2 = i - 1 /\ i' - 3 = i - 2 /\ i' >= 1
    BY <1>1
  <2>2. /\ \A n : EndsWith2(n)' <=> EndsWith2(n)
        /\ \A n : EndsWith3(n)' <=> EndsWith3(n)
        /\ \A n : MissedUpTo(n)' <=> MissedUpTo(n)
    BY DEF EndsWith2, EndsWith3, EndsWith4, MissedUpTo
  <2>3. /\ EndsWith2(i)' <=> EndsWith2(i + 1)
        /\ EndsWith3(i)' <=> EndsWith3(i + 1)
        /\ EndsWith3(i - 1)' <=> EndsWith3(i)
        /\ EndsWith3(i - 2)' <=> EndsWith3(i - 1)
        /\ EndsWith3(i - 3)' <=> EndsWith3(i - 2)
        /\ MissedUpTo(i)' <=> MissedUpTo(i + 1)
    BY <2>1, <2>2
  <2>4. QED
    BY <1>4, <1>5, <1>6, <1>7, <1>8, <1>10, <2>1, <2>3 DEF ScanKnows
<1>12. QED
  BY <1>2, <1>11

\* The last byte of CR LF CR LF.
LEMMA ScanFinds ==
  ASSUME TypeOK, ScanKnows, i < Len(buffer), buffer[i + 1] # "control",
         Follow(buffer[i + 1]) = 4
  PROVE  Complete(i + 1)
<1>1. i \in Nat /\ state \in 0 .. 3 /\ Len(buffer) \in Nat
  BY LenProperties DEF TypeOK
<1>2. state = 3 /\ buffer[i + 1] = "LF"
  BY <1>1, FollowIs
<1>3. EndsWith3(i) /\ i + 1 - 1 = i
  BY <1>1, <1>2 DEF ScanKnows
<1>4. EndsWith4(i + 1) /\ i + 1 \in 4 .. Len(buffer)
  BY <1>1, <1>2, <1>3 DEF EndsWith4, EndsWith3
<1>5. \A m \in 1 .. i + 1 : buffer[m] # "control"
  BY <1>1 DEF ScanKnows
<1>6. QED
  BY <1>4, <1>5 DEF Complete

\* A bad byte, or the end of the buffer.
LEMMA ScanRefuses ==
  ASSUME TypeOK, ScanKnows, i < Len(buffer) => buffer[i + 1] = "control"
  PROVE  \A n \in 4 .. Len(buffer) : Complete(n) => EndsWith3(n - 4)
<1>1. i \in Nat /\ i <= Len(buffer) /\ Len(buffer) \in Nat
  BY LenProperties DEF TypeOK, ScanKnows
<1> SUFFICES ASSUME NEW n \in 4 .. Len(buffer), Complete(n)
             PROVE  EndsWith3(n - 4)
  OBVIOUS
<1>2. n <= i
  BY <1>1 DEF Complete
<1>3. QED
  BY <1>1, <1>2 DEF Complete, ScanKnows, MissedUpTo

-----------------------------------------------------------------------------
(* The steps.                                                              *)

\* The invariant holds when main begins.
LEMMA InitServer == Init => ServerInv
<1> SUFFICES ASSUME Init PROVE ServerInv
  OBVIOUS
<1> USE DEF Init
<1>1. TypeOK
  <2>1. buffer \in Seq(Bytes) /\ backlog \in Seq(Client)
    BY EmptySeq
  <2>2. /\ wire \in [Client -> Seq(Bytes)] /\ unsent \in [Client -> Seq(Bytes)]
        /\ read \in [Client -> Seq(Bytes)]
    BY EmptySeq, ServerAssumption
  <2>3. /\ left \in [Client -> BOOLEAN] /\ closed \in [Client -> BOOLEAN]
        /\ answer \in [Client -> {"none", "nothing", "part", "all"}]
    OBVIOUS
  <2>4. headers \in [ ok : BOOLEAN, offset : Int ]
    BY DEF Refused
  <2>5. /\ phase \in Handling \cup {"config", "init", "accept", "stopped"}
        /\ listening \in BOOLEAN /\ current \in SUBSET Client /\ accepted \in SUBSET Client
        /\ i \in Nat /\ state \in 0 .. 3
    <3>1. i \in Nat /\ state \in 0 .. 3
      OBVIOUS
    <3>2. listening \in BOOLEAN /\ current \in SUBSET Client /\ accepted \in SUBSET Client
      OBVIOUS
    <3>3. QED
      BY <3>1, <3>2
  <2> HIDE DEF Init
  <2>6. QED
    BY <2>1, <2>2, <2>3, <2>4, <2>5 DEF TypeOK
<1>2. ConfigInv
  <2>1. Len(Keys) = 5
    BY DEF Keys
  <2>2. stage = 1 /\ failed = FALSE /\ env \in Environments
    BY DEF ConfigInit
  <2>3. 1 - 1 = 0 /\ ~(\E n \in 1 .. 0 : OutOfRange(Keys[n]))
    OBVIOUS
  <2>4. ~Done
    BY <2>1, <2>2 DEF Done
  <2>5. phase = "config" /\ ~listening
    OBVIOUS
  <2> HIDE DEF Init
  <2>6. stage \in 1 .. Len(Keys) + 1 /\ stage - 1 = 0
    BY <2>1, <2>2
  <2>7. QED
    BY <2>2, <2>3, <2>4, <2>5, <2>6 DEF ConfigInv
<1>3. OneAtATime /\ Untouched /\ ReadOnce /\ Answered
  BY DEF OneAtATime, Untouched, ReadOnce, Answered, Handling
<1>4. BacklogFresh
  BY EmptySeq DEF BacklogFresh
<1>5. Scanning
  BY DEF Scanning, Refused
<1>6. QED
  BY <1>1, <1>2, <1>3, <1>4, <1>5 DEF ServerInv

\* What the invariant says of the configuration, while main is past reading it.
LEMMA ConfigStays ==
  ASSUME ConfigInv, UNCHANGED configVars, phase # "config", phase' # "config",
         phase # "stopped" \/ phase' = "stopped",
         listening' => listening \/ phase # "stopped"
  PROVE  ConfigInv'
<1>1. env' = env /\ stage' = stage /\ failed' = failed
  BY DEF configVars
<1>2. \A k : OutOfRange(k)' <=> OutOfRange(k)
  BY <1>1 DEF OutOfRange
<1>3. QED
  BY <1>1, <1>2 DEF ConfigInv, Done

\* What it says of a scan, where none is going on.
LEMMA ScanStays ==
  ASSUME UNCHANGED << buffer, i, state >>
  PROVE  /\ ScanKnows' <=> ScanKnows
         /\ \A n : Complete(n)' <=> Complete(n)
         /\ \A n : EndsWith3(n)' <=> EndsWith3(n)
BY DEF ScanKnows, Complete, EndsWith2, EndsWith3, EndsWith4, MissedUpTo

\* A number is out of range just when the function of its variable refuses it.
LEMMA NumbersInRange ==
  ASSUME NEW key, env[key] \in Int
  PROVE  OutOfRange(key) <=> parse_fails(env[key]) \/ ~(strtoull(env[key]) <= Limit(key))
<1> DEFINE value == env[key]
<1>1. ULLONG_MAX \in Nat /\ value \in Int /\ value # Word /\ Limit(key) \in Int
  BY ConfigAssumption, EnvironmentAssumption DEF Limit
<1> HIDE DEF value
<1>2. CASE value \notin -ULLONG_MAX .. ULLONG_MAX
  <2>1. strtoull(value) = ULLONG_MAX
    BY <1>1, <1>2 DEF strtoull
  <2>2. QED
    BY <1>1, <1>2, <2>1 DEF OutOfRange, parse_fails, value
<1>3. CASE value \in -ULLONG_MAX .. ULLONG_MAX
  <2>1. \A m \in Nat, n \in Int : 0 <= n /\ n < m => n % m = n
    OBVIOUS
  <2>2. \A m \in Nat, n \in Int : n < 0 /\ 0 < n + m => n % m = n + m
    OBVIOUS
  <2>3. value % (ULLONG_MAX + 1) = strtoull(value) /\ strtoull(value) \in Int
    <3>1. CASE value < 0
      <4>1. ULLONG_MAX + 1 \in Nat /\ 0 < value + (ULLONG_MAX + 1)
        BY <1>1, <1>3
      <4>2. value % (ULLONG_MAX + 1) = value + (ULLONG_MAX + 1)
        BY <1>1, <2>2, <3>1, <4>1
      <4>3. strtoull(value) = value + ULLONG_MAX + 1
        BY <1>1, <1>3, <3>1 DEF strtoull
      <4>4. QED
        BY <1>1, <4>2, <4>3
    <3>2. CASE value >= 0
      BY <1>1, <1>3, <2>1, <3>2 DEF strtoull
    <3>3. QED
      BY <1>1, <3>1, <3>2
  <2>4. QED
    BY <1>1, <1>3, <2>3 DEF OutOfRange, parse_fails, value
<1>4. QED
  BY <1>2, <1>3

\* A variable of the environment is read.
LEMMA ConfigKeeps ==
  ASSUME ServerInv, config_init_from_env
  PROVE  ServerInv'
<1>1. /\ phase = "config" /\ InitVariable
      /\ UNCHANGED << listening, current, buffer, i, state, headers, backlog, unsent, wire,
                      left, closed, accepted, read, answer >>
      /\ phase' = CASE ~Done' -> "config"
                    [] Done' /\ failed' -> "stopped"
                    [] OTHER -> "init"
  BY DEF config_init_from_env, validateVars, clientVars, history
<1>2. phase' \in {"config", "stopped", "init"}
  BY <1>1
<1>3. Len(Keys) = 5
  BY DEF Keys
<1>4. ConfigInv'
  <2>1. /\ env \in Environments /\ env' = env /\ stage \in 1 .. 5 /\ stage' = stage + 1
        /\ failed \in BOOLEAN
    BY <1>1, <1>3 DEF ServerInv, ConfigInv, InitVariable
  <2>2. Current \in Key
    BY <1>3, <2>1 DEF Current, Key
  <2>3. env[Current] \in Int \cup {Unset, Word}
    BY <2>1, <2>2, EnvironmentAssumption
  <2>4. /\ failed' \in BOOLEAN /\ (failed => failed')
        /\ OutOfRange(Current) => failed'
        /\ failed' => failed \/ OutOfRange(Current) \/ env[Current] = Word
    <3>1. CASE TakesDefault
      BY <2>1, <3>1, EnvironmentAssumption DEF TakesDefault, OutOfRange
    <3>2. CASE Accepts
      <4>1. env[Current] \in Int =>
              ~parse_fails(env[Current]) /\ strtoull(env[Current]) <= Limit(Current)
        BY <3>2 DEF Accepts
      <4>2. ~OutOfRange(Current)
        BY <4>1, NumbersInRange DEF OutOfRange
      <4>3. QED
        BY <2>1, <3>2, <4>2 DEF Accepts
    <3>3. CASE Rejects
      <4>1. env[Current] = Word \/ OutOfRange(Current)
        <5>1. env[Current] # Word => env[Current] \in Int
          BY <2>3, <3>3 DEF Rejects
        <5>2. env[Current] # Word => parse_fails(env[Current])
                                      \/ ~(strtoull(env[Current]) <= Limit(Current))
          <6>1. env[Current] \in Int => strtoull(env[Current]) \in Int
            BY ConfigAssumption, EnvironmentAssumption DEF strtoull
          <6>2. Limit(Current) \in Int
            BY ConfigAssumption DEF Limit
          <6>3. QED
            BY <3>3, <5>1, <6>1, <6>2 DEF Rejects, parse_may_fail
        <5>3. QED
          BY <5>1, <5>2, NumbersInRange DEF OutOfRange
      <4>2. QED
        BY <3>3, <4>1 DEF Rejects
    <3>4. QED
      BY <1>1, <3>1, <3>2, <3>3 DEF InitVariable
  <2>7. /\ (\E n \in 1 .. stage - 1 : OutOfRange(Keys[n])) => failed
        /\ failed => \E n \in 1 .. stage - 1 : OutOfRange(Keys[n]) \/ env[Keys[n]] = Word
    BY DEF ServerInv, ConfigInv
  <2>8. /\ (\E n \in 1 .. stage : OutOfRange(Keys[n])) => failed'
        /\ failed' => \E n \in 1 .. stage : OutOfRange(Keys[n]) \/ env[Keys[n]] = Word
    BY <2>1, <2>4, <2>7 DEF Current
  <2>9. stage' - 1 = stage
    BY <2>1
  <2>10. /\ (\E n \in 1 .. stage' - 1 : OutOfRange(Keys[n])') => failed'
         /\ failed' => \E n \in 1 .. stage' - 1 : OutOfRange(Keys[n])' \/ env'[Keys[n]] = Word
    BY <2>1, <2>8, <2>9 DEF OutOfRange
  <2>11. phase' = "config" <=> ~Done'
    BY <1>1
  <2>12. phase' = "init" => Done' /\ ~failed'
    BY <1>1, <2>4
  <2>13. ~listening
    BY <1>1 DEF ServerInv, ConfigInv
  <2>14. QED
    BY <1>1, <1>2, <1>3, <2>1, <2>4, <2>10, <2>11, <2>12, <2>13 DEF ConfigInv
<1>5. TypeOK'
  BY <1>1, <1>2 DEF ServerInv, TypeOK
<1>6. OneAtATime' /\ BacklogFresh' /\ Untouched' /\ ReadOnce'
  BY <1>1, <1>2 DEF ServerInv, OneAtATime, BacklogFresh, Untouched, ReadOnce, Handling
<1>7. Scanning'
  BY <1>1, <1>2 DEF ServerInv, Scanning
<1>8. Answered'
  BY <1>1, <1>2 DEF ServerInv, Answered
<1>9. QED
  BY <1>4, <1>5, <1>6, <1>7, <1>8 DEF ServerInv

\* http_server_init succeeds or fails, or accept fails.
LEMMA InitOrAcceptFailsKeeps ==
  ASSUME ServerInv, http_server_init \/ AcceptFails
  PROVE  ServerInv'
<1>1. /\ phase \in {"init", "accept"} /\ phase' \in {"accept", "stopped"}
      /\ listening' \in {listening, TRUE, FALSE}
      /\ UNCHANGED configVars
      /\ UNCHANGED << current, buffer, i, state, headers, backlog, unsent, wire,
                      left, closed, accepted, read, answer >>
  BY DEF http_server_init, AcceptFails, validateVars, clientVars, history
<1>2. ConfigInv'
  BY <1>1, ConfigStays DEF ServerInv
<1>3. TypeOK'
  BY <1>1 DEF ServerInv, TypeOK
<1>4. OneAtATime' /\ BacklogFresh' /\ Untouched' /\ ReadOnce'
  BY <1>1 DEF ServerInv, OneAtATime, BacklogFresh, Untouched, ReadOnce, Handling
<1>5. Scanning'
  BY <1>1 DEF ServerInv, Scanning
<1>6. Answered'
  BY <1>1 DEF ServerInv, Answered
<1>7. QED
  BY <1>2, <1>3, <1>4, <1>5, <1>6 DEF ServerInv

\* A connection is accepted.
LEMMA AcceptKeeps ==
  ASSUME ServerInv, Accept
  PROVE  ServerInv'
<1> USE DEF Accept
<1>1. /\ UNCHANGED << i, state, unsent, wire, left, closed, read, answer >>
      /\ UNCHANGED configVars /\ UNCHANGED listening
      /\ phase = "accept" /\ phase' = "recv" /\ buffer' = << >> /\ ~headers'.ok
      /\ current' = {Head(backlog)} /\ backlog' = Tail(backlog)
  BY DEF clientVars, Refused
<1>2. /\ backlog \in Seq(Client) /\ backlog # << >> /\ Len(backlog) \in Nat /\ Len(backlog) > 0
  BY LenProperties, EmptySeq DEF ServerInv, TypeOK
<1>3. /\ Head(backlog) = backlog[1] /\ backlog[1] \in Client
      /\ backlog' \in Seq(Client) /\ Len(backlog') = Len(backlog) - 1
      /\ \A n \in 1 .. Len(backlog') : backlog'[n] = backlog[n + 1] /\ n + 1 \in 1 .. Len(backlog)
  BY <1>1, <1>2, HeadTailProperties
<1>4. current = {} /\ ~closed[backlog[1]]
  BY <1>1, <1>2 DEF ServerInv, OneAtATime, BacklogFresh, Handling
<1>5. TypeOK'
  <2>1. headers' \in [ ok : BOOLEAN, offset : Int ] /\ buffer' \in Seq(Bytes)
    BY EmptySeq DEF Refused
  <2>2. current' \in SUBSET Client /\ phase' \in Handling /\ accepted' \in SUBSET Client
    BY <1>1, <1>3 DEF Handling, ServerInv, TypeOK
  <2>3. QED
    BY <1>1, <1>3, <2>1, <2>2 DEF ServerInv, TypeOK
<1>6. ConfigInv'
  BY <1>1, ConfigStays DEF ServerInv
<1>7. OneAtATime'
  <2>1. accepted' = accepted \cup current'
    OBVIOUS
  <2>2. QED
    BY <1>1, <1>3, <1>4, <2>1 DEF ServerInv, OneAtATime, Handling
<1>8. BacklogFresh'
  <2> SUFFICES ASSUME NEW n \in 1 .. Len(backlog')
               PROVE  /\ ~closed[backlog'[n]] /\ backlog'[n] # backlog[1]
                      /\ \A m \in 1 .. Len(backlog') : backlog'[m] = backlog'[n] => m = n
    BY <1>1, <1>3 DEF BacklogFresh
  <2>1. 1 \in 1 .. Len(backlog) /\ n + 1 # 1
    BY <1>2
  <2>2. ~closed[backlog'[n]] /\ backlog'[n] # backlog[1]
    BY <1>3, <2>1 DEF ServerInv, BacklogFresh
  <2>3. ASSUME NEW m \in 1 .. Len(backlog'), backlog'[m] = backlog'[n]
        PROVE  m = n
    <3>1. m + 1 = n + 1
      BY <1>3, <2>3 DEF ServerInv, BacklogFresh
    <3>2. QED
      BY <3>1
  <2>4. QED
    BY <2>2, <2>3
<1>9. Untouched'
  BY <1>1, <1>4 DEF ServerInv, Untouched
<1>10. ReadOnce'
  BY <1>1, <1>3, <1>4 DEF ServerInv, Untouched, ReadOnce
<1>11. Scanning'
  BY <1>1 DEF ServerInv, Scanning
<1>12. Answered'
  BY <1>1 DEF ServerInv, Answered
<1>13. QED
  BY <1>5, <1>6, <1>7, <1>8, <1>9, <1>10, <1>11, <1>12 DEF ServerInv

\* Facts about Min.
LEMMA MinOfTwo ==
  ASSUME NEW a \in Int, NEW b \in Int
  PROVE  Min({a, b}) = IF a <= b THEN a ELSE b
BY DEF Min

\* The request ends without anything read.
LEMMA NothingReadKeeps ==
  ASSUME ServerInv, phase = "recv", phase' = "close",
         UNCHANGED configVars,
         UNCHANGED << listening, current, buffer, i, state, headers, backlog, unsent, wire,
                      left, closed, accepted, read, answer >>
  PROVE  ServerInv'
<1>1. TypeOK'
  BY DEF ServerInv, TypeOK, Handling
<1>2. ConfigInv'
  BY ConfigStays DEF ServerInv
<1>3. OneAtATime' /\ BacklogFresh' /\ Untouched' /\ ReadOnce'
  BY DEF ServerInv, OneAtATime, BacklogFresh, Untouched, ReadOnce, Handling
<1>4. Scanning'
  <2>1. buffer = << >>
    BY DEF ServerInv, ReadOnce
  <2>2. \A n \in 4 .. Len(buffer') : FALSE
    BY <2>1, EmptySeq
  <2>3. QED
    BY <2>2 DEF ServerInv, Scanning
<1>5. Answered'
  BY DEF ServerInv, Answered, Scanning
<1>6. QED
  BY <1>1, <1>2, <1>3, <1>4, <1>5 DEF ServerInv

\* recv returns bytes, or an error or the end of the stream.
LEMMA ReceiveKeeps ==
  ASSUME ServerInv, Receive
  PROVE  ServerInv'
<1> USE DEF Receive
<1>1. PICK c \in Client : current = {c} /\ ~closed[c] /\ Conn = c
  BY ConnIs DEF ServerInv, OneAtATime, Handling
<1> DEFINE n == Min({Len(wire[c]), UNSAFE_BUFFER_SIZE - 2})
<1>2. /\ n \in Nat /\ n <= Len(wire[c]) /\ n <= UNSAFE_BUFFER_SIZE - 2
      /\ wire[c] \in Seq(Bytes) /\ Len(wire[c]) \in Nat
  <2>1. wire[c] \in Seq(Bytes)
    BY DEF ServerInv, TypeOK
  <2>2. Len(wire[c]) \in Nat
    BY <2>1, LenProperties
  <2>3. UNSAFE_BUFFER_SIZE - 2 \in Nat
    BY ServerAssumption
  <2>4. n = IF Len(wire[c]) <= UNSAFE_BUFFER_SIZE - 2 THEN Len(wire[c])
            ELSE UNSAFE_BUFFER_SIZE - 2
    BY <2>2, <2>3, MinOfTwo
  <2> HIDE DEF n, Receive
  <2>5. QED
    BY <2>1, <2>2, <2>3, <2>4
<1>3. /\ UNCHANGED << listening, current, i, state, headers, backlog, unsent,
                      left, closed, accepted, answer >>
      /\ UNCHANGED configVars /\ phase = "recv"
  BY DEF validateVars
<1>4. CASE /\ n > 0
           /\ buffer' = SubSeq(wire[c], 1, n)
           /\ wire' = [ wire EXCEPT ![c] = SubSeq(@, n + 1, Len(@)) ]
           /\ read' = [ read EXCEPT ![c] = @ \o SubSeq(wire[c], 1, n) ]
           /\ phase' = "validate"
  <2> HIDE DEF n, Receive
  <2>1. buffer' \in Seq(Bytes) /\ Len(buffer') = n
    <3>1. \A m \in 1 .. n : wire[c][m] \in Bytes
      BY <1>2, ElementOfSeq
    <3>2. QED
      BY <1>2, <1>4, <3>1, SubSeqProperties
  <2>2. SubSeq(wire[c], n + 1, Len(wire[c])) \in Seq(Bytes)
    <3>1. \A m \in n + 1 .. Len(wire[c]) : wire[c][m] \in Bytes
      BY <1>2, ElementOfSeq
    <3>2. QED
      BY <1>2, <3>1, SubSeqProperties
  <2>3. read' = [ read EXCEPT ![c] = buffer' ]
    <3>1. read[c] = << >>
      BY <1>1, <1>3 DEF ServerInv, ReadOnce, Handling
    <3>2. << >> \o buffer' = buffer'
      BY <2>1, ConcatEmptySeq
    <3>3. QED
      BY <1>4, <3>1, <3>2
  <2>4. TypeOK'
    <3>1. wire' \in [Client -> Seq(Bytes)] /\ read' \in [Client -> Seq(Bytes)]
      <4> DEFINE rest == SubSeq(wire[c], n + 1, Len(wire[c]))
      <4>1. wire \in [Client -> Seq(Bytes)] /\ read \in [Client -> Seq(Bytes)]
        BY <1>1 DEF ServerInv, TypeOK
      <4>2. wire' = [ wire EXCEPT ![c] = rest ] /\ rest \in Seq(Bytes)  BY <1>4, <2>2
      <4> HIDE DEF rest
      <4> QED  BY <2>1, <2>3, <4>1, <4>2
    <3>2. QED
      BY <1>3, <1>4, <2>1, <3>1 DEF ServerInv, TypeOK, Handling
  <2>5. ConfigInv'
    BY <1>3, <1>4, ConfigStays DEF ServerInv
  <2>6. OneAtATime' /\ BacklogFresh'
    BY <1>3, <1>4 DEF ServerInv, OneAtATime, BacklogFresh, Handling
  <2>7. \A d \in Client : read'[d] = IF d = c THEN buffer' ELSE read[d]
    BY <1>1, <2>3 DEF ServerInv, TypeOK
  <2>8. Untouched'
    BY <1>1, <1>3, <2>7 DEF ServerInv, Untouched
  <2>9. ReadOnce'
    <3>1. \A d \in current' : read'[d] = buffer' /\ answer'[d] = "none"
      BY <1>1, <1>3, <2>7 DEF ServerInv, ReadOnce
    <3>2. Len(buffer') \in 1 .. UNSAFE_BUFFER_SIZE - 2
      BY <1>2, <1>4, <2>1, ServerAssumption
    <3>3. QED
      BY <1>4, <3>1, <3>2 DEF ReadOnce
  <2>10. Scanning'
    <3>1. i' = 0 /\ state' = 0 /\ ~headers'.ok
      BY <1>3 DEF ServerInv, Scanning
    <3>2. ScanKnows'
      BY <1>2, <2>1, <3>1 DEF ScanKnows, EndsWith2, EndsWith3, MissedUpTo
    <3>3. QED
      BY <1>4, <3>1, <3>2 DEF Scanning
  <2>11. Answered'
    BY <1>1, <1>3, <1>4, <2>7 DEF ServerInv, Answered, ReadOnce
  <2>12. QED
    BY <2>4, <2>5, <2>6, <2>8, <2>9, <2>10, <2>11 DEF ServerInv
<1>5. CASE phase' = "close" /\ UNCHANGED << buffer, wire, read >>
  BY <1>3, <1>5, NothingReadKeeps
<1>6. QED
  BY <1>1, <1>4, <1>5

\* poll times out or fails.
LEMMA PollKeeps ==
  ASSUME ServerInv, PollTimesOut \/ PollFails
  PROVE  ServerInv'
BY NothingReadKeeps DEF PollTimesOut, PollFails, validateVars, clientVars, history

\* poll reports a broken connection and no data.
LEMMA PollReportsErrorKeeps ==
  ASSUME ServerInv, PollReportsError
  PROVE  ServerInv'
<1>1. /\ UNCHANGED << listening, current, buffer, i, state, headers, backlog, unsent, wire,
                      left, closed, accepted, read, answer >>
      /\ UNCHANGED configVars /\ phase = "recv" /\ phase' = "poll_aborted" /\ left[Conn]
  BY DEF PollReportsError, validateVars, clientVars, history
<1>2. TypeOK'
  BY <1>1 DEF ServerInv, TypeOK, Handling
<1>3. ConfigInv'
  BY <1>1, ConfigStays DEF ServerInv
<1>4. OneAtATime' /\ BacklogFresh' /\ Untouched'
  BY <1>1 DEF ServerInv, OneAtATime, BacklogFresh, Untouched, Handling
<1>5. ReadOnce'
  <2>1. buffer = << >> /\ \A c \in current : left[c]
    BY <1>1, ConnIs DEF ServerInv, OneAtATime, ReadOnce, Handling
  <2>2. QED
    BY <1>1, <2>1 DEF ServerInv, ReadOnce, Handling
<1>6. Scanning'
  BY <1>1 DEF ServerInv, Scanning
<1>7. Answered'
  BY <1>1 DEF ServerInv, Answered
<1>8. QED
  BY <1>2, <1>3, <1>4, <1>5, <1>6, <1>7 DEF ServerInv

\* The size of what was read fails the assertion.
LEMMA AbortKeeps ==
  ASSUME ServerInv, AbortOnSize
  PROVE  ServerInv'
<1>1. /\ UNCHANGED << listening, current, buffer, i, state, headers, backlog, unsent, wire,
                      left, closed, accepted, read, answer >>
      /\ UNCHANGED configVars /\ phase = "validate" /\ phase' = "aborted"
      /\ ~SizeAsserted
  BY DEF AbortOnSize, validateVars, clientVars, history
<1>2. TypeOK'
  BY <1>1 DEF ServerInv, TypeOK, Handling
<1>3. ConfigInv'
  BY <1>1, ConfigStays DEF ServerInv
<1>4. OneAtATime' /\ BacklogFresh' /\ Untouched'
  BY <1>1 DEF ServerInv, OneAtATime, BacklogFresh, Untouched, Handling
<1>5. ReadOnce'
  <2>1. Len(buffer) = 1
    <3>1. Len(buffer) \in 1 .. UNSAFE_BUFFER_SIZE - 2
      BY <1>1 DEF ServerInv, ReadOnce
    <3>2. Len(buffer) \notin 2 .. UNSAFE_BUFFER_SIZE - 1
      BY <1>1 DEF SizeAsserted
    <3>3. UNSAFE_BUFFER_SIZE \in Nat
      BY ServerAssumption
    <3>4. /\ Len(buffer) \in Int /\ 1 <= Len(buffer)
          /\ Len(buffer) <= UNSAFE_BUFFER_SIZE - 2
      BY <3>1, <3>3
    <3>5. Len(buffer) >= 2 => Len(buffer) \in 2 .. UNSAFE_BUFFER_SIZE - 1
      BY <3>3, <3>4
    <3>6. ~(Len(buffer) >= 2)
      BY <3>2, <3>5
    <3>7. \A n \in Int : 1 <= n /\ ~(n >= 2) => n = 1
      OBVIOUS
    <3>8. QED
      BY <3>4, <3>6, <3>7, Zenon
  <2>2. QED
    BY <1>1, <2>1 DEF ServerInv, ReadOnce, Handling
<1>6. Scanning'
  BY <1>1 DEF ServerInv, Scanning
<1>7. Answered'
  BY <1>1 DEF ServerInv, Answered
<1>8. QED
  BY <1>2, <1>3, <1>4, <1>5, <1>6, <1>7 DEF ServerInv

\* A step of the scan: the parts of the invariant that do not speak of it.
LEMMA ScanFrame ==
  ASSUME ServerInv, phase = "validate", phase' \in {"validate", "send", "close"},
         phase' = "close" => ~headers'.ok,
         UNCHANGED configVars,
         UNCHANGED << listening, current, buffer, backlog, unsent, wire,
                      left, closed, accepted, read, answer >>
  PROVE  ConfigInv' /\ OneAtATime' /\ BacklogFresh' /\ Untouched' /\ ReadOnce' /\ Answered'
<1>1. ConfigInv'
  BY ConfigStays DEF ServerInv
<1>2. OneAtATime' /\ BacklogFresh' /\ Untouched' /\ ReadOnce'
  BY DEF ServerInv, OneAtATime, BacklogFresh, Untouched, ReadOnce, Handling
<1>3. Answered'
  BY DEF ServerInv, Answered
<1>4. QED
  BY <1>1, <1>2, <1>3

\* http_headers_validate, one byte or its end.
LEMMA ValidateKeeps ==
  ASSUME ServerInv, http_headers_validate
  PROVE  ServerInv'
<1>1. /\ UNCHANGED << listening, buffer, backlog, unsent, wire, left, closed, accepted, read,
                      answer >>
      /\ UNCHANGED configVars /\ phase = "validate" /\ ScanKnows
      /\ i \in Nat /\ Len(buffer) \in Nat
  BY LenProperties DEF http_headers_validate, clientVars, history, ServerInv, Scanning, TypeOK
<1>2. ASSUME Refuse, i < Len(buffer) => buffer[i + 1] = "control"
      PROVE  ServerInv'
  <2>1. /\ phase' = "close" /\ headers' = Refused /\ i' = 0 /\ state' = 0
        /\ UNCHANGED current
    BY <1>2 DEF Refuse
  <2>2. TypeOK'
    <3>1. headers' \in [ ok : BOOLEAN, offset : Int ]
      BY <2>1 DEF Refused
    <3>2. QED
      BY <1>1, <2>1, <3>1 DEF ServerInv, TypeOK, Handling
  <2>3. \A n \in 4 .. Len(buffer) : Complete(n) => EndsWith3(n - 4)
    BY <1>1, <1>2, ScanRefuses DEF ServerInv
  <2>4. \A n \in 4 .. Len(buffer') : Complete(n)' => EndsWith3(n - 4)'
    BY <1>1, <2>3 DEF Complete, EndsWith3, EndsWith4
  <2>5. ~headers'.ok
    BY <2>1 DEF Refused
  <2>6. Scanning'
    BY <2>1, <2>4, <2>5 DEF Scanning
  <2>7. QED
    BY <1>1, <2>1, <2>2, <2>5, <2>6, ScanFrame DEF ServerInv
<1>3. ASSUME i < Len(buffer), buffer[i + 1] # "control", Follow(buffer[i + 1]) = 4,
             phase' = "send", headers' = Valid(i - 2), i' = 0, state' = 0,
             UNCHANGED current
      PROVE  ServerInv'
  <2>1. headers'.ok /\ headers'.offset = i - 2 /\ headers' \in [ ok : BOOLEAN, offset : Int ]
    BY <1>1, <1>3 DEF Valid
  <2>2. TypeOK'
    BY <1>1, <1>3, <2>1 DEF ServerInv, TypeOK, Handling
  <2>3. Complete(i + 1) /\ headers'.offset + 3 = i + 1
    BY <1>1, <1>3, <2>1, ScanFinds DEF ServerInv
  <2>4. Complete(headers.offset + 3)'
    BY <1>1, <2>3 DEF Complete, EndsWith3, EndsWith4
  <2>5. Scanning'
    BY <1>3, <2>1, <2>4 DEF Scanning
  <2>6. QED
    BY <1>1, <1>3, <2>2, <2>5, ScanFrame DEF ServerInv
<1>4. ASSUME i < Len(buffer), buffer[i + 1] # "control", Follow(buffer[i + 1]) # 4,
             i' = i + 1, state' = Follow(buffer[i + 1]),
             UNCHANGED << phase, current, headers >>
      PROVE  ServerInv'
  <2>1. ScanKnows' /\ state' \in 0 .. 3
    BY <1>1, <1>4, ScanGoesOn DEF ServerInv
  <2>2. TypeOK'
    <3>1. i' \in Nat  BY <1>4 DEF ServerInv, TypeOK
    <3> QED  BY <1>1, <1>4, <2>1, <3>1 DEF ServerInv, TypeOK
  <2>3. Scanning'
    BY <1>1, <1>4, <2>1 DEF ServerInv, Scanning
  <2>4. QED
    BY <1>1, <1>4, <2>2, <2>3, ScanFrame DEF ServerInv
<1>5. QED
  BY <1>1, <1>2, <1>3, <1>4
     DEF http_headers_validate, ValidateByte, http_headers_is_valid_byte

\* The answer is sent, in part or not at all, or the process is killed.
LEMMA SendKeeps ==
  ASSUME ServerInv, Send
  PROVE  ServerInv'
<1>1. PICK c \in Client : current = {c} /\ ~closed[c] /\ Conn = c
  BY ConnIs DEF Send, ServerInv, OneAtATime, Handling
<1>2. /\ UNCHANGED << listening, current, buffer, i, state, headers, backlog, unsent, wire,
                      left, closed, accepted, read >>
      /\ UNCHANGED configVars /\ phase = "send" /\ phase' \in {"close", "killed"}
      /\ phase' = "killed" => left[c]
      /\ \/ UNCHANGED answer
         \/ \E sent \in {"nothing", "part", "all"} : answer' = [ answer EXCEPT ![c] = sent ]
  BY <1>1 DEF Send, validateVars, clientVars
<1>3. /\ answer' \in [Client -> {"none", "nothing", "part", "all"}]
      /\ \A d \in Client : d # c => answer'[d] = answer[d]
  BY <1>1, <1>2 DEF ServerInv, TypeOK
<1>4. TypeOK'
  BY <1>2, <1>3 DEF ServerInv, TypeOK, Handling
<1>5. ConfigInv'
  BY <1>2, ConfigStays DEF ServerInv
<1>6. OneAtATime' /\ BacklogFresh'
  BY <1>2 DEF ServerInv, OneAtATime, BacklogFresh, Handling
<1>7. Untouched'
  BY <1>1, <1>2, <1>3 DEF ServerInv, Untouched
<1>8. ReadOnce'
  BY <1>1, <1>2 DEF ServerInv, ReadOnce, Handling
<1>9. Scanning'
  <2>1. headers.ok /\ Complete(headers.offset + 3)
    BY <1>2 DEF ServerInv, Scanning
  <2>2. Complete(headers.offset + 3)'
    BY <1>2, <2>1 DEF Complete, EndsWith3, EndsWith4
  <2>3. QED
    BY <1>2, <2>1, <2>2 DEF ServerInv, Scanning
<1>10. Answered'
  <2>1. Ends(read[c]) # {}
    <3>1. headers.offset + 3 \in Int /\ Complete(headers.offset + 3) /\ buffer \in Seq(Bytes)
      BY <1>2 DEF ServerInv, Scanning, TypeOK
    <3>2. headers.offset + 3 \in Ends(buffer)
      BY <3>1, EndsOfBuffer
    <3>3. read[c] = buffer
      BY <1>1, <1>2 DEF ServerInv, ReadOnce, Handling
    <3>4. QED
      BY <3>2, <3>3
  <2>2. answer'[c] # "none" \/ phase' = "killed"
    BY <1>1, <1>2 DEF ServerInv, TypeOK, Send
  <2>3. QED
    BY <1>1, <1>2, <1>3, <2>1, <2>2 DEF ServerInv, Answered
<1>11. QED
  BY <1>4, <1>5, <1>6, <1>7, <1>8, <1>9, <1>10 DEF ServerInv

\* end_of_request.
LEMMA CloseKeeps ==
  ASSUME ServerInv, Close
  PROVE  ServerInv'
<1>1. PICK c \in Client : current = {c} /\ ~closed[c] /\ Conn = c
  BY ConnIs DEF Close, ServerInv, OneAtATime, Handling
<1>2. /\ UNCHANGED << listening, buffer, i, state, headers, backlog, unsent, wire,
                      left, accepted, read, answer >>
      /\ UNCHANGED configVars /\ phase = "close" /\ phase' = "accept" /\ current' = {}
      /\ closed' = [ closed EXCEPT ![c] = TRUE ]
  BY <1>1 DEF Close, validateVars, history
<1>3. /\ closed' \in [Client -> BOOLEAN] /\ closed'[c]
      /\ \A d \in Client : d # c => closed'[d] = closed[d]
  BY <1>1, <1>2 DEF ServerInv, TypeOK
<1>4. TypeOK'
  BY <1>2, <1>3 DEF ServerInv, TypeOK, Handling
<1>5. ConfigInv'
  BY <1>2, ConfigStays DEF ServerInv
<1>6. OneAtATime'
  BY <1>1, <1>2, <1>3 DEF ServerInv, OneAtATime, Handling
<1>7. BacklogFresh'
  <2>1. \A n \in 1 .. Len(backlog) : backlog[n] \in Client /\ backlog[n] # c
    BY <1>1, ElementOfSeq DEF ServerInv, TypeOK, BacklogFresh
  <2>2. QED
    BY <1>1, <1>2, <1>3, <2>1 DEF ServerInv, BacklogFresh
<1>8. Untouched'
  BY <1>1, <1>2, <1>3 DEF ServerInv, Untouched
<1>9. ReadOnce'
  BY <1>2 DEF ReadOnce, Handling
<1>10. Scanning'
  BY <1>2 DEF ServerInv, Scanning
<1>11. Answered'
  <2>1. answer[c] = "none" => \A n \in Ends(read[c]) : Overlooked(read[c], n)
    <3>1. answer[c] = "none" => ~headers.ok
      BY <1>1, <1>2 DEF ServerInv, Answered
    <3>2. read[c] = buffer
      BY <1>1, <1>2 DEF ServerInv, ReadOnce, Handling
    <3>3. QED
      BY <1>2, <3>1, <3>2, RefusedAreOverlooked DEF ServerInv
  <2>2. QED
    BY <1>2, <1>3, <2>1 DEF ServerInv, Answered
<1>12. QED
  BY <1>4, <1>5, <1>6, <1>7, <1>8, <1>9, <1>10, <1>11 DEF ServerInv

\* A client connects.
LEMMA ConnectKeeps ==
  ASSUME ServerInv, NEW c \in Client, Connect(c)
  PROVE  ServerInv'
<1>1. /\ UNCHANGED << phase, listening, current, buffer, i, state, headers, unsent, wire,
                      left, closed, accepted, read, answer >>
      /\ UNCHANGED configVars
      /\ backlog' = Append(backlog, c) /\ ~Queued(c) /\ c \notin current /\ ~closed[c]
  BY DEF Connect, Connected, serverVars, validateVars, clientVars, history
<1>2. /\ backlog \in Seq(Client) /\ Len(backlog) \in Nat
      /\ backlog' \in Seq(Client) /\ Len(backlog') = Len(backlog) + 1
      /\ \A n \in 1 .. Len(backlog) : backlog'[n] = backlog[n]
      /\ backlog'[Len(backlog) + 1] = c
  BY <1>1, LenProperties, AppendProperties DEF ServerInv, TypeOK
<1>3. BacklogFresh'
  <2>1. \A n \in 1 .. Len(backlog) : backlog[n] # c
    BY <1>1 DEF Queued
  <2> SUFFICES ASSUME NEW n \in 1 .. Len(backlog) + 1
               PROVE  /\ ~closed[backlog'[n]] /\ backlog'[n] \notin current
                      /\ \A m \in 1 .. Len(backlog) + 1 : backlog'[m] = backlog'[n] => m = n
    BY <1>1, <1>2 DEF BacklogFresh
  <2>2. CASE n \in 1 .. Len(backlog)
    BY <1>2, <2>1, <2>2 DEF ServerInv, BacklogFresh
  <2>3. CASE n = Len(backlog) + 1
    BY <1>1, <1>2, <2>1, <2>3
  <2>4. QED
    BY <1>2, <2>2, <2>3
<1>4. TypeOK'
  BY <1>1, <1>2 DEF ServerInv, TypeOK
<1>5. ConfigInv'
  BY <1>1 DEF ServerInv, ConfigInv, Done, OutOfRange, configVars
<1>6. OneAtATime' /\ Untouched' /\ ReadOnce' /\ Answered'
  BY <1>1 DEF ServerInv, OneAtATime, Untouched, ReadOnce, Answered
<1>7. Scanning'
  BY <1>1 DEF ServerInv, Scanning, ScanKnows, Complete, EndsWith2, EndsWith3, EndsWith4,
              MissedUpTo
<1>8. QED
  BY <1>3, <1>4, <1>5, <1>6, <1>7 DEF ServerInv

\* Bytes of a client arrive, or it leaves.
LEMMA DeliverOrLeaveKeeps ==
  ASSUME ServerInv, NEW c \in Client, Deliver(c) \/ Leave(c)
  PROVE  ServerInv'
<1>1. /\ UNCHANGED << phase, listening, current, buffer, i, state, headers, backlog,
                      closed, accepted, read, answer >>
      /\ UNCHANGED configVars
  BY DEF Deliver, Leave, serverVars, validateVars, history
<1>2. /\ wire' \in [Client -> Seq(Bytes)] /\ unsent' \in [Client -> Seq(Bytes)]
      /\ left' \in [Client -> BOOLEAN] /\ \A d \in Client : left[d] => left'[d]
  <2>1. CASE Leave(c)
    BY <2>1 DEF Leave, ServerInv, TypeOK
  <2>2. CASE Deliver(c)
    <3>1. PICK n \in 1 .. Len(unsent[c]) :
             /\ wire' = [ wire EXCEPT ![c] = @ \o SubSeq(unsent[c], 1, n) ]
             /\ unsent' = [ unsent EXCEPT ![c] = SubSeq(@, n + 1, Len(@)) ]
             /\ left' = left
      BY <2>2 DEF Deliver
    <3>2. unsent[c] \in Seq(Bytes) /\ wire[c] \in Seq(Bytes) /\ Len(unsent[c]) \in Nat
      BY LenProperties DEF ServerInv, TypeOK
    <3>3. \A m \in 1 .. Len(unsent[c]) : unsent[c][m] \in Bytes
      BY <3>2, ElementOfSeq
    <3>4. SubSeq(unsent[c], 1, n) \in Seq(Bytes)
      <4>1. \A m \in 1 .. n : unsent[c][m] \in Bytes
        BY <3>2, <3>3
      <4>2. QED
        BY <3>2, <4>1, SubSeqProperties
    <3>5. SubSeq(unsent[c], n + 1, Len(unsent[c])) \in Seq(Bytes)
      <4>1. \A m \in n + 1 .. Len(unsent[c]) : unsent[c][m] \in Bytes
        BY <3>2, <3>3
      <4>2. QED
        BY <3>2, <4>1, SubSeqProperties
    <3>6. wire[c] \o SubSeq(unsent[c], 1, n) \in Seq(Bytes)
      BY <3>2, <3>4, ConcatProperties
    <3>7. QED
      BY <3>1, <3>5, <3>6 DEF ServerInv, TypeOK
  <2>3. QED
    BY <2>1, <2>2
<1>3. TypeOK'
  BY <1>1, <1>2 DEF ServerInv, TypeOK
<1>4. ConfigInv'
  BY <1>1 DEF ServerInv, ConfigInv, Done, OutOfRange, configVars
<1>5. OneAtATime' /\ BacklogFresh' /\ Untouched' /\ Answered'
  BY <1>1 DEF ServerInv, OneAtATime, BacklogFresh, Untouched, Answered
<1>6. ReadOnce'
  BY <1>1, <1>2 DEF ServerInv, TypeOK, ReadOnce
<1>7. Scanning'
  BY <1>1 DEF ServerInv, Scanning, ScanKnows, Complete, EndsWith2, EndsWith3, EndsWith4,
              MissedUpTo
<1>8. QED
  BY <1>3, <1>4, <1>5, <1>6, <1>7 DEF ServerInv

\* Every step keeps the invariant.
LEMMA NextServer == ServerInv /\ [Next]_vars => ServerInv'
<1> SUFFICES ASSUME ServerInv, [Next]_vars PROVE ServerInv'
  OBVIOUS
<1>1. CASE Server
  BY <1>1, ConfigKeeps, InitOrAcceptFailsKeeps, AcceptKeeps, ReceiveKeeps, PollKeeps,
     AbortKeeps, ValidateKeeps, SendKeeps, CloseKeeps DEF Server
<1>2. CASE Failure
  BY <1>2, InitOrAcceptFailsKeeps, PollKeeps, PollReportsErrorKeeps DEF Failure
<1>3. ASSUME NEW c \in Client, Connect(c) \/ Deliver(c) \/ Leave(c)
      PROVE  ServerInv'
  BY <1>3, ConnectKeeps, DeliverOrLeaveKeeps
<1>4. CASE UNCHANGED vars
  <2>1. /\ UNCHANGED << phase, listening, current, buffer, i, state, headers, backlog,
                        unsent, wire, left, closed, accepted, read, answer >>
        /\ UNCHANGED configVars
    BY <1>4 DEF vars, serverVars, validateVars, clientVars, history
  <2>2. TypeOK' /\ ConfigInv'
    BY <2>1 DEF ServerInv, TypeOK, ConfigInv, Done, OutOfRange, configVars
  <2>3. OneAtATime' /\ BacklogFresh' /\ Untouched' /\ ReadOnce' /\ Answered'
    BY <2>1 DEF ServerInv, OneAtATime, BacklogFresh, Untouched, ReadOnce, Answered
  <2>4. Scanning'
    BY <2>1 DEF ServerInv, Scanning, ScanKnows, Complete, EndsWith2, EndsWith3, EndsWith4,
                MissedUpTo
  <2>5. QED
    BY <2>2, <2>3, <2>4 DEF ServerInv
<1>5. QED
  BY <1>1, <1>2, <1>3, <1>4 DEF Next

\* The inductive invariant holds throughout.
LEMMA ServerInvariant == Spec => []ServerInv
BY InitServer, NextServer, PTL DEF Spec

-----------------------------------------------------------------------------
\* For any number of clients: whatever path the loop takes, also one on which nothing
\* was read, a connection that was accepted is closed before the next is accepted and
\* before main returns, and none is closed twice (EveryPathCloses).
THEOREM ServerClosesEveryPath == Spec => []EveryPathCloses
<1>1. ServerInv => EveryPathCloses
  BY DEF ServerInv, TypeOK, OneAtATime, Handling, EveryPathCloses
<1>2. QED
  BY <1>1, ServerInvariant, PTL

\* Whatever the pieces a request arrives in, it is answered only if its headers came
\* in full, and without a bad byte, in the one read; and no such request is closed
\* unanswered but one whose end is overlooked (AnswersHeaders).
THEOREM ServerAnswersHeaders == Spec => []AnswersHeaders
<1>1. ServerInv => AnswersHeaders
  BY DEF ServerInv, Answered, AnswersHeaders
<1>2. QED
  BY <1>1, ServerInvariant, PTL

\* The one pass of http_headers_validate decides as a search for CR LF CR LF would,
\* but for an end directly behind CR LF CR (EndOfHeadersFound).
THEOREM ServerFindsEndOfHeaders == Spec => []EndOfHeadersFound
<1>1. ServerInv => EndOfHeadersFound
  <2> SUFFICES ASSUME ServerInv, phase \in {"send", "close"}
               PROVE  /\ headers.ok => headers.offset + 3 \in Ends(buffer)
                      /\ ~headers.ok => \A n \in Ends(buffer) : Overlooked(buffer, n)
    BY DEF EndOfHeadersFound
  <2>1. buffer \in Seq(Bytes) /\ headers.offset + 3 \in Int
    BY DEF ServerInv, TypeOK
  <2>2. headers.ok => headers.offset + 3 \in Ends(buffer)
    BY <2>1, EndsOfBuffer DEF ServerInv, Scanning
  <2>3. ~headers.ok => \A n \in Ends(buffer) : Overlooked(buffer, n)
    BY RefusedAreOverlooked DEF ServerInv, Scanning
  <2>4. QED
    BY <2>2, <2>3
<1>2. QED
  BY <1>1, ServerInvariant, PTL

\* A number out of range, or a word the library tells of, a first piece of one byte, a
\* connection that breaks before it was read and a client gone at the answer are the
\* only causes, besides failing system calls, that keep the server from running or end
\* it; and a number out of range always does (DownOnlyForCause).
THEOREM ServerDownOnlyForCause == Spec => []DownOnlyForCause
<1>1. ServerInv => DownOnlyForCause
  <2> SUFFICES ASSUME ServerInv PROVE DownOnlyForCause
    OBVIOUS
  <2>1. /\ Done /\ (\E k \in Key : OutOfRange(k)) => failed
        /\ failed => \E k \in Key : OutOfRange(k) \/ env[k] = Word
    <3>1. /\ stage \in 1 .. Len(Keys) + 1 /\ Len(Keys) = 5
          /\ (\E n \in 1 .. stage - 1 : OutOfRange(Keys[n])) => failed
          /\ failed => \E n \in 1 .. stage - 1 : OutOfRange(Keys[n]) \/ env[Keys[n]] = Word
      BY DEF ServerInv, ConfigInv, Keys
    <3>2. \A n \in 1 .. stage - 1 : n \in 1 .. Len(Keys)
      BY <3>1
    <3>3. Done => stage - 1 = Len(Keys)
      BY <3>1 DEF Done
    <3>4. QED
      BY <3>1, <3>2, <3>3 DEF Key
  <2>2. listening => Done /\ ~failed
    BY DEF ServerInv, ConfigInv
  <2>3. /\ phase = "aborted" => Len(read[Conn]) = 1
        /\ phase = "poll_aborted" => read[Conn] = << >> /\ left[Conn]
    BY ConnIs DEF ServerInv, OneAtATime, ReadOnce, Handling
  <2>4. ASSUME phase = "killed"
        PROVE  left[Conn] /\ Ends(read[Conn]) # {}
    <3>1. PICK c \in Client : current = {c} /\ Conn = c
      BY <2>4, ConnIs DEF ServerInv, OneAtATime, Handling
    <3>2. read[c] = buffer /\ left[c]
      BY <2>4, <3>1 DEF ServerInv, ReadOnce, Handling
    <3>3. buffer \in Seq(Bytes) /\ headers.offset + 3 \in Int /\ Complete(headers.offset + 3)
      BY <2>4 DEF ServerInv, TypeOK, Scanning
    <3>4. headers.offset + 3 \in Ends(buffer)
      BY <3>3, EndsOfBuffer
    <3>5. QED
      BY <3>1, <3>2, <3>4
  <2>5. QED
    BY <2>1, <2>2, <2>3, <2>4 DEF DownOnlyForCause
<1>2. QED
  BY <1>1, ServerInvariant, PTL
=============================================================================
