---------------------------- MODULE HttpRequest ----------------------------
(***************************************************************************)
(* http_request_poll_and_read of http.c, the dynamic array it reads into   *)
(* and the scanner it looks for the first line with.  Nothing calls it (its*)
(* declaration says deprecated), so its caller is any owner of an          *)
(* http_request: one that uses the array before, hands it to the function, *)
(* scans what was read and may call again on another connection.           *)
(*                                                                         *)
(* The array stores, for every byte, how many bytes were pushed up to it;  *)
(* pushed says which bytes these were.                                     *)
(***************************************************************************)
EXTENDS DynamicArray, FiniteSetsExt

CONSTANTS Byte,             \* kinds of bytes, "CR" and "LF" among them
          Buffers,          \* what the owner pushes itself
          Streams,          \* what the peers of a connection send
          RECV_BUFFER_SIZE  \* sizeof(buffer), 4096 in the code

ASSUME RequestAssumption ==
  /\ {"CR", "LF"} \subseteq Byte
  /\ Streams \subseteq Seq(Byte)
  /\ \A b \in Buffers : b \in Seq(Byte) /\ Len(b) \in 1 .. MaxPush
  /\ RECV_BUFFER_SIZE \in 1 .. MaxPush

-----------------------------------------------------------------------------
(* scanner.c: cutting pieces off the front of a slice of a buffer.  A slice *)
(* is the offset of its first byte and its length; a buffer without bytes   *)
(* stands for NULL as well.                                                 *)

Slice(ptr, len) == [ ptr |-> ptr, len |-> len ]

str_slice_from_buffer(buffer) == Slice(0, Len(buffer))
str_slice_is_empty(buffer, s) == buffer = << >> \/ s.len = 0

\* The bytes of a slice.
Text(buffer, s) == SubSeq(buffer, s.ptr + 1, s.ptr + s.len)

\* memmem, and memchr for a pattern of one byte: where the pattern begins in the
\* slice, counted from the slice's first byte.
Places(buffer, s, pattern) ==
  { k \in 0 .. s.len - Len(pattern) :
      SubSeq(buffer, s.ptr + k + 1, s.ptr + k + Len(pattern)) = pattern }

\* What a scanner function returns: its result, the scanner's input afterwards
\* and the piece it cut off.
ScanError(s) == [ ok |-> FALSE, input |-> s, out |-> Slice(0, 0) ]

\* Mutated form of CutAt: the pattern belongs to the piece.
CutAt_after(s, offset) ==
  [ ok |-> TRUE, out |-> Slice(s.ptr, offset + 1),
    input |-> Slice(s.ptr + offset, s.len - offset) ]

\* The pattern stays in front of the input.
CutAt(s, offset) ==
  [ ok |-> TRUE, out |-> Slice(s.ptr, offset),
    input |-> Slice(s.ptr + offset, s.len - offset) ]

scanner_next_until_slice(buffer, s, pattern) ==
  IF str_slice_is_empty(buffer, s) \/ Places(buffer, s, pattern) = {} THEN ScanError(s)
  ELSE CutAt(s, Min(Places(buffer, s, pattern)))

scanner_next_until_char(buffer, s, c) == scanner_next_until_slice(buffer, s, << c >>)

scanner_next_until_end(buffer, s) ==
  IF str_slice_is_empty(buffer, s) THEN ScanError(s) ELSE CutAt(s, s.len)

-----------------------------------------------------------------------------
VARIABLES pushed,
          running,      \* whether http_request_poll_and_read is
          first_chunk,
          peer,         \* the connection: what is sent, whether the peer then
                        \* closes it, and how much recv has returned
          before,       \* the bytes that were in the array at the call
          scanner, scan \* the input of the scanner in use and its last answer

requestVars == << pushed, running, first_chunk, peer, before, scanner, scan >>
allVars == << vars, requestVars >>

CRLF == << "CR", "LF" >>
NoPeer == [ sent |-> << >>, closes |-> FALSE, taken |-> 0 ]
NoScan == ScanError(Slice(0, 0))

RequestInit ==
  /\ Init
  /\ pushed = << >>
  /\ running = FALSE
  /\ first_chunk = FALSE
  /\ peer = NoPeer
  /\ before = << >>
  /\ scanner = Slice(0, 0)
  /\ scan = NoScan

\* The bytes of the array; none where its block is gone.
Data == [ i \in 1 .. Min({length, Len(items)}) |->
            IF items[i] = Junk THEN Junk ELSE pushed[items[i]] ]

-----------------------------------------------------------------------------
(* The owner.                                                              *)

\* A push moves the block, so the scanner is not used after it.
Pushes(bytes) ==
  /\ pushed' = IF length' = length THEN pushed ELSE pushed \o bytes
  /\ scanner' = Slice(0, 0)
  /\ scan' = NoScan

OwnerPushes ==
  /\ ~running
  /\ \E bytes \in Buffers :
       /\ \/ Len(bytes) = 1 /\ dynamic_array_push_back_byte
          \/ dynamic_array_push_back(Len(bytes))
       /\ Pushes(bytes)
  /\ UNCHANGED << running, first_chunk, peer, before >>

OwnerFrees ==
  /\ ~running
  /\ dynamic_array_free
  /\ pushed' = << >>
  /\ scanner' = Slice(0, 0)
  /\ scan' = NoScan
  /\ UNCHANGED << running, first_chunk, peer, before >>

\* A scanner over all the data, or the next piece of the one in use.
OwnerScans ==
  /\ ~running /\ ~crashed
  /\ \/ scanner' = str_slice_from_buffer(Data) /\ scan' = NoScan
     \/ /\ \/ scan' = scanner_next_until_slice(Data, scanner, CRLF)
           \/ \E c \in Byte : scan' = scanner_next_until_char(Data, scanner, c)
           \/ scan' = scanner_next_until_end(Data, scanner)
        /\ scanner' = scan'.input
  /\ UNCHANGED << vars, pushed, running, first_chunk, peer, before >>

\* Bound: what the peer sends fits in MaxLength.
http_request_poll_and_read ==
  /\ ~running /\ ~crashed
  /\ \E sent \in Streams, closes \in BOOLEAN :
       /\ length + Len(sent) <= MaxLength
       /\ peer' = [ sent |-> sent, closes |-> closes, taken |-> 0 ]
  /\ running' = TRUE
  /\ first_chunk' = TRUE
  /\ before' = Data
  /\ scanner' = Slice(0, 0)
  /\ scan' = NoScan
  /\ UNCHANGED << vars, pushed >>

-----------------------------------------------------------------------------
(* The loop of http_request_poll_and_read.  request_completed is never set, *)
(* so that every way out of it is RESULT_ERR and the lines after the loop   *)
(* are never reached.                                                       *)

returns_error ==
  /\ running' = FALSE
  /\ first_chunk' = FALSE
  /\ peer' = NoPeer
  /\ before' = << >>
  /\ scanner' = Slice(0, 0)
  /\ scan' = NoScan

\* poll fails, or recv does.
PollOrRecvFails ==
  /\ running /\ ~crashed
  /\ returns_error
  /\ UNCHANGED << vars, pushed >>

AllTaken == peer.taken = Len(peer.sent)

\* poll returns 0; not once the end of the stream has arrived, which is input.
PollTimesOut ==
  /\ running /\ ~crashed
  /\ ~(AllTaken /\ peer.closes)
  /\ returns_error
  /\ UNCHANGED << vars, pushed >>

\* Mutated form of ReceiveEnd: 0 bytes do not end the loop.
ReceiveEnd_again ==
  /\ running /\ ~crashed
  /\ AllTaken /\ peer.closes
  /\ UNCHANGED allVars

\* recv returns 0.
ReceiveEnd ==
  /\ running /\ ~crashed
  /\ AllTaken /\ peer.closes
  /\ returns_error
  /\ UNCHANGED << vars, pushed >>

\* The first chunk: the first line of all the data, which is printed.
FirstLine == scanner_next_until_slice(Data', str_slice_from_buffer(Data'), CRLF)

\* Mutated form of Pieces: the whole buffer is pushed, however much was received.
Pieces_whole ==
  { [ i \in 1 .. RECV_BUFFER_SIZE |->
        IF peer.taken + i <= Len(peer.sent) THEN peer.sent[peer.taken + i] ELSE "NUL" ] }

\* What recv may return of what the peer has sent.
Pieces ==
  { SubSeq(peer.sent, peer.taken + 1, peer.taken + n) :
      n \in 1 .. Min({RECV_BUFFER_SIZE, Len(peer.sent) - peer.taken}) }

\* recv returns bytes.  They are pushed, which may fail; the first time the first
\* line must be among them.  Then the scanner's length grows by the two bytes its
\* start was meant to skip.
ReceiveChunk ==
  /\ running /\ ~AllTaken
  /\ \E bytes \in Pieces :
       /\ dynamic_array_push_back(Len(bytes))
       /\ pushed' = IF length' = length THEN pushed ELSE pushed \o bytes
       /\ IF length' # length /\ ~crashed' /\ (first_chunk => FirstLine.ok)
          THEN /\ first_chunk' = FALSE
               /\ peer' = [ peer EXCEPT !.taken = @ + Len(bytes) ]
               /\ UNCHANGED << running, before >>
               /\ IF first_chunk
                  THEN /\ scan' = FirstLine
                       /\ scanner' = [ FirstLine.input EXCEPT !.len = @ + Len(CRLF) ]
                  ELSE UNCHANGED << scanner, scan >>
          ELSE returns_error

Reader == ReceiveChunk \/ ReceiveEnd \/ PollTimesOut

RequestNext ==
  \/ OwnerPushes \/ OwnerFrees \/ OwnerScans \/ http_request_poll_and_read
  \/ Reader \/ PollOrRecvFails

\* The thread goes on: poll returns when there is input or its time is over.
RequestSpec == RequestInit /\ [][RequestNext]_allVars /\ WF_allVars(Reader)

-----------------------------------------------------------------------------
\* While a request is read the array holds what it held at the call, then what
\* the peer sent, in order and without gaps, however recv cut it in pieces and
\* however often the block moved.  It goes on only after a first line: the bytes up
\* to the first CR LF of what was there and the first chunk.  And whatever an owner
\* scans for, a piece cut off and the rest of the input are the input it was cut from.
RequestInOrder ==
  /\ running /\ ~failed => /\ peer.taken <= Len(peer.sent)
                           /\ Data = before \o SubSeq(peer.sent, 1, peer.taken)
  /\ scan.ok /\ ~failed =>
       /\ scan.out.ptr + scan.out.len <= Len(Data)
       /\ LET line == Text(Data, scan.out)
          IN  IF running
              THEN /\ Len(line) + 2 <= Len(Data)
                   /\ SubSeq(Data, 1, Len(line) + 2) = line \o CRLF
                   /\ Places(line, str_slice_from_buffer(line), CRLF) = {}
              ELSE line \o Text(Data, scan.input) =
                     SubSeq(Data, scan.out.ptr + 1, Len(Data))

\* Reading comes to an end, also when the peer stays silent or closes at once.
\* (A peer that sends for ever is not among the Streams: nothing bounds the whole.)
ReaderEnds == running ~> (~running \/ crashed)
=============================================================================
