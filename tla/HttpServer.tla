----------------------------- MODULE HttpServer -----------------------------
(***************************************************************************)
(* The http server: main with its configuration, http_server_init, the loop*)
(* and recv_or_timeout, and the clients that connect, send their bytes in  *)
(* pieces and leave when they like.  The server handles one connection at  *)
(* a time, reads it once and looks for the end of the headers in what it   *)
(* read, byte by byte (http_headers_validate of http.c).                   *)
(***************************************************************************)
EXTENDS HttpConfig, FiniteSetsExt

\* "text" is any printable byte, "control" any control character but CR and LF.
Bytes == {"CR", "LF", "text", "control"}

CONSTANTS Client,
          Scripts,             \* what the clients want to send, by client
          UNSAFE_BUFFER_SIZE   \* 4096 in main

ASSUME ServerAssumption ==
  /\ UNSAFE_BUFFER_SIZE \in Nat /\ UNSAFE_BUFFER_SIZE > 3
  /\ Scripts \subseteq [Client -> Seq(Bytes)]

VARIABLES phase,      \* where main is
          listening,  \* whether the server's socket accepts connections
          current,    \* the connection being handled, {} or one client
          buffer,     \* unsafe_buffer up to bytes_read
          i, state,   \* of http_headers_validate: the index of the next byte, and
                      \* how much of CR LF CR LF the bytes before it are
          headers,    \* what http_headers_validate returned
          backlog,    \* connections established and not accepted
          unsent, wire, left, closed,   \* per client: bytes to send, bytes that
                                        \* arrived, whether it closed its side,
                                        \* whether the server closed the connection
          accepted,                     \* the clients whose connection was accepted
          read, answer                  \* what the server read of them, and what
                                        \* became of the response: "none" tried, or
                                        \* "nothing", a "part" or "all" of it sent

validateVars == << i, state, headers >>
serverVars == << phase, listening, current, buffer, validateVars >>
clientVars == << unsent, wire, left, closed >>
history == << accepted, read, answer >>
vars == << configVars, serverVars, backlog, clientVars, history >>

\* The outcome of http_headers_validate: whether the headers are valid and, if so,
\* the offset that main takes for their length.
Refused == [ ok |-> FALSE, offset |-> 0 ]
Valid(offset) == [ ok |-> TRUE, offset |-> offset ]

Init ==
  /\ ConfigInit
  /\ phase = "config"
  /\ listening = FALSE
  /\ current = {}
  /\ buffer = << >>
  /\ i = 0
  /\ state = 0
  /\ headers = Refused
  /\ backlog = << >>
  /\ unsent \in Scripts
  /\ wire = [ c \in Client |-> << >> ]
  /\ left = [ c \in Client |-> FALSE ]
  /\ closed = [ c \in Client |-> FALSE ]
  /\ accepted = {}
  /\ read = [ c \in Client |-> << >> ]
  /\ answer = [ c \in Client |-> "none" ]

Conn == CHOOSE c \in current : TRUE
Queued(c) == \E n \in 1 .. Len(backlog) : backlog[n] = c
Connected(c) == Queued(c) \/ c \in current

-----------------------------------------------------------------------------
(* The clients and the network.                                            *)

\* The kernel's queue is full once it is longer than the backlog.
Connect(c) ==
  /\ listening
  /\ Len(backlog) <= config["tcp_backlog"]
  /\ ~Connected(c) /\ ~closed[c] /\ ~left[c]
  /\ backlog' = Append(backlog, c)
  /\ UNCHANGED << configVars, serverVars, clientVars, history >>

\* A piece of what is left to send arrives.
Deliver(c) ==
  /\ Connected(c) /\ ~left[c]
  /\ \E n \in 1 .. Len(unsent[c]) :
       /\ wire' = [ wire EXCEPT ![c] = @ \o SubSeq(unsent[c], 1, n) ]
       /\ unsent' = [ unsent EXCEPT ![c] = SubSeq(@, n + 1, Len(@)) ]
  /\ UNCHANGED << configVars, serverVars, backlog, left, closed, history >>

\* The client closes or resets the connection, or the network gives it up.
Leave(c) ==
  /\ Connected(c) /\ ~left[c]
  /\ left' = [ left EXCEPT ![c] = TRUE ]
  /\ UNCHANGED << configVars, serverVars, backlog, unsent, wire, closed, history >>

-----------------------------------------------------------------------------
(* The server.                                                             *)

\* config_init_from_env, one variable at a time; a bad one ends main in the end.
config_init_from_env ==
  /\ phase = "config"
  /\ InitVariable
  /\ phase' = CASE ~Done' -> "config"
                [] Done' /\ failed' -> "stopped"
                [] OTHER -> "init"
  /\ UNCHANGED << listening, current, buffer, validateVars, backlog, clientVars, history >>

\* http_server_init: socket, setsockopt, bind and listen; one may fail.
http_server_init ==
  /\ phase = "init"
  /\ \/ phase' = "accept" /\ listening' = TRUE
     \/ phase' = "stopped" /\ UNCHANGED listening
  /\ UNCHANGED << configVars, current, buffer, validateVars, backlog, clientVars, history >>

Accept ==
  /\ phase = "accept"
  /\ backlog # << >>
  /\ current' = {Head(backlog)}
  /\ backlog' = Tail(backlog)
  /\ buffer' = << >>
  /\ headers' = Refused
  /\ accepted' = accepted \cup current'
  /\ phase' = "recv"
  /\ UNCHANGED << configVars, listening, i, state, clientVars, read, answer >>

\* accept fails: goto err, http_server_free.
AcceptFails ==
  /\ phase = "accept"
  /\ phase' = "stopped"
  /\ listening' = FALSE
  /\ UNCHANGED << configVars, current, buffer, validateVars, backlog, clientVars, history >>

Readable(c) == wire[c] # << >> \/ left[c]

\* Mutated form of Receive: the end of the stream goes on to the validation.
Receive_empty ==
  /\ phase = "recv"
  /\ Readable(Conn)
  /\ LET n == Min({Len(wire[Conn]), UNSAFE_BUFFER_SIZE - 2})
     IN  /\ buffer' = SubSeq(wire[Conn], 1, n)
         /\ wire' = [ wire EXCEPT ![Conn] = SubSeq(@, n + 1, Len(@)) ]
         /\ read' = [ read EXCEPT ![Conn] = @ \o SubSeq(wire[Conn], 1, n) ]
         /\ phase' = "validate"
  /\ UNCHANGED << configVars, listening, current, validateVars, backlog, unsent, left, closed, accepted, answer >>

\* recv_or_timeout: poll returned because of data or the end of the stream; the
\* whole of what is there is read, up to buffer_size - 1 with buffer_size =
\* unsafe_buffer_max_size.  Nothing read, or an error of recv, ends the request.
Receive ==
  /\ phase = "recv"
  /\ Readable(Conn)
  /\ LET n == Min({Len(wire[Conn]), UNSAFE_BUFFER_SIZE - 2})
     IN  \/ /\ n > 0
            /\ buffer' = SubSeq(wire[Conn], 1, n)
            /\ wire' = [ wire EXCEPT ![Conn] = SubSeq(@, n + 1, Len(@)) ]
            /\ read' = [ read EXCEPT ![Conn] = @ \o SubSeq(wire[Conn], 1, n) ]
            /\ phase' = "validate"
         \/ phase' = "close" /\ UNCHANGED << buffer, wire, read >>
  /\ UNCHANGED << configVars, listening, current, validateVars, backlog, unsent, left, closed, accepted, answer >>

\* Mutated form of PollTimesOut: the next connection is accepted at once.
PollTimesOut_leaking ==
  /\ phase = "recv"
  /\ ToInt(config["read_timeout_ms"]) >= 0
  /\ phase' = "accept" /\ current' = {}
  /\ UNCHANGED << configVars, listening, buffer, validateVars, backlog, clientVars, history >>

\* recv_or_timeout: the timeout, after which bytes_read is 0.  poll waits for ever
\* when the timeout is negative as an int.
PollTimesOut ==
  /\ phase = "recv"
  /\ ToInt(config["read_timeout_ms"]) >= 0
  /\ phase' = "close"
  /\ UNCHANGED << configVars, listening, current, buffer, validateVars, backlog, clientVars, history >>

\* recv_or_timeout: poll returns an error.
PollFails ==
  /\ phase = "recv"
  /\ phase' = "close"
  /\ UNCHANGED << configVars, listening, current, buffer, validateVars, backlog, clientVars, history >>

\* recv_or_timeout: the connection is broken and poll reports that and no data; the
\* assertion about POLLIN fails.
PollReportsError ==
  /\ phase = "recv"
  /\ left[Conn] /\ wire[Conn] = << >>
  /\ phase' = "poll_aborted"
  /\ UNCHANGED << configVars, listening, current, buffer, validateVars, backlog, clientVars, history >>

\* The assertions of main and of http_headers_validate about the size.
SizeAsserted == Len(buffer) \in 2 .. UNSAFE_BUFFER_SIZE - 1

\* The assertion fails.
AbortOnSize ==
  /\ phase = "validate" /\ ~SizeAsserted
  /\ phase' = "aborted"
  /\ UNCHANGED << configVars, listening, current, buffer, validateVars, backlog, clientVars, history >>

http_headers_is_valid_byte(byte) == byte # "control"

\* Mutated form of Follow: a second CR in a row starts the count again.
Follow_strict(byte) ==
  IF byte = << "CR", "LF", "CR", "LF" >>[state + 1] THEN state + 1 ELSE 0

\* The state after a byte, 4 when the end of the headers is found.  A CR in
\* state 3 leads to 0: it is not taken for a new first CR.
Follow(byte) ==
  CASE state \in {0, 1} /\ byte = "CR" -> 1
    [] state = 1 /\ byte = "LF" -> 2
    [] state = 2 /\ byte = "CR" -> 3
    [] state = 3 /\ byte = "LF" -> 4
    [] OTHER -> 0

\* Mutated form of Refuse: bad headers do not end the request.
Refuse_continuing ==
  phase' = "send" /\ headers' = Refused /\ i' = 0 /\ state' = 0 /\ UNCHANGED current

\* http_headers_validate returns an error: goto end_of_request.
Refuse ==
  phase' = "close" /\ headers' = Refused /\ i' = 0 /\ state' = 0 /\ UNCHANGED current

\* The body of the loop: a bad byte, the last byte of the headers or any other.
ValidateByte ==
  /\ i < Len(buffer)
  /\ LET byte == buffer[i + 1]
     IN  \/ ~http_headers_is_valid_byte(byte) /\ Refuse
         \/ /\ http_headers_is_valid_byte(byte) /\ Follow(byte) = 4
            /\ phase' = "send" /\ headers' = Valid(i - 2) /\ i' = 0 /\ state' = 0
            /\ UNCHANGED current
         \/ /\ http_headers_is_valid_byte(byte) /\ Follow(byte) # 4
            /\ i' = i + 1 /\ state' = Follow(byte)
            /\ UNCHANGED << phase, current, headers >>

\* The loop, and its end without having found the end of the headers.
http_headers_validate ==
  /\ phase = "validate" /\ SizeAsserted
  /\ ValidateByte \/ (i = Len(buffer) /\ Refuse)
  /\ UNCHANGED << configVars, listening, buffer, backlog, clientVars, history >>

\* send with MSG_DONTWAIT may send all, a part or nothing; what is missing is
\* only logged.  To a client that has gone it may also raise SIGPIPE, which nothing
\* handles and which ends the process.
Send ==
  /\ phase = "send"
  /\ \/ /\ \E sent \in {"nothing", "part", "all"} : answer' = [ answer EXCEPT ![Conn] = sent ]
        /\ phase' = "close"
     \/ left[Conn] /\ phase' = "killed" /\ UNCHANGED answer
  /\ UNCHANGED << configVars, listening, current, buffer, validateVars, backlog, clientVars, accepted, read >>

\* end_of_request
Close ==
  /\ phase = "close"
  /\ closed' = [ closed EXCEPT ![Conn] = TRUE ]
  /\ current' = {}
  /\ phase' = "accept"
  /\ UNCHANGED << configVars, listening, buffer, validateVars, backlog, unsent, wire, left, history >>

Server ==
  \/ config_init_from_env \/ http_server_init \/ Accept \/ Receive \/ PollTimesOut
  \/ AbortOnSize \/ http_headers_validate \/ Send \/ Close

Failure == AcceptFails \/ PollFails \/ PollReportsError

Next == Server \/ Failure \/ \E c \in Client : Connect(c) \/ Deliver(c) \/ Leave(c)

\* Fairness: main never stops by itself while it can go on, and poll returns when
\* its timeout is over.  Failures need not happen, and nothing is assumed of the
\* clients.
Spec == Init /\ [][Next]_vars /\ WF_vars(Server)

-----------------------------------------------------------------------------
EndOfHeaders == << "CR", "LF", "CR", "LF" >>

EndsAt(bytes, n) == SubSeq(bytes, n - 3, n) = EndOfHeaders

\* The positions of the last byte of an end of headers with no bad byte up to it.
Ends(bytes) ==
  { n \in 4 .. Len(bytes) : EndsAt(bytes, n) /\ \A j \in 1 .. n : bytes[j] # "control" }

\* An end that follows directly on CR LF CR, whose last CR puts the state of
\* http_headers_validate back (http.c:71).
Overlooked(bytes, n) ==
  n >= 7 /\ SubSeq(bytes, n - 6, n - 4) = << "CR", "LF", "CR" >>

Down == phase \in {"stopped", "aborted", "poll_aborted", "killed"}

\* Every path of the loop closes the connection it accepted, once: also where poll
\* failed or timed out and where the client left without a byte (main.c:90-96).  A
\* connection that was accepted is closed or the one being handled, no other is, and
\* when main waits for the next one or ends, all of them are closed.
EveryPathCloses ==
  /\ \A c \in Client : closed[c] \/ c \in current <=> c \in accepted
  /\ \A c \in current : ~closed[c]
  /\ phase \in {"accept", "stopped"} => \A c \in accepted : closed[c]

\* The one response main has, 501, goes to the requests whose headers arrived in full
\* in the one read, without a bad byte, and to no other; and of these only one whose
\* end is overlooked is closed without it.
AnswersHeaders ==
  \A c \in Client :
    /\ answer[c] # "none" => Ends(read[c]) # {}
    /\ closed[c] /\ answer[c] = "none" => \A n \in Ends(read[c]) : Overlooked(read[c], n)

\* "Read all http headers with a single recv call... it's not enough (aka \r\n\r\n not
\* found) then we respond BadRequest to it" (main.c:75): a request of which something
\* was read that holds no CR LF CR LF is not closed without a response.
AnswersBadRequest ==
  \A c \in Client :
    closed[c] /\ read[c] # << >> /\ (\A n \in 4 .. Len(read[c]) : ~EndsAt(read[c], n))
      => answer[c] # "none"

\* One pass decides as a search for CR LF CR LF would, with one exception: headers
\* without a bad byte that end so are refused only when every such end is overlooked.
EndOfHeadersFound ==
  phase \in {"send", "close"} /\ buffer # << >> =>
    /\ headers.ok => headers.offset + 3 \in Ends(buffer)
    /\ ~headers.ok => \A n \in Ends(buffer) : Overlooked(buffer, n)

\* Nobody waits for ever: a connection in the backlog is closed sooner or later,
\* also behind a client that stays silent, or the server is down.  It takes a
\* configuration whose read timeout poll takes for one (config.c:152).
EveryConnectionEnds == \A c \in Client : Queued(c) ~> (closed[c] \/ Down)

\* What can keep the server from running or end it, but for a failing system call.
\* A variable out of its range always does, wherever in the order of the five it
\* stands (config.c:40), and nothing else does but a word, if the library tells of it.
\* Two assertions depend on the client: its first piece is a single byte (http.c:25),
\* or its connection breaks before anything was read of it (io.c:33).  And one that is
\* gone when its complete headers are answered ends the process (main.c:148).  No other
\* client, slow, silent or sending too much, takes the server from the others.
DownOnlyForCause ==
  /\ Done /\ (\E k \in Key : OutOfRange(k)) => failed
  /\ failed => \E k \in Key : OutOfRange(k) \/ env[k] = Word
  /\ listening => Done /\ ~failed
  /\ phase = "aborted" => Len(read[Conn]) = 1
  /\ phase = "poll_aborted" => read[Conn] = << >> /\ left[Conn]
  /\ phase = "killed" => left[Conn] /\ Ends(read[Conn]) # {}
=============================================================================
