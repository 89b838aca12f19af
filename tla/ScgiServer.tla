----------------------------- MODULE ScgiServer -----------------------------
(***************************************************************************)
(* The SCGI backend: the accept loop of main and connection_handle, with   *)
(* the clients on the other side of the connections.  All reads block and  *)
(* have no timeout.  Bytes are digits, "colon", "comma", "nul" and "x".    *)
(* The headers and the comma after them are parsed by ScgiParser; what it  *)
(* returns is only logged.                                                 *)
(***************************************************************************)
EXTENDS Integers, Sequences, FiniteSetsExt, ScgiParser

CONSTANTS Client,
          Scripts,                 \* what the clients want to send, by client
          SCGI_HEADERS_MAX_SIZE,
          max_digits,
          server_tcp_backlog

ASSUME ScgiServerAssumption ==
  /\ SCGI_HEADERS_MAX_SIZE \in Nat \ {0}
  /\ max_digits \in Nat /\ server_tcp_backlog \in Nat \ {0}
  /\ Scripts \subseteq [ Client -> Seq(STRING) ]

VARIABLES phase, current, digits, headers_size,
          backlog,                  \* connections established and not accepted
          unsent, wire, left, closed,
          accepted,                 \* the clients whose connection was accepted
          read, answered            \* what the server read and whether it answered

serverVars == << phase, current, digits, headers_size >>
clientVars == << unsent, wire, left, closed >>
history == << accepted, read, answered >>
vars == << serverVars, parserVars, backlog, clientVars, history >>

\* The digits, in the order of their values.
Digits == << "0", "1", "2", "3", "4" >>
Digit == { Digits[i] : i \in 1 .. Len(Digits) }
DigitValue(d) == (CHOOSE i \in 1 .. Len(Digits) : Digits[i] = d) - 1

\* cstr_parse_size_t: no digits are the number 0; nine digits cannot overflow.
cstr_parse_size_t(ds) ==
  LET value[i \in 0 .. Len(ds)] ==
        IF i = 0 THEN 0 ELSE 10 * value[i - 1] + DigitValue(ds[i])
  IN  value[Len(ds)]

\* The socket is created, bound and listening (tcp_socket_create); otherwise main
\* returns at once.
Init ==
  /\ phase = "accept"
  /\ current = {}
  /\ digits = << >>
  /\ headers_size = 0
  /\ backlog = << >>
  /\ unsent \in Scripts
  /\ ParserZero
  /\ wire = [ c \in Client |-> << >> ]
  /\ left = [ c \in Client |-> FALSE ]
  /\ closed = [ c \in Client |-> FALSE ]
  /\ accepted = {}
  /\ read = [ c \in Client |-> << >> ]
  /\ answered = [ c \in Client |-> FALSE ]

Conn == CHOOSE c \in current : TRUE
Queued(c) == \E i \in 1 .. Len(backlog) : backlog[i] = c
Connected(c) == Queued(c) \/ c \in current

-----------------------------------------------------------------------------
(* The clients and the network.                                            *)

Connect(c) ==
  /\ Len(backlog) < server_tcp_backlog
  /\ ~Connected(c) /\ ~closed[c] /\ ~left[c]
  /\ backlog' = Append(backlog, c)
  /\ UNCHANGED << serverVars, parserVars, clientVars, history >>

\* A piece of what is left to send arrives.
Deliver(c) ==
  /\ Connected(c) /\ ~left[c]
  /\ \E n \in 1 .. Len(unsent[c]) :
       /\ wire' = [ wire EXCEPT ![c] = @ \o SubSeq(unsent[c], 1, n) ]
       /\ unsent' = [ unsent EXCEPT ![c] = SubSeq(@, n + 1, Len(@)) ]
  /\ UNCHANGED << serverVars, parserVars, backlog, left, closed, history >>

Leave(c) ==
  /\ Connected(c) /\ ~left[c]
  /\ left' = [ left EXCEPT ![c] = TRUE ]
  /\ UNCHANGED << serverVars, parserVars, backlog, unsent, wire, closed, history >>

-----------------------------------------------------------------------------
(* The server.  A failing accept is tried again and changes nothing.       *)

\* The context with its buffer, and the parser, are new for every connection.
accept ==
  /\ phase = "accept"
  /\ backlog # << >>
  /\ current' = {Head(backlog)}
  /\ backlog' = Tail(backlog)
  /\ digits' = << >>
  /\ headers_size' = 0
  /\ phase' = "digits"
  /\ accepted' = accepted \cup current'
  /\ scgi_parser_init(<< >>)
  /\ UNCHANGED << clientVars, read, answered >>

\* The server takes the first n bytes that arrived.
Takes(n) ==
  /\ wire' = [ wire EXCEPT ![Conn] = SubSeq(@, n + 1, Len(@)) ]
  /\ read' = [ read EXCEPT ![Conn] = @ \o SubSeq(wire[Conn], 1, n) ]

AtEnd == wire[Conn] = << >> /\ left[Conn]

\* Mutated form of recv_fails: the loop over the digits does not notice the end.
recv_fails_only ==
  /\ phase \in {"headers", "comma"}
  /\ left[Conn]
  /\ phase' = "close"
  /\ UNCHANGED << current, digits, headers_size, parserVars, backlog, clientVars, history >>

\* Mutated form of recv_fails: the early return forgets the connection.
recv_fails_leaking ==
  /\ phase \in {"digits", "headers", "comma"}
  /\ left[Conn]
  /\ phase' = "accept" /\ current' = {}
  /\ UNCHANGED << digits, headers_size, parserVars, backlog, clientVars, history >>

\* A client that is gone: recv fails because the connection was reset, or returns
\* 0 at the end of the stream in the loop over the digits.
recv_fails ==
  /\ phase \in {"digits", "headers", "comma"}
  /\ left[Conn]
  /\ phase' = "close"
  /\ UNCHANGED << current, digits, headers_size, parserVars, backlog, clientVars, history >>

\* The loop over the digits, one recv_char, and after the colon the size.
read_digit ==
  /\ phase = "digits"
  /\ wire[Conn] # << >>
  /\ Takes(1)
  /\ LET c == Head(wire[Conn])
     IN  \/ /\ c \in Digit /\ Len(digits) < max_digits
            /\ digits' = Append(digits, c)
            /\ UNCHANGED << phase, headers_size >>
         \/ /\ c = "colon"
            /\ headers_size' = cstr_parse_size_t(digits)
            /\ phase' = IF headers_size' >= SCGI_HEADERS_MAX_SIZE THEN "close" ELSE "headers"
            /\ UNCHANGED digits
         \/ /\ c \notin Digit \cup {"colon"} \/ (c \in Digit /\ Len(digits) >= max_digits)
            /\ phase' = "close"
            /\ UNCHANGED << digits, headers_size >>
  /\ UNCHANGED << current, parserVars, backlog, unsent, left, closed, accepted, answered >>

\* The bytes recv stored in the request buffer.
StoresHeaders(n) ==
  /\ Takes(n)
  /\ input' = SubSeq(wire[Conn], 1, n)
  /\ UNCHANGED << state, cursor_start, cursor_end, fields, body, rc >>

\* Mutated form of read_headers: what has arrived is taken for the headers.
read_headers_partial ==
  /\ phase = "headers"
  /\ wire[Conn] # << >>
  /\ StoresHeaders(Min({headers_size, Len(wire[Conn])}))
  /\ phase' = "comma"
  /\ UNCHANGED << current, digits, headers_size, backlog, unsent, left, closed,
                  accepted, answered >>

\* recv with MSG_WAITALL: all of the headers, or fewer at the end of the stream.
read_headers ==
  /\ phase = "headers"
  /\ \/ /\ Len(wire[Conn]) >= headers_size
        /\ StoresHeaders(headers_size)
        /\ phase' = "comma"
     \/ /\ Len(wire[Conn]) < headers_size /\ left[Conn]
        /\ StoresHeaders(Len(wire[Conn]))
        /\ phase' = "close"
  /\ UNCHANGED << current, digits, headers_size, backlog, unsent, left, closed,
                  accepted, answered >>

\* The comma goes into the buffer behind the headers, and the parser is set up.
AcceptsByte(dummy) ==
  \/ /\ dummy = "comma" /\ phase' = "parse"
     /\ scgi_parser_init(Append(input, dummy))
  \/ /\ dummy # "comma" /\ phase' = "close"
     /\ UNCHANGED parserVars

\* The byte after the headers.  At the end of the stream recv returns 0, which is
\* no error, and `dummy` is compared without having been written: it may happen
\* to be a comma.
read_comma ==
  /\ phase = "comma"
  /\ \/ wire[Conn] # << >> /\ Takes(1) /\ AcceptsByte(Head(wire[Conn]))
     \/ /\ AtEnd /\ UNCHANGED << wire, read >>
        /\ \E dummy \in {"comma", "x"} : AcceptsByte(dummy)
  /\ UNCHANGED << current, digits, headers_size, backlog, unsent, left, closed,
                  accepted, answered >>

\* A step of the parser; after the last one its result is logged and dropped.
parse ==
  /\ phase = "parse"
  /\ scgi_parser_parse
  /\ phase' = IF rc' = -1 THEN "parse" ELSE "answer"
  /\ UNCHANGED << current, digits, headers_size, backlog, clientVars, history >>

\* send may fail when the client is gone.  It is not told to spare the process
\* the signal SIGPIPE, which nothing handles: a connection that was closed and
\* then reset ends the server.
scgi_send_text ==
  /\ phase = "answer"
  /\ \/ answered' = [ answered EXCEPT ![Conn] = TRUE ] /\ phase' = "close"
     \/ left[Conn] /\ phase' \in {"close", "killed"} /\ UNCHANGED answered
  /\ UNCHANGED << current, digits, headers_size, parserVars, backlog, clientVars,
                  accepted, read >>

close ==
  /\ phase = "close"
  /\ closed' = [ closed EXCEPT ![Conn] = TRUE ]
  /\ current' = {}
  /\ phase' = "accept"
  /\ UNCHANGED << digits, headers_size, parserVars, backlog, unsent, wire, left,
                  history >>

Server ==
  \/ accept \/ recv_fails \/ read_digit \/ read_headers \/ read_comma
  \/ parse \/ scgi_send_text \/ close

Next == Server \/ \E c \in Client : Connect(c) \/ Deliver(c) \/ Leave(c)

\* Fairness: the server goes on whenever the call it is in can return.  Nothing is
\* assumed of the clients.
Spec == Init /\ [][Next]_vars /\ WF_vars(Server)

-----------------------------------------------------------------------------
\* Every return of connection_handle leads to the close of the connection, once, also
\* the one before a byte was read (main.c:82).  A connection that was accepted is
\* closed or the one being handled, no other is, and while main waits for the next one
\* all of them are closed.
EveryPathCloses ==
  /\ \A c \in Client : closed[c] \/ c \in current <=> c \in accepted
  /\ \A c \in current : ~closed[c]
  /\ phase = "accept" => \A c \in accepted : closed[c]

\* The position of the first colon the server read from a client.
Colon(c) == Min({ i \in 1 .. Len(read[c]) : read[c][i] = "colon" })

\* An answer means that the client sent a size and as many bytes as it says, and
\* the server read at most one byte more, so that a body would still be there.
AnswersOnlyFullHeaders ==
  \A c \in Client : answered[c] =>
    /\ \E i \in 1 .. Len(read[c]) : read[c][i] = "colon"
    /\ LET size == cstr_parse_size_t(SubSeq(read[c], 1, Colon(c) - 1))
       IN  Len(read[c]) - Colon(c) - size \in {0, 1}

\* The server is held up by a client that neither sends nor leaves, or ended by
\* one that resets its connection, and by nothing else, whatever the parser is
\* given: if the clients do neither, every connection is closed.
OnlySilentClientsBlock ==
  /\ [](phase # "killed")
  /\ \A c \in Client : Connected(c) ~> (left[c] \/ closed[c])
  => \A c \in Client : Queued(c) ~> closed[c]
=============================================================================
