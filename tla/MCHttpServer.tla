---------------------------- MODULE MCHttpServer ----------------------------
(***************************************************************************)
(* Instance of HttpServer.                                                 *)
(***************************************************************************)
EXTENDS HttpServer

\* A request, one with a bad byte, and two with a CR too many, in which the end is
\* found and missed; the last is longer than the buffer.
Ordinary == << "CR", "LF", "CR", "LF" >>
Requests == { Ordinary,
              << "control", "CR", "LF", "CR", "LF" >>,
              << "CR", "CR", "LF", "CR", "LF" >>,
              << "CR", "LF", "CR", "CR", "LF", "CR", "LF", "text" >> }

\* All but one of the clients send the ordinary request.
MCScripts ==
  { script \in [Client -> Requests] :
      \E c \in Client : \A d \in Client \ {c} : script[d] = Ordinary }

\* Every set of variables that are too large, a value beyond each limit in one
\* variable, negative ones that wrap to the largest number and that do not fit, and the
\* largest timeout together with a word for the backlog and a negative port that wraps
\* to a small one.
Only(key, value) == [ k \in Key |-> IF k = key THEN value ELSE Unset ]
MCEnvironments ==
  [Key -> {Unset, ULLONG_MAX + 1}]
    \cup { Only(key, UINT16_MAX + 1) : key \in {"port", "tcp_backlog"} }
    \cup { Only("read_timeout_ms", INT_MAX + 1) }
    \cup { Only(key, n) : key \in Key, n \in {-1, -ULLONG_MAX - 1} }
    \cup { [ Only("read_timeout_ms", INT_MAX)
               EXCEPT !["tcp_backlog"] = Word, !["port"] = 1 - ULLONG_MAX ] }
=============================================================================
