---------------------------- MODULE MCScgiServer ----------------------------
(***************************************************************************)
(* Instance of ScgiServer.  Two clients send every pair of: a request, one *)
(* with a body, one that is too short, one without a size, one with too    *)
(* many digits, one that is too large, one with no comma and one that is no*)
(* netstring.  One client that has the server to itself sends every        *)
(* sequence of headers of up to four bytes.                                *)
(***************************************************************************)
EXTENDS ScgiServer

Requests == { << "2", "colon", "x", "x", "comma" >>,
              << "1", "colon", "x", "comma", "x" >>,
              << "2", "colon", "x" >>,
              << "colon", "comma" >>,
              << "0", "0", "1", "colon" >>,
              << "1", "0", "colon", "x" >>,
              << "1", "colon", "x", "x" >>,
              << "x" >> }

Headers == UNION { [1 .. n -> {"nul", "comma", "x"}] : n \in 0 .. 4 }

Netstring(headers) ==
  << Digits[Len(headers) + 1], "colon" >> \o headers \o << "comma" >>

First == CHOOSE c \in Client : TRUE

MCScripts ==
  [ Client -> Requests ]
    \cup { [ c \in Client |-> IF c = First THEN Netstring(h) ELSE << >> ] :
             h \in Headers }
=============================================================================
