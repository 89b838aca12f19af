----------------------------- MODULE ScgiParser -----------------------------
(***************************************************************************)
(* scgi.c: scgi_parser_parse, one byte per step, over the request buffer of*)
(* ScgiServer.  Bytes are "nul", "comma" and any other; FIELD_SIZE is the  *)
(* size of the local arrays a name, a value or the body is copied to (256  *)
(* in the code).                                                           *)
(***************************************************************************)
EXTENDS Integers, Sequences, FiniteSetsExt

CONSTANT FIELD_SIZE

ASSUME ScgiParserAssumption == FIELD_SIZE \in Nat \ {0}

VARIABLES input, state,               \* the request buffer, and the parser
          cursor_start, cursor_end,   \* as numbers of bytes from the buffer's start
          fields, body,               \* the names and values copied, and the
                                      \* body, as intervals of the input
          rc                          \* the result, -1 while parsing

parserVars == << input, state, cursor_start, cursor_end, fields, body, rc >>

\* No buffer yet, and a parser of which every member is zero.
ParserZero ==
  /\ input = << >>
  /\ state = "HEADER_NAME"
  /\ cursor_start = 0 /\ cursor_end = 0
  /\ fields = << >> /\ body = << >>
  /\ rc = -1

\* The parser is pointed at a buffer, which is never empty.
scgi_parser_init(buffer) ==
  /\ input' = buffer
  /\ state' = "HEADER_NAME"
  /\ cursor_start' = 0 /\ cursor_end' = 0
  /\ fields' = << >> /\ body' = << >>
  /\ rc' = -1

scgi_parser_eof == cursor_end >= Len(input)
scgi_parser_cursor_size == cursor_end - cursor_start
Byte == input[cursor_end + 1]
Parsing == rc = -1 /\ ~scgi_parser_eof

Advance ==
  /\ cursor_end' = cursor_end + 1
  /\ UNCHANGED << input, state, cursor_start, fields, body, rc >>

\* Mutated form of EndField: the length is not compared with the array's.
EndField_unchecked(next) ==
  /\ fields' = Append(fields, << cursor_start, cursor_end >>)
  /\ state' = next
  /\ cursor_end' = cursor_end + 1
  /\ cursor_start' = cursor_end + 1
  /\ UNCHANGED << input, body, rc >>

\* Mutated form of EndField: the terminator stays in front of the next field.
EndField_unskipped(next) ==
  \/ /\ scgi_parser_cursor_size >= FIELD_SIZE - 1
     /\ rc' = 1
     /\ UNCHANGED << input, state, cursor_start, cursor_end, fields, body >>
  \/ /\ scgi_parser_cursor_size < FIELD_SIZE - 1
     /\ fields' = Append(fields, << cursor_start, cursor_end >>)
     /\ state' = next
     /\ cursor_end' = cursor_end + 1
     /\ cursor_start' = cursor_end
     /\ UNCHANGED << input, body, rc >>

\* A terminator: the field is copied, unless it is too long.
EndField(next) ==
  \/ /\ scgi_parser_cursor_size >= FIELD_SIZE - 1
     /\ rc' = 1
     /\ UNCHANGED << input, state, cursor_start, cursor_end, fields, body >>
  \/ /\ scgi_parser_cursor_size < FIELD_SIZE - 1
     /\ fields' = Append(fields, << cursor_start, cursor_end >>)
     /\ state' = next
     /\ cursor_end' = cursor_end + 1
     /\ cursor_start' = cursor_end + 1
     /\ UNCHANGED << input, body, rc >>

ParseName ==
  /\ Parsing /\ state = "HEADER_NAME"
  /\ \/ /\ Byte = "comma"
        /\ state' = "BODY"
        /\ cursor_end' = cursor_end + 1
        /\ cursor_start' = cursor_end + 1
        /\ UNCHANGED << input, fields, body, rc >>
     \/ Byte \notin {"comma", "nul"} /\ Advance
     \/ Byte = "nul" /\ EndField("HEADER_VALUE")

ParseValue ==
  /\ Parsing /\ state = "HEADER_VALUE"
  /\ \/ Byte # "nul" /\ Advance
     \/ Byte = "nul" /\ EndField("HEADER_NAME")

ParseBody ==
  /\ Parsing /\ state = "BODY"
  /\ Advance

\* After the loop: the body is copied, unless it is too long; in any other state
\* the input ended too early.
ParseEnd ==
  /\ rc = -1 /\ scgi_parser_eof
  /\ \/ /\ state = "BODY" /\ scgi_parser_cursor_size < FIELD_SIZE - 1
        /\ body' = << cursor_start, cursor_end >>
        /\ state' = "DONE"
        /\ cursor_start' = cursor_end
        /\ rc' = 0
     \/ /\ state # "BODY" \/ scgi_parser_cursor_size >= FIELD_SIZE - 1
        /\ rc' = 1
        /\ UNCHANGED << state, cursor_start, body >>
  /\ UNCHANGED << input, cursor_end, fields >>

scgi_parser_parse == ParseName \/ ParseValue \/ ParseBody \/ ParseEnd

-----------------------------------------------------------------------------
Short(from, to) == to - from < FIELD_SIZE - 1

\* Everything copied fits its local array with a terminator.  The names and values
\* are all that lies between the terminators of the request, none left out, and
\* the body is the rest of the input after a comma.
FieldsInBounds ==
  /\ \A k \in 1 .. Len(fields) :
       LET from == fields[k][1]
           to   == fields[k][2]
       IN  /\ Short(from, to)
           /\ from = IF k = 1 THEN 0 ELSE fields[k - 1][2] + 1
           /\ input[to + 1] = "nul"
           /\ \A i \in from + 1 .. to : input[i] # "nul"
  /\ rc = 0 => /\ Short(body[1], body[2]) /\ body[2] = Len(input)
               /\ input[body[1]] = "comma"

-----------------------------------------------------------------------------
Nuls(i) == { j \in 1 .. i - 1 : input[j] = "nul" }

\* The commas that stand where a name may: an even number of terminators before.
NameCommas ==
  { i \in 1 .. Len(input) : input[i] = "comma" /\ Cardinality(Nuls(i)) % 2 = 0 }

\* The headers end at the first such comma, the fields before it and the body
\* after it are short enough.
IsRequest ==
  /\ NameCommas # {}
  /\ LET comma == Min(NameCommas)
         ends  == Nuls(comma)
     IN  /\ \A e \in ends :
              Short(Max({0} \cup { j \in ends : j < e }), e - 1)
         /\ Short(comma, Len(input))

\* The byte by byte parser accepts exactly the requests, seen as a whole.
ParsesExactly == rc # -1 => (rc = 0 <=> IsRequest)
=============================================================================
