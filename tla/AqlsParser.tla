----------------------------- MODULE AqlsParser -----------------------------
(***************************************************************************)
(* parser.c: the recursive descent parser of AQLS on top of its lexer.     *)
(* `phase` is the call the parser is about to make to the lexer; every     *)
(* step is one such call and what the parser does with the token.          *)
(***************************************************************************)
EXTENDS AqlsLexer

CONSTANTS WRITE, END   \* the keywords, as sequences of characters

\* They are told apart by their first character, which is all of a token that the
\* comparison in Spells looks at when the token is one character long.
ASSUME ParserAssumption ==
  /\ WRITE \in Seq(STRING) \ {<< >>} /\ END \in Seq(STRING) \ {<< >>}
  /\ WRITE[1] # END[1]

VARIABLES phase,
          keyword,     \* the WRITE token of the statement being parsed
          list,        \* the statements appended so far, from the first node on
          ast,         \* what aqls_parser_parse leaves in parser->ast
          unexpected   \* the token that made the parser give up

parserVars == << phase, keyword, list, ast, unexpected >>
vars == << lexerVars, parserVars >>

Lexeme(t) == SubSeq(input, t.at + 1, t.at + t.len)

\* string_view_cmp_sized_cstr = 0: equal as far as the shorter of the two goes.
Spells(t, word) ==
  t.kind = "ID" /\ \A k \in 1 .. Min({t.len, Len(word)}) : Lexeme(t)[k] = word[k]

Init ==
  /\ aqls_lexer_init
  /\ phase = "statement"
  /\ keyword = Eof
  /\ list = << >>
  /\ ast = << >>
  /\ unexpected = Eof

\* panic_unexpected_token: the program exits.
panic_unexpected_token(t) ==
  /\ phase' = "failed"
  /\ unexpected' = t
  /\ UNCHANGED << keyword, list, ast >>

\* Mutated form of parse_statement: the token it looks at is taken.
parse_statement_taking ==
  /\ phase = "statement"
  /\ aqls_lexer_next_token
  /\ phase' = IF Spells(Upcoming, WRITE) THEN "write" ELSE "end"
  /\ UNCHANGED << keyword, list, ast, unexpected >>

\* parse_statement: peek decides whether there is another statement.
parse_statement ==
  /\ phase = "statement"
  /\ aqls_lexer_peek_token
  /\ phase' = IF Spells(Upcoming, WRITE) THEN "write" ELSE "end"
  /\ UNCHANGED << keyword, list, ast, unexpected >>

\* parse_statement_write, its two calls of aqls_lexer_next_token.
parse_write_keyword ==
  /\ phase = "write"
  /\ aqls_lexer_next_token
  /\ keyword' = Upcoming
  /\ phase' = "operand"
  /\ UNCHANGED << list, ast, unexpected >>

\* Mutated form of aqls_ast_statements_append: the new node becomes the whole list.
aqls_ast_statements_unlinked(statements, statement) == << statement >>

\* The list from its first node to the one `last` points to.
aqls_ast_statements_append(statements, statement) == Append(statements, statement)

aqls_ast_compilation_unit_new(statements, end) ==
  [ statements |-> statements, end |-> end ]

parse_write_operand ==
  /\ phase = "operand"
  /\ aqls_lexer_next_token
  /\ \/ Upcoming.kind # "STRING_LITERAL" /\ panic_unexpected_token(Upcoming)
     \/ /\ Upcoming.kind = "STRING_LITERAL"
        /\ list' = aqls_ast_statements_append(list, << keyword, Upcoming >>)
        /\ phase' = "statement"
        /\ UNCHANGED << keyword, ast, unexpected >>

\* Mutated form of parse_end: what the lexer cannot match is passed over.
parse_end_lenient ==
  /\ phase = "end"
  /\ aqls_lexer_next_token
  /\ \/ Upcoming.kind \in {"EOF", "ID", "STRING_LITERAL"} /\ ~Spells(Upcoming, END)
        /\ panic_unexpected_token(Upcoming)
     \/ /\ Upcoming.kind = "ERROR"
        /\ phase' = "statement"
        /\ UNCHANGED << keyword, list, ast, unexpected >>
     \/ /\ Spells(Upcoming, END)
        /\ ast' = << aqls_ast_compilation_unit_new(<< >>, Upcoming) >>
        /\ phase' = "parsed"
        /\ UNCHANGED << keyword, list, unexpected >>

\* parse_end and what aqls_parser_parse does after it.  parse_statements returns
\* the list head it initialised to NULL and never assigned: the compilation unit
\* has no statements, whatever was appended.
parse_end ==
  /\ phase = "end"
  /\ aqls_lexer_next_token
  /\ \/ ~Spells(Upcoming, END) /\ panic_unexpected_token(Upcoming)
     \/ /\ Spells(Upcoming, END)
        /\ ast' = << aqls_ast_compilation_unit_new(<< >>, Upcoming) >>
        /\ phase' = "parsed"
        /\ UNCHANGED << keyword, list, unexpected >>

Next == parse_statement \/ parse_write_keyword \/ parse_write_operand \/ parse_end

\* Fairness: the parser is sequential code that does not block.
Spec == Init /\ [][Next]_vars /\ WF_vars(Next)

-----------------------------------------------------------------------------
\* The tokens of the text from position p on, up to the end or the first error:
\* what the calls of next_token should return, without any lookahead.
StreamFrom[p \in 0 .. input_len] ==
  LET t == Scan(p)
  IN  IF t.kind \in {"EOF", "ERROR"} THEN << t >>
      ELSE << t >> \o StreamFrom[t.at + t.len]

Stream == StreamFrom[0]

\* The grammar of the comments in parser.c (lines 30, 46, 57, 72, 87, 108): any number
\* of WRITE with a string literal, then END, then the end of the text.  A keyword is
\* the whole word.
IsWord(t, word) == t.kind = "ID" /\ Lexeme(t) = word

InGrammar(tokens) ==
  \E n \in 0 .. Len(tokens) :
    /\ Len(tokens) = 2 * n + 2
    /\ \A k \in 1 .. n : IsWord(tokens[2 * k - 1], WRITE)
                         /\ tokens[2 * k].kind = "STRING_LITERAL"
    /\ IsWord(tokens[2 * n + 1], END)
    /\ tokens[2 * n + 2].kind = "EOF"

\* No program of the grammar is turned down: the token by token decisions of
\* parse_statement, parse_statement_write and parse_end, one of them on a peeked
\* token that is taken later, never end in panic_unexpected_token on a text that is
\* a program as a whole.
AcceptsGrammar == phase = "failed" => ~InGrammar(Stream)

\* The other direction, "<Ast> := <CompilationUnit> EOF" (parser.c:30) and
\* "<End> := END" (parser.c:108): what aqls_parser_parse returns 0 for is a program.
AcceptsOnlyGrammar == phase = "parsed" => InGrammar(Stream)

\* The position behind the k-th node of the list.
BehindNode(k) == IF k = 0 THEN 0 ELSE Behind(list[k][2])

\* The nodes that were appended are the statements of the text, each once and in
\* its order, with nothing between them, and END is the token that follows them.
AppendsInOrder ==
  phase = "parsed" =>
    /\ \A k \in 1 .. Len(list) :
         /\ list[k][1] = Scan(BehindNode(k - 1)) /\ Spells(list[k][1], WRITE)
         /\ list[k][2] = Scan(Behind(list[k][1])) /\ list[k][2].kind = "STRING_LITERAL"
    /\ ast[1].end = Scan(BehindNode(Len(list))) /\ Spells(ast[1].end, END)

\* The loop of parse_statements ends on every text, also where the lexer returns
\* the same error token for ever.
ParserEnds == <>(phase \in {"parsed", "failed"})
=============================================================================
