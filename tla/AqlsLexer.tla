----------------------------- MODULE AqlsLexer -----------------------------
(***************************************************************************)
(* lexer.c: the lexer of the AQLS parser.  The input is a sequence of      *)
(* characters; a token is its kind, where its lexeme begins and how long   *)
(* it is.  lexer->cursor always is input + pos and is not kept apart.      *)
(* aqls_lexer_peek_token scans ahead without moving and puts the token into*)
(* the lookahead queue; aqls_lexer_next_token takes it from there or scans *)
(* itself, with a second copy of the same code.                            *)
(***************************************************************************)
EXTENDS AqlsTokenQueue, FiniteSetsExt

CONSTANT Inputs     \* the texts the lexer may be given

VARIABLES input, pos   \* and queue, the lookahead

lexerVars == << input, pos, queue >>

input_len == Len(input)

(***************************************************************************)
(* The regular expressions, by the length of what they match at a position *)
(* (0: no match).  All are anchored; characters are one-letter strings.    *)
(***************************************************************************)
Blank   == {" ", "\t", "\r", "\n"}
Quote   == "'"
IdStart == {"W", "R", "E", "N", "#"}
IdRest  == IdStart \cup {"."}

\* The longest run of characters of C from position p on.
RunLength(p, C) ==
  Min({ k \in p + 1 .. input_len : input[k] \notin C } \cup {input_len + 1}) - (p + 1)

ignore(p) == RunLength(p, Blank)

string_literal(p) ==
  LET closing == { n \in 2 .. input_len - p : input[p + n] = Quote }
  IN  IF p < input_len /\ input[p + 1] = Quote /\ closing # {} THEN Min(closing) ELSE 0

id(p) ==
  IF p < input_len /\ input[p + 1] \in IdStart THEN 1 + RunLength(p + 1, IdRest) ELSE 0

\* aqls_token_eof: the lexeme is NULL, for which `at` is -1.
Eof == [ kind |-> "EOF", at |-> -1, len |-> 0 ]

TokenOf(kind, p, n) == [ kind |-> kind, at |-> p, len |-> n ]

\* The patterns tried in order at position p, where nothing is to be ignored.
Match(p) ==
  LET literal == string_literal(p)
      word    == id(p)
  IN  CASE literal > 0 -> TokenOf("STRING_LITERAL", p, literal)
        [] literal = 0 /\ word > 0 -> TokenOf("ID", p, word)
        [] OTHER -> TokenOf("ERROR", p, 0)

\* The token that follows position p.
Scan(p) ==
  LET q == p + ignore(p) IN IF q >= input_len THEN Eof ELSE Match(q)

\* Where the text goes on behind token t.
Behind(t) == IF t.at = -1 THEN input_len ELSE t.at + t.len

\* The tokens of texts of up to n characters.
TokensUpTo(n) ==
  { t \in [ kind : {"STRING_LITERAL", "ID", "ERROR"}, at : 0 .. n, len : 0 .. n ] :
      t.at + t.len <= n } \cup {Eof}

ASSUME LexerAssumption ==
  /\ \A text \in Inputs : text \in Seq(STRING)
  /\ \A n \in { Len(text) : text \in Inputs } : TokensUpTo(n) \subseteq Token

-----------------------------------------------------------------------------
aqls_lexer_init ==
  /\ input \in Inputs
  /\ pos = 0
  /\ aqls_token_queue_init

aqls_lexer_has_more_tokens == pos < input_len

\* What peek_token and next_token return.
Upcoming == IF aqls_token_queue_is_empty THEN Scan(pos) ELSE aqls_token_queue_peek

aqls_lexer_peek_token ==
  /\ \/ ~aqls_token_queue_is_empty /\ UNCHANGED queue
     \/ aqls_token_queue_is_empty /\ aqls_token_queue_append(Scan(pos))
  /\ UNCHANGED << input, pos >>

\* Mutated form of aqls_lexer_next_token: the characters ignored before a token
\* that was peeked are not skipped.
aqls_lexer_next_token_offset ==
  /\ \/ /\ ~aqls_token_queue_is_empty
        /\ aqls_token_queue_pop
        /\ pos' = pos + aqls_token_queue_peek.len
     \/ /\ aqls_token_queue_is_empty
        /\ pos' = pos + ignore(pos) + Scan(pos).len
        /\ UNCHANGED queue
  /\ UNCHANGED input

\* A token from the queue moves the position to its end (advance, advance_token),
\* unless it is the end of the input, whose lexeme is NULL.  An error token has
\* length 0.
aqls_lexer_next_token ==
  /\ \/ /\ ~aqls_token_queue_is_empty
        /\ aqls_token_queue_pop
        /\ pos' = IF aqls_token_queue_peek.at = -1 THEN pos
                  ELSE aqls_token_queue_peek.at + aqls_token_queue_peek.len
     \/ /\ aqls_token_queue_is_empty
        /\ pos' = pos + ignore(pos) + Scan(pos).len
        /\ UNCHANGED queue
  /\ UNCHANGED input

=============================================================================
