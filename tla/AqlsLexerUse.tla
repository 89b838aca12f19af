---------------------------- MODULE AqlsLexerUse ----------------------------
(***************************************************************************)
(* A lexer whose user peeks and takes tokens in any order.                 *)
(***************************************************************************)
EXTENDS AqlsLexer

CONSTANTS Characters, MaxLength,   \* bounds: which texts there are
          MaxTokens                \* bound: how many tokens are taken

ShortTexts == UNION { [1 .. n -> Characters] : n \in 0 .. MaxLength }

VARIABLE taken       \* what next_token has returned so far

useVars == << lexerVars, taken >>

UseInit == aqls_lexer_init /\ taken = << >>

Peek == aqls_lexer_peek_token /\ UNCHANGED taken

Take ==
  /\ Len(taken) < MaxTokens
  /\ aqls_lexer_next_token
  /\ taken' = Append(taken, Upcoming)

UseNext == Peek \/ Take

UseSpec == UseInit /\ [][UseNext]_useVars

\* Peeking changes nothing: however peeks and takes are mixed, next_token returns
\* the tokens of the text in order, each the first one behind the one before it,
\* none twice and none left out, and then the
\* end of the text, or the first error, again and again.  And the loop in it that
\* walks from the cursor to the lexeme of a peeked token (lexer.c:136) comes to an
\* end: a token that was peeked never lies behind the position.
PeekingChangesNothing ==
  /\ \A k \in 1 .. Len(taken) :
       taken[k] = Scan(IF k = 1 THEN 0 ELSE Behind(taken[k - 1]))
  /\ ~aqls_token_queue_is_empty =>
       aqls_token_queue_peek.at \in {-1} \cup pos .. input_len
=============================================================================
