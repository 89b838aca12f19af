------------------------------- MODULE MCAqls -------------------------------
(***************************************************************************)
(* Instance of the AQLS modules.  One of three callers uses the code:      *)
(*   "parser"  aqls_parser_parse, on every text of up to MaxChunks of the  *)
(*             chunks below: keywords of two letters, their beginnings,    *)
(*             longer words, literals, blanks and what no pattern matches; *)
(*   "user"    any mix of peeks and takes on every short text;             *)
(*   "queue"   any mix of appends and pops on the ring buffer alone, which *)
(*             the lexer never fills.                                      *)
(***************************************************************************)
EXTENDS AqlsLexerUse, AqlsParser, SequencesExt

CONSTANT MaxChunks

MCWrite == << "W", "R" >>
MCEnd   == << "E", "N" >>
Chunks == { MCWrite, << "W" >>, << "W", "R", "N" >>, MCEnd, << "E" >>,
            << "'", "E", "'" >>, << " " >>, << "?" >> }

ChunkTexts == { FlattenSeq(c) : c \in UNION { [1 .. n -> Chunks] : n \in 0 .. MaxChunks } }
MCInputs == ChunkTexts \cup ShortTexts
MCToken == TokensUpTo(3 * MaxChunks)

\* What the user of the bare queue puts into it: more tokens than it holds.
QueueTokens ==
  {Eof} \cup { TokenOf(kind, 0, 1) : kind \in {"STRING_LITERAL", "ID", "ERROR"} }

VARIABLE caller

mcVars == << vars, taken, caller >>

MCInit ==
  /\ Init
  /\ taken = << >>
  /\ \/ caller = "parser" /\ input \in ChunkTexts
     \/ caller = "user" /\ input \in ShortTexts
     \/ caller = "queue" /\ input = << >>

ParserRuns == caller = "parser" /\ Next /\ UNCHANGED << taken, caller >>

UserRuns == caller = "user" /\ UseNext /\ UNCHANGED << parserVars, caller >>

QueueRuns ==
  /\ caller = "queue"
  /\ \/ aqls_token_queue_pop
     \/ \E item \in QueueTokens : aqls_token_queue_append(item)
  /\ UNCHANGED << input, pos, parserVars, taken, caller >>

MCNext == ParserRuns \/ UserRuns \/ QueueRuns

\* Only the parser is a program of its own; it is sequential and does not block.
MCSpec == MCInit /\ [][MCNext]_mcVars /\ WF_mcVars(ParserRuns)

\* The loop of parse_statements ends on every text, also where the lexer returns
\* the same error token for ever.
EveryParseEnds == caller = "parser" => ParserEnds
=============================================================================
