---------------------------- MODULE Chip8Config ----------------------------
(***************************************************************************)
(* What the emulator is started with: the environment variables of         *)
(* config.c, the command line of main.c and the ROM file that              *)
(* file_read_contents opens.  The text of an environment variable is       *)
(*   << "unset" >>, << "word", w >> (its first character is no digit) or   *)
(*   << "number", n >>.                                                    *)
(* The limits are parameters so that small ones can be checked.            *)
(***************************************************************************)
EXTENDS Integers, Sequences, Chip8Memory

CONSTANTS UINT32_MAX, ULLONG_MAX

CONFIG_CPU_CLOCK_SPEED_HZ_DEFAULT_VALUE == 600

ASSUME ConfigAssumption ==
  /\ UINT32_MAX \in Nat /\ ULLONG_MAX \in Nat
  /\ CONFIG_CPU_CLOCK_SPEED_HZ_DEFAULT_VALUE < UINT32_MAX
  /\ UINT32_MAX <= ULLONG_MAX

Unset == << "unset" >>
Text == {Unset} \cup ({"word"} \X STRING) \cup ({"number"} \X Int)

\* log_level_parse exits when it knows no level of that name.
log_level_parses(text) ==
  \/ text = Unset
  \/ \E level \in {"trace", "debug", "info", "warn", "error", "fatal"} :
       text = << "word", level >>

\* strtoull (external): 0 for what is no number, and a number with a minus sign
\* is negated in unsigned arithmetic.  Out of range, errno is set.
strtoull(text) == IF text[1] = "number" THEN text[2] % (ULLONG_MAX + 1) ELSE 0
OutOfRange(text) ==
  text[1] = "number" /\ text[2] \notin -ULLONG_MAX .. ULLONG_MAX

\* parse_string_to_u32 returns, and what it returns.
parses_to_u32(text) == ~OutOfRange(text) /\ strtoull(text) < UINT32_MAX
parse_string_to_u32(text) == strtoull(text)

\* argv[1] is one of the two commands; anything else, longer or shorter, is not.
cli_parse_command(arg) == arg \in {"run", "disassemble"}

(***************************************************************************)
(* file_read_contents.  A file is a record of its state and its bytes:     *)
(*   "missing"     it cannot be opened: an error is logged and the buffer  *)
(*                 is empty, as it is for a file without contents;         *)
(*   "unreadable"  seeking or reading fails, and the process exits;        *)
(*   "readable".                                                           *)
(***************************************************************************)
ReadFails(file) == file.state = "unreadable"

File ==
  { file \in [ state : {"missing", "unreadable", "readable"}, bytes : Seq(Byte) ] :
      file.state # "readable" => file.bytes = << >> }

\* The contents are read into a buffer that calloc must provide.
NeedsBuffer(file) == file.state = "readable" /\ file.bytes # << >>

file_read_contents(file) ==
  IF file.state = "readable" THEN file.bytes ELSE << >>
=============================================================================
