----------------------------- MODULE HttpConfig -----------------------------
(***************************************************************************)
(* config.c: the configuration of the http server, read from environment   *)
(* variables one after the other.  A failure is remembered and the other   *)
(* variables are read all the same.  The debug flag and the host cannot    *)
(* fail and are left out.                                                  *)
(***************************************************************************)
EXTENDS Integers, Sequences

CONSTANTS Environments,   \* functions from Key to Unset, Word or a number
          Unset,          \* getenv returns NULL
          Word,           \* a value that does not begin with a number
          UINT16_MAX, INT_MAX, ULLONG_MAX

ASSUME ConfigAssumption ==
  /\ UINT16_MAX \in Nat /\ INT_MAX \in Nat /\ ULLONG_MAX \in Nat
  /\ UINT16_MAX < INT_MAX          \* the static_assert of config.c:136
  /\ INT_MAX < ULLONG_MAX

VARIABLES env, config, failed, stage

configVars == << env, config, failed, stage >>

\* The variables in the order of config_init_from_env.
Keys == << "port", "tcp_backlog", "read_timeout_ms", "write_timeout_ms",
           "connection_timeout_ms" >>
Key == { Keys[i] : i \in 1 .. Len(Keys) }

ASSUME EnvironmentAssumption ==
  /\ Environments \subseteq [Key -> Int \cup {Unset, Word}]
  /\ Unset \notin Int /\ Word \notin Int

\* Small defaults stand for 8080, 16, 3000, 1 and 9000.
Default(key) == IF key \in {"tcp_backlog", "write_timeout_ms"} THEN 1 ELSE 2

\* The largest number stands for one that does not fit; a negative one that does wraps.
strtoull(value) ==
  IF value = Word THEN 0
  ELSE IF value \notin -ULLONG_MAX .. ULLONG_MAX THEN ULLONG_MAX
  ELSE IF value < 0 THEN value + ULLONG_MAX + 1 ELSE value

\* parse_ull: errno is set, or the value is the one that strtoull returns then.
parse_fails(value) == strtoull(value) = ULLONG_MAX

\* The library may set errno for a word or take it for 0 (as glibc does).
parse_may_fail(value) == value = Word \/ parse_fails(value)

\* Mutated form of Limit: the read timeout is not compared with INT_MAX.
Limit_unchecked(key) ==
  IF key \in {"port", "tcp_backlog"} THEN UINT16_MAX ELSE ULLONG_MAX

\* The largest value the variable's function lets through.
Limit(key) ==
  CASE key \in {"port", "tcp_backlog"} -> UINT16_MAX
    [] key = "read_timeout_ms" -> INT_MAX
    [] OTHER -> ULLONG_MAX

ConfigInit ==
  /\ env \in Environments
  /\ config = [ k \in Key |-> 0 ]
  /\ failed = FALSE
  /\ stage = 1

Current == Keys[stage]

TakesDefault ==
  /\ env[Current] = Unset
  /\ config' = [ config EXCEPT ![Current] = Default(Current) ]
  /\ UNCHANGED failed

Accepts ==
  /\ env[Current] # Unset
  /\ ~parse_fails(env[Current])
  /\ strtoull(env[Current]) <= Limit(Current)
  /\ config' = [ config EXCEPT ![Current] = strtoull(env[Current]) ]
  /\ UNCHANGED failed

\* Mutated form of Rejects: the later functions overwrite the result.
Rejects_forgetting ==
  /\ env[Current] # Unset
  /\ parse_may_fail(env[Current]) \/ strtoull(env[Current]) > Limit(Current)
  /\ failed' = (stage = Len(Keys))
  /\ UNCHANGED config

Rejects ==
  /\ env[Current] # Unset
  /\ parse_may_fail(env[Current]) \/ strtoull(env[Current]) > Limit(Current)
  /\ failed' = TRUE
  /\ UNCHANGED config

\* One of the config_init_... functions of the numeric variables.
InitVariable ==
  /\ stage <= Len(Keys)
  /\ TakesDefault \/ Accepts \/ Rejects
  /\ stage' = stage + 1
  /\ UNCHANGED env

-----------------------------------------------------------------------------
Done == stage > Len(Keys)

\* The conversion to a signed int in recv_or_timeout.
ToInt(n) ==
  LET m == n % (2 * INT_MAX + 2) IN IF m > INT_MAX THEN m - (2 * INT_MAX + 2) ELSE m

\* A number that, as an unsigned long long, is none or too large for its variable.
OutOfRange(key) ==
  /\ env[key] \in Int
  /\ \/ env[key] \notin -ULLONG_MAX .. ULLONG_MAX
     \/ env[key] % (ULLONG_MAX + 1) = ULLONG_MAX
     \/ env[key] % (ULLONG_MAX + 1) > Limit(key)
=============================================================================
