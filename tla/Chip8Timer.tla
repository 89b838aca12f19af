----------------------------- MODULE Chip8Timer -----------------------------
(***************************************************************************)
(* timer.c: a timer of the CHIP-8 machine.  It is updated by polling: every*)
(* turn of the main loop calls timer_update, which reads the clock.        *)
(* Times are in milliseconds; SDL_GetTicks64 does not wrap.                *)
(***************************************************************************)
EXTENDS Naturals

VARIABLES value,                   \* struct timer
          last_tick_timestamp_ms,
          now                      \* what SDL_GetTicks64 returns

CLOCK_FREQUENCY_HZ == 60

CLOCK_TIMEUP_DURATION_MS == 1000 \div CLOCK_FREQUENCY_HZ

timer_is_active == value > 0

\* Mutated form of timer_ticked: the decrement wraps around.
timer_ticked_wrapping(n) == (value - n) % 256

\* timer_tick, n times.
timer_ticked(n) == IF n < value THEN value - n ELSE 0

timer_start ==
  /\ last_tick_timestamp_ms' = now
  /\ UNCHANGED value

elapsed_time_ms == now - last_tick_timestamp_ms

\* The timestamp stays that of timer_start.
timer_update ==
  /\ \/ /\ timer_is_active /\ elapsed_time_ms >= CLOCK_TIMEUP_DURATION_MS
        /\ value' = timer_ticked(elapsed_time_ms \div CLOCK_TIMEUP_DURATION_MS)
     \/ /\ ~timer_is_active \/ elapsed_time_ms < CLOCK_TIMEUP_DURATION_MS
        /\ UNCHANGED value
  /\ UNCHANGED last_tick_timestamp_ms

timer_set_value(v) ==
  /\ value' = v
  /\ UNCHANGED last_tick_timestamp_ms
=============================================================================
