------------------------- MODULE Chip8TimerHistory -------------------------
(***************************************************************************)
(* One timer in use: the main loop updates it, the program sets it, and the*)
(* clock runs.  History variables remember what the timer was last set to, *)
(* and when.                                                               *)
(***************************************************************************)
EXTENDS Chip8Timer

CONSTANTS TimerValues,  \* the values a program sets the timer to
          TimeSteps,    \* how far the clock may advance between two events
          MaxTime       \* bound: the clock is followed up to this time

VARIABLES set_to, set_at

timerHistory == << set_to, set_at >>
vars == << value, last_tick_timestamp_ms, now, timerHistory >>

\* timer_init, and timer_start as machine_run begins.
Init ==
  /\ now = 0 /\ last_tick_timestamp_ms = now
  /\ value = 0
  /\ set_to = 0 /\ set_at = now

Update ==
  /\ timer_update
  /\ UNCHANGED << now, timerHistory >>

Set(v) ==
  /\ timer_set_value(v)
  /\ set_to' = v /\ set_at' = now
  /\ UNCHANGED now

ClockAdvances(step) ==
  /\ now + step <= MaxTime
  /\ now' = now + step
  /\ UNCHANGED << value, last_tick_timestamp_ms, timerHistory >>

Next ==
  \/ Update
  \/ \E v \in TimerValues : Set(v)
  \/ \E step \in TimeSteps : ClockAdvances(step)

Spec == Init /\ [][Next]_vars

-----------------------------------------------------------------------------
\* The number of ticks of a clock of period `period` ms since the timer was set.
TicksSinceSet(period) == (now - set_at) \div period

\* timer.h:11 "This timer does nothing more than subtract 1 from the value of DT
\* at a rate of 60Hz": it is never more than one tick ahead of the clock.
RateOf60Hz == value + TicksSinceSet(1000 \div 60) + 1 >= set_to
=============================================================================
