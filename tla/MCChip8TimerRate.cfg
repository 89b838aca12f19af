SPECIFICATION Spec
CONSTANTS
  TimerValues = {0, 2, 9}
  TimeSteps = {7, 16}
  MaxTime = 48
INVARIANT RateOf60Hz
CHECK_DEADLOCK FALSE
