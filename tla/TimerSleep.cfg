\* Requests for no, one and two seconds of three ticks.
SPECIFICATION Spec
CONSTANTS
  TICKS = 3
  Sleeps = {0, 1, 2}
  MaxTicks = 8
INVARIANTS
  NotEarly
  CountedOnce
  MaskedIsOwed
PROPERTIES
  Woken
CHECK_DEADLOCK FALSE
