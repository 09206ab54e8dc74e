CONSTANTS
  DayLength = 3
  Threshold = 3
  Limits = {2}
  StartTime = 3
  MaxTime = 5
  ClockSteps <- MCClockSteps
  MaxSteps = 1
  MaxChanges = 3
  MaxStarts = 2
  Faults = {"load", "listen", "inhibit", "proxy", "write"}
  MaxLosses = 1
  StartSettings <- MCStartSettings
SPECIFICATION Spec
CHECK_DEADLOCK FALSE
INVARIANTS StoredIsLoadable LimitTimerArmed
CONSTRAINT WithinLosses
