CONSTANTS
  DayLength = 3
  Threshold = 3
  Limits = {1, 2}
  StartTime = 3
  MaxTime = 8
  ClockSteps <- MCClockSteps
  MaxSteps = 1
  MaxChanges = 3
  MaxStarts = 1
  Faults = {}
  MaxLosses = 0
  StartSettings <- MCStartSettings
SPECIFICATION Spec
CHECK_DEADLOCK FALSE
INVARIANTS ActiveTimeIsReal LimitIsEnforced ReachedAtIsReal
CONSTRAINT WithinLosses
