CONSTANTS
  DayLength = 3
  Threshold = 3
  Limits = {2}
  StartTime = 3
  MaxTime = 5
  ClockSteps <- MCClockSteps
  MaxSteps = 0
  MaxChanges = 2
  MaxStarts = 1
  Faults = {}
  MaxLosses = 1
  StartSettings <- MCStartSettings
SPECIFICATION Spec
CHECK_DEADLOCK FALSE
INVARIANT RecordsOnlyWhenEnabled
CONSTRAINT WithinLosses
