SPECIFICATION SessionSpec
CONSTANTS
  Machines = {"breaks"}
  TypeSettings <- MCTypeSettings
  MinBreakLength = 2
  TicksPerSec = 2
  StartTime = 3
  MaxTime = 9
  ClockSteps <- MCClockSteps
  MaxClockSteps = 0
  NoType = NoType
  Actors = {a, b}
  Stage = Stage
  Null = Null
  ModalModes = {"POPUP", "SYSTEM_MODAL"}
  MaxDepth = 3
INVARIANTS
  DueTimeIsOfTheType
