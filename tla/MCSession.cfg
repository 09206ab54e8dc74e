SPECIFICATION SessionSpec
CONSTANTS
  Machines = {"breaks", "modals"}
  TypeSettings <- MCTypeSettings
  MinBreakLength = 2
  TicksPerSec = 2
  StartTime = 3
  MaxTime = 7
  ClockSteps <- MCClockSteps
  MaxClockSteps = 1
  NoType = NoType
  Actors = {a, b}
  Stage = Stage
  Null = Null
  ModalModes = {"POPUP", "SYSTEM_MODAL"}
  MaxDepth = 3
SYMMETRY ActorSymmetry
INVARIANTS
  TypeOK
  WatchesFollowState
  NextTransitionScheduled
  IdleTimeIsReal
  ModalTypeOK
  CountsAgree
  ModesNest
  FocusNests
  NoDestroyedFocus
PROPERTIES
  BreaksAreEarned
