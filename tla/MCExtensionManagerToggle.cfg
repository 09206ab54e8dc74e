SPECIFICATION Spec
CONSTANTS
  A = A
  B = B
  C = C
  Priority <- MCTwo
  ModesOf <- MCModesOfTwo
  Modes <- MCModes
  ModeExtensions <- MCModeExtensionsOfTwo
  Faulty = {}
  Tasks = {t1, t2}
  MaxChanges = 2
  NoTask = NoTask
  t1 = t1
  t2 = t2
INVARIANTS
  DisabledAreInactive
CHECK_DEADLOCK FALSE
