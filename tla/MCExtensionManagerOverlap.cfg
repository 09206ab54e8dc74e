SPECIFICATION Spec
CONSTANTS
  A = A
  B = B
  C = C
  Priority <- MCTwo
  ModesOf <- MCModesOfTwo
  Modes <- MCModes
  ModeExtensions <- MCModeExtensionsOfTwo
  Faulty = {A}
  Tasks = {t1, t2}
  MaxChanges = 3
  NoTask = NoTask
  t1 = t1
  t2 = t2
PROPERTIES
  LockIsKept
CHECK_DEADLOCK FALSE
