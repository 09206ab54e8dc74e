SPECIFICATION Spec
CONSTANTS
  A = A
  B = B
  C = C
  Priority <- MCThree
  ModesOf <- MCModesOfThree
  Modes <- MCModes
  ModeExtensions <- MCModeExtensionsOfThree
  Faulty = {A}
  Tasks = {t1}
  MaxChanges = 4
  NoTask = NoTask
  t1 = t1
  t2 = t2
INVARIANTS
  SettledMatchesSettings
  Stacked
CHECK_DEADLOCK FALSE
