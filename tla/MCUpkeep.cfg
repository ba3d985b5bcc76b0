CONSTANTS
  d1 = d1  s1 = s1  s2 = s2  a = a  b = b
  Dcs = {d1}
  Endpoints = {a, b}
  Maps <- TheMaps
  MaxLosses = 2
  FastRetries = 1
  Shadow = 0
  MinWriters = 1
  Adaptive = TRUE
  OutageMode = TRUE
  Rotate = TRUE
  Budgets <- TheBudgets
  None = None
  InitMaps <- TheInitMaps
  MaxDeaths = 1
  Sessions = {s1, s2}
  Capacity = 2
SPECIFICATION MCSpec
INVARIANTS UpkeepTypesOK RefillMarksRight
PROPERTIES StartRight RotationKeepsWriters FloorRestored NobodyStuck
CHECK_DEADLOCK FALSE
