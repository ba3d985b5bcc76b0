CONSTANTS
  d1 = d1  d2 = d2  e1 = e1  e2 = e2  e3 = e3
  Nil = Nil
  Addrs = {e1, e2, e3}
  Plans <- ThePlans
  NumWriters = 6
  Shadow = 0
  MaxDeaths = 1
SPECIFICATION ReinitSpec
INVARIANTS ReinitTypeOK SwapKeepsCoverage
PROPERTIES WarmAccounted
CHECK_DEADLOCK FALSE
