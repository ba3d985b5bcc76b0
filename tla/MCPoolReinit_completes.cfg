CONSTANTS
  d1 = d1  d2 = d2  e1 = e1  e2 = e2  e3 = e3
  Nil = Nil
  Addrs = {e1, e2, e3}
  Plans <- OneCycle
  NumWriters = 3
  Shadow = 0
  MaxDeaths = 1
SPECIFICATION ReinitFairSpec
PROPERTY SwapCompletes
CHECK_DEADLOCK FALSE
