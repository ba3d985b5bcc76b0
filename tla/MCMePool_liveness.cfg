CONSTANTS
    Conns = {c1}
    Writers = {w1}
    None = None
    MaxSends = 1
    MaxMarks = 1
    Drainable = {w1}
    CountMod = 8
SPECIFICATION FairSpec
INVARIANTS TypeOK
PROPERTIES  WritersRetire
CHECK_DEADLOCK FALSE
