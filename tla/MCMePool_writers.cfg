CONSTANTS
    Conns = {c1}
    Writers = {w1, w2}
    None = None
    MaxSends = 2
    MaxMarks = 0
    Drainable = {}
    CountMod = 8
SPECIFICATION Spec
PROPERTIES BindingSpec
SYMMETRY Symmetry
CHECK_DEADLOCK FALSE
