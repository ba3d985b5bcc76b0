CONSTANTS
  Conns = {c1, c2}
  Writers = {w1, w2}
  None = None
  MaxSends = 2
  MaxMarks = 2
  Drainable = {w1, w2}
  CountMod = 8
SPECIFICATION Spec
CONSTRAINT SharedOrDrained
INVARIANTS RegistryConsistent NoResidue RemovalAccounted
SYMMETRY Symmetry
CHECK_DEADLOCK FALSE
