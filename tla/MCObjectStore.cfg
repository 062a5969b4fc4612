SPECIFICATION Spec
CONSTANTS
  Procs = {p1, p2, p3}
  Objects = {o1, o2}
  NoObject = NoObject
  Depth = 2
SYMMETRY Symmetry
INVARIANTS
  AckedIsDurable
  FinalIsWhole
  RecoverySettles
PROPERTY RefinesShelf
