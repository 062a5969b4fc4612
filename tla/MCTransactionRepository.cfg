SPECIFICATION Spec
CONSTANTS
  NoProc = NoProc
  g = g
  a = a
  b = b
  o1 = o1
  o2 = o2
  Procs = {p1, p2}
  Candidates = {a, b}
  Genesis = g
  Objects = {o1, o2}
  Writes <- MCWrites
  MaxAncestry = 1
  MaxLen = 2
SYMMETRY Symmetry
INVARIANTS
  TypeOK
  HeadClosed
  PromisedSurvives
  CasNeverStale
  StagesIntact
  RecoveryIsFinal
PROPERTY RefinesHistory
