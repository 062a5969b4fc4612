SPECIFICATION Spec
CONSTANTS
  NoProc = NoProc
  g = g
  a = a
  b = b
  o1 = o1
  o2 = o2
  o3 = o3
  Procs = {p1, p2}
  Servers = {p1}
  Sessions = {s1}
  Names = {n1}
  Candidates = {a, b}
  Genesis = g
  Objects = {o1, o2, o3}
  Binds <- MCBinds
  References <- MCReferences
  MaxLen = 2
INVARIANTS
  PlanSparesRetained
  HeadStaysWhole
  WitnessCoversDeletion
  CollectedIsFinal
