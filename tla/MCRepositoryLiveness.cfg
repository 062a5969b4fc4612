SPECIFICATION FairSpec
CONSTANTS
  NoProc = NoProc
  g = g
  a = a
  b = b
  o1 = o1
  o2 = o2
  Procs = {p1, p2}
  Candidates = {a}
  Genesis = g
  Objects = {o1}
  Writes <- MCWrites
  MaxAncestry = 1
  MaxLen = 2
PROPERTY LocksAreReleased
