SPECIFICATION NativeSpec
CONSTANTS
  NoProc = NoProc
  g = g
  a = a
  v = v
  o1 = o1
  Procs = {p1, p2}
  Candidates = {a, v}
  Genesis = g
  Objects = {o1}
  Writes <- MCWrites
  MaxAncestry = 2
  MaxLen = 2
  Attempts = {a}
  Executors = {p1, p2}
  Faults = {"abandon"}
  FreshJournal = TRUE
SYMMETRY Symmetry
INVARIANT CommittedIsAccepted
PROPERTY AttemptNeverReopens
