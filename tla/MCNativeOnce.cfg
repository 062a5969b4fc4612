SPECIFICATION NativeSpec
CONSTANTS
  NoProc = NoProc
  g = g
  a = a
  v = v
  o1 = o1
  Procs = {p1}
  Candidates = {a, v}
  Genesis = g
  Objects = {o1}
  Writes <- MCWrites
  MaxAncestry = 3
  MaxLen = 3
  Attempts = {a}
  Executors = {p1}
  Faults = {"abandon", "power"}
  FreshJournal = FALSE
INVARIANTS
  HintIsSound
  AttemptOnce
  NoV1OnNative
