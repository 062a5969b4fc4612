SPECIFICATION Spec
CONSTANTS
  NoProc = NoProc
  g = g
  a = a
  b = b
  Procs = {p1, p2}
  Names = {n1}
  Transactions <- MCFork
  MaxOrigins = 1
  MaxBranches = 1
SYMMETRY Symmetry
INVARIANTS
  RefHasOrigin
  BranchIsLinear
  ToldSurvives
  RefRecoverySettles
