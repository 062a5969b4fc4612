SPECIFICATION Spec
CONSTANTS
  r1 = r1
  r2 = r2
  Roots <- MCRoots
  NoRoot = NoRoot
  Epochs = {1}
  EpochOf <- MCEpochOf
  a1 = a1
  a2 = a2
  Attempts <- MCAttempts
  Absent = Absent
  SessionLimits = {1, 2}
  MaxInflight = 1
  MaxWork = 5
  MaxRenewals = 1
  MaxTokens = 1
  MaxAttempts = 1
  MaxIssue = 2
  MaxId = 3
  MaxFrames = 3
  MaxMint = 2
  MaxMoves = 1
SYMMETRY Symmetry
INVARIANTS
  TypeOK
  AnswersBoundRoot
  TablesAgree
  DiagnosticsFollowBinding
  WorkIsBounded
PROPERTY RunsOnce
