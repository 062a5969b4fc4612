SPECIFICATION FairSpec
CONSTANTS
  NoNonce = NoNonce
  Nonces = {n1, n2}
  MaxLaunch = 2
  MaxCrash = 1
INVARIANTS
  ServingMeansQuiet
  EvidenceIsTrue
PROPERTIES
  AttemptSettles
  WorkersEnd
