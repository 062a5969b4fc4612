SPECIFICATION FairSpec
CONSTANTS
  g = g
  c = c
  Importers = {p1, p2}
  Users = {u1}
  Transactions <- MCTransactions
  Parent <- MCParent
  NoTx = NoTx
  LocalGenesis = LocalGenesis
  LocalCommit = LocalCommit
  Exchanges <- MCExchanges
  NoExchange = NoExchange
  NoOne = NoOne
  MaxFault = 2
  MaxUse = 2
INVARIANTS
  HeadIsWhole
  GuardHolds
  CloneReexports
PROPERTIES
  ImportNeverGrafts
  ResumeEnds
CHECK_DEADLOCK FALSE
