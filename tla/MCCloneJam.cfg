SPECIFICATION FairSpec
CONSTANTS
  g = g
  c = c
  Importers = {p1}
  Users = {u1}
  Transactions <- MCTransactions
  Parent <- MCParent
  NoTx = NoTx
  LocalGenesis = LocalGenesis
  LocalCommit = LocalCommit
  Exchanges <- MCNative
  NoExchange = NoExchange
  NoOne = NoOne
  MaxFault = 0
  MaxUse = 2
PROPERTY NoStrayMarker
CHECK_DEADLOCK FALSE
