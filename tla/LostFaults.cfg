CONSTANTS
  a = a
  b = b
  c = c
  d = d
  Companies <- MCCompanies
  Nobody = Nobody
  BlockSeats = {a, b}
  Seen <- MCSeen
  Worlds <- MCWorlds
  Transactions <- MCTransactions
  Reports <- MCReports
  Flawed = {"flawed"}
  AlteredCerts <- MCAltered
  MaxPool = 2
  Threshold = 2
  Forgiveness = 0
  QuorumNum = 2
  QuorumDen = 3
  AdmitNum = 1
  AdmitDen = 2
  Passes <- MCPasses
  QNum = 2
  QDen = 3
SPECIFICATION Spec
CHECK_DEADLOCK FALSE
INVARIANT ProvedFaultsAreCarried
