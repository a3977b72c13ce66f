CONSTANTS
  Txs = {"a", "b", "c", "d"}
  Body <- Bodies
  Submissions <- Arriving
  GoodProofs = {"good"}
  IssuedNotes = {0, 1, 2, 3}
  MaxMempool = 2
  MaxRefusedProofs = 2
  ProofStrikes = 2
  MaxEpochsQueued = 2
  QueueFloor = 1
  QueueCapacity = 2
  Slacks = {0, 2}
  Costs = {1, 2}
  DrainItems = 2
  MaxGrids = 2
  Holders = {alice, bob}
  P = 11
  MaxValue = 2
  Supplies <- Endowments
  Totals = {2, 3, 13}
  Values = {0, 1, 10}
  Fees = {0, 1, 10}
  Assets = {"USD", "EUR"}
  MaxNotes = 4
  Grids = {0, 1}
  Addresses = {0, 1}
  Currencies = {"USD", "EUR"}
  NoteLimit = 3
  Incoming <- Arrivals
  Amounts = {2}
  Fee = 1
  MaxInputs = 2
  PageLimits = {1}
  MaxHeight = 2
  MaxUndo = 1
SPECIFICATION Spec
INVARIANTS PaymentsAreSound PoolIsSound CountedScanIsComplete PaymentsAreLeast
PROPERTIES OnlyTheOwnerSpends LeastImportantGoes
SYMMETRY HoldersAlike
CHECK_DEADLOCK FALSE
