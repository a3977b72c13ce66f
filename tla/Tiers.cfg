CONSTANTS
  a = a
  b = b
  c = c
  d = d
  e = e
  f = f
  None = None
  TierNodes = {a, b, c, d, e, f}
  Joiners = {c, d, e}
  Starts <- Networks
  Payments <- Spends
  Threshold = 1
  Forgiveness = 0
  QuorumNum = 2
  QuorumDen = 3
  AdmitNum = 2
  AdmitDen = 1
  Cohort = 2
  MaxAbsent = 1
  MaxTierHeight = 4
  Notes = {1}
  GenesisNotes <- Minted
  Members = {a, b}
  Grids = {1, 2}
  GenesisGrids <- OneGrid
  UndoDepth = 2
  MaxHeight = 3
  MaxRollbacks = 1
  Regrouping = TRUE
  Adoptions = FALSE
SPECIFICATION MCSpec
CHECK_DEADLOCK FALSE
INVARIANTS SeatingIsSound PaymentsFindTheirGrid TablesStayWhole
PROPERTY MovingEarnsNothing
SYMMETRY Alike
