\* A node of one grid (as chain/net/node.py runs it): blocks, crashes,
\* rollbacks and the adoption of a snapshot.
SPECIFICATION Spec
CONSTANTS
    n1 = n1  n2 = n2  n3 = n3  a = a  b = b  c = c  g1 = g1  g2 = g2  g3 = g3
    Notes = {n1, n2}
    GenesisNotes <- MCGenesisNotes
    Members = {a, b}
    Grids = {g1}
    GenesisGrids <- OneGrid
    UndoDepth = 2
    MaxHeight = 3
    MaxRollbacks = 2
    Regrouping = FALSE
    Adoptions = TRUE
    None = None
INVARIANT SurvivesCrashes
PROPERTY RollbackRestoresTheLedger
CHECK_DEADLOCK FALSE
