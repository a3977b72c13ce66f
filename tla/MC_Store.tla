------------------------------ MODULE MC_Store ------------------------------
EXTENDS Store, TLC

CONSTANTS n1, n2, n3, a, b, c, g1, g2, g3

MCGenesisNotes == <<n1>>
OneGrid == g1 :> {a, b}
TwoGrids == g1 :> {a, b} @@ g2 :> {c}
=============================================================================
