---- MODULE MC_Tiers ----
(* Grids that are founded and merged away, a part at a time: as the registers and the
   topology see it, and as one node's tables do. *)
EXTENDS Tiers, Store

CONSTANTS a, b, c, d, e, f

VARIABLE part

\* A grid of two that founds another and merges it away, rollbacks whose transaction may
\* fail, crashes.
Minted == <<1>>
OneGrid == <<{a, b}>>

Nowhere == [n \in TierNodes |-> NoGrid]
At(S, grid, rest) == [n \in TierNodes |-> IF n \in S THEN grid ELSE rest[n]]

\* A young network of one small grid, one of two grids that has had a fault,
\* one of two regions, and one of three grids, which can lose one and go on.
Growing == [size |-> 2, suspended |-> {}, home |-> At({a, b}, <<1, 0>>, Nowhere)]
Shrinking == [size |-> 5, suspended |-> {c},
              home |-> At({a, b, c}, <<1, 0>>, At({d, e, f}, <<1, 1>>, Nowhere))]
Apart == [size |-> 5, suspended |-> {},
          home |-> At({a, b}, <<1, 0>>, At({d, e, f}, <<2, 0>>, Nowhere))]
Wide == [size |-> 2, suspended |-> {},
         home |-> At({a, b}, <<1, 0>>, At({c, d}, <<1, 1>>, At({e, f}, <<1, 2>>, Nowhere)))]
Networks == {Growing, Shrinking, Apart, Wide}
Spends == {{1}}
Alike == Permutations({a, b})

MCInit == part \in {"tiers", "tables"} /\ TiersInit /\ Init /\ (part = "tables" => gridSize = 2 /\ home[c] = NoGrid)
MCNext ==
    /\ part' = part
    /\ \/ part = "tiers" /\ TiersNext /\ UNCHANGED vars
       \/ part = "tables" /\ NextOnABadDisk /\ UNCHANGED tierVars

MCSpec == MCInit /\ [][MCNext]_<<part, tierVars, vars>>
====
