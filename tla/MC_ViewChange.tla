--------------------------- MODULE MC_ViewChange ----------------------------
(* Instances of ViewChange for TLC.  Leaders are drawn from a fixed order of *)
(* the attesters in every view: the hash that shuffles them is a permutation *)
(* per view, and this is one of its possible outcomes.                       *)
EXTENDS ViewChange

\* The first untried attester in ascending order, in every view.
Ascending(e, v, T) ==
    CHOOSE s \in Attesters \ T : \A t \in Attesters \ T : s <= t
=============================================================================
