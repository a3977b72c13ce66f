----------------------------- MODULE Selection -----------------------------
(***************************************************************************)
(* What a table keeps of its rows, in the order they had: DELETE ... WHERE   *)
(* of chain/store/db.py, and a filtered dict or list of the node's memory.   *)
(***************************************************************************)
EXTENDS Integers, Sequences, FiniteSets

\* The k-th of a set of positions.
Nth(where, k) == CHOOSE i \in where : Cardinality({j \in where : j <= i}) = k

\* The elements of a sequence at these positions.
Selected(s, where) == [k \in 1 .. Cardinality(where) |-> s[Nth(where, k)]]

\* All but the elements of a set.
Lacking(s, gone) == Selected(s, {i \in DOMAIN s : s[i] \notin gone})
=============================================================================
