--------------------------- MODULE HeightDecision ---------------------------
(***************************************************************************)
(* What a ceremony promises for one height, whatever protocol runs it: a    *)
(* block may come to be agreed, at most one ever is, and a seat that        *)
(* finishes the height finishes it with the agreed block.                   *)
(***************************************************************************)
EXTENDS FiniteSets

CONSTANTS Seats, Blocks, None

VARIABLES agreed,   \* the agreed block, as a set of at most one
          learned   \* per seat: the block it finished with, or None

Init == agreed = {} /\ learned = [s \in Seats |-> None]

Agree == agreed = {} /\ (\E b \in Blocks : agreed' = {b}) /\ UNCHANGED learned

Learn(s) ==
    /\ learned[s] = None
    /\ \E b \in agreed : learned' = [learned EXCEPT ![s] = b]
    /\ UNCHANGED agreed

Next == Agree \/ \E s \in Seats : Learn(s)

Spec == Init /\ [][Next]_<<agreed, learned>>
=============================================================================
