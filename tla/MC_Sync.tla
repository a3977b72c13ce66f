---- MODULE MC_Sync ----
(* What a node does about the past, a part at a time: coming back after falling behind,
   hardening what was agreed, choosing between histories, marking what was signed. *)
EXTENDS CatchUp, Stamping, History, HighWater

VARIABLE part

PartsOfState == <<1, 2>>
Owners == [t \in Turns |-> IF t <= 3 THEN "s" ELSE "r"]

\* The turns of a pool are alike, so one committee stands for the others of its kind:
\* mostly one seat's or all of one.
FirstDraws == {{1, 4, 5}, {1, 2, 3}}

\* Of the first draw and of the second, of both, too few.
SomeTurns == {{1, 2}, {1, 2, 4}, {5, 6}, {3, 5}, {3, 5, 6}, {1, 3}, {2}}

Init ==
    /\ part \in {"catch up", "stamping", "history", "mark"}
    /\ CatchUpInit /\ StampingInit /\ HistoryInit /\ HighWaterInit
    /\ committee[GenesisHash] = {1, 2, 4}
    /\ draws[1] \in IF part = "stamping" THEN FirstDraws ELSE {{1, 4, 5}}
    /\ draws[2] = Turns \ draws[1]
Next ==
    \/ part = "catch up" /\ CatchUpNext /\ UNCHANGED <<part, stampingVars, historyVars, markVars>>
    \/ part = "stamping" /\ StampingNext /\ UNCHANGED <<part, catchUpVars, historyVars, markVars>>
    \/ part = "history" /\ HistoryNext /\ UNCHANGED <<part, catchUpVars, stampingVars, markVars>>
    \/ part = "mark" /\ HighWaterNext /\ UNCHANGED <<part, catchUpVars, stampingVars, historyVars>>

\* Outside its part nobody is behind, and nothing the fairness of catching up asks for is
\* possible; stamping has to be told.
Spec ==
    /\ Init /\ [][Next]_<<part, catchUpVars, stampingVars, historyVars, markVars>>
    /\ CatchUpFairness
    /\ part = "stamping" => StampingFairness

\* AgreedIsHardened, of the part that runs.
StampsHarden == part = "stamping" => AgreedIsHardened
PoolsStayGood == part = "stamping" => RubbishCostsNothing
====
