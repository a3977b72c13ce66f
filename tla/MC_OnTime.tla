----------------------------- MODULE MC_OnTime ------------------------------
(* Instances of OnTime for TLC.                                              *)
EXTENDS OnTime

\* The first untried attester in ascending order; the order is turned round in
\* odd views.
Turning(e, v, T) ==
    CHOOSE s \in Attesters \ T :
        \A t \in Attesters \ T : IF v % 2 = 0 THEN s <= t ELSE s >= t

\* The leaders Turning gives an epoch nobody is late for.
TurningSchedule ==
    [p \in Epochs \X Views |->
        LET UpTo[v \in 0 .. MaxViews] ==
              IF v = 0 THEN {}
              ELSE LET T == UpTo[v - 1]
                   IN  IF Attesters \ T = {} THEN T
                       ELSE T \cup {Turning(p[1], v - 1, T)}
        IN  IF Attesters \ UpTo[p[2]] = {} THEN CHOOSE s \in Seats : TRUE
            ELSE Turning(p[1], p[2], UpTo[p[2]])]
=============================================================================
