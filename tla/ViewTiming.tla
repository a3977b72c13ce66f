----------------------------- MODULE ViewTiming -----------------------------
(***************************************************************************)
(* ViewChange on the schedule chain/net/clock.py draws: seats share the     *)
(* clock closely enough, and a slice is long enough (MIN_VIEW_MS), that     *)
(* nobody leaves a view while something can still happen in it.  This is    *)
(* the deployment the design's section 3 assumes, and under it a ceremony   *)
(* with a live quorum finishes within its epoch.                            *)
(***************************************************************************)
EXTENDS ViewChange

\* Nothing a seat could still do in the view it is in.
Quiet(s) ==
    ~ENABLED (Propose(s) \/ TakeProposal(s) \/ ReactToEquivocation(s)
                \/ React(s) \/ Accept(s))

\* Everybody still at this height has reached this view, and is done with it.
ViewIsOver(e, v) ==
    \A t \in Seats : Undecided(t) =>
        \/ view[t] = Down
        \/ epoch[t] = e /\ view[t] = v /\ Quiet(t)
        \/ epoch[t] = e /\ (view[t] > v \/ view[t] = Idle)

TimedStep(s) ==
    \/ StartEpoch(s)
    \/ ViewIsOver(epoch[s], view[s]) /\ (NextView(s) \/ EndEpoch(s))
    \/ Propose(s) \/ TakeProposal(s) \/ TakeBody(s)
    \/ ReactToEquivocation(s) \/ React(s) \/ Accept(s)

TimedNext == \E s \in Seats : TimedStep(s)

-----------------------------------------------------------------------------
\* docs/view_change_design.md: a dead leader costs a view, not the epoch.
\* While fewer leaders are silent than there are views, every seat finishes the
\* height, and does so in the first epoch.  It must come to this whenever every
\* seat's loop keeps running (run_epoch ends, the gossip loop turns).
FinishedInOneEpoch ==
    \A s \in Seats : ~Undecided(s) /\ decided[s].epoch = 1
=============================================================================
