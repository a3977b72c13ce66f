-------------------------------- MODULE Faults --------------------------------
(***************************************************************************)
(* ViewChange when a quorum is more than half of ALL the seats, apprentices *)
(* included.  Messages are lost and late, leaders silent, attesters lazy,   *)
(* seats skip views they were late for, and processes restart with nothing  *)
(* remembered: the invariant that survives all of it.                       *)
(***************************************************************************)
EXTENDS ViewChange

ASSUME OverlapAssumption == 2 * Quorum > Cardinality(Seats)

ASSUME LeaderAssumption ==
    \A e \in Epochs, v \in Views, T \in SUBSET Seats :
        Attesters \ T # {} => LeaderOf(e, v, T) \in Attesters

-----------------------------------------------------------------------------
\* Seat s is in view v of epoch e.
At(s, e, v) == epoch[s] = e /\ view[s] = v

\* A seat in a view has a leader left, and what it holds is of its own view.
SeatOK(s) ==
    /\ view[s] \in Views =>
         /\ epoch[s] \in Epochs
         /\ Attesters \ tried[s] # {}
    /\ \A p \in seen[s] : p \in proposals /\ At(s, p.epoch, p.view)
    /\ validated[s].ok => \E p \in seen[s] : validated[s].block = p.block
    /\ locked[s] # NoLock =>
         /\ view[s] \in Views => locked[s].view <= view[s]
         /\ [epoch |-> epoch[s], view |-> locked[s].view, node |-> s,
             block |-> locked[s].block] \in attestations

SeatInv == \A s \in Seats : SeatOK(s)

\* A seat attests to a proposal that is acceptable, of its view, and, unless it
\* is lazy, to a block it has validated.
VoteOK(a) ==
    /\ \E p \in proposals : /\ p.epoch = a.epoch /\ p.view = a.view
                            /\ p.block = a.block /\ Acceptable(p)
    /\ a.node \in Lazy \/ a.block \notin BadBlocks

VoteInv == \A a \in attestations : VoteOK(a)

\* A lock that is reported was locked before, by a vote.
ReportOK(c) ==
    c.lock # NoLock =>
         /\ c.lock.view < c.view
         /\ [epoch |-> c.epoch, view |-> c.lock.view, node |-> c.node,
             block |-> c.lock.block] \in attestations

ReportInv == \A c \in changes : ReportOK(c)

\* A proposal is made under view changes that were signed.
SourceInv == \A p \in proposals : p.cert \subseteq changes

DecisionInv ==
    \A s \in Seats : ~Undecided(s) =>
        \E v \in Views : Certified(decided[s].epoch, v, decided[s].block)

FaultInv == TypeOK /\ SeatInv /\ VoteInv /\ ReportInv /\ SourceInv /\ DecisionInv
                  /\ DecidedIsValid
=============================================================================
