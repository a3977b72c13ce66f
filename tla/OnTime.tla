------------------------------- MODULE OnTime -------------------------------
(***************************************************************************)
(* Faults when, besides, no process restarts inside an epoch and no seat    *)
(* finds a slice already over.  Then all the seats that are in a view of an *)
(* epoch have the same leader in it.  Messages are still lost and late,     *)
(* seats still leave views when they like, leaders are still silent and     *)
(* attesters lazy.  Under these provisos one epoch certifies one block; the *)
(* README says what happens when they are dropped one at a time.            *)
(***************************************************************************)
EXTENDS Faults

CONSTANT Schedule   \* who leads each view of each epoch when nobody skips one

ASSUME OnTimeAssumption == Restartable = {}

ASSUME NobodyIsLate == Late = {}

\* The leaders that come up before view v, in an epoch nobody was late for.
Earlier(e, v) == {Schedule[<<e, u>>] : u \in 0 .. v - 1}

ASSUME ScheduleAssumption ==
    /\ Schedule \in [Epochs \X Views -> Seats]
    /\ \A e \in Epochs, v \in Views :
         Attesters \ Earlier(e, v) # {} =>
             LeaderOf(e, v, Earlier(e, v)) = Schedule[<<e, v>>]

-----------------------------------------------------------------------------
\* A seat has no epoch to rejoin, and knows the leaders of the views before its own.
ScheduleOK(s) ==
    /\ rejoin[s] = NoRejoin
    /\ view[s] \in Views => tried[s] = Earlier(epoch[s], view[s])

ScheduleInv == \A s \in Seats : ScheduleOK(s)

\* Seat s has left view v of epoch e and will not be in it again.
Past(s, e, v) ==
    \/ epoch[s] > e
    \/ epoch[s] = e /\ (view[s] \in {Idle, Down} \/ view[s] > v)

\* A quorum of seats is past view v of epoch e, having signed nothing in it
\* but b: no other block can be certified there any more.
OnlyB(e, v, b) ==
    \E Q \in SUBSET Seats :
        /\ Cardinality(Q) >= Quorum
        /\ \A s \in Q : Past(s, e, v)
        /\ \A a \in attestations :
             (a.node \in Q /\ a.epoch = e /\ a.view = v) => a.block = b

\* An attestation is for a proposal of its view, and its author has not
\* forgotten it while the epoch lasts.
AttestationOK(a) ==
    /\ Past(a.node, a.epoch, a.view) \/ At(a.node, a.epoch, a.view)
    /\ \E p \in proposals :
         p.epoch = a.epoch /\ p.view = a.view /\ p.block = a.block
    /\ (epoch[a.node] = a.epoch /\ view[a.node] \in Views) =>
         a.view <= locked[a.node].view
    /\ At(a.node, a.epoch, a.view) => validated[a.node] # Unvalidated

AttestationInv == \A a \in attestations : AttestationOK(a)

\* A view change reports the last attestation its author made before it.
ChangeOK(c) ==
    /\ Past(c.node, c.epoch, c.view) \/ At(c.node, c.epoch, c.view)
    /\ \A a \in attestations :
         (a.node = c.node /\ a.epoch = c.epoch /\ a.view < c.view) =>
             a.view <= c.lock.view
    /\ c.lock # NoLock =>
         /\ c.lock.view < c.view
         /\ [epoch |-> c.epoch, view |-> c.lock.view, node |-> c.node,
             block |-> c.lock.block] \in attestations

ChangeInv == \A c \in changes : ChangeOK(c)

\* Proposals come from the scheduled leader, one a view, and only for a block
\* no earlier view can contradict any more.
ProposalOK(p) ==
    /\ p.leader = Schedule[<<p.epoch, p.view>>]
    /\ \/ Past(p.leader, p.epoch, p.view)
       \/ At(p.leader, p.epoch, p.view) /\ proposed[p.leader]
    /\ \A v \in 0 .. p.view - 1 : OnlyB(p.epoch, v, p.block)

OnePerView ==
    \A p, q \in proposals : (p.epoch = q.epoch /\ p.view = q.view) => p = q

ProposalInv == OnePerView /\ \A p \in proposals : ProposalOK(p)

IInv == TypeOK /\ SeatInv /\ ScheduleInv /\ AttestationInv /\ ChangeInv
               /\ ProposalInv /\ DecisionInv

-----------------------------------------------------------------------------
\* What epoch e shows of itself: the block certified in it, and the seats that
\* finished the height in it.
Finished(e) ==
    [s \in Seats |-> IF decided[s].epoch = e THEN decided[s].block ELSE None]

Promise(e) == INSTANCE HeightDecision
                WITH agreed <- CertifiedIn(e), learned <- Finished(e)

\* Every epoch of the protocol implements HeightDecision: it starts undecided,
\* and whatever a step does to it is a step of HeightDecision or nothing.  (This
\* is \A e \in Epochs : Promise(e)!Spec, with the quantifier inside.)
KeepsThePromise ==
    /\ \A e \in Epochs : Promise(e)!Init
    /\ [][\A e \in Epochs :
             Promise(e)!Next \/ UNCHANGED <<CertifiedIn(e), Finished(e)>>]_vars
=============================================================================
