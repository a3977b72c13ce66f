----------------------------- MODULE ViewChange -----------------------------
(***************************************************************************)
(* How the seats of one grid settle the block of ONE height on a network    *)
(* that delays, loses, repeats and reorders messages: chain/net/seat.py,    *)
(* chain/viewchange.py and the view loop of chain/net/node.py.              *)
(*                                                                         *)
(* An epoch is a window of wall time cut into MaxViews views.  Each view    *)
(* reseats the grid and has one leader; a seat whose slice of the window    *)
(* ends signs a ViewChange that reports the block it is locked on, and the  *)
(* leader of a later view proposes under a quorum of those statements and   *)
(* is bound by the highest lock in it.                                      *)
(*                                                                         *)
(* The network is the three sets of signed statements made so far.  What a  *)
(* seat holds in its envelope is some part of them, chosen when it is used: *)
(* gossip relays every statement, and nothing bounds when it arrives.       *)
(* Seats share no clock: each enters and leaves a view when it likes.       *)
(***************************************************************************)
EXTENDS Integers, FiniteSets

CONSTANTS
    Seats,          \* the seated members of the grid: attesters and apprentices
    Attesters,      \* the seats whose attestations count
    Quorum,         \* what register.quorum returns for these attesters
    Blocks,         \* block hashes, as numbers: required_block compares them
    BadBlocks,      \* the blocks SoloWorkload.validate refuses
    MaxViews,       \* max_views: views in one epoch
    MaxEpoch,       \* bound: epochs spent at this height
    MaxRestarts,    \* bound: process restarts
    LeaderOf(_, _, _), \* the leader Grid.seat draws: epoch, view, tried leaders
    Lazy,           \* seats whose behaviour is "lazy": attest without validating
    Silent,         \* seats whose behaviour is "silent": never propose
    Late,           \* seats that may find a view's slice already over
    Restartable,    \* seats whose process may restart
    None            \* no block

ASSUME SeatsAssumption ==
    /\ Seats \subseteq Nat /\ IsFiniteSet(Seats)
    /\ Attesters \subseteq Seats
    /\ Lazy \subseteq Seats /\ Silent \subseteq Seats
    /\ Late \subseteq Seats /\ Restartable \subseteq Seats

ASSUME BlocksAssumption ==
    Blocks \subseteq Nat /\ BadBlocks \subseteq Blocks /\ None \notin Blocks

ASSUME NumbersAssumption ==
    /\ Quorum \in Nat \ {0} /\ MaxViews \in Nat \ {0}
    /\ MaxEpoch \in Nat \ {0} /\ MaxRestarts \in Nat

VARIABLES
    proposals,      \* every SignedProposal made
    attestations,   \* every Attestation made, apprentices' shadows included
    changes,        \* every ViewChange made
    epoch,          \* per seat: the epoch it is in
    view,           \* per seat: its view, Idle between ceremonies, Down if dead
    tried,          \* per seat: the leaders _views has seen fail this epoch
    locked,         \* per seat: Seat.locked
    seen,           \* per seat: env.proposals
    validated,      \* per seat: Seat.validated
    reacted,        \* per seat: Seat.reacted
    proposed,       \* per seat: state["proposed"] of _run_view
    held,           \* per seat: the bodies in NodeProcess.bodies
    decided,        \* per seat: the finalised block and its epoch
    rejoin,         \* per seat: the first view a new process may find running
    restarts        \* restarts so far, for the bound

network == <<proposals, attestations, changes>>
seat == <<seen, validated, reacted, proposed>>
vars == <<network, seat, epoch, view, tried, locked, held, decided, rejoin,
          restarts>>

Views == 0 .. MaxViews - 1
Epochs == 1 .. MaxEpoch
Idle == -1
Down == -2
NoRejoin == -1

NoLock == [view |-> -1, block |-> None]
NoBlock == [epoch |-> 0, block |-> None]
Unvalidated == [block |-> None, ok |-> FALSE]

Lock == [view : Views, block : Blocks] \cup {NoLock}
Attestation == [epoch : Epochs, view : Views, node : Seats, block : Blocks]
Change == [epoch : Epochs, view : Views, node : Seats, lock : Lock]
Proposal == [epoch : Epochs, view : Views, leader : Seats, block : Blocks,
             cert : SUBSET Change]

TypeOK ==
    /\ proposals \subseteq Proposal
    /\ attestations \subseteq Attestation
    /\ changes \subseteq Change
    /\ epoch \in [Seats -> 0 .. MaxEpoch]
    /\ view \in [Seats -> Views \cup {Idle, Down}]
    /\ tried \in [Seats -> SUBSET Seats]
    /\ locked \in [Seats -> Lock]
    /\ seen \in [Seats -> SUBSET Proposal]
    /\ validated \in [Seats -> [block : Blocks \cup {None}, ok : BOOLEAN]]
    /\ reacted \in [Seats -> BOOLEAN]
    /\ proposed \in [Seats -> BOOLEAN]
    /\ held \in [Seats -> SUBSET Blocks]
    /\ decided \in [Seats -> [epoch : Epochs, block : Blocks] \cup {NoBlock}]
    /\ rejoin \in [Seats -> Nat \cup {NoRejoin}]
    /\ restarts \in 0 .. MaxRestarts

-----------------------------------------------------------------------------
(* The rules of chain/viewchange.py.                                        *)

\* Mutant: no lock is found in any certificate.
LocksUnread(cert) == {c.lock : c \in cert} \cap {}

Locks(cert) == {c.lock : c \in cert} \ {NoLock}

\* Locks are ordered by view, and by block hash within a view.
AtMost(l, m) == l.view < m.view \/ (l.view = m.view /\ l.block <= m.block)

\* Mutant: any lock will do.
RequiresAny(cert, b) == \E m \in Locks(cert) : m.block = b

\* required_block() is b: the highest lock in the certificate is on b.
Requires(cert, b) ==
    \E m \in Locks(cert) : m.block = b /\ \A l \in Locks(cert) : AtMost(l, m)

\* ViewChangeCert.check: statements for this epoch and view, at most one of a
\* seat, from a quorum of SEATS (the validators given to check are all of
\* grid.seats, apprentices included).
CertChecks(cert, e, v) ==
    /\ \A c \in cert : c.epoch = e /\ c.view = v /\ c.node \in Seats
    /\ \A c, d \in cert : c.node = d.node => c = d
    /\ Cardinality({c.node : c \in cert}) >= Quorum

\* may_propose
MayPropose(cert, b, v) ==
    IF v = 0 THEN cert = {} ELSE Locks(cert) = {} \/ Requires(cert, b)

\* Seat.acceptable; the view is compared by the caller.
Acceptable(p) ==
    /\ p.view > 0 => CertChecks(p.cert, p.epoch, p.view)
    /\ MayPropose(p.cert, p.block, p.view)

\* Attestations for b that an envelope of this view may hold and that count:
\* add_attestation keeps an apprentice's as a shadow, out of every quorum.
Attested(e, v, b) ==
    {a.node : a \in {x \in attestations :
                       x.epoch = e /\ x.view = v /\ x.block = b}} \cap Attesters

-----------------------------------------------------------------------------
Init ==
    /\ proposals = {} /\ attestations = {} /\ changes = {}
    /\ epoch = [s \in Seats |-> 0]
    /\ view = [s \in Seats |-> Idle]
    /\ tried = [s \in Seats |-> {}]
    /\ locked = [s \in Seats |-> NoLock]
    /\ seen = [s \in Seats |-> {}]
    /\ validated = [s \in Seats |-> Unvalidated]
    /\ reacted = [s \in Seats |-> FALSE]
    /\ proposed = [s \in Seats |-> FALSE]
    /\ held = [s \in Seats |-> {}]
    /\ decided = [s \in Seats |-> NoBlock]
    /\ rejoin = [s \in Seats |-> NoRejoin]
    /\ restarts = 0

Undecided(s) == decided[s] = NoBlock
InView(s) == Undecided(s) /\ view[s] \in Views
Leader(s) == LeaderOf(epoch[s], view[s], tried[s])

\* A new Seat object: an empty envelope, and nothing reacted to or proposed.
FreshSeat(s) ==
    /\ seen' = [seen EXCEPT ![s] = {}]
    /\ validated' = [validated EXCEPT ![s] = Unvalidated]
    /\ reacted' = [reacted EXCEPT ![s] = FALSE]
    /\ proposed' = [proposed EXCEPT ![s] = FALSE]

\* _seat_view for view v of epoch e.  After view 0 the seat signs its move at
\* once, reporting its lock.  Grid.seat raises when every attester has been
\* tried, nothing in run catches it, and the process ends.
SeatView(s, e, v, triedNow, lock) ==
    /\ epoch' = [epoch EXCEPT ![s] = e]
    /\ tried' = [tried EXCEPT ![s] = triedNow]
    /\ locked' = [locked EXCEPT ![s] = lock]
    /\ FreshSeat(s)
    /\ IF Attesters \ triedNow # {}
       THEN /\ view' = [view EXCEPT ![s] = v]
            /\ changes' = IF v = 0 THEN changes
                          ELSE changes \cup {[epoch |-> e, view |-> v,
                                              node |-> s, lock |-> lock]}
       ELSE view' = [view EXCEPT ![s] = Down] /\ UNCHANGED changes
    /\ rejoin' = [rejoin EXCEPT ![s] = NoRejoin]
    /\ UNCHANGED <<proposals, attestations, held, decided, restarts>>

\* _views reaches view w after `from`: the loop passes over the views whose
\* slice has already ended, never the last one, and forgets their leaders.
Reaches(s, from, w) ==
    /\ w \in from + 1 .. MaxViews - 1
    /\ w > from + 1 => s \in Late

\* The view an epoch is entered at.  The clock gives a new process the epoch that
\* runs, at whatever time it is up: the views over by then are passed over, and
\* their leaders are not among the tried ones.
Enters(s, e, w) ==
    IF rejoin[s] = NoRejoin THEN Reaches(s, -1, w)
    ELSE e = epoch[s] + 1 => w >= rejoin[s]

\* wait_for_next_epoch and run_epoch: a later epoch begins, with no lock and
\* nobody tried.  A seat that was busy when epochs started has missed those.
StartEpoch(s) ==
    /\ Undecided(s) /\ view[s] = Idle
    /\ \E e \in epoch[s] + 1 .. MaxEpoch, w \in Views :
         Enters(s, e, w) /\ SeatView(s, e, w, {}, NoLock)

\* Mutants: the lock is left behind, or the failed leader is.
NextViewUnlocked(s) ==
    InView(s) /\ \E w \in Views :
        Reaches(s, view[s], w) /\
        SeatView(s, epoch[s], w, tried[s] \cup {Leader(s)}, NoLock)
NextViewSameLeaders(s) ==
    InView(s) /\ \E w \in Views :
        Reaches(s, view[s], w) /\ SeatView(s, epoch[s], w, tried[s], locked[s])

\* The view's deadline passes without a block.
NextView(s) ==
    /\ InView(s)
    /\ \E w \in Views :
         /\ Reaches(s, view[s], w)
         /\ SeatView(s, epoch[s], w, tried[s] \cup {Leader(s)}, locked[s])

\* The last view's deadline passes: the epoch produced nothing here, and the
\* lock, a local of _views, is gone with it.
EndEpoch(s) ==
    /\ InView(s) /\ view[s] = MaxViews - 1
    /\ view' = [view EXCEPT ![s] = Idle]
    /\ tried' = [tried EXCEPT ![s] = {}]
    /\ locked' = [locked EXCEPT ![s] = NoLock]
    /\ FreshSeat(s)
    /\ UNCHANGED <<network, epoch, held, decided, rejoin, restarts>>

\* Seat.view_cert: a quorum of the view changes that have arrived, the lowest
\* node ids among them.  The seat's own statement is always there.
ViewCert(s, cert) ==
    \E got \in SUBSET {c \in changes : c.epoch = epoch[s] /\ c.view = view[s]} :
        /\ \E c \in got : c.node = s
        /\ \A c, d \in got : c.node = d.node => c = d
        /\ cert \subseteq got
        /\ Cardinality({c.node : c \in cert}) = Quorum
        /\ \A c \in cert, d \in got \ cert : c.node < d.node

\* Seat.adopt: sign block b for this view, and hold it.
Adopt(s, b, cert) ==
    LET p == [epoch |-> epoch[s], view |-> view[s], leader |-> s,
              block |-> b, cert |-> cert]
    IN  /\ proposals' = proposals \cup {p}
        /\ seen' = [seen EXCEPT ![s] = @ \cup {p}]
        /\ held' = [held EXCEPT ![s] = @ \cup {b}]

\* propose_now and _propose.  View 0 builds a new block; a later view waits
\* for its certificate and then carries the required block, if there is one.
\* A leader that does not hold the required body gives the view up.
Propose(s) ==
    /\ InView(s) /\ Leader(s) = s /\ s \notin Silent /\ ~proposed[s]
    /\ proposed' = [proposed EXCEPT ![s] = TRUE]
    /\ \E cert \in SUBSET {c \in changes : c.epoch = epoch[s]
                                          /\ c.view = view[s]} :
         /\ IF view[s] = 0 THEN cert = {} ELSE ViewCert(s, cert)
         /\ \/ /\ Locks(cert) = {}
               /\ \E b \in Blocks : /\ \A p \in proposals : p.block # b
                                    /\ Adopt(s, b, cert)
            \/ \E b \in held[s] : Requires(cert, b) /\ Adopt(s, b, cert)
            \/ /\ \E b \in Blocks \ held[s] : Requires(cert, b)
               /\ UNCHANGED <<proposals, seen, held>>
    /\ UNCHANGED <<attestations, changes, epoch, view, tried, locked,
                   validated, reacted, decided, rejoin, restarts>>

\* A proposal of this seat's view, by the leader this seat's grid has, header
\* and body: _take_header, offer_block and add_proposal.
TakeProposal(s) ==
    /\ InView(s)
    /\ \E p \in proposals :
         /\ p.epoch = epoch[s] /\ p.view = view[s] /\ p.leader = Leader(s)
         /\ \A q \in seen[s] : q.block # p.block
         /\ seen' = [seen EXCEPT ![s] = @ \cup {p}]
         /\ held' = [held EXCEPT ![s] = @ \cup {p.block}]
    /\ UNCHANGED <<network, epoch, view, tried, locked, validated, reacted,
                   proposed, decided, rejoin, restarts>>

\* A body of this epoch arrives: _handle keeps it whether or not a header
\* is waiting for it.
TakeBody(s) ==
    /\ Undecided(s) /\ epoch[s] > 0 /\ view[s] # Down
    /\ \E p \in proposals :
         /\ p.epoch = epoch[s] /\ p.block \notin held[s]
         /\ held' = [held EXCEPT ![s] = @ \cup {p.block}]
    /\ UNCHANGED <<network, seat, epoch, view, tried, locked, decided, rejoin,
                   restarts>>

\* Seat.react, first half: two proposals of one leader are reported.
ReactToEquivocation(s) ==
    /\ InView(s) /\ ~reacted[s] /\ Cardinality(seen[s]) > 1
    /\ reacted' = [reacted EXCEPT ![s] = TRUE]
    /\ UNCHANGED <<network, seen, validated, proposed, epoch, view, tried,
                   locked, held, decided, rejoin, restarts>>

\* Mutant: nobody looks at the block.
ValidatesUnread(s, b) == TRUE

\* workload.validate, which a lazy seat does not call.
Validates(s, b) == s \in Lazy \/ b \notin BadBlocks

\* Seat.react, second half: lock the sole proposal and attest to it, or report
\* it as invalid.  A lazy seat does not look.
React(s) ==
    /\ InView(s) /\ ~reacted[s] /\ validated[s] = Unvalidated
    /\ \E p \in seen[s] :
         /\ seen[s] = {p}
         /\ Acceptable(p)
         /\ LET ok == Validates(s, p.block)
            IN  /\ validated' = [validated EXCEPT
                                   ![s] = [block |-> p.block, ok |-> ok]]
                /\ reacted' = [reacted EXCEPT ![s] = ~ok]
                /\ IF ok
                   THEN /\ locked' = [locked EXCEPT
                               ![s] = [view |-> view[s], block |-> p.block]]
                        /\ attestations' = attestations \cup
                               {[epoch |-> epoch[s], view |-> view[s],
                                 node |-> s, block |-> p.block]}
                   ELSE UNCHANGED <<locked, attestations>>
    /\ UNCHANGED <<proposals, changes, seen, proposed, epoch, view, tried,
                   held, decided, rejoin, restarts>>

\* Seat.accepted: the block this seat validated has a quorum of attestations.
\* run_epoch applies it, and the seat is done with this height.
Accept(s) ==
    /\ InView(s) /\ validated[s].ok
    /\ \E p \in seen[s] :
         /\ seen[s] = {p}
         /\ Cardinality(Attested(epoch[s], view[s], p.block)) >= Quorum
         /\ decided' = [decided EXCEPT
                          ![s] = [epoch |-> epoch[s], block |-> p.block]]
    /\ UNCHANGED <<network, seat, epoch, view, tried, locked, held, rejoin,
                   restarts>>

\* _catch_up, between ceremonies: a finalised block and its certificate are
\* fetched from a peer that has applied it, and validated, by lazy seats too.
CatchUp(s) ==
    /\ Undecided(s) /\ view[s] = Idle
    /\ \E t \in Seats : /\ ~Undecided(t) /\ decided[t].block \notin BadBlocks
                        /\ decided' = [decided EXCEPT ![s] = decided[t]]
    /\ UNCHANGED <<network, seat, epoch, view, tried, locked, held, rejoin,
                   restarts>>

\* The process ends, and a new one starts before the epoch is over: in the view
\* the old one was in, a later one, or, between ceremonies, the last, which is
\* never passed over.  What died of its leaders had entered as many views.
Restart(s) ==
    /\ s \in Restartable /\ restarts < MaxRestarts
    /\ Undecided(s) /\ epoch[s] > 0 /\ rejoin[s] = NoRejoin
    /\ restarts' = restarts + 1
    /\ rejoin' = [rejoin EXCEPT ![s] =
                    IF view[s] \in Views THEN view[s]
                    ELSE IF view[s] = Idle THEN MaxViews - 1
                    ELSE Cardinality(tried[s])]
    /\ epoch' = [epoch EXCEPT ![s] = @ - 1]
    /\ view' = [view EXCEPT ![s] = Idle]
    /\ tried' = [tried EXCEPT ![s] = {}]
    /\ locked' = [locked EXCEPT ![s] = NoLock]
    /\ held' = [held EXCEPT ![s] = {}]
    /\ FreshSeat(s)
    /\ UNCHANGED <<network, decided>>

Next ==
    \E s \in Seats :
        \/ StartEpoch(s) \/ NextView(s) \/ EndEpoch(s)
        \/ Propose(s) \/ TakeProposal(s) \/ TakeBody(s)
        \/ ReactToEquivocation(s) \/ React(s) \/ Accept(s)
        \/ CatchUp(s) \/ Restart(s)

Spec == Init /\ [][Next]_vars

-----------------------------------------------------------------------------
\* A quorum of attesters has signed b in view v of epoch e.
Certified(e, v, b) == Cardinality(Attested(e, v, b)) >= Quorum

CertifiedIn(e) == {b \in Blocks : \E v \in Views : Certified(e, v, b)}

\* docs/view_change_design.md 2: whatever seats time out of whatever views and
\* whatever message is late, one epoch never certifies two blocks, so no two
\* seats that finish this height in the same epoch finish it differently.
OneBlockPerEpoch == \A e \in Epochs : Cardinality(CertifiedIn(e)) <= 1

\* The same promise across epochs: the height has one block.
OneBlockPerHeight ==
    \A s, t \in Seats :
        Undecided(s) \/ Undecided(t) \/ decided[s].block = decided[t].block

\* 2.4 of the design: once a block is certified in a view, no leader of a
\* later view of that epoch, whatever quorum of view changes it collected, has
\* proposed another.
CertifiedIsCarried ==
    \A p \in proposals, e \in Epochs, v \in Views, b \in Blocks :
        (p.epoch = e /\ p.view > v /\ Certified(e, v, b)) => p.block = b

\* A block a seat has finished with carries a certificate a peer can check.
DecidedIsCertified ==
    \A s \in Seats : ~Undecided(s) =>
        decided[s].block \in CertifiedIn(decided[s].epoch)

\* While the lazy attesters are short of a quorum, a block that does not
\* validate is never finalised, whoever carried it forward.
DecidedIsValid ==
    Cardinality(Lazy \cap Attesters) < Quorum =>
        \A s \in Seats : decided[s].block \notin BadBlocks

\* A seat's statement about its lock never hides a later vote: what a
\* ViewChange reports is at least as high as every earlier attestation of its
\* author in that epoch.
ChangeTellsTheLock ==
    \A c \in changes, a \in attestations :
        (a.node = c.node /\ a.epoch = c.epoch /\ a.view < c.view)
            => a.view <= c.lock.view

\* Two signed statements of one seat that no seat following the rules, and never
\* restarted, makes: two proposals or two attestations in one view, or a view
\* change that hides an earlier attestation.
Contradicts(s, e) ==
    \/ \E p, q \in proposals :
         p # q /\ p.leader = s /\ q.leader = s
               /\ p.epoch = e /\ q.epoch = e /\ p.view = q.view
    \/ \E a, b \in attestations :
         a # b /\ a.node = s /\ b.node = s
               /\ a.epoch = e /\ b.epoch = e /\ a.view = b.view
    \/ \E a \in attestations, c \in changes :
         a.node = s /\ c.node = s /\ a.epoch = e /\ c.epoch = e
               /\ c.lock.view < a.view /\ a.view < c.view

\* Two seats have proposed in one view of an epoch: they had seen other leaders fail.
TwoLed(e) ==
    \E p, q \in proposals : /\ p.epoch = e /\ q.epoch = e /\ p.view = q.view
                           /\ p.leader # q.leader

\* When an epoch does certify two blocks, what has been signed convicts a seat:
\* statements are signed "so equivocation leaves evidence" (chain/block.py).
ForkLeavesEvidence ==
    \A e \in Epochs : Cardinality(CertifiedIn(e)) > 1 =>
        \E s \in Seats : Contradicts(s, e)

\* What holds of that with seats that skip views: two certified blocks convict a
\* seat, or show two seats that led one view.
ForkLeavesTraces ==
    \A e \in Epochs : Cardinality(CertifiedIn(e)) > 1 =>
        TwoLed(e) \/ \E s \in Seats : Contradicts(s, e)

\* What seats that sign anything and processes that forget can bring about: neither a
\* block that is not valid, nor two that leave no trace of what went wrong.
FaultsAreContained == DecidedIsValid /\ ForkLeavesTraces

\* The process never dies of having tried every attester as leader.
NobodyDies == \A s \in Seats : view[s] # Down

=============================================================================
