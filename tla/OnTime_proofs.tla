---------------------------- MODULE OnTime_proofs ----------------------------
(***************************************************************************)
(* Proofs about Faults and OnTime, in this order.  Faults: the types, the    *)
(* view loop of a seat, what each kind of signed statement was made from,    *)
(* and that faulty seats are contained: nothing invalid is finalised, and    *)
(* two certified blocks convict a seat or show two leaders of one view.      *)
(* OnTime: the invariant IInv is inductive, and with it one epoch certifies  *)
(* one block, a certified block is carried into every later view, and every  *)
(* epoch implements HeightDecision.                                          *)
(***************************************************************************)
EXTENDS OnTime, Selection_proofs, FiniteSetTheorems, TLAPS

USE SeatsAssumption, BlocksAssumption, NumbersAssumption

-----------------------------------------------------------------------------
(* Facts about the definitions.                                             *)

\* Two quorums of seats share a seat.
LEMMA QuorumsMeet ==
    ASSUME NEW P \in SUBSET Seats, NEW Q \in SUBSET Seats,
           Cardinality(P) >= Quorum, Cardinality(Q) >= Quorum
    PROVE  P \cap Q # {}
<1> SUFFICES ASSUME P \cap Q = {} PROVE FALSE
    OBVIOUS
<1>1. IsFiniteSet(P) /\ IsFiniteSet(Q) /\ IsFiniteSet(P \cup Q)
    BY FS_Subset
<1>2. Cardinality(P \cup Q) = Cardinality(P) + Cardinality(Q)
    <2>1. Cardinality(P \cup Q)
            = Cardinality(P) + Cardinality(Q) - Cardinality(P \cap Q)
        BY <1>1, FS_Union
    <2>2. Cardinality(P \cap Q) = 0
        BY FS_EmptySet
    <2>3. Cardinality(P) \in Nat /\ Cardinality(Q) \in Nat
        BY <1>1, FS_CardinalityType
    <2> QED
        BY <2>1, <2>2, <2>3
<1>3. Cardinality(P \cup Q) <= Cardinality(Seats)
    BY FS_Subset
<1>4. /\ Cardinality(P) \in Nat /\ Cardinality(Q) \in Nat
      /\ Cardinality(Seats) \in Nat
    BY <1>1, FS_CardinalityType
<1> QED
    BY <1>2, <1>3, <1>4, OverlapAssumption

LEMMA LockTypes ==
    /\ NoLock \in Lock
    /\ \A v \in Views, b \in Blocks :
         /\ [view |-> v, block |-> b] \in Lock
         /\ [view |-> v, block |-> b] # NoLock
    /\ \A l \in Lock : l # NoLock => l.view \in Views /\ l.block \in Blocks
    /\ \A l \in Lock : l.view \in Int
    /\ \A l \in Lock : l.view < 0 <=> l = NoLock
BY DEF Lock, NoLock, Views

-----------------------------------------------------------------------------
(* Type correctness.                                                        *)

LEMMA TypeInit == Init => TypeOK
BY LockTypes DEF Init, TypeOK, NoBlock, Unvalidated

LEMMA ClockTypes ==
    ASSUME TypeOK, NEW s \in Seats
    PROVE  epoch[s] \in Int /\ view[s] \in Int /\ view[s] \in Views \cup {Idle, Down}
BY DEF TypeOK, Views, Idle, Down

LEMMA SignedTypes ==
    ASSUME TypeOK
    PROVE  /\ \A a \in attestations :
                /\ a.node \in Seats /\ a.epoch \in Epochs /\ a.view \in Views
                /\ a.epoch \in Int /\ a.view \in Int /\ a.block \in Blocks
           /\ \A c \in changes :
                /\ c.node \in Seats /\ c.epoch \in Epochs /\ c.view \in Views
                /\ c.epoch \in Int /\ c.view \in Int /\ c.lock \in Lock
           /\ \A p \in proposals :
                /\ p.leader \in Seats /\ p.epoch \in Epochs /\ p.view \in Views
                /\ p.epoch \in Int /\ p.view \in Int /\ p.block \in Blocks
                /\ p.cert \subseteq Change
<1>1. attestations \subseteq Attestation /\ changes \subseteq Change
      /\ proposals \subseteq Proposal
    BY DEF TypeOK
<1>2. \A e \in Epochs : e \in Int
    BY DEF Epochs
<1>3. \A v \in Views : v \in Int
    BY DEF Views
<1> QED
    BY <1>1, <1>2, <1>3 DEF Attestation, Change, Proposal

LEMMA SeatViewType ==
    ASSUME TypeOK, NEW s \in Seats, NEW e \in Epochs, NEW v \in Views,
           NEW T \in SUBSET Seats, NEW l \in Lock, SeatView(s, e, v, T, l)
    PROVE  TypeOK'
<1>1. changes' \subseteq Change
    <2>1. [epoch |-> e, view |-> v, node |-> s, lock |-> l] \in Change
        BY DEF Change
    <2> QED
        BY <2>1 DEF SeatView, TypeOK
<1>2. /\ epoch' \in [Seats -> 0 .. MaxEpoch]
      /\ view' \in [Seats -> Views \cup {Idle, Down}]
      /\ tried' \in [Seats -> SUBSET Seats]
      /\ locked' \in [Seats -> Lock]
    BY DEF SeatView, TypeOK, Epochs
<1>3. /\ seen' \in [Seats -> SUBSET Proposal]
      /\ validated' \in [Seats -> [block : Blocks \cup {None}, ok : BOOLEAN]]
      /\ reacted' \in [Seats -> BOOLEAN]
      /\ proposed' \in [Seats -> BOOLEAN]
    BY DEF SeatView, FreshSeat, TypeOK, Unvalidated
<1>4. rejoin' \in [Seats -> Nat \cup {NoRejoin}]
    BY DEF SeatView, TypeOK
<1> QED
    BY <1>1, <1>2, <1>3, <1>4 DEF SeatView, TypeOK

\* A seat in a view of an epoch has a leader, one of the attesters.
LEMMA LeaderSeated ==
    ASSUME TypeOK, SeatInv, NEW s \in Seats, view[s] \in Views
    PROVE  /\ epoch[s] \in Epochs /\ view[s] \in Int /\ view[s] >= 0
           /\ Leader(s) \in Seats
<1>1. epoch[s] \in Epochs /\ Attesters \ tried[s] # {}
    BY DEF SeatInv, SeatOK
<1>2. tried[s] \in SUBSET Seats
    BY DEF TypeOK
<1>3. LeaderOf(epoch[s], view[s], tried[s]) \in Seats
    BY <1>1, <1>2, LeaderAssumption
<1> QED
    BY <1>1, <1>3 DEF Leader, Views

LEMMA TypeNext == TypeOK /\ SeatInv /\ [Next]_vars => TypeOK'
<1> SUFFICES ASSUME TypeOK, SeatInv, [Next]_vars PROVE TypeOK'
    OBVIOUS
<1>1. CASE UNCHANGED vars
    BY <1>1 DEF vars, network, seat, TypeOK
<1>2. ASSUME NEW s \in Seats, StartEpoch(s) PROVE TypeOK'
    <2>1. PICK e \in epoch[s] + 1 .. MaxEpoch, w \in Views :
            SeatView(s, e, w, {}, NoLock)
        BY <1>2 DEF StartEpoch
    <2>2. e \in Epochs
        BY NumbersAssumption DEF TypeOK, Epochs
    <2> QED
        BY <2>1, <2>2, LockTypes, SeatViewType
<1>3. ASSUME NEW s \in Seats, NextView(s) PROVE TypeOK'
    <2>1. epoch[s] \in Epochs /\ Leader(s) \in Seats
        BY <1>3, LeaderSeated DEF NextView, InView
    <2>2. tried[s] \cup {Leader(s)} \in SUBSET Seats /\ locked[s] \in Lock
        BY <2>1 DEF TypeOK
    <2>3. PICK w \in Views :
            SeatView(s, epoch[s], w, tried[s] \cup {Leader(s)}, locked[s])
        BY <1>3 DEF NextView
    <2> QED
        BY <2>1, <2>2, <2>3, SeatViewType
<1>4. ASSUME NEW s \in Seats, EndEpoch(s) PROVE TypeOK'
    BY <1>4, LockTypes
    DEF EndEpoch, FreshSeat, network, TypeOK, Unvalidated
<1>5. ASSUME NEW s \in Seats, Propose(s) PROVE TypeOK'
    <2>1. ASSUME NEW b \in Blocks, NEW cert \in SUBSET changes,
                 Adopt(s, b, cert)
          PROVE  /\ proposals' \subseteq Proposal
                 /\ seen' \in [Seats -> SUBSET Proposal]
                 /\ held' \in [Seats -> SUBSET Blocks]
        <3>1. epoch[s] \in Epochs /\ view[s] \in Views
            BY <1>5, LeaderSeated DEF Propose, InView
        <3>2. [epoch |-> epoch[s], view |-> view[s], leader |-> s,
               block |-> b, cert |-> cert] \in Proposal
            BY <3>1 DEF Proposal, TypeOK
        <3> QED
            BY <2>1, <3>2 DEF Adopt, TypeOK
    <2>2. /\ proposals' \subseteq Proposal
          /\ seen' \in [Seats -> SUBSET Proposal]
          /\ held' \in [Seats -> SUBSET Blocks]
        BY <1>5, <2>1 DEF Propose, TypeOK
    <2> QED
        BY <1>5, <2>2 DEF Propose, TypeOK
<1>6. ASSUME NEW s \in Seats, TakeProposal(s) PROVE TypeOK'
    <2>1. ASSUME NEW p \in Proposal PROVE p.block \in Blocks
        BY <2>1 DEF Proposal
    <2> QED
        BY <1>6, <2>1 DEF TakeProposal, network, TypeOK
<1>7. ASSUME NEW s \in Seats, TakeBody(s) PROVE TypeOK'
    <2>1. ASSUME NEW p \in Proposal PROVE p.block \in Blocks
        BY <2>1 DEF Proposal
    <2> QED
        BY <1>7, <2>1 DEF TakeBody, network, seat, TypeOK
<1>8. ASSUME NEW s \in Seats, ReactToEquivocation(s) PROVE TypeOK'
    BY <1>8 DEF ReactToEquivocation, network, TypeOK
<1>9. ASSUME NEW s \in Seats, React(s) PROVE TypeOK'
    <2>1. PICK p \in seen[s] :
            LET ok == Validates(s, p.block)
            IN  /\ validated' = [validated EXCEPT
                                   ![s] = [block |-> p.block, ok |-> ok]]
                /\ reacted' = [reacted EXCEPT ![s] = ~ok]
                /\ IF ok
                   THEN /\ locked' = [locked EXCEPT
                               ![s] = [view |-> view[s], block |-> p.block]]
                        /\ attestations' = attestations \cup
                               {[epoch |-> epoch[s], view |-> view[s],
                                 node |-> s, block |-> p.block]}
                   ELSE UNCHANGED <<locked, attestations>>
        BY <1>9 DEF React
    <2>2. epoch[s] \in Epochs /\ view[s] \in Views
        BY <1>9, LeaderSeated DEF React, InView
    <2>3. p.block \in Blocks
        BY DEF TypeOK, Proposal
    <2>4. [view |-> view[s], block |-> p.block] \in Lock
        BY <2>2, <2>3, LockTypes
    <2>5. locked' \in [Seats -> Lock]
        BY <2>1, <2>4 DEF TypeOK
    <2>6. attestations' \subseteq Attestation
        BY <2>1, <2>2, <2>3 DEF TypeOK, Attestation
    <2>7. /\ validated' \in [Seats -> [block : Blocks \cup {None}, ok : BOOLEAN]]
          /\ reacted' \in [Seats -> BOOLEAN]
        BY <2>1, <2>3 DEF TypeOK, Validates
    <2> QED
        BY <1>9, <2>5, <2>6, <2>7 DEF React, TypeOK
<1>10. ASSUME NEW s \in Seats, Accept(s) PROVE TypeOK'
    <2>1. epoch[s] \in Epochs
        BY <1>10, LeaderSeated DEF Accept, InView
    <2>2. ASSUME NEW p \in seen[s] PROVE p.block \in Blocks
        BY <2>2 DEF TypeOK, Proposal
    <2>3. decided' \in [Seats -> [epoch : Epochs, block : Blocks] \cup {NoBlock}]
        BY <1>10, <2>1, <2>2 DEF Accept, TypeOK
    <2> QED
        BY <1>10, <2>3 DEF Accept, network, seat, TypeOK
<1>11. ASSUME NEW s \in Seats, CatchUp(s) PROVE TypeOK'
    BY <1>11 DEF CatchUp, network, seat, TypeOK
<1>12. ASSUME NEW s \in Seats, Restart(s) PROVE TypeOK'
    <2>1. restarts + 1 \in 0 .. MaxRestarts /\ epoch[s] - 1 \in 0 .. MaxEpoch
        BY <1>12 DEF Restart, TypeOK
    <2>2. /\ epoch' \in [Seats -> 0 .. MaxEpoch]
          /\ view' \in [Seats -> Views \cup {Idle, Down}]
          /\ tried' \in [Seats -> SUBSET Seats]
          /\ locked' \in [Seats -> Lock] /\ held' \in [Seats -> SUBSET Blocks]
        BY <1>12, <2>1, LockTypes DEF Restart, TypeOK
    <2>3. rejoin' \in [Seats -> Nat \cup {NoRejoin}]
        <3>1. Cardinality(tried[s]) \in Nat
            BY FS_Subset, FS_CardinalityType DEF TypeOK
        <3>2. \A v \in Views : v \in Nat
            BY DEF Views
        <3>3. MaxViews - 1 \in Nat
            BY NumbersAssumption
        <3> QED
            BY <1>12, <3>1, <3>2, <3>3 DEF Restart, TypeOK
    <2> QED
        BY <1>12, <2>1, <2>2, <2>3 DEF Restart, FreshSeat, network, TypeOK, Unvalidated
<1> QED
    BY <1>1, <1>2, <1>3, <1>4, <1>5, <1>6, <1>7, <1>8, <1>9, <1>10, <1>11,
       <1>12 DEF Next

-----------------------------------------------------------------------------
\* Nothing signed is unsigned.
LEMMA Grows ==
    ASSUME [Next]_vars
    PROVE  /\ proposals \subseteq proposals'
           /\ attestations \subseteq attestations'
           /\ changes \subseteq changes'
<1>1. ASSUME NEW s \in Seats, StartEpoch(s) \/ NextView(s)
      PROVE /\ proposals' = proposals /\ attestations' = attestations
            /\ changes \subseteq changes'
    BY <1>1 DEF StartEpoch, NextView, SeatView
<1>2. ASSUME NEW s \in Seats, Propose(s)
      PROVE /\ proposals \subseteq proposals'
            /\ attestations' = attestations /\ changes' = changes
    BY <1>2 DEF Propose, Adopt
<1>3. ASSUME NEW s \in Seats, React(s)
      PROVE /\ attestations \subseteq attestations'
            /\ proposals' = proposals /\ changes' = changes
    BY <1>3 DEF React
<1>4. ASSUME NEW s \in Seats,
             \/ EndEpoch(s) \/ TakeProposal(s) \/ TakeBody(s)
             \/ ReactToEquivocation(s) \/ Accept(s) \/ CatchUp(s) \/ Restart(s)
      PROVE UNCHANGED <<proposals, attestations, changes>>
    BY <1>4 DEF EndEpoch, TakeProposal, TakeBody, ReactToEquivocation, Accept,
                CatchUp, Restart, network
<1> QED
    BY <1>1, <1>2, <1>3, <1>4 DEF Next, vars, network

\* A new attestation is React's: by a seat in that view, for a proposal of that
\* view it holds, the first it makes there, and it locks what it signs.
LEMMA NewAttestation ==
    ASSUME TypeOK, SeatInv, [Next]_vars,
           NEW a \in attestations', a \notin attestations
    PROVE  /\ a.node \in Seats /\ At(a.node, a.epoch, a.view)
           /\ a.epoch \in Epochs /\ a.view \in Views /\ a.block \in Blocks
           /\ attestations' = attestations \cup {a}
           /\ validated[a.node] = Unvalidated
           /\ validated'[a.node] = [block |-> a.block, ok |-> TRUE]
           /\ locked' = [locked EXCEPT
                            ![a.node] = [view |-> a.view, block |-> a.block]]
           /\ \E p \in seen[a.node] : p.block = a.block
           /\ UNCHANGED <<proposals, changes, epoch, view, seen, proposed,
                          tried, decided>>
<1>1. PICK s \in Seats : React(s)
    <2>1. ASSUME NEW s \in Seats, StartEpoch(s) \/ NextView(s) PROVE FALSE
        BY <2>1 DEF StartEpoch, NextView, SeatView
    <2>2. ASSUME NEW s \in Seats,
                 \/ Propose(s) \/ EndEpoch(s) \/ TakeProposal(s) \/ TakeBody(s)
                 \/ ReactToEquivocation(s) \/ Accept(s) \/ CatchUp(s)
                 \/ Restart(s)
          PROVE FALSE
        BY <2>2 DEF Propose, EndEpoch, TakeProposal, TakeBody,
                    ReactToEquivocation, Accept, CatchUp, Restart, network
    <2> QED
        BY <2>1, <2>2 DEF Next, vars, network
<1>2. PICK p \in seen[s] :
        LET ok == Validates(s, p.block)
        IN  /\ validated' = [validated EXCEPT
                               ![s] = [block |-> p.block, ok |-> ok]]
            /\ IF ok
               THEN /\ locked' = [locked EXCEPT
                           ![s] = [view |-> view[s], block |-> p.block]]
                    /\ attestations' = attestations \cup
                           {[epoch |-> epoch[s], view |-> view[s],
                             node |-> s, block |-> p.block]}
               ELSE UNCHANGED <<locked, attestations>>
    BY <1>1 DEF React
<1>3. Validates(s, p.block)
    BY <1>2
<1>4. a = [epoch |-> epoch[s], view |-> view[s], node |-> s, block |-> p.block]
    BY <1>2, <1>3
<1>5. epoch[s] \in Epochs /\ view[s] \in Views
    BY <1>1, LeaderSeated DEF React, InView
<1>6. p.block \in Blocks
    BY DEF TypeOK, Proposal
<1>7. validated[s] = Unvalidated /\ validated \in [Seats ->
            [block : Blocks \cup {None}, ok : BOOLEAN]]
    BY <1>1 DEF React, TypeOK
<1> QED
    BY <1>1, <1>2, <1>3, <1>4, <1>5, <1>6, <1>7 DEF React, At

-----------------------------------------------------------------------------
(* SeatInv.                                                                 *)

LEMMA SeatFrame ==
    ASSUME NEW s \in Seats, SeatOK(s), [Next]_vars,
           /\ epoch'[s] = epoch[s] /\ view'[s] = view[s] /\ tried'[s] = tried[s]
           /\ seen'[s] = seen[s] /\ validated'[s] = validated[s]
           /\ locked'[s] = locked[s]
    PROVE  SeatOK(s)'
BY Grows DEF SeatOK, At

LEMMA EnterView ==
    ASSUME TypeOK, SeatInv, [Next]_vars,
           NEW t \in Seats, NEW e \in Epochs, NEW w \in Views, NEW l \in Lock,
           NEW T, SeatView(t, e, w, T, l),
           l # NoLock =>
             /\ l.view <= w
             /\ [epoch |-> e, view |-> l.view, node |-> t, block |-> l.block]
                  \in attestations
    PROVE  SeatInv'
<1> SUFFICES ASSUME NEW s \in Seats PROVE SeatOK(s)'
    BY DEF SeatInv
<1>1. CASE s = t
    <2>1. /\ epoch'[t] = e /\ tried'[t] = T /\ locked'[t] = l
          /\ seen'[t] = {} /\ validated'[t] = Unvalidated
        BY DEF SeatView, FreshSeat, TypeOK
    <2>2. \/ view'[t] = w /\ Attesters \ T # {}
          \/ view'[t] = Down /\ Attesters \ T = {}
        BY DEF SeatView, TypeOK
    <2> QED
        BY <1>1, <2>1, <2>2, Grows DEF SeatOK, Unvalidated, Views, Down
<1>2. CASE s # t
    <2>1. /\ epoch'[s] = epoch[s] /\ view'[s] = view[s] /\ tried'[s] = tried[s]
          /\ seen'[s] = seen[s] /\ validated'[s] = validated[s]
          /\ locked'[s] = locked[s]
        BY <1>2 DEF SeatView, FreshSeat, TypeOK
    <2> QED
        BY <2>1, SeatFrame DEF SeatInv
<1> QED
    BY <1>1, <1>2

LEMMA SeatInvNext == TypeOK /\ SeatInv /\ [Next]_vars => SeatInv'
<1> SUFFICES ASSUME TypeOK, SeatInv, [Next]_vars PROVE SeatInv'
    OBVIOUS
<1>1. ASSUME UNCHANGED <<epoch, view, tried, seen, validated, locked>>
      PROVE  SeatInv'
    BY <1>1, SeatFrame DEF SeatInv
<1>2. ASSUME NEW t \in Seats, StartEpoch(t) PROVE SeatInv'
    <2>1. PICK e \in epoch[t] + 1 .. MaxEpoch, w \in Views :
            SeatView(t, e, w, {}, NoLock)
        BY <1>2 DEF StartEpoch
    <2>2. e \in Epochs
        BY NumbersAssumption DEF TypeOK, Epochs
    <2> QED
        BY <2>1, <2>2, LockTypes, EnterView
<1>3. ASSUME NEW t \in Seats, NextView(t) PROVE SeatInv'
    <2>1. PICK w \in Views : /\ Reaches(t, view[t], w)
                             /\ SeatView(t, epoch[t], w,
                                         tried[t] \cup {Leader(t)}, locked[t])
        BY <1>3 DEF NextView
    <2>2. view[t] \in Views /\ w > view[t]
        BY <1>3, <2>1 DEF NextView, InView, Reaches, Views
    <2>3. epoch[t] \in Epochs
        BY <2>2, LeaderSeated
    <2>4. locked[t] \in Lock
        BY DEF TypeOK
    <2>5. locked[t] # NoLock =>
            /\ locked[t].view <= w
            /\ [epoch |-> epoch[t], view |-> locked[t].view, node |-> t,
                block |-> locked[t].block] \in attestations
        <3>1. /\ SeatOK(t) /\ view[t] \in Int /\ w \in Int
            BY <2>2 DEF SeatInv, Views
        <3>2. locked[t].view \in Int
            BY <2>4, LockTypes
        <3> QED
            BY <2>2, <3>1, <3>2 DEF SeatOK
    <2> QED
        BY <2>1, <2>3, <2>4, <2>5, EnterView
<1>4. ASSUME NEW t \in Seats, EndEpoch(t) PROVE SeatInv'
    <2> SUFFICES ASSUME NEW s \in Seats PROVE SeatOK(s)'
        BY DEF SeatInv
    <2>1. CASE s = t
        BY <1>4, <2>1 DEF EndEpoch, FreshSeat, TypeOK, SeatOK, Unvalidated,
                          Views, Idle
    <2>2. CASE s # t
        BY <1>4, <2>2, SeatFrame DEF EndEpoch, FreshSeat, TypeOK, SeatInv
    <2> QED
        BY <2>1, <2>2
<1>5. ASSUME NEW t \in Seats, Propose(t) PROVE SeatInv'
    <2> SUFFICES ASSUME NEW s \in Seats PROVE SeatOK(s)'
        BY DEF SeatInv
    <2>1. UNCHANGED <<epoch, view, tried, validated, locked, attestations>>
        BY <1>5 DEF Propose
    <2>2. \/ UNCHANGED <<proposals, seen>>
          \/ \E b, cert : Adopt(t, b, cert)
        BY <1>5 DEF Propose
    <2>3. CASE UNCHANGED <<proposals, seen>>
        BY <2>1, <2>3, SeatFrame DEF SeatInv
    <2>4. ASSUME NEW b, NEW cert, Adopt(t, b, cert) PROVE SeatOK(s)'
        <3> DEFINE p == [epoch |-> epoch[t], view |-> view[t], leader |-> t,
                         block |-> b, cert |-> cert]
        <3>1. /\ proposals' = proposals \cup {p}
              /\ seen' = [seen EXCEPT ![t] = @ \cup {p}]
            BY <2>4 DEF Adopt
        <3>2. SeatOK(s)
            BY DEF SeatInv
        <3>3. At(t, p.epoch, p.view)
            BY DEF At
        <3>4. \A q \in seen'[s] : q \in seen[s] \/ (q = p /\ s = t)
            BY <3>1 DEF TypeOK
        <3>5. seen[s] \subseteq seen'[s]
            BY <3>1 DEF TypeOK
        <3>6. \A q \in seen'[s] : q \in proposals' /\ At(s, q.epoch, q.view)'
            BY <2>1, <3>1, <3>2, <3>3, <3>4 DEF SeatOK, At
        <3> HIDE DEF p
        <3> QED
            BY <2>1, <3>2, <3>5, <3>6 DEF SeatOK
    <2> QED
        BY <2>2, <2>3, <2>4
<1>6. ASSUME NEW t \in Seats, TakeProposal(t) PROVE SeatInv'
    <2> SUFFICES ASSUME NEW s \in Seats PROVE SeatOK(s)'
        BY DEF SeatInv
    <2>1. UNCHANGED <<epoch, view, tried, validated, locked, attestations,
                      proposals>>
        BY <1>6 DEF TakeProposal, network
    <2>2. PICK p \in proposals : /\ p.epoch = epoch[t] /\ p.view = view[t]
                                 /\ seen' = [seen EXCEPT ![t] = @ \cup {p}]
        BY <1>6 DEF TakeProposal
    <2>3. \A q \in seen'[s] : q \in seen[s] \/ (q = p /\ s = t)
        BY <2>2 DEF TypeOK
    <2>4. seen[s] \subseteq seen'[s]
        BY <2>2 DEF TypeOK
    <2> QED
        BY <2>1, <2>2, <2>3, <2>4 DEF SeatInv, SeatOK, At
<1>7. ASSUME NEW t \in Seats, React(t) PROVE SeatInv'
    <2> SUFFICES ASSUME NEW s \in Seats PROVE SeatOK(s)'
        BY DEF SeatInv
    <2>1. UNCHANGED <<epoch, view, tried, seen, proposals>> /\ view[t] \in Views
        BY <1>7 DEF React, InView
    <2>2. PICK p \in seen[t] :
            LET ok == Validates(t, p.block)
            IN  /\ validated' = [validated EXCEPT
                                   ![t] = [block |-> p.block, ok |-> ok]]
                /\ IF ok
                   THEN /\ locked' = [locked EXCEPT
                               ![t] = [view |-> view[t], block |-> p.block]]
                        /\ attestations' = attestations \cup
                               {[epoch |-> epoch[t], view |-> view[t],
                                 node |-> t, block |-> p.block]}
                   ELSE UNCHANGED <<locked, attestations>>
        BY <1>7 DEF React
    <2>3. CASE s # t
        BY <2>1, <2>2, <2>3, SeatFrame DEF SeatInv, TypeOK
    <2>4. CASE s = t
        <3>1. SeatOK(t)
            BY DEF SeatInv
        <3>2. validated'[t].block = p.block
            BY <2>2 DEF TypeOK
        <3>3. \/ locked'[t] = [view |-> view[t], block |-> p.block] /\
                 [epoch |-> epoch[t], view |-> view[t], node |-> t,
                  block |-> p.block] \in attestations'
              \/ locked'[t] = locked[t] /\ attestations' = attestations
            BY <2>2 DEF TypeOK
        <3> QED
            BY <2>1, <2>4, <3>1, <3>2, <3>3 DEF SeatOK, At, Views
    <2> QED
        BY <2>3, <2>4
<1>8. ASSUME NEW t \in Seats,
             \/ TakeBody(t) \/ ReactToEquivocation(t) \/ Accept(t) \/ CatchUp(t)
      PROVE  SeatInv'
    BY <1>1, <1>8 DEF TakeBody, ReactToEquivocation, Accept, CatchUp, seat
<1>9. ASSUME NEW t \in Seats, Restart(t) PROVE SeatInv'
    <2> SUFFICES ASSUME NEW s \in Seats PROVE SeatOK(s)'
        BY DEF SeatInv
    <2>1. CASE s = t
        BY <1>9, <2>1 DEF Restart, FreshSeat, TypeOK, SeatOK, Unvalidated,
                          Views, Idle
    <2>2. CASE s # t
        BY <1>9, <2>2, SeatFrame DEF Restart, FreshSeat, TypeOK, SeatInv
    <2> QED
        BY <2>1, <2>2
<1> QED
    BY <1>1, <1>2, <1>3, <1>4, <1>5, <1>6, <1>7, <1>8, <1>9 DEF Next, vars, seat

-----------------------------------------------------------------------------
(* What a view change reports.                                              *)

\* A new view change reports no lock, or is signed by NextView, with the lock the
\* seat holds.
LEMMA NewReport ==
    ASSUME TypeOK, SeatInv, [Next]_vars, NEW c \in changes', c \notin changes
    PROVE  /\ attestations' = attestations
           /\ \/ c.lock = NoLock
              \/ /\ c.node \in Seats /\ view[c.node] \in Views
                 /\ c.epoch = epoch[c.node] /\ c.view \in Views
                 /\ c.view > view[c.node] /\ c.lock = locked[c.node]
<1>1. ASSUME NEW t \in Seats, StartEpoch(t)
      PROVE  attestations' = attestations /\ c.lock = NoLock
    <2>1. PICK e, w : SeatView(t, e, w, {}, NoLock)
        BY <1>1 DEF StartEpoch
    <2> QED
        BY <2>1 DEF SeatView
<1>2. ASSUME NEW t \in Seats, NextView(t)
      PROVE  /\ attestations' = attestations
             /\ c.node = t /\ view[t] \in Views /\ c.epoch = epoch[t]
             /\ c.view \in Views /\ c.view > view[t] /\ c.lock = locked[t]
    <2>1. PICK w \in Views :
            /\ Reaches(t, view[t], w)
            /\ SeatView(t, epoch[t], w, tried[t] \cup {Leader(t)}, locked[t])
        BY <1>2 DEF NextView
    <2>2. view[t] \in Views /\ w > view[t]
        BY <1>2, <2>1 DEF NextView, InView, Reaches, Views
    <2>3. c = [epoch |-> epoch[t], view |-> w, node |-> t, lock |-> locked[t]]
        BY <2>1 DEF SeatView
    <2> QED
        BY <2>1, <2>2, <2>3 DEF SeatView
<1>3. ASSUME NEW s \in Seats,
             \/ Propose(s) \/ EndEpoch(s) \/ TakeProposal(s) \/ TakeBody(s)
             \/ ReactToEquivocation(s) \/ React(s) \/ Accept(s) \/ CatchUp(s)
             \/ Restart(s)
      PROVE FALSE
    BY <1>3 DEF Propose, EndEpoch, TakeProposal, TakeBody, React,
                ReactToEquivocation, Accept, CatchUp, Restart, network
<1> QED
    BY <1>1, <1>2, <1>3 DEF Next, vars, network

-----------------------------------------------------------------------------
(* What a proposal is made from.                                            *)

\* A new proposal is by the one who leads the view he is in, and had not proposed
\* there; after view 0 a quorum's view changes come with it and it is
\* for the block they require, if they require one.
LEMMA NewProposal ==
    ASSUME TypeOK, SeatInv, [Next]_vars, NEW p \in proposals', p \notin proposals
    PROVE  /\ proposals' = proposals \cup {p}
           /\ p.leader \in Seats /\ Leader(p.leader) = p.leader
           /\ p.epoch \in Epochs /\ p.view \in Views /\ p.block \in Blocks
           /\ At(p.leader, p.epoch, p.view) /\ At(p.leader, p.epoch, p.view)'
           /\ ~proposed[p.leader] /\ proposed'[p.leader]
           /\ p.cert \in SUBSET changes
           /\ \A c \in p.cert : c.epoch = p.epoch /\ c.view = p.view
           /\ p.view # 0 => Cardinality({c.node : c \in p.cert}) >= Quorum
           /\ Locks(p.cert) = {} \/ Requires(p.cert, p.block)
           /\ UNCHANGED <<attestations, changes>>
<1>1. PICK s \in Seats : Propose(s)
    <2>1. ASSUME NEW s \in Seats, StartEpoch(s) \/ NextView(s) PROVE FALSE
        BY <2>1 DEF StartEpoch, NextView, SeatView
    <2>2. ASSUME NEW s \in Seats,
                 \/ EndEpoch(s) \/ TakeProposal(s) \/ TakeBody(s)
                 \/ ReactToEquivocation(s) \/ React(s) \/ Accept(s) \/ CatchUp(s)
                 \/ Restart(s)
          PROVE FALSE
        BY <2>2 DEF EndEpoch, TakeProposal, TakeBody, React,
                    ReactToEquivocation, Accept, CatchUp, Restart, network
    <2> QED
        BY <2>1, <2>2 DEF Next, vars, network
<1>2. /\ epoch[s] \in Epochs /\ view[s] \in Views
      /\ Leader(s) = s
      /\ ~proposed[s] /\ proposed'[s] /\ UNCHANGED <<epoch, view>>
    BY <1>1, LeaderSeated DEF Propose, InView, TypeOK
<1>3. PICK cert \in SUBSET {c \in changes : c.epoch = epoch[s]
                                            /\ c.view = view[s]} :
         /\ IF view[s] = 0 THEN cert = {} ELSE ViewCert(s, cert)
         /\ \/ /\ Locks(cert) = {}
               /\ \E b \in Blocks : Adopt(s, b, cert)
            \/ \E b \in held[s] : Requires(cert, b) /\ Adopt(s, b, cert)
            \/ UNCHANGED proposals
    BY <1>1 DEF Propose
<1>4. PICK b \in Blocks : /\ Locks(cert) = {} \/ Requires(cert, b)
                          /\ Adopt(s, b, cert)
    BY <1>3 DEF TypeOK
<1>5. p = [epoch |-> epoch[s], view |-> view[s], leader |-> s,
           block |-> b, cert |-> cert]
      /\ proposals' = proposals \cup {p}
    BY <1>4 DEF Adopt
<1>6. view[s] # 0 => Cardinality({c.node : c \in cert}) >= Quorum
    BY <1>3 DEF ViewCert
<1>7. p.cert = cert /\ UNCHANGED <<attestations, changes>>
    BY <1>1, <1>5 DEF Propose
<1> QED
    BY <1>2, <1>4, <1>5, <1>6, <1>7 DEF At

-----------------------------------------------------------------------------
(* DecisionInv.                                                             *)

LEMMA CertifiedGrows ==
    ASSUME [Next]_vars, NEW e \in Epochs, NEW v \in Views, NEW b \in Blocks,
           Certified(e, v, b)
    PROVE  Certified(e, v, b)'
<1>1. Attested(e, v, b) \subseteq Attested(e, v, b)'
    BY Grows DEF Attested
<1>2. IsFiniteSet(Attested(e, v, b)')
    <2>1. Attested(e, v, b)' \subseteq Seats
        BY DEF Attested
    <2> QED
        BY <2>1, FS_Subset
<1>3. Cardinality(Attested(e, v, b)) <= Cardinality(Attested(e, v, b)')
    BY <1>1, <1>2, FS_Subset
<1>4. /\ Cardinality(Attested(e, v, b)) \in Nat
      /\ Cardinality(Attested(e, v, b)') \in Nat
    BY <1>1, <1>2, FS_Subset, FS_CardinalityType
<1> QED
    BY <1>3, <1>4 DEF Certified

\* A new decision is a block certified in the epoch it names.
LEMMA NewDecision ==
    ASSUME TypeOK, SeatInv, DecisionInv, [Next]_vars, NEW s \in Seats,
           decided'[s] # decided[s]
    PROVE  /\ decided[s] = NoBlock /\ UNCHANGED attestations
           /\ decided'[s].epoch \in Epochs /\ decided'[s].block \in Blocks
           /\ decided'[s] # NoBlock
           /\ decided' = [decided EXCEPT ![s] = decided'[s]]
           /\ \E v \in Views : Certified(decided'[s].epoch, v, decided'[s].block)
<1> DEFINE Goal ==
           /\ decided[s] = NoBlock /\ UNCHANGED attestations
           /\ decided'[s].epoch \in Epochs /\ decided'[s].block \in Blocks
           /\ decided'[s] # NoBlock
           /\ decided' = [decided EXCEPT ![s] = decided'[s]]
           /\ \E v \in Views : Certified(decided'[s].epoch, v, decided'[s].block)
<1>1. ASSUME NEW t \in Seats, Accept(t) PROVE Goal
    <2>1. PICK p \in seen[t] :
            /\ Cardinality(Attested(epoch[t], view[t], p.block)) >= Quorum
            /\ decided' = [decided EXCEPT
                             ![t] = [epoch |-> epoch[t], block |-> p.block]]
        BY <1>1 DEF Accept
    <2>2. /\ epoch[t] \in Epochs /\ view[t] \in Views /\ decided[t] = NoBlock
          /\ UNCHANGED attestations
        BY <1>1, LeaderSeated DEF Accept, InView, Undecided, network
    <2>3. p.block \in Blocks
        BY DEF TypeOK, Proposal
    <2>4. s = t
        BY <2>1 DEF TypeOK
    <2>5. decided'[s] = [epoch |-> epoch[t], block |-> p.block]
        BY <2>1, <2>4 DEF TypeOK
    <2>6. Certified(epoch[t], view[t], p.block)
        BY <2>1 DEF Certified
    <2>7. decided' = [decided EXCEPT ![s] = decided'[s]]
        BY <2>1, <2>4, <2>5
    <2> QED
        BY <2>2, <2>3, <2>4, <2>5, <2>6, <2>7 DEF NoBlock, Epochs
<1>2. ASSUME NEW t \in Seats, CatchUp(t) PROVE Goal
    <2>1. PICK u \in Seats : /\ decided[u] # NoBlock
                             /\ decided' = [decided EXCEPT ![t] = decided[u]]
        BY <1>2 DEF CatchUp, Undecided
    <2>2. decided[t] = NoBlock /\ UNCHANGED attestations
        BY <1>2 DEF CatchUp, Undecided, network
    <2>3. s = t
        BY <2>1 DEF TypeOK
    <2>4. decided'[s] = decided[u] /\ decided' = [decided EXCEPT ![s] = decided'[s]]
        BY <2>1, <2>3 DEF TypeOK
    <2>5. decided[u] \in [epoch : Epochs, block : Blocks]
        BY <2>1 DEF TypeOK
    <2>6. \E v \in Views : Certified(decided[u].epoch, v, decided[u].block)
        BY <2>1 DEF DecisionInv, Undecided
    <2> QED
        BY <2>1, <2>2, <2>3, <2>4, <2>5, <2>6
<1>3. ASSUME NEW t \in Seats,
             \/ StartEpoch(t) \/ NextView(t) \/ EndEpoch(t) \/ Propose(t)
             \/ TakeProposal(t) \/ TakeBody(t) \/ ReactToEquivocation(t)
             \/ React(t) \/ Restart(t)
      PROVE  FALSE
    BY <1>3 DEF StartEpoch, NextView, SeatView, EndEpoch, Propose, TakeProposal,
                TakeBody, ReactToEquivocation, React, Restart
<1> QED
    BY <1>1, <1>2, <1>3 DEF Next, vars

LEMMA DecisionInvNext ==
    TypeOK /\ SeatInv /\ DecisionInv /\ [Next]_vars => DecisionInv'
<1> SUFFICES ASSUME TypeOK, SeatInv, DecisionInv, [Next]_vars,
                    NEW s \in Seats, decided'[s] # NoBlock
             PROVE  \E v \in Views :
                        Certified(decided[s].epoch, v, decided[s].block)'
    BY DEF DecisionInv, Undecided
<1>1. \E v \in Views : Certified(decided'[s].epoch, v, decided'[s].block)
    <2>1. CASE decided'[s] = decided[s]
        BY <2>1 DEF DecisionInv, Undecided
    <2>2. CASE decided'[s] # decided[s]
        BY <2>2, NewDecision
    <2> QED
        BY <2>1, <2>2
<1>2. decided'[s].epoch \in Epochs /\ decided'[s].block \in Blocks
    <2>1. TypeOK'
        BY TypeNext
    <2> QED
        BY <2>1 DEF TypeOK
<1>3. PICK v \in Views : Certified(decided'[s].epoch, v, decided'[s].block)
    BY <1>1
<1>4. PICK e \in Epochs, b \in Blocks : e = decided'[s].epoch /\ b = decided'[s].block
    BY <1>2
<1>5. Certified(e, v, b)
    BY <1>3, <1>4
<1>6. Certified(e, v, b)'
    BY <1>5, CertifiedGrows
<1>7. Certified(decided[s].epoch, v, decided[s].block)'
    BY <1>4, <1>6 DEF Certified, Attested
<1> QED
    BY <1>7

-----------------------------------------------------------------------------
(* The invariant of faulty seats.                                           *)

LEMMA AttestedTypes ==
    ASSUME NEW e, NEW v, NEW b
    PROVE  /\ Attested(e, v, b) \in SUBSET Seats
           /\ Attested(e, v, b) \in SUBSET Attesters
           /\ IsFiniteSet(Attested(e, v, b))
           /\ Cardinality(Attested(e, v, b)) \in Nat
<1>1. Attested(e, v, b) \subseteq Seats /\ Attested(e, v, b) \subseteq Attesters
    BY DEF Attested
<1> QED
    BY <1>1, FS_Subset, FS_CardinalityType

LEMMA VoteInvNext == TypeOK /\ SeatInv /\ VoteInv /\ [Next]_vars => VoteInv'
<1> SUFFICES ASSUME TypeOK, SeatInv, VoteInv, [Next]_vars, NEW a \in attestations'
             PROVE  VoteOK(a)'
    BY DEF VoteInv
<1>1. CASE a \in attestations
    BY <1>1, Grows DEF VoteInv, VoteOK, Acceptable
<1>2. CASE a \notin attestations
    <2>1. PICK s \in Seats : React(s)
        <3>1. ASSUME NEW s \in Seats, StartEpoch(s) \/ NextView(s) PROVE FALSE
            BY <1>2, <3>1 DEF StartEpoch, NextView, SeatView
        <3>2. ASSUME NEW s \in Seats,
                     \/ Propose(s) \/ EndEpoch(s) \/ TakeProposal(s) \/ TakeBody(s)
                     \/ ReactToEquivocation(s) \/ Accept(s) \/ CatchUp(s)
                     \/ Restart(s)
              PROVE FALSE
            BY <1>2, <3>2 DEF Propose, EndEpoch, TakeProposal, TakeBody,
                        ReactToEquivocation, Accept, CatchUp, Restart, network
        <3> QED
            BY <1>2, <3>1, <3>2 DEF Next, vars, network
    <2>2. PICK p \in seen[s] :
            /\ Acceptable(p)
            /\ IF Validates(s, p.block)
               THEN attestations' = attestations \cup
                               {[epoch |-> epoch[s], view |-> view[s],
                                 node |-> s, block |-> p.block]}
               ELSE UNCHANGED attestations
        BY <2>1 DEF React
    <2>3. a = [epoch |-> epoch[s], view |-> view[s], node |-> s, block |-> p.block]
          /\ Validates(s, p.block)
        BY <1>2, <2>2
    <2>4. p \in proposals' /\ p.epoch = epoch[s] /\ p.view = view[s]
        BY Grows DEF SeatInv, SeatOK, At
    <2> QED
        BY <2>2, <2>3, <2>4 DEF VoteOK, Validates
<1> QED
    BY <1>1, <1>2

LEMMA ReportInvNext == TypeOK /\ SeatInv /\ ReportInv /\ [Next]_vars => ReportInv'
<1> SUFFICES ASSUME TypeOK, SeatInv, ReportInv, [Next]_vars, NEW c \in changes'
             PROVE  ReportOK(c)'
    BY DEF ReportInv
<1>1. CASE c \in changes
    BY <1>1, Grows DEF ReportInv, ReportOK
<1>2. CASE c \notin changes
    <2> SUFFICES ASSUME c.lock # NoLock PROVE ReportOK(c)'
        BY DEF ReportOK
    <2>1. /\ c.node \in Seats /\ view[c.node] \in Views
          /\ c.epoch = epoch[c.node] /\ c.view \in Views
          /\ c.view > view[c.node] /\ c.lock = locked[c.node]
          /\ attestations' = attestations
        BY <1>2, NewReport
    <2>2. SeatOK(c.node) /\ locked[c.node] \in Lock
        BY <2>1 DEF SeatInv, TypeOK
    <2> QED
        BY <2>1, <2>2, LockTypes DEF SeatOK, ReportOK, Views
<1> QED
    BY <1>1, <1>2

LEMMA SourceInvNext == TypeOK /\ SeatInv /\ SourceInv /\ [Next]_vars => SourceInv'
<1> SUFFICES ASSUME TypeOK, SeatInv, SourceInv, [Next]_vars, NEW p \in proposals'
             PROVE  p.cert \subseteq changes'
    BY DEF SourceInv
<1>1. CASE p \in proposals
    BY <1>1, Grows DEF SourceInv
<1>2. CASE p \notin proposals
    BY <1>2, NewProposal
<1> QED
    BY <1>1, <1>2

\* A quorum for a block that does not validate would be lazy to the last seat.
LEMMA CertifiedIsValid ==
    ASSUME VoteInv, NEW e, NEW v, NEW b, Certified(e, v, b),
           Cardinality(Lazy \cap Attesters) < Quorum
    PROVE  b \notin BadBlocks
<1> SUFFICES ASSUME b \in BadBlocks PROVE FALSE
    OBVIOUS
<1>1. Attested(e, v, b) \subseteq Lazy \cap Attesters
    BY DEF Attested, VoteInv, VoteOK
<1>2. IsFiniteSet(Lazy \cap Attesters)
    BY FS_Subset
<1>3. Cardinality(Attested(e, v, b)) <= Cardinality(Lazy \cap Attesters)
    BY <1>1, <1>2, FS_Subset
<1>4. Cardinality(Lazy \cap Attesters) \in Nat
    BY <1>2, FS_CardinalityType
<1> QED
    BY <1>3, <1>4, AttestedTypes DEF Certified

LEMMA DecidedIsValidNext ==
    TypeOK /\ SeatInv /\ VoteInv /\ DecisionInv /\ DecidedIsValid /\ [Next]_vars
        => DecidedIsValid'
<1> SUFFICES ASSUME TypeOK, SeatInv, VoteInv, DecisionInv, DecidedIsValid, [Next]_vars,
                    Cardinality(Lazy \cap Attesters) < Quorum, NEW s \in Seats
             PROVE  decided'[s].block \notin BadBlocks
    BY DEF DecidedIsValid
<1>1. CASE decided'[s] = decided[s]
    BY <1>1 DEF DecidedIsValid
<1>2. CASE decided'[s] # decided[s]
    BY <1>2, NewDecision, CertifiedIsValid
<1> QED
    BY <1>1, <1>2

LEMMA FaultInvInit == Init => FaultInv
<1> SUFFICES ASSUME Init PROVE FaultInv
    OBVIOUS
<1>1. SeatInv
    BY DEF Init, SeatInv, SeatOK, Unvalidated, Views, Idle
<1>2. VoteInv /\ ReportInv /\ SourceInv /\ DecisionInv
    BY DEF Init, VoteInv, ReportInv, SourceInv, DecisionInv, Undecided
<1>3. DecidedIsValid
    BY DEF Init, DecidedIsValid, NoBlock
<1> QED
    BY <1>1, <1>2, <1>3, TypeInit DEF FaultInv

LEMMA FaultInvNext == FaultInv /\ [Next]_vars => FaultInv'
BY TypeNext, SeatInvNext, VoteInvNext, ReportInvNext, SourceInvNext, DecisionInvNext,
   DecidedIsValidNext DEF FaultInv

-----------------------------------------------------------------------------
(* A fork leaves evidence.                                                  *)

\* When nobody contradicts himself in an epoch, and its views have one leader each,
\* a certified block is the only one attested to in its view and every later one.
LEMMA VotesFollow ==
    ASSUME FaultInv, NEW e \in Epochs, ~TwoLed(e), \A s \in Seats : ~Contradicts(s, e),
           NEW v \in Views, NEW b \in Blocks, Certified(e, v, b)
    PROVE  \A a \in attestations : (a.epoch = e /\ a.view >= v) => a.block = b
<1> DEFINE Strays == {w \in Nat : w >= v /\ \E a \in attestations :
                                   a.epoch = e /\ a.view = w /\ a.block # b}
<1> SUFFICES ASSUME Strays # {} PROVE FALSE
    <2>1. \A a \in attestations : a.view \in Nat
        BY SignedTypes DEF FaultInv, Views
    <2> QED
        BY <2>1
<1>1. PICK w \in Strays : \A u \in Strays : w <= u
    BY LeastOfSome
<1>2. PICK a \in attestations : a.epoch = e /\ a.view = w /\ a.block # b
    OBVIOUS
<1>3. PICK p \in proposals : p.epoch = e /\ p.view = w /\ p.block # b /\ Acceptable(p)
    BY <1>2 DEF FaultInv, VoteInv, VoteOK
<1>4. v \in Nat /\ w \in Nat
    BY DEF Views
<1>5. CASE w = v
    <2>1. Attested(e, v, b) # {}
        BY FS_EmptySet DEF Certified
    <2>2. PICK x \in attestations : x.epoch = e /\ x.view = v /\ x.block = b
        BY <2>1 DEF Attested
    <2>3. PICK q \in proposals : q.epoch = e /\ q.view = v /\ q.block = b
        BY <2>2 DEF FaultInv, VoteInv, VoteOK
    <2>4. p # q /\ p.leader = q.leader /\ p.leader \in Seats
        BY <1>3, <1>5, <2>3, SignedTypes DEF FaultInv, TwoLed
    <2> QED
        BY <1>3, <1>5, <2>3, <2>4 DEF Contradicts
<1>6. CASE w > v
    <2>1. /\ CertChecks(p.cert, e, w) /\ MayPropose(p.cert, p.block, w) /\ w # 0
        BY <1>3, <1>4, <1>6 DEF Acceptable
    <2>2. p.cert \subseteq changes
        BY DEF FaultInv, SourceInv
    <2> DEFINE Nodes == {c.node : c \in p.cert}
    <2>3. Nodes \in SUBSET Seats /\ Cardinality(Nodes) >= Quorum
        BY <2>1 DEF CertChecks
    <2>4. Attested(e, v, b) \cap Nodes # {}
        BY <2>3, AttestedTypes, QuorumsMeet DEF Certified
    <2>5. PICK c \in p.cert : c.node \in Attested(e, v, b)
        BY <2>4
    <2>6. c \in changes /\ c.epoch = e /\ c.view = w /\ c.node \in Seats
          /\ c.lock \in Lock
        BY <2>1, <2>2, SignedTypes DEF CertChecks, FaultInv
    <2>7. PICK x \in attestations : x.epoch = e /\ x.view = v /\ x.node = c.node
        BY <2>5 DEF Attested
    <2>8. c.lock.view >= v
        <3>1. ~Contradicts(c.node, e)
            BY <2>6
        <3>2. ~(c.lock.view < x.view /\ x.view < c.view)
            BY <2>6, <2>7, <3>1 DEF Contradicts
        <3>3. c.lock.view \in Int
            BY <2>6, LockTypes
        <3> QED
            BY <1>4, <1>6, <2>6, <2>7, <3>2, <3>3
    <2>9. c.lock \in Locks(p.cert)
        BY <1>4, <2>6, <2>8, LockTypes DEF Locks
    <2>10. PICK m \in Locks(p.cert) : /\ m.block = p.block
                                      /\ \A l \in Locks(p.cert) : AtMost(l, m)
        BY <2>1, <2>9 DEF MayPropose, Requires
    <2>11. PICK d \in p.cert : m = d.lock /\ m # NoLock
        BY DEF Locks
    <2>12. d \in changes /\ d.epoch = e /\ d.view = w /\ d.node \in Seats
           /\ m \in Lock
        BY <2>1, <2>2, <2>11, SignedTypes DEF CertChecks, FaultInv
    <2>13. m.view < w /\ [epoch |-> e, view |-> m.view, node |-> d.node,
                          block |-> m.block] \in attestations
        BY <2>11, <2>12 DEF FaultInv, ReportInv, ReportOK
    <2>14. m.view >= v /\ m.view \in Nat
        BY <1>4, <2>6, <2>8, <2>9, <2>10, <2>11, <2>12, LockTypes DEF AtMost, Views
    <2>15. m.view \notin Strays
        BY <1>1, <1>4, <2>13, <2>14
    <2> QED
        BY <1>3, <2>10, <2>13, <2>14, <2>15
<1> QED
    BY <1>4, <1>5, <1>6

LEMMA ForkConvicts == FaultInv => ForkLeavesTraces
<1> SUFFICES ASSUME FaultInv, NEW e \in Epochs, Cardinality(CertifiedIn(e)) > 1,
                    ~TwoLed(e), \A s \in Seats : ~Contradicts(s, e)
             PROVE  FALSE
    BY DEF ForkLeavesTraces
<1>1. ASSUME NEW v \in Views, NEW w \in Views, v <= w, NEW b \in Blocks,
             NEW c \in Blocks, Certified(e, v, b), Certified(e, w, c)
      PROVE  b = c
    <2>1. Attested(e, w, c) # {}
        BY <1>1, FS_EmptySet DEF Certified
    <2>2. PICK a \in attestations : a.epoch = e /\ a.view = w /\ a.block = c
        BY <2>1 DEF Attested
    <2> QED
        BY <1>1, <2>2, VotesFollow
<1>2. ASSUME NEW b \in CertifiedIn(e), NEW c \in CertifiedIn(e) PROVE b = c
    <2>1. b \in Blocks /\ c \in Blocks
        BY DEF CertifiedIn
    <2>2. PICK v \in Views : Certified(e, v, b)
        BY DEF CertifiedIn
    <2>3. PICK w \in Views : Certified(e, w, c)
        BY DEF CertifiedIn
    <2>4. v <= w \/ w <= v
        BY DEF Views
    <2> QED
        BY <1>1, <2>1, <2>2, <2>3, <2>4
<1>3. CASE CertifiedIn(e) = {}
    BY <1>3, FS_EmptySet
<1>4. CASE CertifiedIn(e) # {}
    <2>1. PICK b \in CertifiedIn(e) : TRUE
        BY <1>4
    <2>2. CertifiedIn(e) = {b}
        BY <2>1, <1>2
    <2> QED
        BY <2>2, FS_Singleton
<1> QED
    BY <1>3, <1>4

-----------------------------------------------------------------------------
(* The theorems.                                                            *)

\* Whoever restarts, is late, lazy or silent, what was signed has its reasons: a
\* vote an acceptable proposal, a reported lock a vote, a decision a quorum.
THEOREM FaultInvariance == Spec => []FaultInv
<1> QED
    BY FaultInvInit, FaultInvNext, PTL DEF Spec

\* Every variable keeps its type (chain/net/seat.py, Seat.__init__).
THEOREM TypeCorrect == Spec => []TypeOK
<1>1. FaultInv => TypeOK
    BY DEF FaultInv
<1> QED
    BY <1>1, FaultInvariance, PTL

\* Seats that attest to anything and processes that forget their locks bring
\* about neither a finalised block that is not valid (Seat.react validates
\* before it signs) nor two certified ones without a trace: a seat whose signatures
\* convict it (chain/block.py: signed "so equivocation leaves evidence"), or two
\* seats that led one view, as after a restart that passed over views (_views).
THEOREM FaultsLeaveTraces == Spec => []FaultsAreContained
<1>1. FaultInv => FaultsAreContained
    BY ForkConvicts DEF FaultInv, FaultsAreContained
<1> QED
    BY <1>1, FaultInvariance, PTL

\* A block a seat has finished with is certified, in the epoch it finished.
THEOREM Finality == Spec => []DecidedIsCertified
<1>1. FaultInv => DecidedIsCertified
    <2> SUFFICES ASSUME FaultInv, NEW s \in Seats, decided[s] # NoBlock
                 PROVE  decided[s].block \in CertifiedIn(decided[s].epoch)
        BY DEF DecidedIsCertified, Undecided
    <2>1. decided[s].block \in Blocks
        BY DEF FaultInv, TypeOK
    <2>2. \E v \in Views : Certified(decided[s].epoch, v, decided[s].block)
        BY DEF FaultInv, DecisionInv, Undecided
    <2> QED
        BY <2>1, <2>2 DEF CertifiedIn
<1> QED
    BY <1>1, FaultInvariance, PTL

-----------------------------------------------------------------------------
(* Seats on time.                                                           *)

(* ScheduleInv.                                                             *)

\* A seat in a view has the scheduled leader.
LEMMA LeaderScheduled ==
    ASSUME TypeOK, SeatInv, ScheduleInv, NEW s \in Seats, view[s] \in Views
    PROVE  Leader(s) = Schedule[<<epoch[s], view[s]>>]
<1>1. /\ epoch[s] \in Epochs
      /\ tried[s] = Earlier(epoch[s], view[s])
      /\ Attesters \ tried[s] # {}
    BY DEF SeatInv, SeatOK, ScheduleInv, ScheduleOK
<1> QED
    BY <1>1, ScheduleAssumption DEF Leader

\* The leaders before the next view are those before this one and its own.
LEMMA EarlierNext ==
    ASSUME NEW e \in Epochs, NEW v \in Views
    PROVE  Earlier(e, v + 1) = Earlier(e, v) \cup {Schedule[<<e, v>>]}
<1>1. 0 .. (v + 1) - 1 = (0 .. v - 1) \cup {v}
    BY DEF Views
<1> QED
    BY <1>1 DEF Earlier

\* Entering a view with its earlier leaders tried keeps the schedule.
LEMMA EnterOnSchedule ==
    ASSUME TypeOK, ScheduleInv, NEW t \in Seats, NEW e \in Epochs, NEW w \in Views,
           NEW l, SeatView(t, e, w, Earlier(e, w), l)
    PROVE  ScheduleInv'
<1> SUFFICES ASSUME NEW s \in Seats PROVE ScheduleOK(s)'
    BY DEF ScheduleInv
<1>1. CASE s = t
    <2>1. /\ epoch'[t] = e /\ tried'[t] = Earlier(e, w) /\ rejoin'[t] = NoRejoin
        BY DEF SeatView, TypeOK
    <2>2. view'[t] \in {w, Down}
        BY DEF SeatView, TypeOK
    <2> QED
        BY <1>1, <2>1, <2>2 DEF ScheduleOK, Earlier, Views, Down
<1>2. CASE s # t
    <2>1. /\ epoch'[s] = epoch[s] /\ view'[s] = view[s] /\ tried'[s] = tried[s]
          /\ rejoin'[s] = rejoin[s]
        BY <1>2 DEF SeatView, TypeOK
    <2> QED
        BY <2>1 DEF ScheduleInv, ScheduleOK, Earlier
<1> QED
    BY <1>1, <1>2

LEMMA ScheduleInvNext ==
    TypeOK /\ SeatInv /\ ScheduleInv /\ [Next]_vars => ScheduleInv'
<1> SUFFICES ASSUME TypeOK, SeatInv, ScheduleInv, [Next]_vars PROVE ScheduleInv'
    OBVIOUS
<1>1. ASSUME UNCHANGED <<epoch, view, tried, rejoin>> PROVE ScheduleInv'
    BY <1>1 DEF ScheduleInv, ScheduleOK, Earlier
<1>2. ASSUME NEW t \in Seats, StartEpoch(t) PROVE ScheduleInv'
    <2>1. PICK e \in epoch[t] + 1 .. MaxEpoch, w \in Views :
            Enters(t, e, w) /\ SeatView(t, e, w, {}, NoLock)
        BY <1>2 DEF StartEpoch
    <2>2. w = 0
        BY <2>1, NobodyIsLate DEF Enters, Reaches, ScheduleInv, ScheduleOK, Views
    <2>3. e \in Epochs /\ Earlier(e, 0) = {}
        BY NumbersAssumption DEF TypeOK, Epochs, Earlier
    <2> QED
        BY <2>1, <2>2, <2>3, EnterOnSchedule
<1>3. ASSUME NEW t \in Seats, NextView(t) PROVE ScheduleInv'
    <2>1. PICK w \in Views : /\ Reaches(t, view[t], w)
                             /\ SeatView(t, epoch[t], w,
                                         tried[t] \cup {Leader(t)}, locked[t])
        BY <1>3 DEF NextView
    <2>2. view[t] \in Views /\ w = view[t] + 1
        BY <1>3, <2>1, NobodyIsLate DEF NextView, InView, Reaches, Views
    <2>3. /\ epoch[t] \in Epochs /\ tried[t] = Earlier(epoch[t], view[t])
          /\ Leader(t) = Schedule[<<epoch[t], view[t]>>]
        BY <2>2, LeaderSeated, LeaderScheduled DEF ScheduleInv, ScheduleOK
    <2>4. tried[t] \cup {Leader(t)} = Earlier(epoch[t], w)
        BY <2>2, <2>3, EarlierNext
    <2> QED
        BY <2>1, <2>3, <2>4, EnterOnSchedule
<1>4. ASSUME NEW t \in Seats, EndEpoch(t) PROVE ScheduleInv'
    <2> SUFFICES ASSUME NEW s \in Seats PROVE ScheduleOK(s)'
        BY DEF ScheduleInv
    <2>1. CASE s = t
        <3>1. view'[s] \notin Views /\ UNCHANGED rejoin
            BY <1>4, <2>1 DEF EndEpoch, TypeOK, Views, Idle
        <3> QED
            BY <3>1 DEF ScheduleInv, ScheduleOK
    <2>2. CASE s # t
        <3>1. /\ epoch'[s] = epoch[s] /\ view'[s] = view[s] /\ tried'[s] = tried[s]
              /\ UNCHANGED rejoin
            BY <1>4, <2>2 DEF EndEpoch, TypeOK
        <3> QED
            BY <3>1 DEF ScheduleInv, ScheduleOK, Earlier
    <2> QED
        BY <2>1, <2>2
<1>5. ASSUME NEW t \in Seats,
             \/ Propose(t) \/ TakeProposal(t) \/ TakeBody(t)
             \/ ReactToEquivocation(t) \/ React(t) \/ Accept(t) \/ CatchUp(t)
      PROVE  ScheduleInv'
    BY <1>1, <1>5 DEF Propose, TakeProposal, TakeBody, ReactToEquivocation,
                      React, Accept, CatchUp
<1>6. ASSUME NEW t \in Seats, Restart(t) PROVE FALSE
    BY <1>6, OnTimeAssumption DEF Restart
<1> QED
    BY <1>1, <1>2, <1>3, <1>4, <1>5, <1>6 DEF Next, vars

\* A new view change is signed by NextView, for the view just entered, with the
\* lock the seat holds.
LEMMA NewChange ==
    ASSUME TypeOK, SeatInv, ScheduleInv, [Next]_vars, NEW c \in changes', c \notin changes
    PROVE  /\ c.node \in Seats /\ view[c.node] \in Views
           /\ c.epoch = epoch[c.node] /\ c.view \in Views
           /\ c.view > view[c.node] /\ c.lock = locked[c.node]
           /\ epoch'[c.node] = c.epoch /\ view'[c.node] = c.view
           /\ attestations' = attestations
<1>1. PICK t \in Seats : NextView(t)
    <2>1. ASSUME NEW s \in Seats, StartEpoch(s) PROVE FALSE
        <3>1. PICK e \in epoch[s] + 1 .. MaxEpoch, w \in Views :
                Enters(s, e, w) /\ SeatView(s, e, w, {}, NoLock)
            BY <2>1 DEF StartEpoch
        <3>2. w = 0
            BY <3>1, NobodyIsLate DEF Enters, Reaches, ScheduleInv, ScheduleOK, Views
        <3> QED
            BY <3>1, <3>2 DEF SeatView
    <2>2. ASSUME NEW s \in Seats,
                 \/ Propose(s) \/ EndEpoch(s) \/ TakeProposal(s) \/ TakeBody(s)
                 \/ ReactToEquivocation(s) \/ React(s) \/ Accept(s) \/ CatchUp(s)
                 \/ Restart(s)
          PROVE FALSE
        BY <2>2 DEF Propose, EndEpoch, TakeProposal, TakeBody, React,
                    ReactToEquivocation, Accept, CatchUp, Restart, network
    <2> QED
        BY <2>1, <2>2 DEF Next, vars, network
<1>2. PICK w \in Views :
        /\ Reaches(t, view[t], w)
        /\ SeatView(t, epoch[t], w, tried[t] \cup {Leader(t)}, locked[t])
    BY <1>1 DEF NextView
<1>3. view[t] \in Views /\ w > view[t]
    BY <1>1, <1>2 DEF NextView, InView, Reaches, Views
<1>4. c = [epoch |-> epoch[t], view |-> w, node |-> t, lock |-> locked[t]]
    BY <1>2 DEF SeatView
<1>5. /\ epoch'[t] = epoch[t] /\ view'[t] = w /\ attestations' = attestations
    BY <1>2 DEF SeatView, TypeOK
<1> QED
    BY <1>3, <1>4, <1>5

\* A new proposal is its view's scheduled leader's.
LEMMA NewIsScheduled ==
    ASSUME TypeOK, SeatInv, ScheduleInv, [Next]_vars, NEW p \in proposals', p \notin proposals
    PROVE  p.leader = Schedule[<<p.epoch, p.view>>]
<1>1. /\ p.leader \in Seats /\ Leader(p.leader) = p.leader
      /\ At(p.leader, p.epoch, p.view) /\ p.view \in Views
    BY NewProposal
<1> QED
    BY <1>1, LeaderScheduled DEF At

-----------------------------------------------------------------------------
(* What a step may do to the clock of a seat and to what has been signed.   *)

\* A seat stays, begins the next epoch, or leaves its view for good.
LEMMA ClockStep ==
    ASSUME TypeOK, [Next]_vars, NEW s \in Seats
    PROVE  \/ epoch'[s] = epoch[s] /\ view'[s] = view[s]
           \/ view[s] = Idle /\ epoch'[s] \in Epochs /\ epoch'[s] > epoch[s]
           \/ /\ view[s] \in Views /\ epoch'[s] = epoch[s]
              /\ \/ view'[s] \in {Idle, Down}
                 \/ view'[s] \in Views /\ view'[s] > view[s]
<1> DEFINE Goal == \/ epoch'[s] = epoch[s] /\ view'[s] = view[s]
                   \/ view[s] = Idle /\ epoch'[s] \in Epochs /\ epoch'[s] > epoch[s]
                   \/ /\ view[s] \in Views /\ epoch'[s] = epoch[s]
                      /\ \/ view'[s] \in {Idle, Down}
                         \/ view'[s] \in Views /\ view'[s] > view[s]
<1>1. ASSUME UNCHANGED <<epoch, view>> PROVE Goal
    BY <1>1
<1>2. ASSUME NEW t \in Seats, StartEpoch(t) PROVE Goal
    <2>1. PICK e \in epoch[t] + 1 .. MaxEpoch :
            epoch' = [epoch EXCEPT ![t] = e]
        BY <1>2 DEF StartEpoch, SeatView
    <2>2. \E w : view' = [view EXCEPT ![t] = w]
        BY <1>2 DEF StartEpoch, SeatView
    <2> QED
        BY <1>2, <2>1, <2>2, NumbersAssumption DEF StartEpoch, TypeOK, Epochs
<1>3. ASSUME NEW t \in Seats, NextView(t) PROVE Goal
    <2>1. PICK w \in Views : /\ Reaches(t, view[t], w)
                             /\ SeatView(t, epoch[t], w,
                                         tried[t] \cup {Leader(t)}, locked[t])
        BY <1>3 DEF NextView
    <2>2. view[t] \in Views /\ view[t] \in Int /\ w > view[t]
        BY <1>3, <2>1 DEF NextView, InView, Reaches, Views
    <2>3. /\ epoch' = [epoch EXCEPT ![t] = epoch[t]]
          /\ \/ view' = [view EXCEPT ![t] = w]
             \/ view' = [view EXCEPT ![t] = Down]
        BY <2>1 DEF SeatView
    <2> QED
        BY <2>2, <2>3 DEF TypeOK
<1>4. ASSUME NEW t \in Seats, EndEpoch(t) PROVE Goal
    BY <1>4 DEF EndEpoch, InView, TypeOK
<1>5. ASSUME NEW t \in Seats,
             \/ Propose(t) \/ TakeProposal(t) \/ TakeBody(t)
             \/ ReactToEquivocation(t) \/ React(t) \/ Accept(t) \/ CatchUp(t)
      PROVE  Goal
    BY <1>1, <1>5 DEF Propose, TakeProposal, TakeBody, ReactToEquivocation,
                      React, Accept, CatchUp
<1>6. ASSUME NEW t \in Seats, Restart(t) PROVE Goal
    BY <1>6, OnTimeAssumption DEF Restart
<1> QED
    BY <1>1, <1>2, <1>3, <1>4, <1>5, <1>6 DEF Next, vars

LEMMA PastStable ==
    ASSUME TypeOK, [Next]_vars, NEW s \in Seats, NEW e \in Epochs, NEW v \in Views
    PROVE  /\ Past(s, e, v) => Past(s, e, v)'
           /\ At(s, e, v) => (At(s, e, v)' \/ Past(s, e, v)')
<1>1. epoch[s] \in Int /\ view[s] \in Int /\ v >= 0 /\ v \in Int /\ e \in Int
    BY DEF TypeOK, Views, Idle, Down, Epochs
<1> QED
    BY <1>1, ClockStep DEF Past, At, Epochs, Views, Idle, Down

-----------------------------------------------------------------------------
(* AttestationInv.                                                          *)

\* What a step does to the lock and the verdict of a seat: it keeps them, or
\* the seat moves, or it has just reacted.
LEMMA HoldStep ==
    ASSUME TypeOK, SeatInv, [Next]_vars, NEW s \in Seats
    PROVE  /\ \/ locked'[s] = locked[s]
              \/ view[s] = Idle /\ epoch'[s] \in Epochs /\ epoch'[s] > epoch[s]
              \/ view'[s] = Idle
              \/ locked'[s].view = view[s] /\ epoch'[s] = epoch[s]
                    /\ view'[s] = view[s] /\ view[s] \in Views
           /\ \/ validated'[s] = validated[s]
              \/ view[s] = Idle /\ epoch'[s] \in Epochs /\ epoch'[s] > epoch[s]
              \/ view'[s] \in {Idle, Down}
              \/ view[s] \in Views /\ view'[s] > view[s]
              \/ validated'[s] # Unvalidated
<1> DEFINE Goal ==
           /\ \/ locked'[s] = locked[s]
              \/ view[s] = Idle /\ epoch'[s] \in Epochs /\ epoch'[s] > epoch[s]
              \/ view'[s] = Idle
              \/ locked'[s].view = view[s] /\ epoch'[s] = epoch[s]
                    /\ view'[s] = view[s] /\ view[s] \in Views
           /\ \/ validated'[s] = validated[s]
              \/ view[s] = Idle /\ epoch'[s] \in Epochs /\ epoch'[s] > epoch[s]
              \/ view'[s] \in {Idle, Down}
              \/ view[s] \in Views /\ view'[s] > view[s]
              \/ validated'[s] # Unvalidated
<1>1. ASSUME UNCHANGED <<locked, validated>> PROVE Goal
    BY <1>1
<1>2. ASSUME NEW t \in Seats, StartEpoch(t) PROVE Goal
    <2>1. PICK e \in epoch[t] + 1 .. MaxEpoch :
            epoch' = [epoch EXCEPT ![t] = e]
        BY <1>2 DEF StartEpoch, SeatView
    <2>2. /\ locked' = [locked EXCEPT ![t] = NoLock]
          /\ validated' = [validated EXCEPT ![t] = Unvalidated]
        BY <1>2 DEF StartEpoch, SeatView, FreshSeat
    <2> QED
        BY <1>2, <2>1, <2>2, NumbersAssumption DEF StartEpoch, TypeOK, Epochs
<1>3. ASSUME NEW t \in Seats, NextView(t) PROVE Goal
    <2>1. PICK w \in Views : /\ Reaches(t, view[t], w)
                             /\ SeatView(t, epoch[t], w,
                                         tried[t] \cup {Leader(t)}, locked[t])
        BY <1>3 DEF NextView
    <2>2. view[t] \in Views /\ w > view[t]
        BY <1>3, <2>1 DEF NextView, InView, Reaches, Views
    <2>3. /\ locked' = [locked EXCEPT ![t] = locked[t]]
          /\ validated' = [validated EXCEPT ![t] = Unvalidated]
          /\ \/ view' = [view EXCEPT ![t] = w]
             \/ view' = [view EXCEPT ![t] = Down]
        BY <2>1 DEF SeatView, FreshSeat
    <2> QED
        BY <2>2, <2>3 DEF TypeOK
<1>4. ASSUME NEW t \in Seats, EndEpoch(t) PROVE Goal
    BY <1>4 DEF EndEpoch, FreshSeat, TypeOK
<1>5. ASSUME NEW t \in Seats, React(t) PROVE Goal
    <2>1. UNCHANGED <<epoch, view>> /\ view[t] \in Views
        BY <1>5 DEF React, InView
    <2>2. PICK p \in seen[t] :
            LET ok == Validates(t, p.block)
            IN  /\ validated' = [validated EXCEPT
                                   ![t] = [block |-> p.block, ok |-> ok]]
                /\ IF ok
                   THEN locked' = [locked EXCEPT
                               ![t] = [view |-> view[t], block |-> p.block]]
                   ELSE UNCHANGED locked
        BY <1>5 DEF React
    <2>3. p.block # None
        BY DEF TypeOK, Proposal
    <2>4. validated'[t] # Unvalidated
        BY <2>2, <2>3 DEF TypeOK, Unvalidated
    <2> QED
        BY <2>1, <2>2, <2>4 DEF TypeOK
<1>6. ASSUME NEW t \in Seats,
             \/ Propose(t) \/ TakeProposal(t) \/ TakeBody(t)
             \/ ReactToEquivocation(t) \/ Accept(t) \/ CatchUp(t)
      PROVE  Goal
    BY <1>1, <1>6 DEF Propose, TakeProposal, TakeBody, ReactToEquivocation,
                      Accept, CatchUp, seat
<1>7. ASSUME NEW t \in Seats, Restart(t) PROVE Goal
    BY <1>7, OnTimeAssumption DEF Restart
<1> QED
    BY <1>1, <1>2, <1>3, <1>4, <1>5, <1>6, <1>7 DEF Next, vars, seat

LEMMA AttestationInvNext ==
    TypeOK /\ SeatInv /\ AttestationInv /\ [Next]_vars => AttestationInv'
<1> SUFFICES ASSUME TypeOK, SeatInv, AttestationInv, [Next]_vars,
                    NEW a \in attestations'
             PROVE  AttestationOK(a)'
    BY DEF AttestationInv
<1>1. CASE a \in attestations
    <2> DEFINE n == a.node
    <2>1. /\ n \in Seats /\ a.epoch \in Epochs /\ a.view \in Views
          /\ a.view \in Int /\ a.epoch \in Int
          /\ epoch[n] \in Int /\ view[n] \in Int
        BY <1>1, SignedTypes, ClockTypes
    <2>2. AttestationOK(a)
        BY <1>1 DEF AttestationInv
    <2>3. Past(n, a.epoch, a.view)' \/ At(n, a.epoch, a.view)'
        BY <2>1, <2>2, PastStable DEF AttestationOK
    <2>4. (\E p \in proposals :
              p.epoch = a.epoch /\ p.view = a.view /\ p.block = a.block)'
        BY <2>2, Grows DEF AttestationOK
    <2>5. (epoch'[n] = a.epoch /\ view'[n] \in Views) =>
              a.view <= locked'[n].view
        <3> SUFFICES ASSUME epoch'[n] = a.epoch, view'[n] \in Views
                     PROVE  a.view <= locked'[n].view
            OBVIOUS
        <3>1. epoch[n] >= a.epoch
            BY <2>1, <2>2 DEF AttestationOK, Past, At
        <3>2. view'[n] # Idle /\ view'[n] # Down
            BY DEF Views, Idle, Down
        <3>3. epoch[n] = a.epoch /\ view[n] \in Views
            <4>1. \/ epoch'[n] = epoch[n] /\ view'[n] = view[n]
                  \/ epoch'[n] \in Epochs /\ epoch'[n] > epoch[n]
                  \/ view[n] \in Views /\ epoch'[n] = epoch[n]
                BY <2>1, ClockStep
            <4> QED
                BY <2>1, <3>1, <4>1 DEF Epochs
        <3>4. a.view <= view[n]
            BY <2>1, <2>2, <3>3 DEF AttestationOK, Past, At, Views, Idle, Down
        <3>5. \/ locked'[n] = locked[n]
              \/ locked'[n].view = view[n]
            BY <2>1, <3>2, <3>3, HoldStep DEF Views, Idle
        <3> QED
            BY <2>2, <3>3, <3>4, <3>5 DEF AttestationOK
    <2>6. At(n, a.epoch, a.view)' => validated'[n] # Unvalidated
        <3> SUFFICES ASSUME At(n, a.epoch, a.view)'
                     PROVE  validated'[n] # Unvalidated
            OBVIOUS
        <3>1. /\ epoch'[n] = a.epoch /\ view'[n] = a.view
              /\ view'[n] # Idle /\ view'[n] # Down
            BY <2>1 DEF At, Views, Idle, Down
        <3>2. epoch[n] = a.epoch /\ view[n] = a.view
            <4>1. Past(n, a.epoch, a.view) \/ At(n, a.epoch, a.view)
                BY <2>2 DEF AttestationOK
            <4>2. view[n] \in Views => view[n] # Idle /\ view[n] # Down
                BY DEF Views, Idle, Down
            <4>3. \/ epoch'[n] = epoch[n] /\ view'[n] = view[n]
                  \/ view[n] = Idle /\ epoch'[n] > epoch[n]
                  \/ view[n] \in Views /\ epoch'[n] = epoch[n] /\ view'[n] > view[n]
                BY <2>1, <3>1, ClockStep
            <4> QED
                BY <2>1, <3>1, <4>1, <4>2, <4>3 DEF Past, At
        <3>3. validated[n] # Unvalidated
            BY <2>2, <3>2 DEF AttestationOK, At
        <3>4. validated'[n] = validated[n] \/ validated'[n] # Unvalidated
            <4>1. ~(epoch'[n] > epoch[n]) /\ ~(view'[n] > view[n])
                BY <2>1, <3>1, <3>2
            <4> QED
                BY <2>1, <3>1, <4>1, HoldStep
        <3> QED
            BY <3>3, <3>4
    <2> QED
        BY <2>3, <2>4, <2>5, <2>6 DEF AttestationOK
<1>2. CASE a \notin attestations
    <2>1. /\ a.node \in Seats /\ At(a.node, a.epoch, a.view)
          /\ a.view \in Views /\ a.block \in Blocks
          /\ validated'[a.node] = [block |-> a.block, ok |-> TRUE]
          /\ locked' = [locked EXCEPT
                           ![a.node] = [view |-> a.view, block |-> a.block]]
          /\ \E p \in seen[a.node] : p.block = a.block
          /\ UNCHANGED <<proposals, epoch, view>>
        BY <1>2, NewAttestation
    <2>2. \E p \in proposals :
             p.epoch = a.epoch /\ p.view = a.view /\ p.block = a.block
        BY <2>1 DEF SeatInv, SeatOK, At
    <2>3. locked'[a.node].view = a.view
        BY <2>1 DEF TypeOK
    <2> QED
        BY <2>1, <2>2, <2>3 DEF AttestationOK, At, Unvalidated, Views
<1> QED
    BY <1>1, <1>2

-----------------------------------------------------------------------------
(* ChangeInv.                                                               *)

LEMMA ChangeInvNext ==
    TypeOK /\ SeatInv /\ ScheduleInv /\ AttestationInv /\ ChangeInv /\ [Next]_vars
        => ChangeInv'
<1> SUFFICES ASSUME TypeOK, SeatInv, ScheduleInv, AttestationInv, ChangeInv, [Next]_vars,
                    NEW c \in changes'
             PROVE  ChangeOK(c)'
    BY DEF ChangeInv
<1>1. CASE c \in changes
    <2>1. /\ c.node \in Seats /\ c.epoch \in Epochs /\ c.view \in Views
          /\ c.view \in Int /\ c.epoch \in Int
        BY <1>1, SignedTypes
    <2>2. ChangeOK(c)
        BY <1>1 DEF ChangeInv
    <2>3. Past(c.node, c.epoch, c.view)' \/ At(c.node, c.epoch, c.view)'
        BY <2>1, <2>2, PastStable DEF ChangeOK
    <2>4. ASSUME NEW a \in attestations', a.node = c.node, a.epoch = c.epoch,
                 a.view < c.view
          PROVE  a.view <= c.lock.view
        <3>1. CASE a \in attestations
            BY <2>2, <2>4, <3>1 DEF ChangeOK
        <3>2. CASE a \notin attestations
            <4>1. At(c.node, c.epoch, a.view) /\ a.view \in Views
                BY <2>4, <3>2, NewAttestation
            <4> QED
                BY <2>1, <2>2, <2>4, <4>1
                DEF ChangeOK, Past, At, Views, Idle, Down
        <3> QED
            BY <3>1, <3>2
    <2>5. c.lock # NoLock =>
            /\ c.lock.view < c.view
            /\ [epoch |-> c.epoch, view |-> c.lock.view, node |-> c.node,
                block |-> c.lock.block] \in attestations'
        BY <2>2, Grows DEF ChangeOK
    <2> QED
        BY <2>3, <2>4, <2>5 DEF ChangeOK
<1>2. CASE c \notin changes
    <2>1. /\ c.node \in Seats /\ view[c.node] \in Views
          /\ c.epoch = epoch[c.node] /\ c.view \in Views
          /\ c.view > view[c.node] /\ c.lock = locked[c.node]
          /\ epoch'[c.node] = c.epoch /\ view'[c.node] = c.view
          /\ attestations' = attestations
        BY <1>2, NewChange
    <2>2. ASSUME NEW a \in attestations, a.node = c.node, a.epoch = c.epoch
          PROVE  a.view <= c.lock.view
        BY <2>1, <2>2 DEF AttestationInv, AttestationOK
    <2>3. SeatOK(c.node) /\ locked[c.node] \in Lock
        BY <2>1 DEF SeatInv, TypeOK
    <2>4. c.lock # NoLock =>
            /\ c.lock.view < c.view
            /\ [epoch |-> c.epoch, view |-> c.lock.view, node |-> c.node,
                block |-> c.lock.block] \in attestations
        BY <2>1, <2>3, LockTypes DEF SeatOK, Views
    <2> QED
        BY <2>1, <2>2, <2>4 DEF ChangeOK, At
<1> QED
    BY <1>1, <1>2

-----------------------------------------------------------------------------
(* ProposalInv: the heart of the argument.                                  *)

LEMMA OnlyBStable ==
    ASSUME TypeOK, SeatInv, [Next]_vars,
           NEW e \in Epochs, NEW v \in Views, NEW b \in Blocks, OnlyB(e, v, b)
    PROVE  OnlyB(e, v, b)'
<1>1. PICK Q \in SUBSET Seats :
        /\ Cardinality(Q) >= Quorum
        /\ \A s \in Q : Past(s, e, v)
        /\ \A a \in attestations :
             (a.node \in Q /\ a.epoch = e /\ a.view = v) => a.block = b
    BY DEF OnlyB
<1>2. \A s \in Q : Past(s, e, v)'
    BY <1>1, PastStable
<1>3. ASSUME NEW a \in attestations', a.node \in Q, a.epoch = e, a.view = v
      PROVE  a.block = b
    <2>1. CASE a \in attestations
        BY <1>1, <1>3, <2>1
    <2>2. CASE a \notin attestations
        <3>1. At(a.node, e, v) /\ Past(a.node, e, v)
            BY <1>1, <1>3, <2>2, NewAttestation
        <3>2. v \in Int /\ v >= 0 /\ e \in Int
            BY DEF Views, Epochs
        <3> QED
            BY <3>1, <3>2 DEF At, Past, Idle, Down
    <2> QED
        BY <2>1, <2>2
<1> QED
    BY <1>1, <1>2, <1>3 DEF OnlyB

\* A certificate of view w lets nobody contradict an earlier view: whoever
\* signed it is past every earlier view, and reported its last vote.
LEMMA CertSafe ==
    ASSUME TypeOK, AttestationInv, ChangeInv, ProposalInv,
           NEW e \in Epochs, NEW w \in Views, NEW b \in Blocks,
           NEW cert \in SUBSET changes,
           \A c \in cert : c.epoch = e /\ c.view = w,
           Cardinality({c.node : c \in cert}) >= Quorum,
           Locks(cert) = {} \/ Requires(cert, b),
           NEW v \in 0 .. w - 1
    PROVE  OnlyB(e, v, b)
<1> DEFINE Q == {c.node : c \in cert}
<1>1. Q \in SUBSET Seats
    BY SignedTypes
<1>2. v \in Int /\ w \in Int /\ v < w /\ v >= 0 /\ v \in Views /\ e \in Int
    BY DEF Views, Epochs
<1>3. \A s \in Q : Past(s, e, v)
    <2> SUFFICES ASSUME NEW c \in cert PROVE Past(c.node, e, v)
        OBVIOUS
    <2>1. Past(c.node, e, w) \/ At(c.node, e, w)
        BY DEF ChangeInv, ChangeOK
    <2>2. epoch[c.node] \in Int /\ view[c.node] \in Int
        BY SignedTypes, ClockTypes
    <2> QED
        BY <1>2, <2>1, <2>2 DEF Past, At
<1>4. ASSUME NEW c \in cert, NEW a \in attestations,
             a.node = c.node, a.epoch = e, a.view = v
      PROVE  v <= c.lock.view
    BY <1>2, <1>4 DEF ChangeInv, ChangeOK
<1>5. \A c \in cert : c.lock \in Lock /\ c.lock.view \in Int
    BY SignedTypes, LockTypes
<1>6. ASSUME \A c \in cert : c.lock.view < v PROVE OnlyB(e, v, b)
    <2>1. ASSUME NEW a \in attestations, a.node \in Q, a.epoch = e, a.view = v
          PROVE  FALSE
        BY <1>2, <1>4, <1>5, <1>6, <2>1
    <2> HIDE DEF Q
    <2> QED
        BY <1>1, <1>3, <2>1 DEF OnlyB, Q
<1>7. CASE Locks(cert) = {}
    <2>1. \A c \in cert : c.lock.view < v
        BY <1>2, <1>7 DEF Locks, NoLock
    <2> QED
        BY <1>6, <2>1
<1>8. CASE Requires(cert, b)
    <2>1. PICK d \in cert : /\ d.lock # NoLock /\ d.lock.block = b
                            /\ \A l \in Locks(cert) : AtMost(l, d.lock)
        BY <1>8 DEF Requires, Locks
    <2>2. /\ d.lock.view \in Views /\ d.lock.view < w
          /\ [epoch |-> e, view |-> d.lock.view, node |-> d.node,
              block |-> b] \in attestations
        BY <1>5, <2>1, LockTypes DEF ChangeInv, ChangeOK
    <2>3. PICK p \in proposals :
            p.epoch = e /\ p.view = d.lock.view /\ p.block = b
        BY <2>2 DEF AttestationInv, AttestationOK
    <2>4. \A c \in cert : c.lock.view <= d.lock.view
        <3> SUFFICES ASSUME NEW c \in cert PROVE c.lock.view <= d.lock.view
            OBVIOUS
        <3>1. CASE c.lock = NoLock
            BY <2>2, <3>1 DEF NoLock, Views
        <3>2. CASE c.lock # NoLock
            BY <1>5, <2>1, <2>2, <3>2 DEF Locks, AtMost, Views
        <3> QED
            BY <3>1, <3>2
    <2>5. CASE v > d.lock.view
        <3>1. \A c \in cert : c.lock.view < v
            BY <1>2, <1>5, <2>4, <2>5
        <3> QED
            BY <1>6, <3>1
    <2>6. CASE v = d.lock.view
        <3>1. ASSUME NEW a \in attestations, a.node \in Q, a.epoch = e, a.view = v
              PROVE  a.block = b
            <4>1. PICK q \in proposals :
                    q.epoch = e /\ q.view = v /\ q.block = a.block
                BY <3>1 DEF AttestationInv, AttestationOK
            <4> QED
                BY <2>3, <2>6, <4>1 DEF ProposalInv, OnePerView
        <3> HIDE DEF Q
        <3> QED
            BY <1>1, <1>3, <3>1 DEF OnlyB, Q
    <2>7. CASE v < d.lock.view
        <3>1. v \in 0 .. p.view - 1
            BY <1>2, <2>2, <2>3, <2>7 DEF Views
        <3> QED
            BY <2>3, <3>1 DEF ProposalInv, ProposalOK
    <2> QED
        BY <1>2, <2>2, <2>5, <2>6, <2>7 DEF Views
<1> QED
    BY <1>7, <1>8

\* A leader that has proposed in its view does not propose in it again.
LEMMA ProposedStep ==
    ASSUME TypeOK, [Next]_vars, NEW s \in Seats, proposed[s],
           epoch'[s] = epoch[s], view'[s] = view[s], view[s] \in Views
    PROVE  proposed'[s]
<1>1. ASSUME NEW t \in Seats, StartEpoch(t) PROVE proposed'[s]
    BY <1>1 DEF StartEpoch, SeatView, FreshSeat, TypeOK, Views, Idle
<1>2. ASSUME NEW t \in Seats, NextView(t) PROVE proposed'[s]
    <2>1. PICK w \in Views : /\ Reaches(t, view[t], w)
                             /\ SeatView(t, epoch[t], w,
                                         tried[t] \cup {Leader(t)}, locked[t])
        BY <1>2 DEF NextView
    <2>2. view[t] \in Views /\ w > view[t]
        BY <1>2, <2>1 DEF NextView, InView, Reaches, Views
    <2>3. /\ proposed' = [proposed EXCEPT ![t] = FALSE]
          /\ \/ view' = [view EXCEPT ![t] = w]
             \/ view' = [view EXCEPT ![t] = Down]
        BY <2>1 DEF SeatView, FreshSeat
    <2> QED
        BY <2>2, <2>3 DEF TypeOK, Views, Down
<1>3. ASSUME NEW t \in Seats, EndEpoch(t) PROVE proposed'[s]
    BY <1>3 DEF EndEpoch, FreshSeat, TypeOK, Views, Idle
<1>4. ASSUME NEW t \in Seats, Propose(t) PROVE proposed'[s]
    BY <1>4 DEF Propose, TypeOK
<1>5. ASSUME NEW t \in Seats,
             \/ TakeProposal(t) \/ TakeBody(t) \/ ReactToEquivocation(t)
             \/ React(t) \/ Accept(t) \/ CatchUp(t)
      PROVE  proposed'[s]
    BY <1>5 DEF TakeProposal, TakeBody, ReactToEquivocation, React, Accept,
                CatchUp, seat
<1>6. ASSUME NEW t \in Seats, Restart(t) PROVE proposed'[s]
    BY <1>6, OnTimeAssumption DEF Restart
<1> QED
    BY <1>1, <1>2, <1>3, <1>4, <1>5, <1>6 DEF Next, vars, seat

\* A new proposal is for a block no earlier view can contradict any more.
LEMMA SafeProposal ==
    ASSUME TypeOK, SeatInv, AttestationInv, ChangeInv, ProposalInv, [Next]_vars,
           NEW p \in proposals', p \notin proposals
    PROVE  \A v \in 0 .. p.view - 1 : OnlyB(p.epoch, v, p.block)
<1> SUFFICES ASSUME NEW v \in 0 .. p.view - 1 PROVE OnlyB(p.epoch, v, p.block)
    OBVIOUS
<1>1. /\ p.epoch \in Epochs /\ p.view \in Views /\ p.block \in Blocks
      /\ p.cert \in SUBSET changes
      /\ \A c \in p.cert : c.epoch = p.epoch /\ c.view = p.view
      /\ p.view # 0 => Cardinality({c.node : c \in p.cert}) >= Quorum
      /\ Locks(p.cert) = {} \/ Requires(p.cert, p.block)
    BY NewProposal
<1>2. p.view # 0
    BY <1>1 DEF Views
<1> QED
    BY <1>1, <1>2, CertSafe

LEMMA ProposalInvNext ==
    TypeOK /\ SeatInv /\ ScheduleInv /\ AttestationInv /\ ChangeInv /\ ProposalInv
        /\ [Next]_vars => ProposalInv'
<1> SUFFICES ASSUME TypeOK, SeatInv, ScheduleInv, AttestationInv, ChangeInv, ProposalInv,
                    [Next]_vars
             PROVE  ProposalInv'
    OBVIOUS
<1>1. ASSUME NEW p \in proposals PROVE ProposalOK(p)'
    <2>1. /\ p.leader \in Seats /\ p.epoch \in Epochs /\ p.view \in Views
          /\ p.block \in Blocks
        BY SignedTypes
    <2>2. ProposalOK(p)
        BY DEF ProposalInv
    <2>3. \/ Past(p.leader, p.epoch, p.view)'
          \/ At(p.leader, p.epoch, p.view)' /\ proposed'[p.leader]
        <3>1. CASE Past(p.leader, p.epoch, p.view)
            BY <2>1, <3>1, PastStable
        <3>2. CASE At(p.leader, p.epoch, p.view) /\ proposed[p.leader]
            BY <2>1, <3>2, PastStable, ProposedStep DEF At
        <3> QED
            BY <2>2, <3>1, <3>2 DEF ProposalOK
    <2>4. ASSUME NEW v \in 0 .. p.view - 1 PROVE OnlyB(p.epoch, v, p.block)'
        <3>1. v \in Views
            BY <2>1 DEF Views
        <3>2. OnlyB(p.epoch, v, p.block)
            BY <2>2 DEF ProposalOK
        <3> QED
            BY <2>1, <3>1, <3>2, OnlyBStable
    <2> QED
        BY <2>2, <2>3, <2>4 DEF ProposalOK
<1>2. ASSUME NEW p \in proposals', p \notin proposals PROVE ProposalOK(p)'
    <2>1. /\ p.leader = Schedule[<<p.epoch, p.view>>]
          /\ p.epoch \in Epochs /\ p.view \in Views /\ p.block \in Blocks
          /\ At(p.leader, p.epoch, p.view)' /\ proposed'[p.leader]
        BY <1>2, NewProposal, NewIsScheduled
    <2>2. ASSUME NEW v \in 0 .. p.view - 1 PROVE OnlyB(p.epoch, v, p.block)'
        <3>1. v \in Views
            BY <2>1 DEF Views
        <3>2. OnlyB(p.epoch, v, p.block)
            BY <1>2, SafeProposal
        <3> QED
            BY <2>1, <3>1, <3>2, OnlyBStable
    <2> QED
        BY <2>1, <2>2 DEF ProposalOK
<1>3. ASSUME NEW p \in proposals', p \notin proposals, NEW q \in proposals,
             p.epoch = q.epoch, p.view = q.view
      PROVE  FALSE
    <2>1. /\ p.leader = Schedule[<<p.epoch, p.view>>] /\ p.leader \in Seats
          /\ p.epoch \in Epochs /\ p.view \in Views
          /\ At(p.leader, p.epoch, p.view) /\ ~proposed[p.leader]
        BY <1>3, NewProposal, NewIsScheduled
    <2>2. ProposalOK(q)
        BY DEF ProposalInv
    <2>3. q.leader = p.leader
        BY <1>3, <2>1, <2>2 DEF ProposalOK
    <2>4. Past(p.leader, p.epoch, p.view)
        BY <1>3, <2>1, <2>2, <2>3 DEF ProposalOK
    <2>5. p.view \in Int /\ p.view >= 0 /\ p.epoch \in Int
        BY <2>1 DEF Views, Epochs
    <2> QED
        BY <2>1, <2>4, <2>5 DEF Past, At, Idle, Down
<1>4. ASSUME NEW p \in proposals', p \notin proposals PROVE
      proposals' = proposals \cup {p}
    BY <1>4, NewProposal
<1>5. OnePerView'
    <2> SUFFICES ASSUME NEW p \in proposals', NEW q \in proposals',
                        p.epoch = q.epoch, p.view = q.view
                 PROVE  p = q
        BY DEF OnePerView
    <2>1. CASE p \in proposals /\ q \in proposals
        BY <2>1 DEF ProposalInv, OnePerView
    <2>2. CASE p \notin proposals
        BY <1>3, <1>4, <2>2
    <2>3. CASE q \notin proposals
        BY <1>3, <1>4, <2>3
    <2> QED
        BY <2>1, <2>2, <2>3
<1> QED
    BY <1>1, <1>2, <1>5 DEF ProposalInv

-----------------------------------------------------------------------------
(* The theorems.                                                            *)

LEMMA InvInit == Init => IInv
<1> SUFFICES ASSUME Init PROVE IInv
    OBVIOUS
<1>1. TypeOK
    BY TypeInit
<1>2. SeatInv /\ ScheduleInv /\ AttestationInv /\ ChangeInv /\ ProposalInv /\ DecisionInv
    BY DEF Init, SeatInv, SeatOK, ScheduleInv, ScheduleOK, AttestationInv, ChangeInv, ProposalInv,
           OnePerView, DecisionInv, Undecided, Unvalidated, Views, Idle
<1> QED
    BY <1>1, <1>2 DEF IInv

LEMMA InvNext == IInv /\ [Next]_vars => IInv'
BY TypeNext, SeatInvNext, ScheduleInvNext, AttestationInvNext, ChangeInvNext,
   ProposalInvNext, DecisionInvNext DEF IInv

\* Whatever is lost, late or silent, the seats that are on time keep the
\* inductive invariant: view loop, locks, certificates and decisions together.
THEOREM Invariance == Spec => []IInv
<1> QED
    BY InvInit, InvNext, PTL DEF Spec

\* A certified block and a proposal of a later view, or two certified blocks.
LEMMA CertifiedWins ==
    ASSUME IInv, NEW e \in Epochs, NEW v \in Views, NEW b \in Blocks,
           Certified(e, v, b), NEW c \in Blocks, OnlyB(e, v, c)
    PROVE  b = c
<1>1. PICK Q \in SUBSET Seats :
        /\ Cardinality(Q) >= Quorum
        /\ \A a \in attestations :
             (a.node \in Q /\ a.epoch = e /\ a.view = v) => a.block = c
    BY DEF OnlyB
<1>2. Attested(e, v, b) \in SUBSET Seats
    BY DEF Attested
<1>3. Q \cap Attested(e, v, b) # {}
    BY <1>1, <1>2, QuorumsMeet DEF Certified
<1> QED
    BY <1>1, <1>3 DEF Attested

\* A certified block was proposed in the view that certified it.
LEMMA CertifiedProposed ==
    ASSUME IInv, NEW e \in Epochs, NEW v \in Views, NEW b \in Blocks,
           Certified(e, v, b)
    PROVE  \E p \in proposals : p.epoch = e /\ p.view = v /\ p.block = b
<1>1. Attested(e, v, b) # {}
    BY FS_EmptySet DEF Certified
<1>2. PICK a \in attestations : a.epoch = e /\ a.view = v /\ a.block = b
    BY <1>1 DEF Attested
<1> QED
    BY <1>2 DEF IInv, AttestationInv, AttestationOK

LEMMA CarriedInv == IInv => CertifiedIsCarried
<1> SUFFICES ASSUME IInv, NEW p \in proposals, NEW v \in Views, NEW b \in Blocks,
                    p.view > v, Certified(p.epoch, v, b)
             PROVE  p.block = b
    BY DEF CertifiedIsCarried
<1>1. p.epoch \in Epochs /\ p.view \in Views /\ p.block \in Blocks
    BY SignedTypes DEF IInv
<1>2. v \in 0 .. p.view - 1
    BY <1>1 DEF Views
<1>3. OnlyB(p.epoch, v, p.block)
    BY <1>2 DEF IInv, ProposalInv, ProposalOK
<1> QED
    BY <1>1, <1>3, CertifiedWins, ZenonT(40)

LEMMA OneBlock ==
    ASSUME IInv, NEW e \in Epochs,
           NEW b \in CertifiedIn(e), NEW c \in CertifiedIn(e)
    PROVE  b = c
<1>1. PICK v \in Views : Certified(e, v, b)
    BY DEF CertifiedIn
<1>2. PICK w \in Views : Certified(e, w, c)
    BY DEF CertifiedIn
<1>3. b \in Blocks /\ c \in Blocks
    BY DEF CertifiedIn
<1>4. PICK p \in proposals : p.epoch = e /\ p.view = v /\ p.block = b
    BY <1>1, <1>3, CertifiedProposed
<1>5. PICK q \in proposals : q.epoch = e /\ q.view = w /\ q.block = c
    BY <1>2, <1>3, CertifiedProposed
<1>6. CASE v = w
    BY <1>4, <1>5, <1>6 DEF IInv, ProposalInv, OnePerView
<1>7. CASE v < w
    BY <1>1, <1>3, <1>5, <1>7, CarriedInv DEF CertifiedIsCarried
<1>8. CASE w < v
    BY <1>2, <1>3, <1>4, <1>8, CarriedInv DEF CertifiedIsCarried
<1> QED
    BY <1>6, <1>7, <1>8 DEF Views

\* OneBlockPerEpoch without counting.
NoTwo == \A e \in Epochs : \A b, c \in CertifiedIn(e) : b = c

LEMMA NoTwoInv == IInv => NoTwo
BY OneBlock DEF NoTwo

LEMMA OneBlockInv == IInv => OneBlockPerEpoch
<1> SUFFICES ASSUME IInv, NEW e \in Epochs
             PROVE  Cardinality(CertifiedIn(e)) <= 1
    BY DEF OneBlockPerEpoch
<1>1. CASE CertifiedIn(e) = {}
    BY <1>1, FS_EmptySet
<1>2. CASE CertifiedIn(e) # {}
    <2>1. PICK b \in CertifiedIn(e) : TRUE
        BY <1>2
    <2>2. CertifiedIn(e) = {b}
        BY <2>1, OneBlock
    <2>3. Cardinality({b}) = 1
        BY FS_Singleton
    <2> QED
        BY <2>2, <2>3
<1> QED
    BY <1>1, <1>2

\* Agreement: within one epoch, across all its views, one block is certified
\* at the height (docs/view_change_design.md 1 and 2).
THEOREM Agreement == Spec => []OneBlockPerEpoch
<1> QED
    BY OneBlockInv, Invariance, PTL

\* 2.4 of the design: no leader of a later view proposes anything but the block
\* an earlier view certified, whatever quorum of view changes it collected.
THEOREM Carried == Spec => []CertifiedIsCarried
<1> QED
    BY CarriedInv, Invariance, PTL

\* A seat's ViewChange reports a lock at least as high as every attestation it
\* made before (Seat.view_change).
THEOREM LocksAreTold == Spec => []ChangeTellsTheLock
<1>1. IInv => ChangeTellsTheLock
    BY DEF IInv, ChangeInv, ChangeOK, ChangeTellsTheLock
<1> QED
    BY <1>1, Invariance, PTL

-----------------------------------------------------------------------------
(* Every epoch implements HeightDecision.                                   *)

LEMMA PromiseInit == Init => \A e \in Epochs : Promise(e)!Init
<1> SUFFICES ASSUME Init, NEW e \in Epochs PROVE Promise(e)!Init
    OBVIOUS
<1>1. CertifiedIn(e) = {}
    <2>1. ASSUME NEW v \in Views, NEW b \in Blocks, Certified(e, v, b) PROVE FALSE
        <3>1. Attested(e, v, b) = {}
            BY DEF Init, Attested
        <3> QED
            BY <2>1, <3>1, FS_EmptySet DEF Certified
    <2> QED
        BY <2>1 DEF CertifiedIn
<1>2. Finished(e) = [s \in Seats |-> None]
    BY DEF Finished, Init, NoBlock, Epochs
<1> QED
    BY <1>1, <1>2 DEF Promise!Init

LEMMA PromiseNext ==
    IInv /\ NoTwo' /\ [Next]_vars =>
        \A e \in Epochs :
            Promise(e)!Next \/ UNCHANGED <<CertifiedIn(e), Finished(e)>>
<1> SUFFICES ASSUME IInv, NoTwo', [Next]_vars, NEW e \in Epochs
             PROVE Promise(e)!Next \/ UNCHANGED <<CertifiedIn(e), Finished(e)>>
    OBVIOUS
<1>1. IInv'
    BY InvNext
<1>2. CASE attestations' # attestations
    <2>1. PICK a \in attestations' : a \notin attestations
        BY <1>2, Grows
    <2>2. UNCHANGED decided
        BY <2>1, NewAttestation DEF IInv
    <2>3. Finished(e)' = Finished(e)
        BY <2>2 DEF Finished
    <2>4. CertifiedIn(e) \subseteq CertifiedIn(e)'
        BY CertifiedGrows DEF CertifiedIn
    <2>5. \A b, c \in CertifiedIn(e)' : b = c
        BY DEF NoTwo
    <2>6. CASE CertifiedIn(e)' # CertifiedIn(e)
        <3>1. PICK b \in CertifiedIn(e)' : b \notin CertifiedIn(e)
            BY <2>4, <2>6
        <3>2. CertifiedIn(e) = {} /\ CertifiedIn(e)' = {b} /\ b \in Blocks
            BY <2>4, <2>5, <3>1 DEF CertifiedIn
        <3> QED
            BY <2>3, <3>2 DEF Promise!Next, Promise!Agree
    <2> QED
        BY <2>3, <2>6
<1>3. CASE attestations' = attestations
    <2>1. CertifiedIn(e)' = CertifiedIn(e)
        BY <1>3 DEF CertifiedIn, Certified, Attested
    <2>2. CASE decided' = decided
        BY <2>1, <2>2 DEF Finished
    <2>3. CASE decided' # decided
        <3>1. PICK s \in Seats : decided'[s] # decided[s]
            <4>1. decided = [s \in Seats |-> decided[s]]
                BY DEF IInv, TypeOK
            <4>2. decided' = [s \in Seats |-> decided'[s]]
                BY <1>1 DEF IInv, TypeOK
            <4> QED
                BY <2>3, <4>1, <4>2
        <3>2. /\ decided[s] = NoBlock
              /\ decided'[s].block \in Blocks /\ decided'[s].epoch \in Epochs
              /\ decided' = [decided EXCEPT ![s] = decided'[s]]
              /\ \E v \in Views : Certified(decided'[s].epoch, v, decided'[s].block)
            BY <3>1, NewDecision DEF IInv
        <3>3. Finished(e)' = [Finished(e) EXCEPT ![s] =
                    IF decided'[s].epoch = e THEN decided'[s].block ELSE None]
            BY <3>2 DEF Finished, IInv, TypeOK
        <3>4. Finished(e)[s] = None
            BY <3>2 DEF Finished, NoBlock, Epochs
        <3>5. CASE decided'[s].epoch = e
            <4>1. decided'[s].block \in CertifiedIn(e)
                BY <3>2, <3>5 DEF CertifiedIn
            <4>2. Promise(e)!Learn(s)
                BY <2>1, <3>3, <3>4, <3>5, <4>1 DEF Promise!Learn
            <4> QED
                BY <4>2 DEF Promise!Next
        <3>6. CASE decided'[s].epoch # e
            BY <2>1, <3>3, <3>4, <3>6, ZenonT(40) DEF Finished
        <3> QED
            BY <3>5, <3>6
    <2> QED
        BY <2>2, <2>3
<1> QED
    BY <1>2, <1>3

\* Seen from any one epoch, the protocol with all its views, locks and
\* certificates does what HeightDecision does: it agrees at most once, and
\* seats finish with what was agreed.
THEOREM Refinement == Spec => KeepsThePromise
<1> QED
    BY PromiseInit, PromiseNext, NoTwoInv, Invariance, PTL
    DEF Spec, KeepsThePromise
=============================================================================
