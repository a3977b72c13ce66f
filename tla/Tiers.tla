---- MODULE Tiers ----
(* The tiered network an epoch at a time (src/chain/tiers.py, locality.py): grids
   and their registers, the block that advances them all together, foundings and
   merges, where a newcomer is seated and where a transaction waits.
   The state is the committed one, which every node holds alike. *)
EXTENDS Register, SequencesExt

CONSTANTS
    TierNodes,      \* members and would-be members
    Joiners,        \* those who may still ask to join
    Cohort,         \* params.founding_cohort
    Starts,         \* networks to start from: [size, home, suspended]
    Payments,       \* transactions, each the set of nullifiers it spends
    MaxAbsent,      \* bound: seats missing from one certificate
    MaxTierHeight   \* bound: blocks

NoTierCert == [height |-> -1, signers |-> {}]

\* Grid ids are <<region, number>>.
GridNames == (Nat \ {0}) \X Nat
NoGrid == <<0, 0>>

ASSUME TiersAssumption ==
    /\ IsFiniteSet(TierNodes) /\ MaxTierHeight \in Nat
    /\ \A s \in Starts : s.size \in Nat /\ s.home \in [TierNodes -> GridNames \cup {NoGrid}]

VARIABLES
    gridSize,       \* params.grid_size, fixed from the start
    register,       \* grid -> register; its domain is the grids there are
    partition,      \* grid -> index, Topology.partition_of
    home,           \* node -> grid, Topology.assignment; NoGrid before it joins
    prevCerts,      \* grid -> the certificate its next roll is derived from
    tierHeight,     \* world.height
    pendingFaults,  \* accused by reports the next block is to carry
    waiting,        \* node -> transactions in its mempool
    spent,          \* transactions in the chain
    world           \* "up", or "raised" when applying an agreed block raised

tierVars == <<gridSize, register, partition, home, prevCerts, tierHeight,
              pendingFaults, waiting, spent, world>>

GridIds == DOMAIN register
Residents(g) == {n \in TierNodes : home[n] = g}
GridMembers(g) == {n \in Residents(g) :
                     StandingOf(register[g], n) \in {"attester", "apprentice"}}

\* `sorted` orders grid ids so.
Precedes(g, h) == g[1] < h[1] \/ (g[1] = h[1] /\ g[2] < h[2])
FirstGrid(S) == CHOOSE g \in S : \A h \in S \ {g} : Precedes(g, h)
GridsIn(region) == {g \in GridIds : g[1] = region}
K == Cardinality(GridIds)

NextGridId(region) ==
    <<region, CHOOSE i \in 0..K : /\ <<region, i>> \notin GridIds
                                   /\ \A j \in 0..(i - 1) : <<region, j>> \in GridIds>>

\* ---- routing ----

\* {} when the inputs span partitions: no grid may include it.
TxPartition(tx, k) ==
    LET parts == {nf % k : nf \in tx} IN IF Cardinality(parts) = 1 THEN parts ELSE {}

Takes(tx, part, homeOf, k) ==
    {n \in TierNodes : homeOf[n] # NoGrid /\ part[homeOf[n]] \in TxPartition(tx, k)}

Submit(tx) ==
    /\ world = "up" /\ tx \notin spent
    /\ waiting' = [n \in TierNodes |->
         IF n \in Takes(tx, partition, home, K) THEN waiting[n] \cup {tx} ELSE waiting[n]]
    /\ UNCHANGED <<gridSize, register, partition, home, prevCerts, tierHeight,
                   pendingFaults, spent, world>>

\* K moved: everything in flight is evicted and submitted again.
KeptWhereItWas(pending, part, homeOf, k) == [n \in TierNodes |-> waiting[n] \cap pending]

Rerouted(pending, part, homeOf, k) ==
    [n \in TierNodes |-> {tx \in pending : n \in Takes(tx, part, homeOf, k)}]

\* ---- growing and shrinking: planned from the state before the block ----

Eligible(g) == {n \in Attesters(register[g]) \cap Residents(g) :
                  register[g].members[n].faults = 0}

NeedsSplit(g) == /\ Cardinality(Residents(g)) > 2 * gridSize
                 /\ Cardinality(Eligible(g)) >= 2 * Cohort

NoPlan == [kind |-> "none"]

\* The cohort is drawn by the previous block's hash: any of the right size.
PlanFoundings ==
    LET over == {g \in GridIds : NeedsSplit(g)}
    IN IF over = {} THEN {NoPlan}
       ELSE {[kind |-> "found", donor |-> FirstGrid(over),
              grid |-> NextGridId(FirstGrid(over)[1]), cohort |-> c] :
                c \in {s \in SUBSET Eligible(FirstGrid(over)) : Cardinality(s) = Cohort}}

NeedsMerge(g) == 2 * Cardinality(SeatedMembers(register[g])) < gridSize

RoomAnywhere(g) == {h \in GridIds \ {g} :
                 Cardinality(Residents(h)) + Cardinality(Residents(g)) <= 2 * gridSize}

RoomFor(g) == {h \in GridsIn(g[1]) \ {g} :
                 Cardinality(Residents(h)) + Cardinality(Residents(g)) <= 2 * gridSize}
Smallest(S) == {g \in S : \A h \in S : Cardinality(Residents(g)) <= Cardinality(Residents(h))}

PlanMerges ==
    LET small == {g \in GridIds : NeedsMerge(g) /\ RoomFor(g) # {}}
    IN IF K < 2 \/ PlanFoundings # {NoPlan} \/ small = {} THEN {NoPlan}
       ELSE {[kind |-> "merge", from |-> FirstGrid(small), into |-> t] :
                t \in Smallest(RoomFor(FirstGrid(small)))}

Plans == IF PlanFoundings # {NoPlan} THEN PlanFoundings ELSE PlanMerges

PartitionsWithAHole(plan) ==
    CASE plan.kind = "found" ->
            [g \in GridIds \cup {plan.grid} |-> IF g = plan.grid THEN K ELSE partition[g]]
      [] plan.kind = "merge" -> [g \in GridIds \ {plan.from} |-> partition[g]]
      [] plan.kind = "none" -> partition

\* Topology.found_grid: the next free index, everybody else keeps theirs.
PartitionsAfter(plan) ==
    CASE plan.kind = "found" ->
            [g \in GridIds \cup {plan.grid} |-> IF g = plan.grid THEN K ELSE partition[g]]
      [] plan.kind = "merge" ->
            [g \in GridIds \ {plan.from} |->
                Cardinality({h \in GridIds \ {plan.from} : partition[h] < partition[g]})]
      [] plan.kind = "none" -> partition

HomesAfter(plan) ==
    CASE plan.kind = "found" ->
            [n \in TierNodes |-> IF n \in plan.cohort THEN plan.grid ELSE home[n]]
      [] plan.kind = "merge" ->
            [n \in TierNodes |-> IF home[n] = plan.from THEN plan.into ELSE home[n]]
      [] plan.kind = "none" -> home

\* ---- an epoch ----

CanSeat(g) == /\ Cardinality(GridMembers(g)) >= 2
              /\ Attesters(register[g]) \cap GridMembers(g) # {}

\* GridWorkload._check_prev_cert: a grid's block follows the certificate of the
\* height before, if the grid has one at all.
FollowsItsCert(g) ==
    tierHeight = 0 \/ prevCerts[g] = NoTierCert \/ prevCerts[g].height = tierHeight

\* The attestations that finalise a block of grid g: a quorum of attesters, any apprentices.
Certifies(g, signers) ==
    Cardinality(signers \cap Attesters(register[g])) >= RegisterQuorum(register[g])

\* _deal: round robin, in the order of the leaders' names, into ceil(n / grid_size)
\* groups; a leader alone is skipped.
Deal(ordered) ==
    LET groups == (Len(ordered) + gridSize - 1) \div gridSize
    IN {{ordered[i] : i \in {i \in 1..Len(ordered) : i % groups = j}} : j \in 0..(groups - 1)}

\* The grids whose blocks may reach the top together: one grid alone is the
\* network, otherwise the union of the groups that finalise.
Bundles(S) ==
    IF K = 1 THEN IF S = {} THEN {} ELSE {S}
    ELSE UNION {{UNION ok : ok \in SUBSET {grp \in Deal(o) : Cardinality(grp) >= 2} \ {{}}} :
                   o \in SetToSeqs(S)}

RollOfSigners(g) == RollFrom(prevCerts[g], GridMembers(g) \cup prevCerts[g].signers)

RollOf(g) == RollFrom(prevCerts[g], GridMembers(g))
\* Every register takes its roll, before any member moves.
RollsTaken(children) ==
    [g \in GridIds |-> IF g \in children /\ prevCerts[g] # NoTierCert
                       THEN ApplyRoll(register[g], RollOf(g), pendingFaults)
                       ELSE register[g]]

CanCarryOut(plan, regs) ==
    CASE plan.kind = "found" -> CanRelease(regs[plan.donor], plan.cohort)
      [] plan.kind = "merge" -> CanAbsorb(regs[plan.into], regs[plan.from])
      [] plan.kind = "none" -> TRUE

CarriedOut(plan, regs) ==
    CASE plan.kind = "found" ->
            [g \in GridIds \cup {plan.grid} |->
                CASE g = plan.grid -> FoundRegister(regs[plan.donor], plan.cohort, plan.donor)
                  [] g = plan.donor -> Release(regs[g], plan.cohort)
                  [] OTHER -> regs[g]]
      [] plan.kind = "merge" ->
            [g \in GridIds \ {plan.from} |->
                IF g = plan.into THEN Absorb(regs[g], regs[plan.from], plan.from) ELSE regs[g]]
      [] plan.kind = "none" -> regs

\* What leader n of grid g may put in, tx_limit permitting: what it holds that
\* belongs to the grid's partition.
Included(g, n) ==
    {tx \in waiting[n] : n \in GridMembers(g) \cap Eligible(g) /\ partition[g] \in TxPartition(tx, K)}

RerouteMempools(plan, left) ==
    LET pending == UNION {waiting[n] : n \in TierNodes} \ left
    IN IF plan.kind = "none"
       THEN [n \in TierNodes |-> waiting[n] \ left]
       ELSE Rerouted(pending, PartitionsAfter(plan), HomesAfter(plan),
                     Cardinality(DOMAIN PartitionsAfter(plan)))

CertsAfter(grids, children, signers) ==
    [g \in grids |-> IF g \in children THEN [height |-> tierHeight + 1, signers |-> signers[g]]
                     ELSE IF g \in GridIds THEN prevCerts[g] ELSE NoTierCert]

\* apply_network_block: all of an epoch that lasts.  The plan was checked against
\* the state before the block, and is carried out on the state its rolls left.
ApplyTierBlock(children, signers, in, plan) ==
    LET regs == RollsTaken(children)
    IN /\ pendingFaults' = IF CanCarryOut(plan, regs) THEN {} ELSE pendingFaults
       /\ spent' = spent \cup in
       /\ \/ /\ CanCarryOut(plan, regs)
             /\ register' = CarriedOut(plan, regs)
             /\ partition' = PartitionsAfter(plan)
             /\ home' = HomesAfter(plan)
             /\ prevCerts' = CertsAfter(DOMAIN PartitionsAfter(plan), children, signers)
             /\ tierHeight' = tierHeight + 1
             /\ waiting' = RerouteMempools(plan, in)
             /\ UNCHANGED world
          \/ /\ ~CanCarryOut(plan, regs)
             /\ world' = "raised"
             /\ register' = IF plan.kind = "merge"
                             THEN [g \in GridIds \ {plan.from} |-> regs[g]] ELSE regs
             /\ waiting' = [n \in TierNodes |-> waiting[n] \ in]
             /\ UNCHANGED <<partition, home, prevCerts, tierHeight>>

\* An epoch that ends in a block.  Grids that cannot seat are skipped, others may
\* abort; an epoch that ends without a block leaves the world as it was.
Epoch ==
    /\ world = "up" /\ tierHeight < MaxTierHeight
    /\ \E fin \in SUBSET {g \in GridIds : CanSeat(g) /\ FollowsItsCert(g)} :
       \E children \in Bundles(fin) :
       \E signers \in {f \in [children -> SUBSET TierNodes] :
                         \A g \in children : /\ f[g] \subseteq GridMembers(g) /\ Certifies(g, f[g])
                                     /\ Cardinality(GridMembers(g) \ f[g]) <= MaxAbsent} :
       \E in \in SUBSET UNION {Included(g, n) : g \in children, n \in TierNodes} :
       \E plan \in Plans :
          ApplyTierBlock(children, signers, in, plan)
    /\ UNCHANGED gridSize

\* A provable fault: only the networked seat files reports, in a one-grid network.
ReportFault(n) ==
    /\ world = "up" /\ K = 1 /\ tierHeight > 0
    /\ \E g \in GridIds : n \in GridMembers(g)
    /\ pendingFaults' = {n}
    /\ UNCHANGED <<gridSize, register, partition, home, prevCerts, tierHeight,
                   waiting, spent, world>>

\* TierWorld.admit: the seed picks among the region's grids with room.
RoomyGrids(region) == {g \in GridsIn(region) : HasRoom(register[g])}

AdmitNode(n, region) ==
    /\ world = "up" /\ n \in Joiners /\ home[n] = NoGrid
    /\ \E g \in RoomyGrids(region) :
         /\ register' = [register EXCEPT ![g] = Admit(@, n)]
         /\ home' = [home EXCEPT ![n] = g]
    /\ UNCHANGED <<gridSize, partition, prevCerts, tierHeight, pendingFaults,
                   waiting, spent, world>>

StartRegister(members, out) ==
    [GenesisRegister(members) EXCEPT !.members =
        [n \in members |-> IF n \in out THEN [Founder EXCEPT !.standing = "suspended", !.faults = 1]
                           ELSE Founder]]

TiersInit ==
    /\ \E s \in Starts :
         LET grids == {s.home[n] : n \in TierNodes} \ {NoGrid} IN
         /\ gridSize = s.size /\ home = s.home
         /\ register = [g \in grids |-> StartRegister({n \in TierNodes : s.home[n] = g}, s.suspended)]
         /\ partition = [g \in grids |-> Cardinality({h \in grids : Precedes(h, g)})]
         /\ prevCerts = [g \in grids |-> NoTierCert]
    /\ tierHeight = 0 /\ pendingFaults = {} /\ spent = {} /\ world = "up"
    /\ waiting = [n \in TierNodes |-> {}]

TiersNext ==
    \/ Epoch
    \/ \E n \in TierNodes : ReportFault(n)
    \/ \E n \in TierNodes, r \in {g[1] : g \in GridIds} : AdmitNode(n, r)
    \/ \E tx \in Payments : Submit(tx)

TiersSpec == TiersInit /\ [][TiersNext]_tierVars
\* ---- properties ----

TiersTypeOK ==
    /\ gridSize \in Nat /\ tierHeight \in 0..MaxTierHeight /\ world \in {"up", "raised"}
    /\ \A g \in GridIds : \A n \in Enrolled(register[g]) :
         /\ n \in TierNodes
         /\ register[g].members[n].standing \in Standings \ {"observer"}
         /\ register[g].members[n].streak \in 0..Threshold
    /\ \A n \in TierNodes : waiting[n] \subseteq Payments

\* Whoever is seated by the topology is in the register of that grid and in no
\* other, through admissions, rolls that name people who have moved, foundings
\* and merges (register.py:206, 275; tiers.py:334-381).
OneRegisterEach ==
    world = "up" =>
        \A n \in TierNodes : {g \in GridIds : n \in Enrolled(register[g])} = {home[n]} \ {NoGrid}

SeatingIsSound == TiersTypeOK /\ OneRegisterEach

\* Every nullifier has exactly one grid that may include it: the indices are
\* always 0..K-1, whatever was founded or merged away (locality.py:123-159).
EveryNullifierHasAHome ==
    world = "up" =>
        /\ DOMAIN partition = GridIds
        /\ {partition[g] : g \in GridIds} = 0..(K - 1)

\* Nothing waits where it can never be included: after a founding or a merge
\* every mempool holds only its own partition's payments (tiers.py:383-402).
WaitingIsReachable ==
    world = "up" =>
        \A n \in TierNodes : \A tx \in waiting[n] :
            home[n] # NoGrid /\ partition[home[n]] \in TxPartition(tx, K)

\* Wherever the grids have gone, a payment finds the one that may include it.
PaymentsFindTheirGrid == EveryNullifierHasAHome /\ WaitingIsReachable

StandingAnywhere(n) == {StandingOf(register[g], n) : g \in GridIds} \ {"observer"}

\* A suspension is never laundered: no roll, founding, merge or admission brings a
\* suspended member back or loses its record (register.py:275-290).
SuspensionIsForGood ==
    [][world' = "up" => \A n \in TierNodes :
          "suspended" \in StandingAnywhere(n) => StandingAnywhere(n)' = {"suspended"}]_tierVars

\* Moving does not shorten the gate: an attester that joined as an apprentice has
\* been in rolls for Threshold ceremonies after the one it joined in, whichever
\* grids it has been founded or merged into (params.py attend_threshold).
GateIsServed ==
    \A g \in GridIds : \A n \in Enrolled(register[g]) :
        LET rec == register[g].members[n]
        IN rec.standing = "attester" /\ rec.joined >= 0
           => register[g].epoch > rec.joined + Threshold

\* Members are merged and seated only within their region (locality.py:145-149).
RegionsAreKept ==
    [][\A n \in TierNodes : home[n] # NoGrid => home'[n][1] = home[n][1]]_tierVars

\* Being founded or merged elsewhere moves a member and changes nothing else of it: what
\* it has served, what it was suspended for and the region it is in come along.
MovingEarnsNothing == []GateIsServed /\ SuspensionIsForGood /\ RegionsAreKept

\* ---- what is always so ----

Records ==
    [standing : Standings \ {"observer"}, joined : Int, streak : 0..Threshold,
     misses : Nat, faults : Nat, from : {OwnGrid} \cup GridNames]
RegisterOK(reg) ==
    \E S \in SUBSET TierNodes : reg \in [epoch : Nat, members : [S -> Records]]

\* A streak is no longer than the ceremonies since the one it was begun in.
Served(reg, rec) ==
    rec.joined >= 0 =>
        /\ rec.joined <= reg.epoch
        /\ rec.streak = 0 \/ rec.joined + rec.streak < reg.epoch
        /\ rec.standing = "attester" => rec.joined + Threshold < reg.epoch

RegistersAreServed ==
    \A g \in GridIds : /\ RegisterOK(register[g])
                       /\ \A n \in Enrolled(register[g]) :
                              Served(register[g], register[g].members[n])

\* Who signed for a grid had joined some grid before that block.
CertOK(cert) ==
    cert # NoTierCert =>
        /\ cert.height \in 1..tierHeight /\ cert.signers \subseteq TierNodes
        /\ \A n \in cert.signers :
               /\ home[n] # NoGrid
               /\ \A g \in GridIds : n \in Enrolled(register[g]) =>
                      register[g].members[n].joined < cert.height

\* The topology, the registers and the partitions are of the same grids and nodes.
TopologyOK ==
    /\ GridIds \subseteq GridNames /\ IsFiniteSet(GridIds)
    /\ home \in [TierNodes -> GridIds \cup {NoGrid}]
    /\ \A g \in GridIds : Enrolled(register[g]) = Residents(g) /\ register[g].epoch <= tierHeight
    /\ partition \in [GridIds -> 0..(K - 1)] /\ {partition[g] : g \in GridIds} = 0..(K - 1)
    /\ \A g, h \in GridIds : partition[g] = partition[h] => g = h
    /\ \A g \in GridIds : CertOK(prevCerts[g])
    /\ pendingFaults # {} => \A g \in GridIds : pendingFaults \subseteq Residents(g)
    /\ WaitingIsReachable

TiersInv ==
    /\ gridSize \in Nat /\ tierHeight \in 0..MaxTierHeight /\ world \in {"up", "raised"}
    /\ waiting \in [TierNodes -> SUBSET Payments]
    /\ RegistersAreServed
    /\ world = "up" => TopologyOK

\* A block that every seat accepted can be applied (tiers.py:204-211).
AgreedBlockApplies == world # "raised"

\* A grid that lost an epoch can finalise a block in the next one
\* (docs/supreme_tier_design.md:29).
NextEpochIsOpen ==
    world = "up" => \A g \in GridIds : CanSeat(g) => FollowsItsCert(g)
====
