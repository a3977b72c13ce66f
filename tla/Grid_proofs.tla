---------------------------- MODULE Grid_proofs ----------------------------
EXTENDS GridBlock, TierPass, Selection_proofs, FiniteSetTheorems, TLAPS

-----------------------------------------------------------------------------
(***************************************************************************)
(* Why seats agree on blocks and what they accept is sound: a seat holds its   *)
(* certificate before a block is built, and nothing a seat looks at changes    *)
(* once it has looked.                                                         *)
(***************************************************************************)
AllCertified == HasHistory => AllKnow

IsBlock(b) ==
    /\ DOMAIN b = {"leader", "header", "body"}
    /\ DOMAIN b.body = {"txs", "delta", "roll", "cert", "faults"}
    /\ b.body.txs \in Seq(world.offered \cup DOMAIN Transactions)

GridInv ==
    /\ world \in Worlds
    /\ DOMAIN cert = BlockSeats /\ \A n \in BlockSeats : cert[n] = None \/ (HasHistory /\ cert[n] \in OwnCerts)
    /\ DOMAIN pending = BlockSeats
    /\ pool \in Seq(world.offered) /\ \A i \in 1..Len(pool) : Transactions[pool[i]].proof
    /\ altered \in BOOLEAN /\ DOMAIN verdicts \subseteq BlockSeats
    /\ block # None => (AllCertified /\ IsBlock(block))
    /\ block = None => (verdicts = <<>> /\ ~altered)
    /\ (block # None /\ ~altered) => (\A n \in BlockSeats : Validates(n, block))
    /\ \A n \in DOMAIN verdicts : verdicts[n] = Validates(n, block)

\* What a list spends and creates, and the list before each of its transactions.
Before(txs, i) == SubSeq(txs, 1, i - 1)

LEMMA BeforeIsPrefix ==
    ASSUME NEW S, NEW txs \in Seq(S), NEW t \in S
    PROVE  /\ \A i \in 1..Len(txs) : Before(Append(txs, t), i) = Before(txs, i) /\ Append(txs, t)[i] = txs[i]
           /\ Before(Append(txs, t), Len(txs) + 1) = txs /\ Append(txs, t)[Len(txs) + 1] = t
           /\ DOMAIN Append(txs, t) = 1..Len(txs) + 1 /\ Append(txs, t) \in Seq(S)
<1>0. PICK more : more = Append(txs, t)
    OBVIOUS
<1>1. /\ more \in Seq(S) /\ Len(more) = Len(txs) + 1 /\ more[Len(txs) + 1] = t
      /\ \A i \in 1..Len(txs) : more[i] = txs[i]
    BY <1>0
<1>2. \A i \in 1..Len(txs) : Before(more, i) = Before(txs, i)
    <2> SUFFICES ASSUME NEW i \in 1..Len(txs) PROVE Before(more, i) = Before(txs, i)
        OBVIOUS
    <2>1. PICK k \in Nat : k = i - 1 /\ k <= Len(txs) /\ k <= Len(more)
        BY <1>1
    <2>2. SubSeq(more, 1, k) = [j \in 1..k |-> more[j]] /\ SubSeq(txs, 1, k) = [j \in 1..k |-> txs[j]]
        BY <1>1, <2>1
    <2>3. \A j \in 1..k : more[j] = txs[j]
        BY <1>1, <2>1
    <2> QED
        BY <2>1, <2>2, <2>3 DEF Before
<1>3. Before(more, Len(txs) + 1) = txs
    <2>1. PICK k \in Nat : k = Len(txs) /\ (k + 1) - 1 = k
        OBVIOUS
    <2>2. SubSeq(more, 1, k) = [j \in 1..k |-> more[j]]
        BY <1>1, <2>1
    <2>3. txs = [j \in 1..k |-> txs[j]]
        BY <2>1
    <2>4. \A j \in 1..k : more[j] = txs[j]
        BY <1>1, <2>1
    <2> QED
        BY <2>1, <2>2, <2>3, <2>4 DEF Before
<1> QED
    BY <1>0, <1>1, <1>2, <1>3

\* What build takes is what a seat accepts.
LEMMA ChosenIsAccepted ==
    ASSUME NEW S, NEW held \in Seq(S), \A i \in 1..Len(held) : Transactions[held[i]].proof
    PROVE  Chosen(held) \in Seq(S) /\ CheckCeremonyTxs(Chosen(held))
<1> DEFINE n == Len(held)
           Lists == {txs \in Seq(S) : CheckCeremonyTxs(txs)}
           Taken(t, txs) == IF Fits(t, txs) THEN Append(txs, t) ELSE txs
           step == [i \in 1..n |-> [txs \in Lists |-> Taken(held[i], txs)]]
<1>1. <<>> \in Lists
    BY DEF CheckCeremonyTxs
<1>2. ASSUME NEW i \in 1..n, NEW txs \in Lists PROVE Taken(held[i], txs) \in Lists
    <2>1. CASE ~Fits(held[i], txs)
        BY <2>1
    <2>2. CASE Fits(held[i], txs)
        <3>1. PICK t \in S : t = held[i] /\ Transactions[t].proof /\ Fits(t, txs)
            BY <2>2
        <3>2. PICK more : more = Append(txs, t)
            OBVIOUS
        <3>3. txs \in Seq(S) /\ CheckCeremonyTxs(txs)
            OBVIOUS
        <3>4. /\ \A k \in 1..Len(txs) : Before(more, k) = Before(txs, k) /\ more[k] = txs[k]
              /\ Before(more, Len(txs) + 1) = txs /\ more[Len(txs) + 1] = t
              /\ DOMAIN more = 1..Len(txs) + 1 /\ more \in Seq(S)
            BY <3>2, <3>3, BeforeIsPrefix
        <3>5. ASSUME NEW k \in DOMAIN more
              PROVE  /\ AtHome(more[k]) /\ Transactions[more[k]].proof /\ Spendable(more[k], Before(more, k))
                     /\ Transactions[more[k]].outs \cap Outputs(Before(more, k)) = {}
            <4>1. CASE k \in 1..Len(txs)
                <5>1. k \in DOMAIN txs
                    BY <3>3, <4>1
                <5> QED
                    BY <3>3, <3>4, <4>1, <5>1 DEF CheckCeremonyTxs, Before
            <4>2. CASE k = Len(txs) + 1
                BY <3>1, <3>4, <4>2 DEF Fits
            <4>3. k \in 1..Len(txs) \/ k = Len(txs) + 1
                BY <3>3, <3>4
            <4> QED
                BY <4>1, <4>2, <4>3
        <3>6. CheckCeremonyTxs(more)
            BY <3>5 DEF CheckCeremonyTxs, Before
        <3> QED
            BY <2>2, <3>1, <3>2, <3>4, <3>6
    <2> QED
        BY <2>1, <2>2
<1>3. step \in [1..n -> [Lists -> Lists]]
    <2> HIDE DEF Lists, Taken
    <2> QED
        BY <1>2
<1>4. n \in Nat
    OBVIOUS
<1> HIDE DEF Lists, Taken, n
<1>5. PICK f \in [0..n -> Lists] : f = [i \in 0..n |-> IF i = 0 THEN <<>> ELSE step[i][f[i - 1]]]
    <2> HIDE DEF step
    <2>1. PICK X, base, m, s : X = Lists /\ base = <<>> /\ m = n /\ s = step
        OBVIOUS
    <2>2. base \in X /\ s \in [1..m -> [X -> X]] /\ m \in Nat
        BY <1>1, <1>3, <1>4, <2>1
    <2>3. \E f \in [0..m -> X] : InTurn(f, m, base, s)
        BY <2>2, StepsInTurn
    <2>4. PICK f \in [0..n -> Lists] : InTurn(f, n, <<>>, step)
        BY <2>1, <2>3
    <2> QED
        BY <2>4 DEF InTurn
<1>6. \A i \in 0..n : i # 0 => i \in 1..n /\ f[i - 1] \in Lists
    BY <1>4
<1>7. f = [i \in 0..n |-> IF i = 0 THEN <<>> ELSE Taken(held[i], f[i - 1])]
    <2>1. \A i \in 0..n : i # 0 => step[i][f[i - 1]] = Taken(held[i], f[i - 1])
        BY <1>6
    <2> QED
        BY <1>5, <2>1
<1> HIDE DEF step
<1> DEFINE chosen == CHOOSE g : g = [i \in 0..n |-> IF i = 0 THEN <<>> ELSE Taken(held[i], g[i - 1])]
<1>8. chosen = [i \in 0..n |-> IF i = 0 THEN <<>> ELSE Taken(held[i], chosen[i - 1])]
    BY <1>7
<1>9. Chosen(held) = chosen[n]
    BY DEF Chosen, Taken, n
<1> HIDE DEF chosen
<1>10. \A i \in 0..n : chosen[i] \in Lists
    <2> DEFINE Bad == {i \in 0..n : chosen[i] \notin Lists}
    <2> SUFFICES ASSUME Bad # {} PROVE FALSE
        OBVIOUS
    <2>1. Bad \in SUBSET Nat
        OBVIOUS
    <2>2. PICK i \in Bad : \A k \in Bad : i <= k
        BY <2>1, LeastOfSome
    <2>3. i # 0
        BY <1>1, <1>4, <1>8
    <2>4. i - 1 \in 0..n /\ i \in 1..n /\ i - 1 \notin Bad
        BY <1>4, <2>1, <2>2, <2>3
    <2>5. chosen[i - 1] \in Lists
        BY <2>4
    <2>6. chosen[i] = Taken(held[i], chosen[i - 1])
        BY <1>8, <2>3
    <2> QED
        BY <1>2, <2>4, <2>5, <2>6
<1>11. n \in 0..n
    BY <1>4
<1> QED
    BY <1>9, <1>10, <1>11 DEF Lists

-----------------------------------------------------------------------------
\* A certificate a node assembled itself stands with every other node.
LEMMA OwnCertsVerify ==
    ASSUME world \in Worlds, NEW c \in OwnCerts
    PROVE  c # None /\ c.height = world.height /\ CertVerifies(c)
<1>1. PICK voters \in SUBSET Attested("attester"), shadows \in SUBSET Attested("apprentice") :
          /\ Cardinality(voters) >= RegisterQuorum(world.register)
          /\ c = [height |-> world.height, block |-> "agreed", voters |-> voters, shadows |-> shadows, root |-> TRUE]
    BY DEF OwnCerts
<1>2. c # None /\ c.height = world.height /\ c.block = "agreed" /\ c.voters = voters /\ c.shadows = shadows /\ c.root
    <2>1. "height" \in DOMAIN c /\ "height" \notin DOMAIN None
        BY <1>1 DEF None
    <2> QED
        BY <1>1, <2>1
<1>3. RegisterQuorum(world.register) \in Int /\ RegisterQuorum(world.register) >= 1
    <2>1. IsFiniteSet(Enrolled(world.register))
        BY WorldsAreWhole
    <2>2. IsFiniteSet(Attesters(world.register))
        BY <2>1, FS_Subset DEF Attesters
    <2>3. PICK k \in Nat : k = Cardinality(Attesters(world.register))
        BY <2>2, FS_CardinalityType
    <2>4. (k * QuorumNum + QuorumDen - 1) \div QuorumDen \in Int
        BY RegisterAssumption
    <2>5. PICK q \in Int : q = (k * QuorumNum + QuorumDen - 1) \div QuorumDen
        BY <2>4
    <2>6. RegisterQuorum(world.register) = AtLeastOne(q)
        BY <2>3, <2>5 DEF RegisterQuorum
    <2> QED
        BY <2>6 DEF AtLeastOne
<1>4. voters # {}
    BY <1>1, <1>3, FS_EmptySet
<1>5. \A n \in voters : StandingOf(world.register, n) = "attester"
    BY <1>1 DEF Attested
<1>6. \A n \in shadows : StandingOf(world.register, n) = "apprentice"
    BY <1>1 DEF Attested
<1>7. voters \cap shadows = {}
    BY <1>5, <1>6
<1>8. \A n \in voters \cup shadows : Made("attestation", n, world.height, "agreed")
    BY <1>1 DEF Attested
<1> QED
    BY <1>2, <1>4, <1>7, <1>8 DEF CertVerifies

\* Whatever certificate a leader's node ended the epoch before with, its block passes.
LEMMA WhatIsBuiltPasses ==
    ASSUME GridInv, AllCertified, NEW m \in BlockSeats, NEW n \in BlockSeats
    PROVE  Validates(n, BuiltBy(m))
<1>1. PICK txs : txs = Chosen(pool)
    OBVIOUS
<1>2. CheckCeremonyTxs(txs)
    <2>1. pool \in Seq(world.offered) /\ \A i \in 1..Len(pool) : Transactions[pool[i]].proof
        BY DEF GridInv
    <2> QED
        BY <1>1, <2>1, ChosenIsAccepted
<1>3. PICK c : c = cert[m]
    OBVIOUS
<1>4. PrevCertStands(n, c)
    <2>1. CASE world.height = 0 \/ cert[n] = None
        <3>1. ~HasHistory
            BY <2>1 DEF GridInv, AllCertified, AllKnow, HasHistory
        <3>2. c = None
            BY <1>3, <3>1 DEF GridInv
        <3> QED
            BY <2>1, <3>2 DEF PrevCertStands
    <2>2. CASE ~(world.height = 0 \/ cert[n] = None)
        <3>1. HasHistory
            BY <2>2 DEF GridInv
        <3>2. c # None /\ c \in OwnCerts
            BY <1>3, <3>1 DEF GridInv, AllCertified, AllKnow
        <3>3. c.height = world.height /\ CertVerifies(c)
            BY <3>2, OwnCertsVerify DEF GridInv
        <3> QED
            BY <2>2, <3>2, <3>3 DEF PrevCertStands
    <2> QED
        BY <2>1, <2>2
<1>5. PICK faults : faults = Carried(m)
    OBVIOUS
<1>51. \A r \in faults : ReportVerifies(r) /\ Substantiated(r)
    BY <1>5 DEF Carried
<1>6. PICK body : body = [txs |-> txs, delta |-> DeltaOf(txs), roll |-> RollOf(c), cert |-> c, faults |-> faults]
    OBVIOUS
<1>7. BuiltBy(m) = [leader |-> m, header |-> HeaderOf(body), body |-> body]
    BY <1>1, <1>3, <1>5, <1>6 DEF BuiltBy
<1>8. /\ body.txs = txs /\ body.delta = DeltaOf(txs) /\ body.roll = RollOf(c) /\ body.cert = c /\ body.faults = faults
    BY <1>6
<1>9. PICK h : h = HeaderOf(body)
    OBVIOUS
<1>10. /\ h.height = world.height + 1 /\ h.partition = world.partition /\ h.txs = txs /\ h.delta = DeltaOf(txs)
       /\ h.roll = body.roll /\ h.cert = c /\ h.faults = faults
       /\ h.register = RegisterAfter(body.roll, FaultedFrom(faults)) /\ h.quorum = RegisterQuorum(world.register)
    BY <1>8, <1>9 DEF HeaderOf
<1>11. PICK b : b = BuiltBy(m) /\ b.header = h /\ b.body = body
    BY <1>7, <1>9
<1> QED
    BY <1>2, <1>4, <1>51, <1>8, <1>10, <1>11 DEF Validates

LEMMA WhatIsBuiltIsABlock ==
    ASSUME GridInv, NEW m \in BlockSeats
    PROVE  BuiltBy(m) # None /\ IsBlock(BuiltBy(m))
<1>1. PICK txs : txs = Chosen(pool)
    OBVIOUS
<1>2. txs \in Seq(world.offered)
    <2>1. pool \in Seq(world.offered) /\ \A i \in 1..Len(pool) : Transactions[pool[i]].proof
        BY DEF GridInv
    <2> QED
        BY <1>1, <2>1, ChosenIsAccepted
<1>3. PICK body : body = [txs |-> txs, delta |-> DeltaOf(txs), roll |-> RollOf(cert[m]),
                          cert |-> cert[m], faults |-> Carried(m)]
    OBVIOUS
<1>4. PICK b : b = BuiltBy(m) /\ b = [leader |-> m, header |-> HeaderOf(body), body |-> body]
    BY <1>1, <1>3 DEF BuiltBy
<1>5. DOMAIN b = {"leader", "header", "body"} /\ b.body = body
    BY <1>4
<1>6. DOMAIN body = {"txs", "delta", "roll", "cert", "faults"} /\ body.txs = txs
    BY <1>3
<1>7. txs \in Seq(world.offered \cup DOMAIN Transactions)
    BY <1>2
<1>8. b # None
    BY <1>5 DEF None
<1> QED
    BY <1>4, <1>5, <1>6, <1>7, <1>8 DEF IsBlock

-----------------------------------------------------------------------------
\* While the world and the certificates stay, a seat sees a block as it saw it.
LEMMA SameStatements ==
    ASSUME world' = world
    PROVE  /\ \A kind, who, height, what : Made(kind, who, height, what)' = Made(kind, who, height, what)
           /\ \A r, kind : EvidenceIsReal(r, kind)' = EvidenceIsReal(r, kind)
<1>1. PICK w : w = world /\ w = world'
    OBVIOUS
<1>2. ASSUME NEW kind, NEW who, NEW height, NEW what
      PROVE  Made(kind, who, height, what)' = Made(kind, who, height, what)
    BY <1>1 DEF Made
<1>3. ASSUME NEW r, NEW kind PROVE EvidenceIsReal(r, kind)' = EvidenceIsReal(r, kind)
    BY <1>1 DEF EvidenceIsReal
<1> QED
    BY <1>2, <1>3

LEMMA SameReports ==
    ASSUME world' = world, NEW r
    PROVE  /\ ReportVerifies(r)' = ReportVerifies(r) /\ Substantiated(r)' = Substantiated(r)
           /\ Accused(r)' = Accused(r)
<1>1. Equivocates(r)' = Equivocates(r)
    BY SameStatements DEF Equivocates
<1>2. LazyWellFormed(r)' = LazyWellFormed(r)
    BY SameStatements DEF LazyWellFormed
<1>3. ReportVerifies(r)' = ReportVerifies(r)
    BY <1>1, <1>2 DEF ReportVerifies
<1>4. Substantiated(r)' = Substantiated(r)
    BY <1>1, <1>2 DEF Substantiated
<1>5. Accused(r)' = Accused(r)
    BY <1>4 DEF Accused
<1> QED
    BY <1>3, <1>4, <1>5

LEMMA SameFaults ==
    ASSUME world' = world, NEW faults
    PROVE  FaultedFrom(faults)' = FaultedFrom(faults)
<1>1. \A r \in faults : ReportVerifies(r)' = ReportVerifies(r) /\ Accused(r)' = Accused(r)
    BY SameReports
<1>2. ASSUME NEW n PROVE n \in FaultedFrom(faults)' <=> n \in FaultedFrom(faults)
    BY <1>1 DEF FaultedFrom
<1> QED
    BY <1>2 DEF FaultedFrom

LEMMA SameTransactions ==
    ASSUME world' = world, NEW txs
    PROVE  CheckCeremonyTxs(txs)' = CheckCeremonyTxs(txs)
<1>1. PICK w : w = world /\ w = world'
    OBVIOUS
<1>2. ASSUME NEW t PROVE AtHome(t)' = AtHome(t)
    BY <1>1 DEF AtHome
<1>3. ASSUME NEW t, NEW before PROVE Spendable(t, before)' = Spendable(t, before)
    BY <1>1 DEF Spendable
<1> QED
    BY <1>2, <1>3 DEF CheckCeremonyTxs

LEMMA SameEyes ==
    ASSUME world' = world, cert' = cert, NEW n, NEW b
    PROVE  Validates(n, b)' = Validates(n, b)
<1>1. PICK w : w = world /\ w = world'
    OBVIOUS
<1>2. CheckCeremonyTxs(b.body.txs)' = CheckCeremonyTxs(b.body.txs)
    BY SameTransactions
<1>3. ASSUME NEW c PROVE CertVerifies(c)' = CertVerifies(c)
    BY SameStatements DEF CertVerifies
<1>4. ASSUME NEW c PROVE PrevCertStands(n, c)' = PrevCertStands(n, c)
    BY <1>1, <1>3 DEF PrevCertStands
<1>5. ASSUME NEW c PROVE RollOf(c)' = RollOf(c)
    BY <1>1 DEF RollOf, Seated
<1>6. ASSUME NEW roll, NEW faulted PROVE RegisterAfter(roll, faulted)' = RegisterAfter(roll, faulted)
    BY <1>1 DEF RegisterAfter
<1>7. \A faults : FaultedFrom(faults)' = FaultedFrom(faults)
    BY SameFaults
<1>8. \A r : ReportVerifies(r)' = ReportVerifies(r) /\ Substantiated(r)' = Substantiated(r)
    BY SameReports
<1>9. RegisterAfter(b.header.roll, FaultedFrom(b.body.faults))' = RegisterAfter(b.header.roll, FaultedFrom(b.body.faults))
    <2>1. PICK faulted : faulted = FaultedFrom(b.body.faults) /\ faulted = FaultedFrom(b.body.faults)'
        BY <1>7
    <2> QED
        BY <1>6, <2>1
<1> QED
    BY <1>1, <1>2, <1>4, <1>5, <1>8, <1>9 DEF Validates

-----------------------------------------------------------------------------
LEMMA GridStarts == ASSUME GridBlockInit PROVE GridInv
<1>1. /\ world \in Worlds /\ cert = [n \in BlockSeats |-> None] /\ pending = [n \in BlockSeats |-> {}]
      /\ pool = <<>> /\ block = None /\ altered = FALSE /\ verdicts = <<>>
    BY DEF GridBlockInit, NothingHeld
<1>2. pool \in Seq(world.offered) /\ \A i \in 1..Len(pool) : Transactions[pool[i]].proof
    <2>1. Len(pool) = 0
        BY <1>1
    <2>2. \A i \in 1..Len(pool) : FALSE
        BY <2>1
    <2> QED
        BY <1>1, <2>2
<1>3. DOMAIN verdicts = {} /\ DOMAIN cert = BlockSeats /\ DOMAIN pending = BlockSeats
    BY <1>1
<1>4. \A n \in BlockSeats : cert[n] = None
    BY <1>1
<1> QED
    BY <1>1, <1>2, <1>3, <1>4 DEF GridInv

\* A certificate is held before there is a block, or not at all.
LEMMA CertificatesComeFirst ==
    ASSUME GridInv, NEW n \in BlockSeats, cert[n] = None,
           HasHistory \/ \E m \in BlockSeats : cert[m] # None
    PROVE  block = None /\ verdicts = <<>> /\ ~altered
<1>1. HasHistory
    BY DEF GridInv
<1>2. ~AllCertified
    BY <1>1 DEF AllCertified, AllKnow
<1> QED
    BY <1>2 DEF GridInv

LEMMA FinaliseKeepsGrid ==
    ASSUME GridInv, NEW n \in BlockSeats, NEW c \in OwnCerts, NEW reports, Finalise(n, c, reports)
    PROVE  GridInv'
<1>1. HasHistory /\ cert[n] = None /\ cert' = [cert EXCEPT ![n] = c]
    BY DEF Finalise
<1>2. block = None /\ verdicts = <<>> /\ ~altered
    BY <1>1, CertificatesComeFirst
<1>3. world' = world /\ pool' = pool /\ block' = block /\ altered' = altered /\ verdicts' = verdicts
    BY DEF Finalise
<1>4. HasHistory' = HasHistory /\ OwnCerts' = OwnCerts
    <2>1. PICK w : w = world /\ w = world'
        BY <1>3
    <2>2. ASSUME NEW kind PROVE Attested(kind)' = Attested(kind)
        BY <2>1 DEF Attested, Made, Seated
    <2> QED
        BY <2>1, <2>2 DEF HasHistory, OwnCerts
<1>5. \A k \in BlockSeats : cert'[k] = None \/ (HasHistory /\ cert'[k] \in OwnCerts)
    BY <1>1 DEF GridInv
<1>6. DOMAIN cert' = BlockSeats /\ DOMAIN pending' = BlockSeats
    <2>1. DOMAIN pending' = DOMAIN pending
        BY DEF Finalise
    <2> QED
        BY <1>1, <2>1 DEF GridInv
<1>7. DOMAIN verdicts' = {}
    BY <1>2, <1>3
<1> QED
    BY <1>2, <1>3, <1>4, <1>5, <1>6, <1>7 DEF GridInv

LEMMA FetchKeepsGrid ==
    ASSUME GridInv, NEW n \in BlockSeats, NEW m \in BlockSeats, Fetch(n, m)
    PROVE  GridInv'
<1>1. cert[n] = None /\ cert[m] # None /\ cert' = [cert EXCEPT ![n] = cert[m]]
    BY DEF Fetch
<1>2. block = None /\ verdicts = <<>> /\ ~altered
    BY <1>1, CertificatesComeFirst
<1>3. world' = world /\ pool' = pool /\ block' = block /\ altered' = altered /\ verdicts' = verdicts
    BY DEF Fetch
<1>4. HasHistory' = HasHistory /\ OwnCerts' = OwnCerts
    <2>1. PICK w : w = world /\ w = world'
        BY <1>3
    <2>2. ASSUME NEW kind PROVE Attested(kind)' = Attested(kind)
        BY <2>1 DEF Attested, Made, Seated
    <2> QED
        BY <2>1, <2>2 DEF HasHistory, OwnCerts
<1>5. \A k \in BlockSeats : cert'[k] = None \/ (HasHistory /\ cert'[k] \in OwnCerts)
    BY <1>1 DEF GridInv
<1>6. DOMAIN cert' = BlockSeats /\ DOMAIN pending' = BlockSeats
    <2>1. DOMAIN pending' = DOMAIN pending
        BY DEF Fetch
    <2> QED
        BY <1>1, <2>1 DEF GridInv
<1>7. DOMAIN verdicts' = {}
    BY <1>2, <1>3
<1> QED
    BY <1>2, <1>3, <1>4, <1>5, <1>6, <1>7 DEF GridInv

\* What a step that leaves the world and the certificates keeps of the invariant.
LEMMA SameHistory ==
    ASSUME GridInv, world' = world, cert' = cert
    PROVE  /\ HasHistory' = HasHistory /\ AllCertified' = AllCertified
           /\ world' \in Worlds /\ DOMAIN cert' = BlockSeats
           /\ \A n \in BlockSeats : cert'[n] = None \/ (HasHistory' /\ cert'[n] \in OwnCerts')
           /\ \A b : IsBlock(b)' = IsBlock(b)
<1>1. PICK w : w = world /\ w = world'
    OBVIOUS
<1>2. ASSUME NEW kind PROVE Attested(kind)' = Attested(kind)
    BY <1>1 DEF Attested, Made, Seated
<1>3. HasHistory' = HasHistory /\ OwnCerts' = OwnCerts
    BY <1>1, <1>2 DEF HasHistory, OwnCerts
<1>4. AllCertified' = AllCertified
    BY <1>3 DEF AllCertified, AllKnow
<1>5. \A b : IsBlock(b)' = IsBlock(b)
    BY <1>1 DEF IsBlock
<1> QED
    BY <1>3, <1>4, <1>5 DEF GridInv

LEMMA ReceiveKeepsGrid ==
    ASSUME GridInv, NEW t, Receive(t)
    PROVE  GridInv'
<1>1. /\ world' = world /\ cert' = cert /\ pending' = pending
      /\ block' = block /\ altered' = altered /\ verdicts' = verdicts
      /\ block = None /\ t \in world.offered /\ Transactions[t].proof /\ pool' = Append(pool, t)
    BY DEF Receive, Ready
<1>2. pool' \in Seq(world.offered) /\ \A i \in 1..Len(pool') : Transactions[pool'[i]].proof
    <2>1. pool \in Seq(world.offered) /\ \A i \in 1..Len(pool) : Transactions[pool[i]].proof
        BY DEF GridInv
    <2>2. pool' \in Seq(world.offered) /\ Len(pool') = Len(pool) + 1 /\ pool'[Len(pool) + 1] = t
        BY <1>1, <2>1
    <2>3. \A i \in 1..Len(pool) : pool'[i] = pool[i]
        BY <1>1, <2>1
    <2>4. \A i \in 1..Len(pool') : i \in 1..Len(pool) \/ i = Len(pool) + 1
        BY <2>1, <2>2
    <2> QED
        BY <1>1, <2>1, <2>2, <2>3, <2>4
<1>3. verdicts' = <<>> /\ DOMAIN verdicts' = {} /\ ~altered'
    BY <1>1 DEF GridInv
<1> QED
    BY <1>1, <1>2, <1>3, SameHistory DEF GridInv

LEMMA BuildKeepsGrid ==
    ASSUME GridInv, NEW m \in BlockSeats, Build(m)
    PROVE  GridInv'
<1>1. /\ world' = world /\ cert' = cert /\ pending' = pending /\ pool' = pool
      /\ altered' = altered /\ verdicts' = verdicts
      /\ block = None /\ block' = BuiltBy(m) /\ AllCertified
    BY DEF Build, Ready, AllCertified
<1>2. PICK b : b = BuiltBy(m)
    OBVIOUS
<1>3. b # None /\ IsBlock(b) /\ \A n \in BlockSeats : Validates(n, b)
    BY <1>1, <1>2, WhatIsBuiltPasses, WhatIsBuiltIsABlock
<1>4. \A n \in BlockSeats : Validates(n, b)'
    BY <1>1, <1>3, SameEyes
<1>5. block' = b /\ IsBlock(b)' /\ AllCertified'
    BY <1>1, <1>2, <1>3, SameHistory
<1>6. DOMAIN verdicts' = {}
    BY <1>1 DEF GridInv
<1>7. IsBlock(block)' /\ \A n \in BlockSeats : Validates(n, block)'
    BY <1>4, <1>5 DEF IsBlock, Validates
<1> QED
    BY <1>1, <1>3, <1>5, <1>6, <1>7, SameHistory DEF GridInv

LEMMA AlterKeepsGrid ==
    ASSUME GridInv, OnTheTable, NEW b, b # None, IsBlock(b),
           block' = b, altered' = TRUE, UNCHANGED <<world, cert, pending, observed, pool, verdicts>>
    PROVE  GridInv'
<1>1. /\ world' = world /\ cert' = cert /\ pending' = pending /\ pool' = pool
      /\ altered' = TRUE /\ verdicts' = verdicts /\ block # None /\ verdicts = <<>> /\ block' = b
    BY DEF OnTheTable
<1>2. AllCertified' /\ IsBlock(b)'
    BY <1>1, SameHistory DEF GridInv
<1>3. IsBlock(block)'
    BY <1>1, <1>2 DEF IsBlock
<1>4. DOMAIN verdicts' = {}
    BY <1>1
<1> QED
    BY <1>1, <1>2, <1>3, <1>4, SameHistory DEF GridInv

\* Whatever the leader alters, a block it stays.
LEMMA AlteredIsABlock ==
    ASSUME GridInv, block # None, NEW body, DOMAIN body = DOMAIN block.body,
           body.txs \in Seq(world.offered \cup DOMAIN Transactions)
    PROVE  WithBody(body) # None /\ IsBlock(WithBody(body))
<1>1. IsBlock(block)
    BY DEF GridInv
<1>2. PICK h : h = HeaderOf(body)
    OBVIOUS
<1>3. PICK b : b = WithBody(body)
    OBVIOUS
<1>4. b = [block EXCEPT !.header = h, !.body = body]
    BY <1>2, <1>3 DEF WithBody
<1>5. DOMAIN b = {"leader", "header", "body"} /\ b.body = body
    BY <1>1, <1>4 DEF IsBlock
<1>6. b # None
    BY <1>5 DEF None
<1> QED
    BY <1>1, <1>3, <1>5, <1>6 DEF IsBlock

LEMMA AlterSomethingKeepsGrid ==
    ASSUME GridInv, OnTheTable, AlterSomething
    PROVE  GridInv'
<1>1. block # None /\ IsBlock(block)
    BY DEF OnTheTable, GridInv
<1>2. PICK body : body = block.body
    OBVIOUS
<1>3. DOMAIN body = {"txs", "delta", "roll", "cert", "faults"}
      /\ body.txs \in Seq(world.offered \cup DOMAIN Transactions)
    BY <1>1, <1>2 DEF IsBlock
<1>4. ASSUME NEW txs \in Seq(DOMAIN Transactions), AlterTxs(txs) PROVE GridInv'
    <2>1. PICK delta : delta = DeltaOf(txs)
        OBVIOUS
    <2>2. PICK new : new = [body EXCEPT !.txs = txs, !.delta = delta]
        OBVIOUS
    <2>3. DOMAIN new = DOMAIN body /\ new.txs = txs
        BY <1>3, <2>2
    <2>4. txs \in Seq(world.offered \cup DOMAIN Transactions)
        OBVIOUS
    <2>5. PICK b : b = WithBody(new)
        OBVIOUS
    <2>6. b # None /\ IsBlock(b)
        BY <1>1, <1>2, <2>3, <2>4, <2>5, AlteredIsABlock
    <2>7. block' = b /\ altered' = TRUE /\ UNCHANGED <<world, cert, pending, observed, pool, verdicts>>
        BY <1>4, <1>2, <2>1, <2>2, <2>5 DEF AlterTxs, Alter
    <2> QED
        BY <2>6, <2>7, AlterKeepsGrid
<1>5. ASSUME NEW c, AlterCert(c) PROVE GridInv'
    <2>1. PICK roll : roll = RollOf(c)
        OBVIOUS
    <2>2. PICK new : new = [body EXCEPT !.cert = c, !.roll = roll]
        OBVIOUS
    <2>3. DOMAIN new = DOMAIN body /\ new.txs = body.txs
        BY <1>3, <2>2
    <2>5. PICK b : b = WithBody(new)
        OBVIOUS
    <2>6. b # None /\ IsBlock(b)
        BY <1>1, <1>2, <1>3, <2>3, <2>5, AlteredIsABlock
    <2>7. block' = b /\ altered' = TRUE /\ UNCHANGED <<world, cert, pending, observed, pool, verdicts>>
        BY <1>5, <1>2, <2>1, <2>2, <2>5 DEF AlterCert, Alter
    <2> QED
        BY <2>6, <2>7, AlterKeepsGrid
<1>6. ASSUME NEW faults, AlterFaults(faults) PROVE GridInv'
    <2>2. PICK new : new = [body EXCEPT !.faults = faults]
        OBVIOUS
    <2>3. DOMAIN new = DOMAIN body /\ new.txs = body.txs
        BY <1>3, <2>2
    <2>5. PICK b : b = WithBody(new)
        OBVIOUS
    <2>6. b # None /\ IsBlock(b)
        BY <1>1, <1>2, <1>3, <2>3, <2>5, AlteredIsABlock
    <2>7. block' = b /\ altered' = TRUE /\ UNCHANGED <<world, cert, pending, observed, pool, verdicts>>
        BY <1>6, <1>2, <2>2, <2>5 DEF AlterFaults, Alter
    <2> QED
        BY <2>6, <2>7, AlterKeepsGrid
<1>7. ASSUME NEW attended, AlterRoll(attended) PROVE GridInv'
    <2>1. PICK roll : roll = [body.roll EXCEPT !.attended = attended]
        OBVIOUS
    <2>2. PICK new : new = [body EXCEPT !.roll = roll]
        OBVIOUS
    <2>3. DOMAIN new = DOMAIN body /\ new.txs = body.txs
        BY <1>3, <2>2
    <2>5. PICK b : b = WithBody(new)
        OBVIOUS
    <2>6. b # None /\ IsBlock(b)
        BY <1>1, <1>2, <1>3, <2>3, <2>5, AlteredIsABlock
    <2>7. block' = b /\ altered' = TRUE /\ UNCHANGED <<world, cert, pending, observed, pool, verdicts>>
        BY <1>7, <1>2, <2>1, <2>2, <2>5 DEF AlterRoll, Alter
    <2> QED
        BY <2>6, <2>7, AlterKeepsGrid
<1>8. ASSUME NEW h, NEW b, b = [block EXCEPT !.header = h] PROVE b # None /\ IsBlock(b)
    <2>1. DOMAIN b = {"leader", "header", "body"} /\ b.body = body
        BY <1>1, <1>2, <1>8 DEF IsBlock
    <2>2. b # None
        BY <2>1 DEF None
    <2> QED
        BY <1>3, <2>1, <2>2 DEF IsBlock
<1>9. ASSUME NEW register, AlterRegister(register) PROVE GridInv'
    <2>1. PICK h : h = [block.header EXCEPT !.register = register]
        OBVIOUS
    <2>2. PICK b : b = [block EXCEPT !.header = h]
        OBVIOUS
    <2>3. b = [block EXCEPT !.header.register = register]
        BY <2>1, <2>2
    <2>4. block' = b /\ altered' = TRUE /\ UNCHANGED <<world, cert, pending, observed, pool, verdicts>>
        BY <1>9, <2>3 DEF AlterRegister, Alter
    <2> QED
        BY <1>8, <2>2, <2>4, AlterKeepsGrid
<1>10. ASSUME NEW quorum, AlterQuorum(quorum) PROVE GridInv'
    <2>1. PICK h : h = [block.header EXCEPT !.quorum = quorum]
        OBVIOUS
    <2>2. PICK b : b = [block EXCEPT !.header = h]
        OBVIOUS
    <2>3. b = [block EXCEPT !.header.quorum = quorum]
        BY <2>1, <2>2
    <2>4. block' = b /\ altered' = TRUE /\ UNCHANGED <<world, cert, pending, observed, pool, verdicts>>
        BY <1>10, <2>3 DEF AlterQuorum, Alter
    <2> QED
        BY <1>8, <2>2, <2>4, AlterKeepsGrid
<1>11. ASSUME NEW s \in DOMAIN Transactions, NEW t \in DOMAIN Transactions, AlterTxs(<<s>>) \/ AlterTxs(<<s, t>>)
       PROVE  GridInv'
    <2>1. <<s>> \in Seq(DOMAIN Transactions) /\ <<s, t>> \in Seq(DOMAIN Transactions)
        OBVIOUS
    <2> QED
        BY <1>4, <1>11, <2>1
<1> QED
    BY <1>5, <1>6, <1>7, <1>9, <1>10, <1>11 DEF AlterSomething

LEMMA ValidateKeepsGrid ==
    ASSUME GridInv, NEW n \in BlockSeats, Validate(n)
    PROVE  GridInv'
<1>1. /\ world' = world /\ cert' = cert /\ pending' = pending /\ pool' = pool
      /\ altered' = altered /\ block' = block /\ block # None
      /\ verdicts' = [m \in DOMAIN verdicts \cup {n} |-> IF m = n THEN Validates(n, block) ELSE verdicts[m]]
    BY DEF Validate
<1>2. PICK b : b = block
    OBVIOUS
<1>3. \A m : Validates(m, b)' = Validates(m, b)
    BY <1>1, SameEyes
<1>4. DOMAIN verdicts' = DOMAIN verdicts \cup {n}
    BY <1>1
<1>5. \A m \in DOMAIN verdicts' : verdicts'[m] = Validates(m, b)
    <2>1. \A m \in DOMAIN verdicts : verdicts[m] = Validates(m, b)
        BY <1>2 DEF GridInv
    <2> QED
        BY <1>1, <1>2, <1>4, <2>1
<1>6. b = block'
    BY <1>1, <1>2
<1>7. \A m : Validates(m, block)' = Validates(m, b)
    BY <1>3, <1>6 DEF Validates
<1>8. ~altered => \A m \in BlockSeats : Validates(m, b)
    BY <1>1, <1>2 DEF GridInv
<1>9. IsBlock(block)' /\ AllCertified'
    <2>1. IsBlock(b)'
        BY <1>1, <1>2, SameHistory DEF GridInv
    <2> QED
        BY <1>1, <1>6, <2>1, SameHistory DEF GridInv, IsBlock
<1>10. /\ world' \in Worlds /\ DOMAIN verdicts' \subseteq BlockSeats /\ altered' \in BOOLEAN
       /\ DOMAIN cert' = BlockSeats /\ DOMAIN pending' = BlockSeats
       /\ pool' \in Seq(world'.offered) /\ \A i \in 1..Len(pool') : Transactions[pool'[i]].proof
    BY <1>1, <1>4 DEF GridInv
<1>11. \A m \in BlockSeats : (cert[m] = None \/ (HasHistory /\ cert[m] \in OwnCerts))'
    BY <1>1, SameHistory DEF GridInv
<1>12. /\ (block # None /\ ~altered)' => \A m \in BlockSeats : Validates(m, block)'
       /\ \A m \in DOMAIN verdicts' : verdicts'[m] = Validates(m, block)'
    BY <1>1, <1>5, <1>7, <1>8
<1> QED
    BY <1>1, <1>9, <1>10, <1>11, <1>12 DEF GridInv

-----------------------------------------------------------------------------
\* Whoever a report accuses is named over the key of one that signed what it is about.
LEMMA AccusedOverAKey ==
    ASSUME NEW faults, NEW n \in FaultedFrom(faults)
    PROVE  \E s \in world.said : NamedOver(faults, n, s[2]) /\ (SignedTwo(s[2]) \/ SignedFlawed(s[2]))
<1>1. PICK r \in faults : ReportVerifies(r) /\ n \in Accused(r)
    BY DEF FaultedFrom
<1>2. PICK e \in r.evidence : Substantiated(r) /\ e.names = n
    BY <1>1 DEF Accused
<1>3. PICK s : s = e.made
    OBVIOUS
<1>4. NamedOver(faults, n, s[2])
    BY <1>2, <1>3 DEF NamedOver
<1>5. CASE Equivocates(r)
    <2>1. PICK evidence : evidence = r.evidence
        OBVIOUS
    <2>2. Cardinality(evidence) = 2 /\ e \in evidence
        BY <1>2, <1>5, <2>1 DEF Equivocates
    <2>3. evidence # {e}
        BY <2>2, FS_Singleton
    <2>4. PICK f \in evidence : f # e
        BY <2>2, <2>3
    <2>5. PICK t : t = f.made
        OBVIOUS
    <2>6. s[1] = "proposal" /\ t[1] = "proposal" /\ s \in world.said /\ t \in world.said
        BY <1>2, <1>3, <1>5, <2>1, <2>4, <2>5 DEF Equivocates, EvidenceIsReal
    <2>7. s[2] = t[2] /\ s[3] = r.at /\ t[3] = r.at /\ s[4] # t[4]
        BY <1>2, <1>3, <1>5, <2>1, <2>4, <2>5 DEF Equivocates
    <2>8. SignedTwo(s[2])
        BY <2>6, <2>7 DEF SignedTwo
    <2> QED
        BY <1>4, <2>6, <2>8
<1>6. CASE LazyWellFormed(r) /\ r.subject \in Flawed
    <2>1. s \in world.said /\ SignedFlawed(s[2])
        BY <1>2, <1>3, <1>6 DEF LazyWellFormed, EvidenceIsReal, SignedFlawed
    <2> QED
        BY <1>4, <2>1
<1> QED
    BY <1>2, <1>5, <1>6 DEF Substantiated

\* A ceremony suspends nobody it does not fault.
LEMMA OnlyTheFaultedAreSuspended ==
    ASSUME NEW reg, \A k \in Enrolled(reg) : DOMAIN reg.members[k] = DOMAIN Founder,
           NEW roll, NEW faulted, NEW n, StandingOf(reg, n) # "suspended",
           StandingOf(ApplyRoll(reg, roll, faulted), n) = "suspended"
    PROVE  n \in faulted
<1> SUFFICES ASSUME n \notin faulted PROVE FALSE
    OBVIOUS
<1>1. PICK new : new = ApplyRoll(reg, roll, faulted)
    OBVIOUS
<1>2. PICK named : named = roll.seated \cup faulted
    OBVIOUS
<1> DEFINE was(k) == IF k \in Enrolled(reg) THEN reg.members[k] ELSE Newcomer(roll.epoch)
<1>3. new.members = [k \in Enrolled(reg) \cup named |->
                        IF k \in named THEN Advanced(was(k), k, roll, faulted) ELSE reg.members[k]]
    BY <1>1, <1>2 DEF ApplyRoll
<1>4. n \in Enrolled(reg) \cup named /\ new.members[n].standing = "suspended"
    <2>1. n \in Enrolled(new) /\ new.members[n].standing = "suspended"
        BY <1>1 DEF StandingOf
    <2> QED
        BY <1>3, <2>1 DEF Enrolled
<1>5. n \in Enrolled(reg) => reg.members[n].standing # "suspended"
    BY DEF StandingOf
<1>6. CASE n \notin named
    BY <1>3, <1>4, <1>5, <1>6
<1>7. CASE n \in named
    <2>1. PICK rec : rec = was(n)
        OBVIOUS
    <2>2. rec.standing # "suspended" /\ "standing" \in DOMAIN rec
        <3>1. CASE n \in Enrolled(reg)
            BY <1>5, <2>1, <3>1 DEF Founder
        <3>2. CASE n \notin Enrolled(reg)
            BY <2>1, <3>2 DEF Newcomer
        <3> QED
            BY <3>1, <3>2
    <2>3. Advanced(rec, n, roll, faulted).standing = "suspended"
        BY <1>3, <1>4, <1>7, <2>1
    <2>4. Advanced(rec, n, roll, faulted) = Attended(rec) \/ Advanced(rec, n, roll, faulted) = Missed(rec)
        BY <2>2 DEF Advanced
    <2>5. Missed(rec).standing # "suspended"
        BY <2>2 DEF Missed
    <2>6. Attended(rec).standing # "suspended"
        <3>1. PICK up : up = [rec EXCEPT !.streak = UpTo(Threshold, @ + 1), !.misses = 0]
            OBVIOUS
        <3>2. up.standing = rec.standing /\ "standing" \in DOMAIN up
            BY <2>2, <3>1
        <3>3. Attended(rec) = Promoted(up)
            BY <3>1 DEF Attended
        <3> QED
            BY <2>2, <3>2, <3>3 DEF Promoted
    <2> QED
        BY <2>3, <2>4, <2>5, <2>6
<1> QED
    BY <1>6, <1>7

LEMMA WhatIsAcceptedIsEarned == ASSUME GridInv PROVE StandingIsEarned
<1> SUFFICES ASSUME Accepted PROVE StandingIsEarned
    BY DEF StandingIsEarned
<1>1. PICK n \in DOMAIN verdicts : Validates(n, block)
    BY DEF Accepted, GridInv
<1>2. PICK body, h : body = block.body /\ h = block.header
    OBVIOUS
<1>3. /\ PrevCertStands(n, body.cert) /\ body.roll = RollOf(body.cert) /\ h.roll = body.roll
      /\ h.register = RegisterAfter(h.roll, FaultedFrom(body.faults))
    BY <1>1, <1>2 DEF Validates
<1>4. ASSUME NEW k \in body.roll.attended
      PROVE  \E s \in world.said : s[1] = "attestation" /\ s[2] = k /\ s[3] = world.height
    <2>1. PICK c : c = body.cert
        OBVIOUS
    <2>2. CASE c = None
        BY <1>3, <1>4, <2>1, <2>2 DEF RollOf, NoRoll
    <2>3. CASE c # None
        <3>1. c.height = world.height /\ CertVerifies(c)
            BY <1>3, <2>1, <2>3 DEF PrevCertStands
        <3>2. k \in c.voters \cup c.shadows
            BY <1>3, <1>4, <2>1, <2>3 DEF RollOf, RollFrom
        <3>3. <<"attestation", k, world.height, c.block>> \in world.said
            BY <3>1, <3>2 DEF CertVerifies, Made
        <3> QED
            BY <3>3
    <2> QED
        BY <2>2, <2>3
<1>5. ASSUME NEW k, StandingOf(h.register, k) = "suspended", StandingOf(world.register, k) # "suspended"
      PROVE  \E s \in world.said : /\ NamedOver(body.faults, k, s[2])
                                   /\ SignedTwo(s[2]) \/ SignedFlawed(s[2])
    <2>1. PICK reg, faulted : reg = world.register /\ faulted = FaultedFrom(body.faults)
        OBVIOUS
    <2>2. h.register = ApplyRoll(reg, h.roll, faulted)
        BY <1>3, <1>5, <2>1 DEF RegisterAfter
    <2>3. \A m \in Enrolled(reg) : DOMAIN reg.members[m] = DOMAIN Founder
        BY <2>1, WorldsAreWhole DEF GridInv
    <2>4. PICK roll : roll = h.roll
        OBVIOUS
    <2>5. StandingOf(reg, k) # "suspended"
        BY <1>5, <2>1
    <2>6. StandingOf(ApplyRoll(reg, roll, faulted), k) = "suspended"
        BY <1>5, <2>2, <2>4
    <2>7. k \in faulted
        BY <2>3, <2>5, <2>6, OnlyTheFaultedAreSuspended
    <2> QED
        BY <2>1, <2>7, AccusedOverAKey
<1> QED
    BY <1>2, <1>4, <1>5 DEF StandingIsEarned, Suspends

LEMMA WhatIsAcceptedApplies == ASSUME GridInv PROVE AcceptedDeltasApply
<1> SUFFICES ASSUME Accepted PROVE AcceptedDeltasApply
    BY DEF AcceptedDeltasApply
<1>1. PICK n \in DOMAIN verdicts : Validates(n, block)
    BY DEF Accepted, GridInv
<1>2. PICK txs : txs = block.body.txs
    OBVIOUS
<1>3. CheckCeremonyTxs(txs)
    BY <1>1, <1>2 DEF Validates
<1>4. PICK S : txs \in Seq(S)
    <2>1. block # None
        <3>1. DOMAIN <<>> = {}
            OBVIOUS
        <3> QED
            BY <1>1, <3>1 DEF GridInv
    <2> QED
        BY <1>2, <2>1 DEF GridInv, IsBlock
<1>5. \A i \in DOMAIN txs :
          /\ AtHome(txs[i]) /\ Transactions[txs[i]].ins \subseteq world.live
          /\ Transactions[txs[i]].outs \cap world.ever = {}
    BY <1>3 DEF CheckCeremonyTxs, Spendable
<1>6. Inputs(txs) \subseteq world.live /\ Outputs(txs) \cap world.ever = {}
    BY <1>5 DEF Inputs, Outputs, ToSet
<1>7. ASSUME NEW i \in DOMAIN txs, NEW j \in DOMAIN txs, j < i
      PROVE  /\ Transactions[txs[i]].ins \cap Transactions[txs[j]].ins = {}
             /\ Transactions[txs[i]].outs \cap Transactions[txs[j]].outs = {}
    <2>1. PICK before : before = SubSeq(txs, 1, i - 1)
        OBVIOUS
    <2>2. j \in DOMAIN before /\ before[j] = txs[j]
        BY <1>4, <1>7, <2>1
    <2>3. txs[j] \in ToSet(before)
        BY <2>2 DEF ToSet
    <2>4. Transactions[txs[j]].ins \subseteq Inputs(before) /\ Transactions[txs[j]].outs \subseteq Outputs(before)
        BY <2>3 DEF Inputs, Outputs
    <2>5. /\ Transactions[txs[i]].ins \subseteq world.live \ Inputs(before)
          /\ Transactions[txs[i]].outs \cap Outputs(before) = {}
        BY <1>3, <2>1 DEF CheckCeremonyTxs, Spendable
    <2> QED
        BY <2>4, <2>5
<1>8. \A i, j \in DOMAIN txs : i # j => (i < j \/ j < i)
    BY <1>4
<1>9. \A i, j \in DOMAIN txs :
          i # j => /\ Transactions[txs[i]].ins \cap Transactions[txs[j]].ins = {}
                   /\ Transactions[txs[i]].outs \cap Transactions[txs[j]].outs = {}
    BY <1>7, <1>8
<1> QED
    BY <1>2, <1>5, <1>6, <1>9 DEF AcceptedDeltasApply

-----------------------------------------------------------------------------
\* What a seat knows of a grid, of its certificates and of the block before it.
THEOREM GridInvariance == GridBlockSpec => []GridInv
<1>1. GridBlockInit => GridInv
    BY GridStarts
<1>2. GridInv /\ [GridBlockNext]_gridVars => GridInv'
    <2> SUFFICES ASSUME GridInv, [GridBlockNext]_gridVars PROVE GridInv'
        OBVIOUS
    <2>1. ASSUME NEW n \in BlockSeats, NEW reports \in Seen, NEW c \in OwnCerts, Finalise(n, c, reports) PROVE GridInv'
        BY <2>1, FinaliseKeepsGrid
    <2>2. ASSUME NEW n \in BlockSeats, NEW m \in BlockSeats, Fetch(n, m) PROVE GridInv'
        BY <2>2, FetchKeepsGrid
    <2>3. ASSUME NEW t \in DOMAIN Transactions, Receive(t) PROVE GridInv'
        BY <2>3, ReceiveKeepsGrid
    <2>4. ASSUME NEW n \in BlockSeats, Build(n) PROVE GridInv'
        BY <2>4, BuildKeepsGrid
    <2>5. ASSUME NEW n \in BlockSeats, Validate(n) PROVE GridInv'
        BY <2>5, ValidateKeepsGrid
    <2>6. CASE OnTheTable /\ AlterSomething
        BY <2>6, AlterSomethingKeepsGrid
    <2>7. CASE UNCHANGED gridVars
        <3>1. /\ world' = world /\ cert' = cert /\ pending' = pending /\ pool' = pool
              /\ altered' = altered /\ block' = block /\ verdicts' = verdicts
            BY <2>7 DEF gridVars
        <3>2. PICK b : b = block /\ b = block'
            BY <3>1
        <3>3. \A m : Validates(m, b)' = Validates(m, b)
            BY <3>1, SameEyes
        <3>4. \A m : Validates(m, block)' = Validates(m, b)
            BY <3>2, <3>3 DEF Validates
        <3>5. b # None => IsBlock(block)'
            BY <3>1, <3>2, SameHistory DEF GridInv, IsBlock
        <3>6. b # None => AllCertified'
            BY <3>1, <3>2, SameHistory DEF GridInv
        <3> QED
            BY <3>1, <3>2, <3>4, <3>5, <3>6, SameHistory DEF GridInv
    <2> QED
        BY <2>1, <2>2, <2>3, <2>4, <2>5, <2>6, <2>7 DEF GridBlockNext
<1> QED
    BY <1>1, <1>2, PTL DEF GridBlockSpec

\* Whatever a leader proposes, the seats of a grid come to one verdict, and they accept what
\* an honest leader builds whichever certificate of the block before each of them holds.
THEOREM SeatsOfOneMind == GridBlockSpec => []SeatsAgreeOnBlocks
<1>1. ASSUME GridInv PROVE HonestBlocksValidate
    <2>1. \A n \in DOMAIN verdicts : block # None /\ n \in BlockSeats
        BY <1>1 DEF GridInv
    <2> QED
        BY <1>1, <2>1 DEF GridInv, HonestBlocksValidate
<1>2. ASSUME GridInv PROVE VerdictsAreTheSame
    <2>1. ASSUME NEW n \in BlockSeats, NEW m \in BlockSeats, block # None
          PROVE  Validates(n, block) = Validates(m, block)
        <3>1. (cert[n] = None) <=> (cert[m] = None)
            BY <1>2, <2>1 DEF GridInv, AllCertified, AllKnow
        <3>2. PICK c : c = block.body.cert
            OBVIOUS
        <3>3. PrevCertStands(n, c) = PrevCertStands(m, c)
            BY <3>1 DEF PrevCertStands
        <3> QED
            BY <3>2, <3>3 DEF Validates
    <2>2. \A n \in DOMAIN verdicts : block # None /\ n \in BlockSeats /\ verdicts[n] = Validates(n, block)
        BY <1>2 DEF GridInv
    <2> QED
        BY <2>1, <2>2 DEF VerdictsAreTheSame
<1>3. GridInv => SeatsAgreeOnBlocks
    BY <1>1, <1>2 DEF SeatsAgreeOnBlocks
<1> QED
    BY <1>3, GridInvariance, PTL

\* What a seat accepts credits only those that attested, suspends only whom its evidence names
\* over the key of one that signed what the report is about, its own or not (block.py, accused),
\* and spends only what is live, once.
THEOREM WhatIsAcceptedIsSound == GridBlockSpec => []AcceptedIsSound
<1>1. GridInv => AcceptedIsSound
    BY WhatIsAcceptedIsEarned, WhatIsAcceptedApplies DEF AcceptedIsSound
<1> QED
    BY <1>1, GridInvariance, PTL

-----------------------------------------------------------------------------
(***************************************************************************)
(* A pass up the tiers, from here on: what its quorum, its merge, its lists    *)
(* and its deal do, what every step of it keeps, and why that is enough.       *)
(***************************************************************************)

\* A committee that has a member has a quorum, and can make it.
LEMMA QuorumIsWithin ==
    ASSUME NEW n \in Nat
    PROVE  QuorumSize(n) \in Nat /\ QuorumSize(n) >= 1 /\ (n >= 1 => QuorumSize(n) <= n)
<1>1. QNum \in Nat /\ QDen \in Nat /\ QDen > 0 /\ QNum <= QDen
    BY PassAssumption DEF PassAssumption
<1> PICK a, d : a = n * QNum /\ d = QDen
    OBVIOUS
<1>2. a \in Nat /\ d \in Nat /\ d > 0 /\ a <= n * d
    BY ONLY <1>1, a = n * QNum, d = QDen, n \in Nat
<1> PICK x, q, r : x = a + d - 1 /\ q = x \div d /\ r = x % d
    OBVIOUS
<1>3. q \in Int /\ r \in 0..d - 1 /\ x = d * q + r
    BY ONLY <1>2, x = a + d - 1, q = x \div d, r = x % d
<1>4. q <= n
    <2>1. CASE q >= n + 1
        <3>1. d * q >= d * (n + 1)
            BY ONLY <1>2, <1>3, <2>1, n \in Nat
        <3>2. d * (n + 1) = n * d + d
            BY ONLY <1>2, n \in Nat
        <3>3. n * d \in Int /\ d * q \in Int
            BY ONLY <1>2, <1>3, n \in Nat
        <3> QED
            BY ONLY <1>2, <1>3, <3>1, <3>2, <3>3, x = a + d - 1
    <2> QED
        BY ONLY <1>3, <2>1, n \in Nat
<1>5. q >= 0
    <2>1. CASE q < 0
        <3>1. q <= -1
            BY ONLY <1>3, <2>1
        <3>2. d * q <= d * (-1) /\ d * q \in Int
            BY ONLY <1>2, <1>3, <3>1
        <3>3. x >= 0 /\ x \in Int
            BY ONLY <1>2, x = a + d - 1
        <3> QED
            BY ONLY <1>2, <1>3, <3>2, <3>3
    <2> QED
        BY ONLY <1>3, <2>1
<1>6. QuorumSize(n) = Max({1, q})
    BY DEF QuorumSize
<1>7. Max({1, q}) \in {1, q} /\ Max({1, q}) >= 1
    <2>1. \E y \in {1, q} : \A z \in {1, q} : y >= z
        <3>1. CASE q >= 1
            BY ONLY <1>3, <3>1
        <3>2. CASE 1 >= q
            BY ONLY <1>3, <3>2
        <3> QED
            BY ONLY <1>3, <3>1, <3>2
    <2> QED
        BY <2>1 DEF Max
<1> QED
    BY ONLY <1>3, <1>4, <1>5, <1>6, <1>7, n \in Nat

-----------------------------------------------------------------------------
(***************************************************************************)
(* What a merge keeps of a list: no two of them collide, and what it leaves    *)
(* out collides with one it keeps.                                             *)
(***************************************************************************)
MergeRight(children, i, m) ==
    /\ \A k \in 1..Len(m) : \E j \in 1..i : m[k] = children[j]
    /\ \A k, l \in 1..Len(m) : k < l => ~Collide(m[k], m[l])
    /\ \A j \in 1..i : \E k \in 1..Len(m) : children[j] = m[k] \/ Collide(children[j], m[k])
    /\ (\A k, l \in 1..i : k < l => ~Collide(children[k], children[l])) =>
           Len(m) = i /\ \A k \in 1..i : m[k] = children[k]

\* One more child of a list is kept exactly when it collides with none kept before it.
LEMMA MergeOneMore ==
    ASSUME NEW S, NEW children \in Seq(S), NEW i \in 1..Len(children), NEW m \in Seq(S),
           MergeRight(children, i - 1, m),
           NEW n, n = IF Clash(children[i], m) THEN m ELSE Append(m, children[i])
    PROVE  n \in Seq(S) /\ MergeRight(children, i, n)
<1> PICK c : c = children[i]
    OBVIOUS
<1> PICK o : o = i - 1
    OBVIOUS
<1>0. o \in Nat /\ o + 1 = i /\ i \in Nat /\ c \in S /\ i \in 1..i /\ o < i /\ \A j \in 1..i : j \in 1..o \/ j = i
    OBVIOUS
<1>1. Clash(c, m) <=> \E k \in 1..Len(m) : Collide(c, m[k])
    <2>1. DOMAIN m = 1..Len(m)
        OBVIOUS
    <2>2. ToSet(m) = {m[k] : k \in 1..Len(m)}
        BY <2>1 DEF ToSet
    <2> QED
        BY <2>2 DEF Clash, Collide
<1>2. /\ \A k \in 1..Len(m) : \E j \in 1..o : m[k] = children[j]
      /\ \A k, l \in 1..Len(m) : k < l => ~Collide(m[k], m[l])
      /\ \A j \in 1..o : \E k \in 1..Len(m) : children[j] = m[k] \/ Collide(children[j], m[k])
      /\ (\A k, l \in 1..o : k < l => ~Collide(children[k], children[l])) =>
             Len(m) = o /\ \A k \in 1..o : m[k] = children[k]
    BY DEF MergeRight
<1>3. \A g, h : Collide(g, h) <=> Collide(h, g)
    BY DEF Collide
<1>4. 1..o \subseteq 1..i
    BY <1>0
<1>5. CASE Clash(c, m)
    <2>1. n = m
        BY <1>5
    <2>2. PICK k \in 1..Len(m) : Collide(c, m[k])
        BY <1>1, <1>5
    <2>3. ~(\A k_1, l \in 1..i : k_1 < l => ~Collide(children[k_1], children[l]))
        <3>1. PICK j \in 1..o : m[k] = children[j]
            BY <1>2
        <3>2. Collide(children[j], children[i]) /\ j < i /\ j \in 1..i
            BY <1>0, <1>3, <2>2, <3>1
        <3> QED
            BY <1>0, <3>2
    <2>4. \A k_1 \in 1..Len(m) : \E j \in 1..i : m[k_1] = children[j]
        BY <1>2, <1>4
    <2>5. \A j \in 1..i : \E k_1 \in 1..Len(m) : children[j] = m[k_1] \/ Collide(children[j], m[k_1])
        BY <1>0, <1>2, <2>2
    <2>6. MergeRight(children, i, m)
        BY ONLY <1>2, <2>3, <2>4, <2>5 DEF MergeRight
    <2> QED
        BY <2>1, <2>6
<1>6. CASE ~Clash(c, m)
    <2>1. n = Append(m, c)
        BY <1>6
    <2> PICK p : p = Len(m)
        OBVIOUS
    <2>2. /\ n \in Seq(S) /\ Len(n) = p + 1 /\ n[p + 1] = c /\ p \in Nat
          /\ \A k \in 1..p : n[k] = m[k] /\ k \in 1..p + 1
        BY <2>1
    <2>3. p + 1 \in 1..p + 1 /\ \A k \in 1..p + 1 : k \in 1..p \/ k = p + 1
        BY <2>2
    <2>4. \A k \in 1..p + 1 : \E j \in 1..i : n[k] = children[j]
        <3> SUFFICES ASSUME NEW k \in 1..p + 1 PROVE \E j \in 1..i : n[k] = children[j]
            OBVIOUS
        <3>1. CASE k \in 1..p
            BY <1>2, <1>4, <2>2, <3>1
        <3>2. CASE k = p + 1
            BY <1>0, <2>2, <3>2
        <3> QED
            BY <2>3, <3>1, <3>2
    <2>5. ASSUME NEW k \in 1..p + 1, NEW l \in 1..p + 1, k < l PROVE ~Collide(n[k], n[l])
        <3>1. k \in 1..p
            BY <2>2, <2>5
        <3>2. CASE l \in 1..p
            BY <1>2, <2>2, <2>5, <3>1, <3>2
        <3>3. CASE l = p + 1
            BY <1>1, <1>3, <1>6, <2>2, <3>1, <3>3
        <3> QED
            BY <2>3, <3>2, <3>3
    <2>6. \A j \in 1..i : \E k \in 1..p + 1 : children[j] = n[k] \/ Collide(children[j], n[k])
        <3> SUFFICES ASSUME NEW j \in 1..i
                     PROVE  \E k \in 1..p + 1 : children[j] = n[k] \/ Collide(children[j], n[k])
            OBVIOUS
        <3>1. CASE j \in 1..o
            BY <1>2, <2>2, <3>1
        <3>2. CASE j = i
            BY <2>2, <2>3, <3>2
        <3> QED
            BY <1>0, <3>1, <3>2
    <2>7. ASSUME \A k, l \in 1..i : k < l => ~Collide(children[k], children[l])
          PROVE  p + 1 = i /\ \A k \in 1..i : n[k] = children[k]
        <3>1. \A k, l \in 1..o : k < l => ~Collide(children[k], children[l])
            BY <1>4, <2>7
        <3>2. p = o /\ \A k \in 1..o : m[k] = children[k]
            BY <1>2, <3>1
        <3> QED
            BY <1>0, <2>2, <3>2
    <2> QED
        BY ONLY <2>2, <2>4, <2>5, <2>6, <2>7 DEF MergeRight
<1> QED
    BY <1>5, <1>6

\* What the merge keeps of a list, at every child of it.
LEMMA MergedIsRight ==
    ASSUME NEW S, NEW children \in Seq(S)
    PROVE  Merged(children) \in Seq(S) /\ MergeRight(children, Len(children), Merged(children))
<1> DEFINE n == Len(children)
           Next1(c, m) == IF Clash(c, m) THEN m ELSE Append(m, c)
           step == [i \in 1..n |-> [m \in Seq(S) |-> Next1(children[i], m)]]
<1>1. n \in Nat
    OBVIOUS
<1>2. ASSUME NEW i \in 1..n, NEW m \in Seq(S) PROVE Next1(children[i], m) \in Seq(S)
    BY <1>2
<1>3. step \in [1..n -> [Seq(S) -> Seq(S)]]
    <2> HIDE DEF Next1, n
    <2> QED
        BY <1>2
<1>4. <<>> \in Seq(S)
    OBVIOUS
<1> HIDE DEF n, Next1
<1>5. PICK f \in [0..n -> Seq(S)] : f = [i \in 0..n |-> IF i = 0 THEN <<>> ELSE step[i][f[i - 1]]]
    <2> HIDE DEF step
    <2>1. PICK X, base, s : X = Seq(S) /\ base = <<>> /\ s = step
        OBVIOUS
    <2>2. base \in X /\ s \in [1..n -> [X -> X]]
        BY <1>3, <1>4, <2>1
    <2>3. \E f \in [0..n -> X] : InTurn(f, n, base, s)
        BY <1>1, <2>2, StepsInTurn
    <2>4. PICK f \in [0..n -> Seq(S)] : InTurn(f, n, <<>>, step)
        BY <2>1, <2>3
    <2> QED
        BY <2>4 DEF InTurn
<1>6. \A i \in 0..n : i # 0 => i \in 1..n /\ f[i - 1] \in Seq(S)
    BY <1>1
<1>7. f = [i \in 0..n |-> IF i = 0 THEN <<>> ELSE Next1(children[i], f[i - 1])]
    <2>1. \A i \in 0..n : i # 0 => step[i][f[i - 1]] = Next1(children[i], f[i - 1])
        BY <1>6
    <2> QED
        BY <1>5, <2>1
<1> HIDE DEF step
<1> DEFINE kept == CHOOSE g : g = [i \in 0..n |-> IF i = 0 THEN <<>> ELSE Next1(children[i], g[i - 1])]
<1>8. kept = [i \in 0..n |-> IF i = 0 THEN <<>> ELSE Next1(children[i], kept[i - 1])]
    BY <1>7
<1>9. Merged(children) = kept[n]
    BY DEF Merged, Next1, n
<1> HIDE DEF kept
<1> DEFINE Good == {i \in 0..n : kept[i] \in Seq(S) /\ MergeRight(children, i, kept[i])}
<1>10. 0 \in Good
    <2>1. kept[0] = <<>> /\ 0 \in 0..n
        BY <1>1, <1>8
    <2>2. MergeRight(children, 0, <<>>)
        BY DEF MergeRight
    <2> QED
        BY <1>4, <2>1, <2>2
<1>11. ASSUME NEW i \in 1..n, i - 1 \in Good PROVE i \in Good
    <2>1. i \in 0..n /\ i # 0
        BY <1>1
    <2>2. kept[i] = Next1(children[i], kept[i - 1])
        BY <1>8, <2>1
    <2>3. kept[i - 1] \in Seq(S) /\ MergeRight(children, i - 1, kept[i - 1])
        BY <1>11
    <2>4. i \in 1..Len(children)
        BY DEF n
    <2>5. kept[i] \in Seq(S) /\ MergeRight(children, i, kept[i])
        <3> PICK m, k : m = kept[i - 1] /\ k = kept[i]
            OBVIOUS
        <3>1. k = IF Clash(children[i], m) THEN m ELSE Append(m, children[i])
            BY <2>2 DEF Next1
        <3>2. m \in Seq(S) /\ MergeRight(children, i - 1, m)
            BY <2>3
        <3>3. k \in Seq(S) /\ MergeRight(children, i, k)
            BY ONLY <2>4, <3>1, <3>2, children \in Seq(S), MergeOneMore
        <3> QED
            BY <3>3
    <2> QED
        BY <2>1, <2>5
<1>12. Good \in SUBSET (0..n)
    OBVIOUS
<1>13. Good = 0..n
    <2> HIDE DEF Good
    <2> QED
        BY <1>1, <1>10, <1>11, <1>12, CarriedAlong
<1>14. n \in 0..n
    BY <1>1
<1> QED
    BY <1>9, <1>13, <1>14 DEF n

\* What merge_deltas keeps collides with nothing it keeps, and what it drops collides with something
\* it kept.
LEMMA MergedFacts ==
    ASSUME NEW S, NEW children \in Seq(S)
    PROVE  /\ Merged(children) \in Seq(S)
           /\ ToSet(Merged(children)) \subseteq ToSet(children)
           /\ \A g, h \in ToSet(Merged(children)) : g # h => ~Collide(g, h)
           /\ \A g \in ToSet(children) \ ToSet(Merged(children)) : \E h \in ToSet(Merged(children)) : Collide(g, h)
<1> PICK m : m = Merged(children)
    OBVIOUS
<1>1. m \in Seq(S) /\ MergeRight(children, Len(children), m)
    BY MergedIsRight
<1>2. ToSet(m) = {m[k] : k \in 1..Len(m)} /\ ToSet(children) = {children[k] : k \in 1..Len(children)}
    BY <1>1 DEF ToSet
<1>3. /\ \A k \in 1..Len(m) : \E j \in 1..Len(children) : m[k] = children[j]
      /\ \A k, l \in 1..Len(m) : k < l => ~Collide(m[k], m[l])
      /\ \A j \in 1..Len(children) : \E k \in 1..Len(m) : children[j] = m[k] \/ Collide(children[j], m[k])
    BY <1>1 DEF MergeRight
<1>4. ToSet(m) \subseteq ToSet(children)
    BY <1>2, <1>3
<1>5. ASSUME NEW g \in ToSet(m), NEW h \in ToSet(m), g # h PROVE ~Collide(g, h)
    <2>1. PICK k \in 1..Len(m), l \in 1..Len(m) : g = m[k] /\ h = m[l]
        BY <1>2
    <2>2. k # l /\ k \in Int /\ l \in Int
        BY <1>5, <2>1
    <2>3. k < l \/ l < k
        BY <2>2
    <2>4. CASE k < l
        <3>1. ~Collide(m[k], m[l])
            BY ONLY <1>3, <2>1, <2>4
        <3> QED
            BY ONLY <2>1, <3>1
    <2>5. CASE l < k
        <3>1. ~Collide(m[l], m[k])
            BY ONLY <1>3, <2>1, <2>5
        <3>2. ~Collide(h, g)
            BY ONLY <2>1, <3>1
        <3> QED
            BY <3>2 DEF Collide
    <2> QED
        BY ONLY <2>3, <2>4, <2>5
<1>6. ASSUME NEW g \in ToSet(children) \ ToSet(m) PROVE \E h \in ToSet(m) : Collide(g, h)
    <2>1. PICK j \in 1..Len(children) : g = children[j]
        BY <1>2
    <2>2. PICK k \in 1..Len(m) : children[j] = m[k] \/ Collide(children[j], m[k])
        BY ONLY <1>3, <2>1
    <2>3. m[k] \in ToSet(m) /\ g # m[k]
        BY ONLY <1>2, <1>6, <2>2
    <2> QED
        BY ONLY <2>1, <2>2, <2>3
<1> QED
    BY <1>1, <1>4, <1>5, <1>6

\* A list of which no two collide is merged to itself.
LEMMA MergedInFull ==
    ASSUME NEW S, NEW children \in Seq(S),
           \A k, l \in 1..Len(children) : k < l => ~Collide(children[k], children[l])
    PROVE  Merged(children) = children
<1> PICK m : m = Merged(children)
    OBVIOUS
<1>1. m \in Seq(S) /\ MergeRight(children, Len(children), m)
    BY MergedIsRight
<1>2. Len(m) = Len(children) /\ \A k \in 1..Len(children) : m[k] = children[k]
    BY <1>1 DEF MergeRight
<1>3. m = [k \in 1..Len(m) |-> m[k]] /\ children = [k \in 1..Len(children) |-> children[k]]
    BY <1>1
<1>4. m = children
    BY <1>2, <1>3
<1> QED
    BY <1>4

-----------------------------------------------------------------------------
\* A set in order is a list of its members, each once.
LEMMA InOrderFacts ==
    ASSUME NEW S \in SUBSET Int, IsFiniteSet(S)
    PROVE  /\ InOrder(S) \in Seq(S) /\ Len(InOrder(S)) = Cardinality(S) /\ Cardinality(S) \in Nat
           /\ ToSet(InOrder(S)) = S
           /\ \A k, l \in 1..Cardinality(S) : k < l => InOrder(S)[k] # InOrder(S)[l]
<1> PICK n, s : n = Cardinality(S) /\ s = InOrder(S)
    OBVIOUS
<1>1. /\ n \in Nat
      /\ \A k \in 1..n : Nth(S, k) \in S
      /\ \A k, m \in 1..n : k < m => Nth(S, k) < Nth(S, m)
      /\ \A i \in S : \E k \in 1..n : Nth(S, k) = i
    BY NthCounts
<1>2. s = [k \in 1..n |-> Nth(S, k)]
    BY DEF InOrder
<1>3. s \in Seq(S) /\ Len(s) = n /\ DOMAIN s = 1..n
    BY <1>1, <1>2
<1>4. ToSet(s) = S
    <2>1. ToSet(s) = {s[k] : k \in 1..n}
        BY <1>3 DEF ToSet
    <2>2. \A k \in 1..n : s[k] = Nth(S, k)
        BY <1>2
    <2>3. \A k \in 1..n : s[k] \in S
        BY ONLY <1>1, <2>2
    <2>4. \A i \in S : \E k \in 1..n : s[k] = i
        BY ONLY <1>1, <2>2
    <2> QED
        BY ONLY <2>1, <2>3, <2>4
<1>5. ASSUME NEW k \in 1..n, NEW l \in 1..n, k < l PROVE s[k] # s[l]
    <2>1. s[k] = Nth(S, k) /\ s[l] = Nth(S, l)
        BY <1>2
    <2>2. Nth(S, k) < Nth(S, l) /\ Nth(S, k) \in Int
        BY ONLY <1>1, <1>5, S \in SUBSET Int
    <2>3. Nth(S, k) # Nth(S, l)
        BY ONLY <2>2
    <2> QED
        BY ONLY <2>1, <2>3
<1> QED
    BY <1>1, <1>3, <1>4, <1>5

\* A set of grids is merged to itself when no two of it collide, and only then.
LEMMA MergedOfSet ==
    ASSUME NEW S \in SUBSET Int, IsFiniteSet(S)
    PROVE  /\ ToSet(Merged(InOrder(S))) \subseteq S
           /\ (\A g, h \in S : g # h => ~Collide(g, h)) <=> Merged(InOrder(S)) = InOrder(S)
<1> PICK s, m, n : s = InOrder(S) /\ m = Merged(s) /\ n = Cardinality(S)
    OBVIOUS
<1>1. s \in Seq(S) /\ Len(s) = n /\ ToSet(s) = S /\ \A k, l \in 1..n : k < l => s[k] # s[l]
    BY InOrderFacts
<1>2. /\ ToSet(m) \subseteq ToSet(s)
      /\ \A g, h \in ToSet(m) : g # h => ~Collide(g, h)
    BY <1>1, MergedFacts
<1>3. ASSUME \A g, h \in S : g # h => ~Collide(g, h) PROVE m = s
    <2>1. \A k, l \in 1..Len(s) : k < l => ~Collide(s[k], s[l])
        <3>1. \A k \in 1..Len(s) : s[k] \in S
            BY <1>1
        <3>2. Len(s) = n /\ \A k, l \in 1..n : k < l => s[k] # s[l]
            BY <1>1
        <3> QED
            BY ONLY <1>3, <3>1, <3>2
    <2>2. Merged(s) = s
        BY ONLY <1>1, <2>1, MergedInFull
    <2> QED
        BY <2>2
<1>4. ASSUME m = s PROVE \A g, h \in S : g # h => ~Collide(g, h)
    BY <1>1, <1>2, <1>4
<1> QED
    BY <1>1, <1>2, <1>3, <1>4

\* Lists put behind one another, one list at a time.
LEMMA ConcatFacts ==
    ASSUME NEW X, NEW s \in Seq(X), NEW t \in Seq(X)
    PROVE  s \o t \in Seq(X) /\ ToSet(s \o t) = ToSet(s) \cup ToSet(t)
<1> PICK u, m, n : u = s \o t /\ m = Len(s) /\ n = Len(t)
    OBVIOUS
<1>1. m \in Nat /\ n \in Nat
    OBVIOUS
<1>2. /\ u \in Seq(X) /\ Len(u) = m + n
      /\ \A k \in 1..m + n : u[k] = IF k <= m THEN s[k] ELSE t[k - m]
    OBVIOUS
<1>3. /\ ToSet(u) = {u[k] : k \in 1..m + n} /\ ToSet(s) = {s[k] : k \in 1..m}
      /\ ToSet(t) = {t[k] : k \in 1..n}
    <2>1. DOMAIN u = 1..m + n /\ DOMAIN s = 1..m /\ DOMAIN t = 1..n
        BY <1>2
    <2> QED
        BY ONLY <2>1 DEF ToSet
<1>4. ASSUME NEW k \in 1..m + n PROVE u[k] \in ToSet(s) \cup ToSet(t)
    <2>1. CASE k <= m
        <3>1. k \in 1..m
            BY ONLY <1>1, <2>1, k \in 1..m + n
        <3> QED
            BY <1>2, <1>3, <2>1, <3>1
    <2>2. CASE ~(k <= m)
        <3>1. k - m \in 1..n
            BY ONLY <1>1, <2>2, k \in 1..m + n
        <3> QED
            BY <1>2, <1>3, <2>2, <3>1
    <2> QED
        BY <2>1, <2>2
<1>5. ASSUME NEW k \in 1..m PROVE s[k] \in ToSet(u)
    <2>1. k \in 1..m + n /\ k <= m
        BY ONLY <1>1, k \in 1..m
    <2> QED
        BY <1>2, <1>3, <2>1
<1>6. ASSUME NEW k \in 1..n PROVE t[k] \in ToSet(u)
    <2>1. k + m \in 1..m + n /\ ~(k + m <= m) /\ (k + m) - m = k
        BY ONLY <1>1, k \in 1..n
    <2> QED
        BY <1>2, <1>3, <2>1
<1>7. ToSet(u) \subseteq ToSet(s) \cup ToSet(t)
    BY ONLY <1>3, <1>4
<1>8. ToSet(s) \cup ToSet(t) \subseteq ToSet(u)
    BY ONLY <1>3, <1>5, <1>6
<1>9. u \in Seq(X) /\ ToSet(u) = ToSet(s) \cup ToSet(t)
    BY ONLY <1>2, <1>7, <1>8
<1> QED
    BY <1>9

\* Lists put end to end have the members of each.
LEMMA FlattenFacts ==
    ASSUME NEW X, NEW seqs \in Seq(Seq(X))
    PROVE  /\ FlattenSeq(seqs) \in Seq(X)
           /\ ToSet(FlattenSeq(seqs)) = UNION {ToSet(seqs[i]) : i \in 1..Len(seqs)}
<1> DEFINE n == Len(seqs)
           step == [i \in 1..n |-> [s \in Seq(X) |-> s \o seqs[i]]]
           Upto(i) == UNION {ToSet(seqs[j]) : j \in 1..i}
<1>1. n \in Nat /\ DOMAIN seqs = 1..n /\ <<>> \in Seq(X) /\ \A i \in 1..n : seqs[i] \in Seq(X)
    OBVIOUS
<1>2. step \in [1..n -> [Seq(X) -> Seq(X)]]
    <2> HIDE DEF n
    <2>1. ASSUME NEW i \in 1..n, NEW s \in Seq(X) PROVE s \o seqs[i] \in Seq(X)
        BY <1>1
    <2> QED
        BY <2>1
<1>3. Len(seqs) = n
    OBVIOUS
<1> HIDE DEF n
<1>4. PICK g \in [0..n -> Seq(X)] : InTurn(g, n, <<>>, step)
    <2> HIDE DEF step
    <2>1. PICK Y, base, t : Y = Seq(X) /\ base = <<>> /\ t = step
        OBVIOUS
    <2>2. base \in Y /\ t \in [1..n -> [Y -> Y]]
        BY <1>1, <1>2, <2>1
    <2>3. \E g \in [0..n -> Y] : InTurn(g, n, base, t)
        BY <1>1, <2>2, StepsInTurn
    <2> QED
        BY <2>1, <2>3
<1>5. /\ g[0] = <<>>
      /\ \A i \in 1..n : i - 1 \in 0..n /\ i \in 0..n /\ i # 0 /\ g[i - 1] \in Seq(X) /\ g[i] = g[i - 1] \o seqs[i]
    <2>1. 0 \in 0..n
        BY <1>1
    <2>2. g[0] = <<>>
        BY <1>4, <2>1 DEF InTurn
    <2>3. ASSUME NEW i \in 1..n
          PROVE  i - 1 \in 0..n /\ i \in 0..n /\ i # 0 /\ g[i - 1] \in Seq(X) /\ g[i] = g[i - 1] \o seqs[i]
        <3>1. i - 1 \in 0..n /\ i \in 0..n /\ i # 0
            BY <1>1
        <3>2. g[i - 1] \in Seq(X)
            BY <3>1
        <3>3. g[i] = step[i][g[i - 1]]
            BY <1>4, <3>1 DEF InTurn
        <3>4. step[i][g[i - 1]] = g[i - 1] \o seqs[i]
            BY <3>2
        <3> QED
            BY <3>1, <3>2, <3>3, <3>4
    <2> QED
        BY <2>2, <2>3
<1> HIDE DEF step
<1> DEFINE P(f, i) == IF i = 1 THEN seqs[i] ELSE f[i - 1] \o seqs[i]
           flatten == CHOOSE f : f = [i \in 1..n |-> P(f, i)]
           Good == {i \in 0..n : i >= 1 => flatten[i] \in Seq(X) /\ ToSet(flatten[i]) = Upto(i)}
<1>6. CASE n = 0
    <2>1. FlattenSeq(seqs) = seqs /\ seqs = <<>>
        BY <1>3, <1>6 DEF FlattenSeq
    <2>2. ToSet(seqs) = {} /\ 1..Len(seqs) = {}
        BY <2>1 DEF ToSet
    <2> QED
        BY <1>1, <2>1, <2>2
<1>7. CASE n >= 1
    <2>1. \E f : f = [i \in 1..n |-> P(f, i)]
        <3> PICK f : f = [i \in 1..n |-> g[i]]
            OBVIOUS
        <3>1. ASSUME NEW i \in 1..n PROVE g[i] = P(f, i)
            <4>1. CASE i = 1
                <5>1. g[1] = <<>> \o seqs[1]
                    <6>1. i - 1 = 0
                        BY <4>1
                    <6>2. g[i] = g[i - 1] \o seqs[i] /\ g[0] = <<>>
                        BY <1>5
                    <6> QED
                        BY ONLY <4>1, <6>1, <6>2
                <5>2. <<>> \o seqs[1] = seqs[1]
                    BY <1>1, <4>1
                <5> QED
                    BY <4>1, <5>1, <5>2
            <4>2. CASE i # 1
                <5>1. i - 1 \in 1..n
                    BY <1>1, <4>2
                <5>2. f[i - 1] = g[i - 1]
                    BY <5>1
                <5> QED
                    BY <1>5, <4>2, <5>2
            <4> QED
                BY <4>1, <4>2
        <3> HIDE DEF P
        <3>2. f = [i \in 1..n |-> P(f, i)]
            BY <3>1
        <3> QED
            BY ONLY <3>2
    <2>2. flatten = [i \in 1..n |-> P(flatten, i)]
        BY <2>1
    <2>3. FlattenSeq(seqs) = flatten[n]
        BY <1>1, <1>3, <1>7 DEF FlattenSeq
    <2> HIDE DEF flatten
    <2>4. \A i \in 1..n : flatten[i] = IF i = 1 THEN seqs[i] ELSE flatten[i - 1] \o seqs[i]
        BY <2>2
    <2>5. 0 \in Good
        BY <1>1
    <2>6. ASSUME NEW i \in 1..n, i - 1 \in Good PROVE i \in Good
        <3>1. CASE i = 1
            <4>1. flatten[i] = seqs[i] /\ seqs[i] \in Seq(X)
                BY <1>1, <2>4, <3>1
            <4>2. Upto(i) = ToSet(seqs[i])
                <5>1. 1..i = {i}
                    BY <3>1
                <5> QED
                    BY <5>1
            <4> QED
                BY <1>5, <4>1, <4>2
        <3>2. CASE i # 1
            <4> PICK o : o = i - 1
                OBVIOUS
            <4>1. o \in 1..n /\ o >= 1 /\ i = o + 1 /\ o \in Int /\ i \in 0..n
                BY <1>1, <3>2
            <4>2. flatten[o] \in Seq(X) /\ ToSet(flatten[o]) = Upto(o)
                BY <2>6, <4>1
            <4>3. flatten[i] = flatten[o] \o seqs[i]
                BY <2>4, <3>2
            <4>4. flatten[i] \in Seq(X) /\ ToSet(flatten[i]) = ToSet(flatten[o]) \cup ToSet(seqs[i])
                <5> PICK s, t, u : s = flatten[o] /\ t = seqs[i] /\ u = flatten[i]
                    OBVIOUS
                <5>1. s \in Seq(X) /\ t \in Seq(X) /\ u = s \o t
                    BY <1>1, <4>2, <4>3
                <5>2. u \in Seq(X) /\ ToSet(u) = ToSet(s) \cup ToSet(t)
                    BY ONLY <5>1, ConcatFacts
                <5> QED
                    BY <5>2
            <4>5. Upto(i) = Upto(o) \cup ToSet(seqs[i])
                <5>1. 1..i = (1..o) \cup {i}
                    BY <4>1
                <5> QED
                    BY <5>1
            <4> QED
                BY <4>1, <4>2, <4>4, <4>5
        <3> QED
            BY <3>1, <3>2
    <2>7. Good \in SUBSET (0..n)
        OBVIOUS
    <2>8. Good = 0..n
        <3> HIDE DEF Good
        <3> QED
            BY <1>1, <2>5, <2>6, <2>7, CarriedAlong
    <2>9. n \in Good
        <3>1. n \in 0..n
            BY <1>1
        <3> QED
            BY ONLY <2>8, <3>1
    <2> QED
        BY <1>3, <1>7, <2>3, <2>9
<1> QED
    BY <1>1, <1>6, <1>7

-----------------------------------------------------------------------------
\* Two different members are two at the least.
LEMMA TwoAtLeast ==
    ASSUME NEW S, IsFiniteSet(S), NEW x \in S, NEW y \in S, x # y
    PROVE  Cardinality(S) >= 2
<1>1. IsFiniteSet({x}) /\ Cardinality({x}) = 1
    BY FS_Singleton
<1>2. IsFiniteSet({x} \cup {y}) /\ Cardinality({x} \cup {y}) = 2
    <2> PICK T : T = {x}
        OBVIOUS
    <2>1. IsFiniteSet(T) /\ Cardinality(T) = 1 /\ y \notin T
        BY <1>1
    <2>2. IsFiniteSet(T \cup {y}) /\ Cardinality(T \cup {y}) = IF y \in T THEN Cardinality(T) ELSE Cardinality(T) + 1
        BY ONLY <2>1, FS_AddElement
    <2> QED
        BY <2>1, <2>2
<1>3. {x} \cup {y} \in SUBSET S
    OBVIOUS
<1>4. 2 <= Cardinality(S) /\ Cardinality(S) \in Nat
    <2>1. Cardinality({x} \cup {y}) <= Cardinality(S)
        BY <1>3, FS_Subset
    <2>2. Cardinality(S) \in Nat
        BY FS_CardinalityType
    <2> QED
        BY <1>2, <2>1, <2>2
<1> QED
    BY <1>4

\* The remainder of a count that is less than one round, and of one a round further.
LEMMA RoundTheTable ==
    ASSUME NEW k \in Nat \ {0}, NEW a \in 0..k - 1
    PROVE  a % k = a /\ (a + k) % k = a
<1>1. ASSUME NEW x \in Nat, NEW m \in {0, 1}, x = m * k + a PROVE x % k = a
    <2> PICK q, r : q = x \div k /\ r = x % k
        OBVIOUS
    <2>1. x = k * q + r /\ r \in 0..k - 1 /\ q \in Int
        BY ONLY x \in Nat, k \in Nat \ {0}, q = x \div k, r = x % k
    <2> PICK d : d = q - m
        OBVIOUS
    <2>2. d \in Int /\ k * d = a - r /\ k * d \in Int
        <3>1. d \in Int /\ k * d = k * q - k * m /\ k * m = m * k
            BY ONLY <2>1, d = q - m, m \in {0, 1}, k \in Nat \ {0}
        <3>2. k * q \in Int /\ k * m \in Int /\ m * k \in Int
            BY ONLY <2>1, m \in {0, 1}, k \in Nat \ {0}
        <3> QED
            BY ONLY <1>1, <2>1, <3>1, <3>2, k \in Nat \ {0}, a \in 0..k - 1
    <2>3. d = 0
        <3>1. CASE d >= 1
            <4>1. k * d >= k
                BY ONLY <2>2, <3>1, k \in Nat \ {0}
            <4> QED
                BY ONLY <2>1, <2>2, <4>1, k \in Nat \ {0}, a \in 0..k - 1
        <3>2. CASE d <= -1
            <4>1. k * d <= -k
                BY ONLY <2>2, <3>2, k \in Nat \ {0}
            <4> QED
                BY ONLY <2>1, <2>2, <4>1, k \in Nat \ {0}, a \in 0..k - 1
        <3> QED
            BY ONLY <2>2, <3>1, <3>2
    <2>4. a = r
        BY ONLY <2>1, <2>2, <2>3, k \in Nat \ {0}, a \in 0..k - 1
    <2> QED
        BY <2>4
<1>2. a \in Nat /\ a + k \in Nat /\ a = 0 * k + a /\ a + k = 1 * k + a
    OBVIOUS
<1>3. a % k = a
    BY ONLY <1>1, <1>2
<1>4. (a + k) % k = a
    BY ONLY <1>1, <1>2
<1> QED
    BY ONLY <1>3, <1>4

\* Groups of three or more leave nobody alone.
LEMMA GroupsOfTwo ==
    ASSUME pass \in Passes, NEW n \in Nat
    PROVE  /\ GroupCount(n) \in Nat \ {0}
           /\ (pass.size >= 3 /\ n >= 2) => 2 * GroupCount(n) <= n
<1> PICK s : s = pass.size
    OBVIOUS
<1>1. s \in Nat /\ s > 0
    BY PassAssumption DEF PassAssumption
<1> PICK x, q, r : x = n + s - 1 /\ q = x \div s /\ r = x % s
    OBVIOUS
<1>2. q \in Int /\ r \in 0..s - 1 /\ x = s * q + r /\ x \in Nat
    BY ONLY <1>1, n \in Nat, x = n + s - 1, q = x \div s, r = x % s
<1>3. GroupCount(n) = Max({1, q})
    BY DEF GroupCount
<1>4. Max({1, q}) \in {1, q} /\ Max({1, q}) >= 1
    <2>1. \E y \in {1, q} : \A z \in {1, q} : y >= z
        <3>1. CASE q >= 1
            BY ONLY <1>2, <3>1
        <3>2. CASE 1 >= q
            BY ONLY <1>2, <3>2
        <3> QED
            BY ONLY <1>2, <3>1, <3>2
    <2> QED
        BY <2>1 DEF Max
<1>5. ASSUME s >= 3, n >= 2, q >= 2 PROVE 2 * q <= n
    <2>1. s * (q - 1) >= 3 * (q - 1)
        BY ONLY <1>1, <1>2, <1>5
    <2>2. s * (q - 1) = s * q - s /\ s * q \in Int /\ s * (q - 1) \in Int
        BY ONLY <1>1, <1>2
    <2> QED
        BY ONLY <1>1, <1>2, <1>5, <2>1, <2>2, n \in Nat, x = n + s - 1
<1> QED
    BY ONLY <1>1, <1>2, <1>3, <1>4, <1>5, n \in Nat, s = pass.size

\* A deal: everybody has one place, and nobody sits alone where three could sit.
LEMMA DealFacts ==
    ASSUME pass \in Passes, NEW X, NEW items \in Seq(X), IsFiniteSet(ToSet(items)),
           \A i, j \in 1..Len(items) : i < j => items[i] # items[j],
           NEW d, d = Deal(items)
    PROVE  \E k \in Nat \ {0} :
             /\ d \in [1..k -> SUBSET ToSet(items)]
             /\ UNION {d[j] : j \in 1..k} = ToSet(items)
             /\ \A j, l \in 1..k : j # l => d[j] \cap d[l] = {}
             /\ (pass.size >= 3 /\ Len(items) >= 2) => \A j \in 1..k : Cardinality(d[j]) >= 2
<1> PICK n, k : n = Len(items) /\ k = GroupCount(n)
    OBVIOUS
<1>1. n \in Nat /\ DOMAIN items = 1..n
    OBVIOUS
<1>2. k \in Nat \ {0} /\ ((pass.size >= 3 /\ n >= 2) => 2 * k <= n)
    BY <1>1, GroupsOfTwo
<1>3. ToSet(items) = {items[i] : i \in 1..n}
    BY <1>1 DEF ToSet
<1> DEFINE At(j) == {i \in 1..n : (i - 1) % k = j - 1}
<1>4. d = [j \in 1..k |-> {items[i] : i \in At(j)}]
    BY <1>1 DEF Deal
<1>5. \A i, j \in 1..n : items[i] = items[j] => i = j
    <2>1. \A i, j \in 1..n : i < j \/ j < i \/ i = j
        BY ONLY <1>1
    <2> QED
        BY <2>1
<1>6. d \in [1..k -> SUBSET ToSet(items)] /\ \A j \in 1..k : d[j] = {items[i] : i \in At(j)}
    BY ONLY <1>3, <1>4
<1>7. UNION {d[j] : j \in 1..k} = ToSet(items)
    <2>1. ASSUME NEW i \in 1..n PROVE \E j \in 1..k : items[i] \in d[j]
        <3> PICK r : r = (i - 1) % k
            OBVIOUS
        <3>1. r \in 0..k - 1
            BY ONLY <1>1, <1>2, i \in 1..n, r = (i - 1) % k
        <3>2. r + 1 \in 1..k /\ (r + 1) - 1 = r
            BY ONLY <1>2, <3>1
        <3>3. i \in At(r + 1)
            BY ONLY <3>2, i \in 1..n, r = (i - 1) % k
        <3> QED
            BY ONLY <1>6, <3>2, <3>3
    <2> HIDE DEF At
    <2>2. ToSet(items) \subseteq UNION {d[j] : j \in 1..k}
        BY ONLY <1>3, <2>1
    <2>3. UNION {d[j] : j \in 1..k} \subseteq ToSet(items)
        BY ONLY <1>6
    <2> QED
        BY ONLY <2>2, <2>3
<1>8. ASSUME NEW j \in 1..k, NEW l \in 1..k, j # l PROVE d[j] \cap d[l] = {}
    <2> SUFFICES ASSUME NEW x \in d[j], x \in d[l] PROVE FALSE
        OBVIOUS
    <2>1. PICK i \in At(j) : x = items[i]
        BY ONLY <1>6, x \in d[j], j \in 1..k
    <2>2. PICK h \in At(l) : x = items[h]
        BY ONLY <1>6, x \in d[l], l \in 1..k
    <2>3. i = h
        BY <1>5, <2>1, <2>2
    <2>4. (i - 1) % k = j - 1 /\ (i - 1) % k = l - 1
        BY ONLY <2>3, i \in At(j), h \in At(l)
    <2> QED
        BY ONLY <1>8, <2>4, <1>2, j \in 1..k, l \in 1..k
<1>9. ASSUME pass.size >= 3, n >= 2, NEW j \in 1..k PROVE Cardinality(d[j]) >= 2
    <2>1. 2 * k <= n
        BY <1>2, <1>9
    <2> PICK a, b : a = j - 1 /\ b = j + k
        OBVIOUS
    <2>2. a \in 0..k - 1 /\ b - 1 = a + k /\ j \in 1..n /\ b \in 1..n /\ j # b
        BY ONLY <1>1, <1>2, <2>1, j \in 1..k, a = j - 1, b = j + k
    <2>3. a % k = a /\ (a + k) % k = a
        BY ONLY <1>2, <2>2, RoundTheTable
    <2>4. j \in At(j) /\ b \in At(j)
        BY ONLY <2>2, <2>3, a = j - 1
    <2>5. items[j] \in d[j] /\ items[b] \in d[j] /\ items[j] # items[b]
        <3>1. items[j] \in d[j] /\ items[b] \in d[j]
            BY ONLY <1>6, <2>4, j \in 1..k
        <3> QED
            BY ONLY <1>5, <2>2, <3>1
    <2>6. IsFiniteSet(d[j])
        <3>1. d[j] \in SUBSET ToSet(items)
            BY ONLY <1>6, j \in 1..k
        <3> QED
            BY <3>1, FS_Subset
    <2> QED
        BY ONLY <2>5, <2>6, TwoAtLeast
<1> QED
    BY ONLY <1>2, <1>6, <1>7, <1>8, <1>9, n = Len(items)

-----------------------------------------------------------------------------
\* Grids and nodes by their numbers: each leads one grid.
LEMMA LeadersAreOnes ==
    ASSUME pass \in Passes
    PROVE  /\ IsFiniteSet(Grids) /\ Grids \in SUBSET Nat /\ Nodes \in SUBSET (Nat \ {NoOne})
           /\ \A g \in Grids : pass.leader[g] \in Nodes /\ GridOf(pass.leader[g]) = g
           /\ \A n \in Nodes : GridOf(n) \in Grids /\ pass.leader[GridOf(n)] = n
<1> PICK n : n = Cardinality(Grids)
    OBVIOUS
<1>1. /\ IsFiniteSet(Grids) /\ Grids = 1..n
      /\ \A g, h \in Grids : pass.leader[g] \in Nat \ {NoOne} /\ (pass.leader[g] = pass.leader[h] => g = h)
    <2> DEFINE Whole(l) ==
            /\ IsFiniteSet(DOMAIN l) /\ DOMAIN l = 1..Cardinality(DOMAIN l)
            /\ \A g, h \in DOMAIN l : l[g] \in Nat \ {NoOne} /\ (l[g] = l[h] => g = h)
    <2>1. \A p \in Passes : Whole(p.leader)
        BY ONLY PassAssumption DEF PassAssumption
    <2>2. Grids = DOMAIN pass.leader
        BY DEF Grids
    <2> PICK l : l = pass.leader
        OBVIOUS
    <2>3. Whole(l)
        <3> HIDE DEF Whole
        <3>1. Whole(pass.leader)
            BY ONLY <2>1, pass \in Passes
        <3> QED
            BY ONLY <3>1, l = pass.leader
    <2> QED
        BY <2>2, <2>3
<1>2. n \in Nat
    BY <1>1, FS_CardinalityType
<1>3. Grids \in SUBSET Nat
    BY <1>1, <1>2
<1>4. ASSUME NEW g \in Grids PROVE GridOf(pass.leader[g]) = g
    BY <1>1 DEF GridOf
<1> QED
    BY <1>1, <1>3, <1>4 DEF Nodes

\* The leaders of a set of grids, in order: each once, and as many as there are grids.
LEMMA LeadersInOrder ==
    ASSUME pass \in Passes, NEW S \in SUBSET Grids
    PROVE  /\ IsFiniteSet(S)
           /\ LeadersOf(S) \in Seq(Nodes) /\ ToSet(LeadersOf(S)) = {pass.leader[g] : g \in S}
           /\ IsFiniteSet(ToSet(LeadersOf(S)))
           /\ \A k, l \in 1..Len(LeadersOf(S)) : k < l => LeadersOf(S)[k] # LeadersOf(S)[l]
           /\ Len(LeadersOf(S)) = Cardinality(S)
<1> PICK N : N = {pass.leader[g] : g \in S}
    OBVIOUS
<1>1. /\ IsFiniteSet(Grids) /\ Nodes \in SUBSET (Nat \ {NoOne})
      /\ \A g \in Grids : pass.leader[g] \in Nodes /\ GridOf(pass.leader[g]) = g
    BY LeadersAreOnes
<1>2. IsFiniteSet(S)
    BY <1>1, FS_Subset
<1>3. ExistsBijection(S, N)
    <2> PICK f : f = [g \in S |-> pass.leader[g]]
        OBVIOUS
    <2>1. f \in [S -> N] /\ \A g \in S : f[g] = pass.leader[g]
        OBVIOUS
    <2>2. \A g, h \in S : f[g] = f[h] => g = h
        BY <1>1, <2>1
    <2>3. \A x \in N : \E g \in S : f[g] = x
        BY <2>1
    <2> QED
        BY <2>1, <2>2, <2>3 DEF ExistsBijection, Bijection, Injection, Surjection, IsInjective
<1>4. IsFiniteSet(N) /\ Cardinality(N) = Cardinality(S)
    BY <1>2, <1>3, FS_Bijection
<1>5. N \in SUBSET Nodes /\ N \in SUBSET Int
    <2>1. ASSUME NEW x \in N PROVE x \in Nodes
        BY <1>1
    <2>2. Nodes \subseteq Int
        BY <1>1
    <2> QED
        BY ONLY <2>1, <2>2
<1>6. LeadersOf(S) = InOrder(N)
    BY DEF LeadersOf
<1>7. /\ InOrder(N) \in Seq(N) /\ Len(InOrder(N)) = Cardinality(N) /\ ToSet(InOrder(N)) = N
      /\ \A k, l \in 1..Cardinality(N) : k < l => InOrder(N)[k] # InOrder(N)[l]
    BY <1>4, <1>5, InOrderFacts
<1>8. Seq(N) \subseteq Seq(Nodes)
    BY <1>5
<1> QED
    BY <1>2, <1>4, <1>6, <1>7, <1>8

\* The grids that finalised, dealt: every leader has one seat, and brings its grid.
Dealt(S, k, d) ==
    /\ d \in [1..k -> SUBSET Nodes]
    /\ \A g \in S : \E j \in 1..k : pass.leader[g] \in d[j]
    /\ \A j \in 1..k : IsFiniteSet(d[j]) /\ \A n \in d[j] : GridOf(n) \in S
    /\ \A j, l \in 1..k : j # l => d[j] \cap d[l] = {}
    /\ (pass.size >= 3 /\ Cardinality(S) >= 2) => \A j \in 1..k : Cardinality(d[j]) >= 2

\* Whichever grids finalise, their leaders are dealt so.
LEMMA GridsAreDealt ==
    ASSUME pass \in Passes, NEW S \in SUBSET Grids
    PROVE  \E k \in Nat \ {0} : DOMAIN Deal(LeadersOf(S)) = 1..k /\ Dealt(S, k, Deal(LeadersOf(S)))
<1> PICK items, d, N : items = LeadersOf(S) /\ d = Deal(items) /\ N = {pass.leader[g] : g \in S}
    OBVIOUS
<1>1. /\ items \in Seq(Nodes) /\ ToSet(items) = N /\ IsFiniteSet(N)
      /\ \A i, j \in 1..Len(items) : i < j => items[i] # items[j]
      /\ Len(items) = Cardinality(S)
    <2>1. ToSet(LeadersOf(S)) = {pass.leader[g] : g \in S}
        BY LeadersInOrder
    <2>2. ToSet(items) = N
        BY ONLY <2>1, items = LeadersOf(S), N = {pass.leader[g] : g \in S}
    <2>3. /\ items \in Seq(Nodes) /\ IsFiniteSet(ToSet(items)) /\ Len(items) = Cardinality(S)
          /\ \A i, j \in 1..Len(items) : i < j => items[i] # items[j]
        BY ONLY LeadersInOrder, pass \in Passes, S \in SUBSET Grids, items = LeadersOf(S)
    <2> QED
        BY ONLY <2>2, <2>3
<1>2. PICK k \in Nat \ {0} :
        /\ d \in [1..k -> SUBSET N] /\ UNION {d[j] : j \in 1..k} = N
        /\ \A j, l \in 1..k : j # l => d[j] \cap d[l] = {}
        /\ (pass.size >= 3 /\ Cardinality(S) >= 2) => \A j \in 1..k : Cardinality(d[j]) >= 2
    <2>1. IsFiniteSet(ToSet(items))
        BY <1>1
    <2>2. d = Deal(items)
        OBVIOUS
    <2>3. \E k \in Nat \ {0} :
            /\ d \in [1..k -> SUBSET ToSet(items)]
            /\ UNION {d[j] : j \in 1..k} = ToSet(items)
            /\ \A j, l \in 1..k : j # l => d[j] \cap d[l] = {}
            /\ (pass.size >= 3 /\ Len(items) >= 2) => \A j \in 1..k : Cardinality(d[j]) >= 2
        BY ONLY <1>1, <2>1, <2>2, pass \in Passes, DealFacts
    <2> QED
        BY ONLY <1>1, <2>3
<1>3. /\ \A g \in Grids : pass.leader[g] \in Nodes /\ GridOf(pass.leader[g]) = g
    BY LeadersAreOnes
<1>4. N \in SUBSET Nodes /\ \A n \in N : GridOf(n) \in S
    BY <1>3
<1>5. d \in [1..k -> SUBSET Nodes]
    BY ONLY <1>2, <1>4
<1>6. ASSUME NEW g \in S PROVE \E j \in 1..k : pass.leader[g] \in d[j]
    <2>1. pass.leader[g] \in N
        OBVIOUS
    <2> QED
        BY ONLY <1>2, <2>1
<1>7. ASSUME NEW j \in 1..k PROVE IsFiniteSet(d[j]) /\ \A n \in d[j] : GridOf(n) \in S
    <2>1. d[j] \in SUBSET N
        BY ONLY <1>2, j \in 1..k
    <2>2. IsFiniteSet(d[j])
        BY <1>1, <2>1, FS_Subset
    <2> QED
        BY <1>4, <2>1, <2>2
<1>8. Dealt(S, k, d)
    BY ONLY <1>2, <1>5, <1>6, <1>7 DEF Dealt
<1>9. DOMAIN d = 1..k
    BY <1>5
<1> QED
    BY <1>8, <1>9

\* What leaders bundle is what is offered them, and an honest one's bundle passes.
LEMMA BundlesAreOfTheOffered ==
    ASSUME NEW n, NEW offered \in SUBSET Nat, IsFiniteSet(offered), NEW b \in Bundles(n, offered)
    PROVE  b[1] \subseteq offered /\ b[2] \subseteq offered
<1> PICK kept : kept = ToSet(Merged(InOrder(offered)))
    OBVIOUS
<1>1. kept \subseteq offered
    BY MergedOfSet
<1>2. \/ b = <<kept, offered \ kept>>
      \/ \E out \in SUBSET kept : b = <<kept \ out, offered \ kept>>
      \/ \E out \in SUBSET kept : b = <<kept \ out, (offered \ kept) \cup out>>
      \/ b = <<offered, {}>>
    BY DEF Bundles
<1>3. b[1] \subseteq offered /\ b[2] \subseteq offered
    <2>1. CASE b = <<kept, offered \ kept>>
        BY <1>1, <2>1
    <2>2. CASE \E out \in SUBSET kept : b = <<kept \ out, offered \ kept>>
        BY <1>1, <2>2
    <2>3. CASE \E out \in SUBSET kept : b = <<kept \ out, (offered \ kept) \cup out>>
        <3>1. PICK out \in SUBSET kept : b = <<kept \ out, (offered \ kept) \cup out>>
            BY <2>3
        <3>2. b[1] = kept \ out /\ b[2] = (offered \ kept) \cup out
            BY <3>1
        <3> QED
            BY ONLY <1>1, <3>2
    <2>4. CASE b = <<offered, {}>>
        BY <2>4
    <2> QED
        BY <1>2, <2>1, <2>2, <2>3, <2>4
<1> QED
    BY <1>3

\* An honest leader bundles what the merge keeps, and the merge keeps that whole again.
LEMMA HonestBundles ==
    ASSUME NEW n, NEW offered \in SUBSET Nat, IsFiniteSet(offered), pass.groupLeads[n] = "honest"
    PROVE  \E kept \in SUBSET offered :
             /\ Bundles(n, offered) = {<<kept, offered \ kept>>}
             /\ Merged(InOrder(kept)) = InOrder(kept)
             /\ \A g \in offered \ kept : \E h \in kept : Collide(g, h)
<1> PICK s, kept : s = InOrder(offered) /\ kept = ToSet(Merged(s))
    OBVIOUS
<1>1. offered \in SUBSET Int
    OBVIOUS
<1>2. s \in Seq(offered) /\ ToSet(s) = offered
    BY <1>1, InOrderFacts
<1>3. /\ kept \subseteq offered
      /\ \A g, h \in kept : g # h => ~Collide(g, h)
      /\ \A g \in offered \ kept : \E h \in kept : Collide(g, h)
    BY <1>2, MergedFacts
<1>4. kept \in SUBSET Int /\ IsFiniteSet(kept)
    BY <1>1, <1>3, FS_Subset
<1>5. Merged(InOrder(kept)) = InOrder(kept)
    BY <1>3, <1>4, MergedOfSet
<1>6. Bundles(n, offered) = {<<kept, offered \ kept>>}
    BY DEF Bundles
<1> QED
    BY <1>3, <1>5, <1>6

-----------------------------------------------------------------------------
(***************************************************************************)
(* What a pass keeps: the groups are a deal of the grids that finalised, each   *)
(* one bundled by one of its own with a quorum or not at all; whoever led a     *)
(* view of the top tier and lost it, lost it for a reason; and what is agreed   *)
(* is what one of the committee proposed.                                       *)
(***************************************************************************)
GroupIsRight(group) ==
    \/ group = NotFormed(group.seats)
    \/ /\ Cardinality(group.seats) >= 2
       /\ \E leader \in group.seats : \E bundle \in Bundles(leader, Offered(group.seats)) :
              /\ Carries(group.seats, Signers(group.seats, bundle))
              /\ group = BundledBy(leader, group.seats, bundle)

GroupsAreDealt ==
    /\ finalGrids \in SUBSET Grids /\ finalGrids # {}
    /\ DOMAIN groups = DOMAIN Deal(LeadersOf(finalGrids)) /\ groups = [j \in DOMAIN groups |-> groups[j]]
    /\ \A j \in DOMAIN groups :
           groups[j].seats = Deal(LeadersOf(finalGrids))[j] /\ GroupIsRight(groups[j])

AllTried == \A j \in DOMAIN groups : Unformed(groups[j]) => MayFail(groups[j].seats)

Lost(n) == RootsOf(n) = {} \/ \E chosen \in RootsOf(n) : ~Carries(Committee, RootSigners(chosen))

ViewsAreLed ==
    /\ ledViews \in Seq(Committee) /\ Len(ledViews) <= pass.views
    /\ \A i, k \in 1..Len(ledViews) : i < k => ledViews[i] # ledViews[k]
    /\ \A i \in 1..Len(ledViews) : Lost(ledViews[i])

TopSeated == GroupsAreDealt /\ AllTried /\ Formed # <<>> /\ ViewsAreLed

RootAgreed ==
    \E leader \in Committee : \E chosen \in RootsOf(leader) :
        /\ Carries(Committee, RootSigners(chosen))
        /\ root = [groups |-> chosen, leader |-> leader, signers |-> RootSigners(chosen), tiers |-> Tiers]

SoloAgreed ==
    /\ Cardinality(Grids) = 1 /\ finalGrids = Grids /\ groups = <<>>
    /\ root = [groups |-> <<[NotFormed({}) EXCEPT !.children = Grids]>>, leader |-> pass.leader[1],
               signers |-> {}, tiers |-> 1]

NoMajority == finalGrids = {} /\ groups = <<>>
NoGroup == GroupsAreDealt /\ AllTried /\ Formed = <<>>
Agreed == SoloAgreed \/ (TopSeated /\ RootAgreed)

PassInv ==
    /\ pass \in Passes
    /\ \/ NothingRun
       \/ phase = "groups" /\ GroupsAreDealt /\ ledViews = <<>> /\ root = <<>>
       \/ phase = "top" /\ TopSeated /\ root = <<>>
       \/ phase = "aborted" /\ root = <<>> /\ (NoMajority \/ NoGroup \/ (TopSeated /\ Len(ledViews) = pass.views))
       \/ phase = "raised" /\ root = <<>> /\ TopSeated /\ YetToLead = {}
       \/ phase = "agreed" /\ Agreed
       \/ phase = "applied" /\ Agreed /\ spentNotes = UNION {pass.spent[g] : g \in ToSet(Merged(Children))}

\* What a step that leaves the pass alone leaves alone with it.
LEMMA SamePass ==
    ASSUME pass' = pass
    PROVE  /\ Grids' = Grids /\ \A S : LeadersOf(S)' = LeadersOf(S) /\ \A s : Deal(s)' = Deal(s)
           /\ \A n : GridOf(n)' = GridOf(n)
           /\ \A s : Merged(s)' = Merged(s)
           /\ \A s : Offered(s)' = Offered(s)
           /\ \A n, o : Bundles(n, o)' = Bundles(n, o)
           /\ \A s, b : Signers(s, b)' = Signers(s, b)
<1>1. Grids' = Grids
    BY DEF Grids
<1>2. ASSUME NEW S PROVE LeadersOf(S)' = LeadersOf(S)
    BY DEF LeadersOf
<1>3. ASSUME NEW s PROVE Deal(s)' = Deal(s)
    BY DEF Deal, GroupCount
<1>4. ASSUME NEW n PROVE GridOf(n)' = GridOf(n)
    BY <1>1 DEF GridOf
<1>5. ASSUME NEW s PROVE Merged(s)' = Merged(s)
    BY DEF Merged, Clash
<1>6. ASSUME NEW s PROVE Offered(s)' = Offered(s)
    BY <1>4 DEF Offered
<1>7. ASSUME NEW n, NEW o PROVE Bundles(n, o)' = Bundles(n, o)
    <2>1. Merged(InOrder(o))' = Merged(InOrder(o))
        BY <1>5
    <2> QED
        BY <2>1 DEF Bundles
<1>8. ASSUME NEW n, NEW c, NEW d PROVE BundleIsValid(n, c, d)' = BundleIsValid(n, c, d)
    <2>1. Merged(InOrder(c))' = Merged(InOrder(c))
        BY <1>5
    <2> QED
        BY <1>4, <2>1 DEF BundleIsValid, NotOmitted
<1>9. ASSUME NEW s, NEW b PROVE Signers(s, b)' = Signers(s, b)
    BY <1>8 DEF Signers
<1> QED
    BY <1>1, <1>2, <1>3, <1>4, <1>5, <1>6, <1>7, <1>9

\* A group that is right stays right as long as the pass stays what it is.
LEMMA SameGroup ==
    ASSUME pass' = pass, NEW group
    PROVE  GroupIsRight(group)' = GroupIsRight(group)
<1>1. \A leader, bundle : (bundle \in Bundles(leader, Offered(group.seats)))' =
                          (bundle \in Bundles(leader, Offered(group.seats)))
    BY SamePass
<1>2. \A bundle : /\ Signers(group.seats, bundle)' = Signers(group.seats, bundle)
                  /\ Carries(group.seats, Signers(group.seats, bundle))' = Carries(group.seats, Signers(group.seats, bundle))
                  /\ \A leader : BundledBy(leader, group.seats, bundle)' = BundledBy(leader, group.seats, bundle)
    BY SamePass DEF Carries, BundledBy
<1>3. NotFormed(group.seats)' = NotFormed(group.seats)
    BY DEF NotFormed
<1> QED
    BY <1>1, <1>2, <1>3 DEF GroupIsRight

\* And so do all of them, with the committee they make.
LEMMA SameGroups ==
    ASSUME pass' = pass, finalGrids' = finalGrids, groups' = groups
    PROVE  /\ GroupsAreDealt' = GroupsAreDealt /\ AllTried' = AllTried /\ Formed' = Formed
           /\ Committee' = Committee /\ Tiers' = Tiers
           /\ \A n : RootsOf(n)' = RootsOf(n)
           /\ \A c : RootSigners(c)' = RootSigners(c)
           /\ \A n : Lost(n)' = Lost(n)
<1>1. GroupsAreDealt' = GroupsAreDealt
    <2>1. \A j : GroupIsRight(groups[j])' = GroupIsRight(groups[j])
        <3>1. \A g : GroupIsRight(g)' = GroupIsRight(g)
            BY SameGroup
        <3> QED
            BY <3>1
    <2>2. Grids' = Grids /\ Deal(LeadersOf(finalGrids))' = Deal(LeadersOf(finalGrids))
        BY SamePass
    <2> QED
        BY <2>1, <2>2 DEF GroupsAreDealt
<1>2. AllTried' = AllTried
    <2>1. ASSUME NEW s PROVE MayFail(s)' = MayFail(s)
        <3>1. \A leader, bundle : (bundle \in Bundles(leader, Offered(s)))' = (bundle \in Bundles(leader, Offered(s)))
            BY SamePass
        <3>2. \A bundle : Carries(s, Signers(s, bundle))' = Carries(s, Signers(s, bundle))
            BY SamePass DEF Carries
        <3> QED
            BY <3>1, <3>2 DEF MayFail
    <2>2. \A j : Unformed(groups[j])' = Unformed(groups[j]) /\ MayFail(groups[j].seats)' = MayFail(groups[j].seats)
        BY <2>1 DEF Unformed
    <2> QED
        BY <2>2 DEF AllTried
<1>3. Formed' = Formed
    BY DEF Formed
<1>4. Committee' = Committee
    BY <1>3 DEF Committee
<1>5. Tiers' = Tiers
    BY <1>3 DEF Tiers
<1>6. ASSUME NEW n PROVE RootsOf(n)' = RootsOf(n)
    BY <1>3 DEF RootsOf
<1>7. ASSUME NEW c PROVE RootSigners(c)' = RootSigners(c)
    BY <1>4 DEF RootSigners, RootIsValid
<1>8. ASSUME NEW n PROVE Lost(n)' = Lost(n)
    <2>1. \A c : Carries(Committee, RootSigners(c))' = Carries(Committee, RootSigners(c))
        BY <1>4, <1>7 DEF Carries
    <2>2. \A c : (c \in RootsOf(n))' = (c \in RootsOf(n))
        BY <1>6
    <2> QED
        BY <1>6, <2>1, <2>2 DEF Lost
<1> QED
    BY <1>1, <1>2, <1>3, <1>4, <1>5, <1>6, <1>7, <1>8

-----------------------------------------------------------------------------
\* Nothing has run.
LEMMA PassStarts == ASSUME TierPassInit PROVE PassInv
BY DEF TierPassInit, PassInv

\* The grids end: their leaders are dealt into groups nobody has bundled.
LEMMA EndGridsKeepsPass ==
    ASSUME PassInv, NEW final \in SUBSET Grids, EndGrids(final)
    PROVE  PassInv'
<1>1. /\ phase = "grids" /\ finalGrids' = final /\ pass' = pass /\ ledViews' = ledViews /\ root' = root
      /\ ledViews = <<>> /\ root = <<>> /\ pass' \in Passes
    BY DEF PassInv, NothingRun, EndGrids, NothingMoved
<1>2. CASE final = {}
    <2>1. phase' = "aborted" /\ groups' = <<>>
        BY <1>2 DEF EndGrids
    <2>2. NoMajority'
        BY <1>1, <1>2, <2>1 DEF NoMajority
    <2> QED
        BY <1>1, <2>1, <2>2 DEF PassInv
<1>3. CASE final # {}
    <2> PICK d : d = Deal(LeadersOf(final))
        OBVIOUS
    <2>1. phase' = "groups" /\ groups' = [j \in DOMAIN d |-> NotFormed(d[j])]
        BY <1>3 DEF EndGrids
    <2>2. Deal(LeadersOf(finalGrids))' = d /\ Grids' = Grids
        <3>1. LeadersOf(final)' = LeadersOf(final)
            BY <1>1, SamePass
        <3>2. Deal(LeadersOf(final))' = d
            BY <1>1, <3>1, SamePass
        <3>3. LeadersOf(finalGrids)' = LeadersOf(final)'
            BY <1>1
        <3>4. Deal(LeadersOf(finalGrids))' = Deal(LeadersOf(final))'
            BY <1>1, <3>3
        <3> QED
            BY <1>1, <3>2, <3>4, SamePass
    <2>3. ASSUME NEW j \in DOMAIN d
          PROVE  groups'[j].seats = d[j] /\ GroupIsRight(groups[j])'
        <3>1. groups'[j] = NotFormed(d[j])
            BY <2>1, <2>3
        <3>2. groups'[j].seats = d[j]
            BY <3>1 DEF NotFormed
        <3>3. GroupIsRight(groups'[j])
            BY <3>1, <3>2 DEF GroupIsRight
        <3>4. \A g : GroupIsRight(g)' = GroupIsRight(g)
            BY <1>1, SameGroup
        <3> QED
            BY <3>2, <3>3, <3>4
    <2>4. GroupsAreDealt'
        <3>1. DOMAIN groups' = DOMAIN d /\ groups' = [j \in DOMAIN groups' |-> groups'[j]]
            BY <2>1
        <3>2. \A j \in DOMAIN groups' : groups'[j].seats = d[j] /\ GroupIsRight(groups[j])'
            BY <2>3, <3>1
        <3> QED
            BY <1>1, <1>3, <2>2, <3>1, <3>2 DEF GroupsAreDealt
    <2> QED
        BY <1>1, <2>1, <2>4 DEF PassInv
<1> QED
    BY <1>2, <1>3

\* One grid is all the tiers there are.
LEMMA SoloKeepsPass ==
    ASSUME PassInv, Solo
    PROVE  PassInv'
<1>1. groups = <<>> /\ pass \in Passes
    BY DEF PassInv, NothingRun, Solo
<1>2. SoloAgreed'
    BY <1>1 DEF Solo, SoloAgreed, Grids, NotFormed
<1> QED
    BY <1>1, <1>2 DEF Solo, PassInv, Agreed

\* A group is bundled by one of its own, with a quorum; the others are as they were.
LEMMA GroupKeepsPass ==
    ASSUME PassInv, NEW j \in DOMAIN groups, NEW leader \in groups[j].seats, Group(j, leader)
    PROVE  PassInv'
<1>1. /\ phase = "groups" /\ Unformed(groups[j]) /\ phase' = phase /\ finalGrids' = finalGrids /\ pass' = pass
      /\ ledViews' = ledViews /\ root' = root /\ GroupsAreDealt /\ ledViews = <<>> /\ root = <<>> /\ pass \in Passes
    BY DEF PassInv, NothingRun, Group, NothingMoved
<1> PICK seats, d : seats = groups[j].seats /\ d = Deal(LeadersOf(finalGrids))
    OBVIOUS
<1>2. PICK bundle \in Bundles(leader, Offered(seats)) :
        /\ Carries(seats, Signers(seats, bundle))
        /\ groups' = [groups EXCEPT ![j] = BundledBy(leader, seats, bundle)]
    BY DEF Group
<1> PICK new : new = BundledBy(leader, seats, bundle)
    OBVIOUS
<1>3. new.seats = seats
    BY DEF BundledBy
<1>4. GroupIsRight(new)
    <2>1. Cardinality(seats) >= 2
        BY <1>1 DEF Unformed
    <2> QED
        BY <1>2, <1>3, <2>1 DEF GroupIsRight
<1>5. /\ DOMAIN groups' = DOMAIN groups /\ groups' = [i \in DOMAIN groups' |-> groups'[i]]
      /\ \A i \in DOMAIN groups : groups'[i] = IF i = j THEN new ELSE groups[i]
    BY <1>2
<1>6. ASSUME NEW i \in DOMAIN groups PROVE groups'[i].seats = d[i] /\ GroupIsRight(groups'[i])
    BY <1>1, <1>3, <1>4, <1>5 DEF GroupsAreDealt
<1>7. \A g : GroupIsRight(g)' = GroupIsRight(g)
    BY <1>1, SameGroup
<1>8. Deal(LeadersOf(finalGrids))' = d /\ Grids' = Grids
    BY <1>1, SamePass
<1>9. \A i \in DOMAIN groups : GroupIsRight(groups[i])' = GroupIsRight(groups'[i])
    BY <1>7
<1>10. GroupsAreDealt'
    BY <1>1, <1>5, <1>6, <1>8, <1>9 DEF GroupsAreDealt
<1> QED
    BY <1>1, <1>10 DEF PassInv

\* The groups end: those that did not form could fail.
LEMMA EndGroupsKeepsPass ==
    ASSUME PassInv, EndGroups
    PROVE  PassInv'
<1>1. /\ phase = "groups" /\ groups' = groups /\ finalGrids' = finalGrids /\ pass' = pass
      /\ ledViews' = ledViews /\ root' = root /\ GroupsAreDealt /\ ledViews = <<>> /\ root = <<>> /\ pass \in Passes
      /\ AllTried /\ phase' = IF Formed = <<>> THEN "aborted" ELSE "top"
    BY DEF PassInv, NothingRun, EndGroups, NothingMoved, AllTried
<1>2. GroupsAreDealt' /\ AllTried' /\ Formed' = Formed
    BY <1>1, SameGroups
<1>3. CASE Formed = <<>>
    BY <1>1, <1>2, <1>3 DEF PassInv, NoGroup
<1>4. CASE Formed # <<>>
    <2>1. ViewsAreLed'
        <3>1. pass.views \in Nat
            BY <1>1, PassAssumption DEF PassAssumption
        <3>2. ledViews' = <<>> /\ pass'.views \in Nat
            BY <1>1, <3>1
        <3> QED
            BY <3>2 DEF ViewsAreLed
    <2>2. TopSeated'
        BY <1>2, <1>4, <2>1 DEF TopSeated
    <2> QED
        BY <1>1, <1>4, <2>2 DEF PassInv
<1> QED
    BY <1>3, <1>4

\* A view is won by what its leader proposes or lost for a reason, by one who had led none.
LEMMA ViewKeepsPass ==
    ASSUME PassInv, NEW leader, View(leader)
    PROVE  PassInv'
<1>1. /\ phase = "top" /\ TopSeated /\ root = <<>> /\ pass \in Passes /\ pass' = pass /\ groups' = groups
      /\ finalGrids' = finalGrids /\ leader \in YetToLead /\ Len(ledViews) < pass.views
    BY DEF PassInv, NothingRun, View
<1>2. /\ GroupsAreDealt' /\ AllTried' /\ Formed' = Formed /\ Committee' = Committee /\ Tiers' = Tiers
      /\ (\A n : RootsOf(n)' = RootsOf(n)) /\ (\A c : RootSigners(c)' = RootSigners(c))
      /\ (\A n : Lost(n)' = Lost(n)) /\ Formed' # <<>>
    BY <1>1, SameGroups DEF TopSeated
<1>3. leader \in Committee /\ leader \notin ToSet(ledViews)
    BY <1>1 DEF YetToLead
<1>4. \A c : Carries(Committee, RootSigners(c))' = Carries(Committee, RootSigners(c))
    BY <1>2 DEF Carries
<1>5. CASE \E chosen \in RootsOf(leader) :
             /\ Carries(Committee, RootSigners(chosen))
             /\ root' = [groups |-> chosen, leader |-> leader, signers |-> RootSigners(chosen), tiers |-> Tiers]
             /\ phase' = "agreed" /\ UNCHANGED ledViews
    <2>1. TopSeated'
        BY <1>1, <1>2, <1>5 DEF TopSeated, ViewsAreLed
    <2>2. RootAgreed'
        <3>1. PICK chosen \in RootsOf(leader) :
                /\ Carries(Committee, RootSigners(chosen))
                /\ root' = [groups |-> chosen, leader |-> leader, signers |-> RootSigners(chosen), tiers |-> Tiers]
            BY <1>5
        <3>2. /\ (leader \in Committee)' /\ (chosen \in RootsOf(leader))'
              /\ Carries(Committee, RootSigners(chosen))'
              /\ (root = [groups |-> chosen, leader |-> leader, signers |-> RootSigners(chosen), tiers |-> Tiers])'
            BY <1>2, <1>3, <1>4, <3>1
        <3> QED
            BY ONLY <3>2 DEF RootAgreed
    <2> QED
        BY <1>1, <1>5, <2>1, <2>2 DEF PassInv, Agreed
<1>6. CASE Lost(leader) /\ ledViews' = Append(ledViews, leader) /\ UNCHANGED <<phase, root>>
    <2> PICK old, more, n : old = ledViews /\ more = ledViews' /\ n = Len(old)
        OBVIOUS
    <2>1. /\ old \in Seq(Committee) /\ n \in Nat /\ more = Append(old, leader) /\ n < pass.views
          /\ \A i, k \in 1..n : i < k => old[i] # old[k]
          /\ \A i \in 1..n : Lost(old[i])
        BY <1>1, <1>6 DEF TopSeated, ViewsAreLed
    <2>2. /\ more \in Seq(Committee) /\ Len(more) = n + 1 /\ more[n + 1] = leader
          /\ \A i \in 1..n : more[i] = old[i]
        BY <1>3, <2>1
    <2>3. \A i \in 1..n + 1 : i \in 1..n \/ i = n + 1
        BY <2>1
    <2>4. \A i \in 1..n : old[i] # leader
        <3>1. DOMAIN old = 1..n
            BY <2>1
        <3> QED
            BY <1>3, <3>1 DEF ToSet
    <2>5. ASSUME NEW i \in 1..n + 1, NEW k \in 1..n + 1, i < k PROVE more[i] # more[k]
        <3>1. i \in 1..n
            BY <2>1, <2>5
        <3>2. CASE k \in 1..n
            BY <2>1, <2>2, <2>5, <3>1, <3>2
        <3>3. CASE k = n + 1
            BY <2>2, <2>4, <3>1, <3>3
        <3> QED
            BY <2>3, <3>2, <3>3
    <2>6. \A i \in 1..n + 1 : Lost(more[i])'
        <3>1. ASSUME NEW i \in 1..n + 1 PROVE Lost(more[i])
            <4>1. CASE i \in 1..n
                BY <2>1, <2>2, <4>1
            <4>2. CASE i = n + 1
                BY <1>6, <2>2, <4>2
            <4> QED
                BY <2>3, <4>1, <4>2
        <3> QED
            BY <1>2, <3>1
    <2>7. n + 1 <= pass.views
        <3>1. pass.views \in Nat
            BY <1>1, PassAssumption DEF PassAssumption
        <3> QED
            BY <2>1, <3>1
    <2>8. ViewsAreLed'
        <3>1. /\ ledViews' \in Seq(Committee') /\ Len(ledViews') = n + 1 /\ Len(ledViews') <= pass'.views
              /\ \A i, k \in 1..n + 1 : i < k => ledViews'[i] # ledViews'[k]
            BY <1>1, <1>2, <2>2, <2>5, <2>7
        <3>2. \A i \in 1..n + 1 : Lost(ledViews[i])'
            BY <1>2, <2>6
        <3> QED
            BY ONLY <3>1, <3>2 DEF ViewsAreLed
    <2> QED
        BY <1>1, <1>2, <1>6, <2>8 DEF PassInv, TopSeated
<1> QED
    BY <1>5, <1>6 DEF View, Lost

\* The top tier is seated as it was, as long as the pass, the groups and the views are what they were.
LEMMA SameViews ==
    ASSUME pass' = pass, finalGrids' = finalGrids, groups' = groups, ledViews' = ledViews
    PROVE  TopSeated' = TopSeated
<1>1. /\ GroupsAreDealt' = GroupsAreDealt /\ AllTried' = AllTried /\ Formed' = Formed
      /\ Committee' = Committee /\ \A n : Lost(n)' = Lost(n)
    BY SameGroups
<1>2. \A i : Lost(ledViews[i])' = Lost(ledViews[i])
    BY <1>1
<1>3. ViewsAreLed' = ViewsAreLed
    BY <1>1, <1>2 DEF ViewsAreLed
<1> QED
    BY <1>1, <1>3 DEF TopSeated

\* The views are used up, or nobody is left to lead one.
LEMMA GiveUpKeepsPass ==
    ASSUME PassInv, GiveUp
    PROVE  PassInv'
<1>1. /\ phase = "top" /\ TopSeated /\ root = <<>> /\ pass \in Passes /\ pass' = pass /\ groups' = groups
      /\ finalGrids' = finalGrids /\ ledViews' = ledViews /\ root' = root
      /\ \/ Len(ledViews) = pass.views /\ phase' = "aborted"
         \/ YetToLead = {} /\ phase' = "raised"
    BY DEF PassInv, NothingRun, GiveUp, NothingMoved
<1>2. TopSeated'
    BY <1>1, SameViews
<1>3. YetToLead' = YetToLead
    BY <1>1, SameGroups DEF YetToLead
<1> QED
    BY <1>1, <1>2, <1>3 DEF PassInv

\* What is applied is what the merge keeps of the children agreed on.
LEMMA ApplyKeepsPass ==
    ASSUME PassInv, Apply
    PROVE  PassInv'
<1>1. /\ phase = "agreed" /\ Agreed /\ pass \in Passes /\ pass' = pass /\ groups' = groups /\ root' = root
      /\ finalGrids' = finalGrids /\ ledViews' = ledViews /\ phase' = "applied"
      /\ spentNotes' = UNION {pass.spent[g] : g \in ToSet(Merged(Children))}
    BY DEF PassInv, NothingRun, Apply
<1>2. /\ TopSeated' = TopSeated /\ Committee' = Committee /\ Tiers' = Tiers
      /\ (\A n : RootsOf(n)' = RootsOf(n)) /\ (\A c : RootSigners(c)' = RootSigners(c))
    BY <1>1, SameGroups, SameViews
<1>3. \A c : Carries(Committee, RootSigners(c))' = Carries(Committee, RootSigners(c))
    BY <1>2 DEF Carries
<1>4. RootAgreed' = RootAgreed
    <2>1. \A n, c : (c \in RootsOf(n))' = (c \in RootsOf(n))
        BY <1>2
    <2> QED
        BY <1>1, <1>2, <1>3, <2>1 DEF RootAgreed
<1>5. SoloAgreed' = SoloAgreed
    BY <1>1 DEF SoloAgreed, Grids, NotFormed
<1>6. Agreed'
    BY <1>1, <1>2, <1>4, <1>5 DEF Agreed
<1>7. ToSet(Merged(Children))' = ToSet(Merged(Children))
    <2>1. Children' = Children
        BY <1>1 DEF Children
    <2> QED
        BY <1>1, <2>1, SamePass
<1>8. spentNotes' = UNION {pass'.spent[g] : g \in ToSet(Merged(Children))'}
    BY <1>1, <1>7
<1> QED
    BY <1>1, <1>6, <1>8 DEF PassInv

\* The invariant of a pass: groups are formed by their own and views are lost for reasons.
THEOREM PassInvariance == TierPassSpec => []PassInv
<1>1. TierPassInit => PassInv
    BY PassStarts
<1>2. PassInv /\ [TierPassNext]_passVars => PassInv'
    <2> SUFFICES ASSUME PassInv, [TierPassNext]_passVars PROVE PassInv'
        OBVIOUS
    <2>1. ASSUME NEW final \in SUBSET Grids, EndGrids(final) PROVE PassInv'
        BY <2>1, EndGridsKeepsPass
    <2>2. CASE Solo
        BY <2>2, SoloKeepsPass
    <2>3. ASSUME NEW j \in DOMAIN groups, NEW leader \in groups[j].seats, Group(j, leader) PROVE PassInv'
        BY <2>3, GroupKeepsPass
    <2>4. CASE EndGroups
        BY <2>4, EndGroupsKeepsPass
    <2>5. ASSUME NEW leader, View(leader) PROVE PassInv'
        BY <2>5, ViewKeepsPass
    <2>6. CASE GiveUp
        BY <2>6, GiveUpKeepsPass
    <2>7. CASE Apply
        BY <2>7, ApplyKeepsPass
    <2>8. CASE UNCHANGED passVars
        <3>1. /\ pass' = pass /\ phase' = phase /\ finalGrids' = finalGrids /\ groups' = groups
              /\ ledViews' = ledViews /\ root' = root /\ spentNotes' = spentNotes
              /\ createdNotes' = createdNotes /\ confirmed' = confirmed
            BY <2>8 DEF passVars
        <3>2. /\ GroupsAreDealt' = GroupsAreDealt /\ AllTried' = AllTried /\ Formed' = Formed
              /\ TopSeated' = TopSeated /\ Committee' = Committee /\ Tiers' = Tiers
              /\ (\A n : RootsOf(n)' = RootsOf(n)) /\ (\A c : RootSigners(c)' = RootSigners(c))
            BY <3>1, SameGroups, SameViews
        <3>3. Agreed' = Agreed
            <4>1. \A c : Carries(Committee, RootSigners(c))' = Carries(Committee, RootSigners(c))
                BY <3>2 DEF Carries
            <4>2. \A n, c : (c \in RootsOf(n))' = (c \in RootsOf(n))
                BY <3>2
            <4>3. RootAgreed' = RootAgreed
                BY <3>1, <3>2, <4>1, <4>2 DEF RootAgreed
            <4>4. SoloAgreed' = SoloAgreed
                BY <3>1 DEF SoloAgreed, Grids, NotFormed
            <4> QED
                BY <3>2, <4>3, <4>4 DEF Agreed
        <3>4. ToSet(Merged(Children))' = ToSet(Merged(Children))
            <4>1. Children' = Children
                BY <3>1 DEF Children
            <4> QED
                BY <3>1, <4>1, SamePass
        <3>5. /\ NothingRun' = NothingRun /\ NoMajority' = NoMajority /\ NoGroup' = NoGroup
              /\ YetToLead' = YetToLead
            BY <3>1, <3>2 DEF NothingRun, NoMajority, NoGroup, YetToLead
        <3>6. (UNION {pass.spent[g] : g \in ToSet(Merged(Children))})' = UNION {pass.spent[g] : g \in ToSet(Merged(Children))}
            BY <3>1, <3>4
        <3> QED
            BY <3>1, <3>2, <3>3, <3>5, <3>6 DEF PassInv
    <2> QED
        BY <2>1, <2>2, <2>3, <2>4, <2>5, <2>6, <2>7, <2>8 DEF TierPassNext
<1> QED
    BY <1>1, <1>2, PTL DEF TierPassSpec

-----------------------------------------------------------------------------
\* What the invariant says of one group.
FormedGroups == {g \in {groups[j] : j \in DOMAIN groups} : g.leader # NoOne}

\* It offers the grids its seats led, and one that formed has a quorum for what it carries.
LEMMA GroupFacts ==
    ASSUME pass \in Passes, GroupsAreDealt, NEW j \in DOMAIN groups, NEW group, group = groups[j]
    PROVE  /\ group.seats \in SUBSET Nodes /\ IsFiniteSet(group.seats)
           /\ Offered(group.seats) \subseteq finalGrids /\ Offered(group.seats) \in SUBSET Nat
           /\ IsFiniteSet(Offered(group.seats))
           /\ group.children \subseteq Offered(group.seats)
           /\ group.leader = NoOne => group = NotFormed(group.seats) /\ group.children = {}
           /\ group.leader # NoOne =>
                /\ Cardinality(group.seats) >= 2 /\ group.leader \in group.seats
                /\ \E bundle \in Bundles(group.leader, Offered(group.seats)) :
                       group.children = bundle[1] /\ group.dropped = bundle[2]
                /\ group.signers = {n \in group.seats : BundleIsValid(n, group.children, group.dropped)}
                /\ Carries(group.seats, group.signers)
<1> PICK d, seats : d = Deal(LeadersOf(finalGrids)) /\ seats = group.seats
    OBVIOUS
<1>1. finalGrids \in SUBSET Grids /\ DOMAIN groups = DOMAIN d /\ seats = d[j] /\ GroupIsRight(group)
    BY DEF GroupsAreDealt
<1>2. PICK k \in Nat \ {0} : DOMAIN d = 1..k /\ Dealt(finalGrids, k, d)
    BY <1>1, GridsAreDealt
<1>3. seats \in SUBSET Nodes /\ IsFiniteSet(seats) /\ \A n \in seats : GridOf(n) \in finalGrids
    BY <1>1, <1>2 DEF Dealt
<1>4. IsFiniteSet(Grids) /\ Grids \in SUBSET Nat /\ Nodes \in SUBSET (Nat \ {NoOne})
    BY LeadersAreOnes
<1>5. Offered(seats) \subseteq finalGrids
    BY <1>3 DEF Offered
<1>6. Offered(seats) \in SUBSET Nat /\ IsFiniteSet(Offered(seats))
    <2>1. Offered(seats) \in SUBSET Grids
        BY <1>1, <1>5
    <2> QED
        BY <1>4, <2>1, FS_Subset
<1>7. CASE group = NotFormed(seats)
    <2>1. group.leader = NoOne /\ group.children = {}
        BY <1>7 DEF NotFormed
    <2> QED
        BY <1>3, <1>5, <1>6, <1>7, <2>1
<1>8. CASE group # NotFormed(seats)
    <2>0. PICK leader \in seats : \E bundle \in Bundles(leader, Offered(seats)) :
            Carries(seats, Signers(seats, bundle)) /\ group = BundledBy(leader, seats, bundle)
        BY <1>1, <1>8 DEF GroupIsRight
    <2>1. PICK bundle \in Bundles(leader, Offered(seats)) :
            Carries(seats, Signers(seats, bundle)) /\ group = BundledBy(leader, seats, bundle)
        BY <2>0
    <2>2. Cardinality(seats) >= 2
        BY <1>1, <1>8 DEF GroupIsRight
    <2>3. /\ group.leader = leader /\ group.children = bundle[1] /\ group.dropped = bundle[2]
          /\ group.signers = Signers(seats, bundle)
        BY <2>1 DEF BundledBy
    <2>4. leader # NoOne
        BY <1>3, <1>4
    <2>5. bundle[1] \subseteq Offered(seats)
        BY <1>6, <2>1, BundlesAreOfTheOffered
    <2>6. group.signers = {n \in seats : BundleIsValid(n, group.children, group.dropped)}
        BY <2>3 DEF Signers
    <2> QED
        BY <1>3, <1>5, <1>6, <2>1, <2>2, <2>3, <2>4, <2>5, <2>6
<1> QED
    BY <1>7, <1>8

\* The groups that formed, in order, and the committee of their seats.
LEMMA FormedFacts ==
    ASSUME pass \in Passes, GroupsAreDealt
    PROVE  /\ Formed \in Seq(FormedGroups) /\ ToSet(Formed) = FormedGroups
           /\ Committee \in SUBSET Nodes /\ IsFiniteSet(Committee) /\ IsFiniteSet(Nodes)
           /\ Committee = UNION {g.seats : g \in FormedGroups}
<1> PICK S, where, d : S = {groups[j] : j \in DOMAIN groups} /\ d = Deal(LeadersOf(finalGrids))
                       /\ where = {j \in DOMAIN groups : groups[j].leader # NoOne}
    OBVIOUS
<1>1. /\ finalGrids \in SUBSET Grids /\ DOMAIN groups = DOMAIN d
      /\ groups = [j \in DOMAIN groups |-> groups[j]]
    BY DEF GroupsAreDealt
<1>2. PICK k \in Nat \ {0} : DOMAIN groups = 1..k
    BY <1>1, GridsAreDealt
<1>3. groups \in [1..k -> S]
    BY ONLY <1>1, <1>2, S = {groups[j] : j \in DOMAIN groups}
<1>4. groups \in Seq(S) /\ Len(groups) = k
    BY ONLY <1>2, <1>3
<1>5. where \in SUBSET (1..Len(groups)) /\ Formed = Selected(groups, where)
    BY <1>2, <1>4 DEF Formed
<1> PICK n : n = Cardinality(where)
    OBVIOUS
<1>6. /\ n \in Nat /\ Formed \in Seq(S) /\ Len(Formed) = n
      /\ \A i \in 1..n : Nth(where, i) \in where /\ Formed[i] = groups[Nth(where, i)]
      /\ \A j \in where : \E i \in 1..n : Formed[i] = groups[j]
    <2>1. /\ n \in 0..Len(groups) /\ Selected(groups, where) \in Seq(S) /\ Len(Selected(groups, where)) = n
          /\ \A i \in 1..n : Nth(where, i) \in where /\ Selected(groups, where)[i] = groups[Nth(where, i)]
          /\ \A j \in where : \E i \in 1..n : Selected(groups, where)[i] = groups[j]
        <3>1. groups \in Seq(S) /\ where \in SUBSET (1..Len(groups))
            BY ONLY <1>4, <1>5
        <3>2. /\ Cardinality(where) \in 0..Len(groups)
              /\ Selected(groups, where) \in Seq(S) /\ Len(Selected(groups, where)) = Cardinality(where)
            BY ONLY <3>1, SelectedFacts
        <3>3. /\ \A i \in 1..Cardinality(where) :
                    Nth(where, i) \in where /\ Selected(groups, where)[i] = groups[Nth(where, i)]
              /\ \A j \in where : \E i \in 1..Cardinality(where) : Selected(groups, where)[i] = groups[j]
            BY ONLY <3>1, SelectedFacts
        <3> QED
            BY ONLY <3>2, <3>3, n = Cardinality(where)
    <2> QED
        BY ONLY <1>5, <2>1, <1>2, <1>4
<1>7. FormedGroups = {groups[j] : j \in where}
    BY DEF FormedGroups
<1>8. \A i \in 1..n : Formed[i] \in FormedGroups
    BY <1>6, <1>7
<1>9. Formed \in Seq(FormedGroups)
    BY ONLY <1>6, <1>8
<1>10. ToSet(Formed) = FormedGroups
    <2>1. ToSet(Formed) = {Formed[i] : i \in 1..n}
        BY <1>6 DEF ToSet
    <2>2. \A j \in where : groups[j] \in ToSet(Formed)
        BY ONLY <1>6, <2>1
    <2> QED
        BY ONLY <1>7, <1>8, <2>1, <2>2
<1>11. Committee = UNION {g.seats : g \in FormedGroups}
    <2>1. Committee = UNION {g.seats : g \in ToSet(Formed)}
        BY DEF Committee, ToSet
    <2> QED
        BY <1>10, <2>1
<1>12. Committee \in SUBSET Nodes
    <2>1. \A j \in DOMAIN groups : groups[j].seats \in SUBSET Nodes
        BY GroupFacts
    <2>2. \A g \in FormedGroups : g.seats \in SUBSET Nodes
        BY <1>7, <2>1
    <2> QED
        BY ONLY <1>11, <2>2
<1>13. IsFiniteSet(Nodes)
    <2>1. IsFiniteSet(ToSet(LeadersOf(Grids))) /\ ToSet(LeadersOf(Grids)) = {pass.leader[g] : g \in Grids}
        BY LeadersInOrder
    <2> QED
        BY <2>1 DEF Nodes
<1>14. IsFiniteSet(Committee)
    BY <1>12, <1>13, FS_Subset
<1> QED
    BY <1>9, <1>10, <1>11, <1>12, <1>13, <1>14

\* Whatever a leader of the top tier proposes is some of the groups that formed.
LEMMA RootsAreOfTheFormed ==
    ASSUME pass \in Passes, GroupsAreDealt, NEW n, NEW chosen \in RootsOf(n)
    PROVE  chosen \in Seq(FormedGroups) /\ (pass.topLeads[n] = "honest" => chosen = Formed)
<1>1. Formed \in Seq(FormedGroups)
    BY FormedFacts
<1>2. CASE pass.topLeads[n] = "honest"
    <2>1. chosen = Formed
        BY <1>2 DEF RootsOf
    <2> QED
        BY <1>1, <2>1
<1>3. CASE pass.topLeads[n] # "honest"
    <2>1. PICK in \in SUBSET DOMAIN Formed : chosen = [i \in 1..Cardinality(in) |-> Formed[InOrder(in)[i]]]
        BY <1>3 DEF RootsOf
    <2>2. in \in SUBSET (1..Len(Formed)) /\ Len(Formed) \in Nat
        BY <1>1
    <2>3. in \in SUBSET Int /\ IsFiniteSet(in)
        <3>1. IsFiniteSet(1..Len(Formed))
            BY <2>2, FS_Interval
        <3> QED
            BY <2>2, <3>1, FS_Subset
    <2>4. InOrder(in) \in Seq(in) /\ Len(InOrder(in)) = Cardinality(in) /\ Cardinality(in) \in Nat
        BY <2>3, InOrderFacts
    <2>5. \A i \in 1..Cardinality(in) : InOrder(in)[i] \in in
        BY <2>4
    <2>6. \A i \in 1..Cardinality(in) : Formed[InOrder(in)[i]] \in FormedGroups
        BY <1>1, <2>2, <2>5
    <2>7. chosen \in Seq(FormedGroups)
        <3> PICK m, c : m = Cardinality(in) /\ c = InOrder(in)
            OBVIOUS
        <3>1. m \in Nat /\ chosen = [i \in 1..m |-> Formed[c[i]]] /\ \A i \in 1..m : Formed[c[i]] \in FormedGroups
            BY <2>1, <2>4, <2>6
        <3> QED
            BY ONLY <3>1
    <2> QED
        BY <1>3, <2>7
<1> QED
    BY <1>2, <1>3

\* The children of a block are those of its groups.
LEMMA ChildrenAreListed ==
    ASSUME NEW blocks, root.groups \in Seq(blocks),
           \A g \in blocks : g.children \in SUBSET Nat /\ IsFiniteSet(g.children)
    PROVE  Children \in Seq(Nat) /\ ToSet(Children) = UNION {g.children : g \in ToSet(root.groups)}
<1> PICK s, n, seqs : /\ s = root.groups /\ n = Len(s)
                      /\ seqs = [j \in DOMAIN s |-> InOrder(s[j].children)]
    OBVIOUS
<1>1. n \in Nat /\ DOMAIN s = 1..n /\ \A j \in 1..n : s[j] \in blocks
    OBVIOUS
<1>2. ASSUME NEW j \in 1..n PROVE InOrder(s[j].children) \in Seq(Nat) /\ ToSet(InOrder(s[j].children)) = s[j].children
    <2> PICK c : c = s[j].children
        OBVIOUS
    <2>1. c \in SUBSET Nat /\ IsFiniteSet(c) /\ c \in SUBSET Int
        BY <1>1
    <2>2. InOrder(c) \in Seq(c) /\ ToSet(InOrder(c)) = c
        BY <2>1, InOrderFacts
    <2>3. Seq(c) \subseteq Seq(Nat)
        BY <2>1
    <2> QED
        BY <2>2, <2>3
<1>3. seqs \in Seq(Seq(Nat)) /\ Len(seqs) = n /\ \A j \in 1..n : seqs[j] = InOrder(s[j].children)
    <2>1. DOMAIN seqs = 1..n /\ \A j \in 1..n : seqs[j] = InOrder(s[j].children)
        BY ONLY <1>1, seqs = [j \in DOMAIN s |-> InOrder(s[j].children)]
    <2>2. \A j \in 1..n : seqs[j] \in Seq(Nat)
        BY ONLY <1>2, <2>1
    <2>3. seqs = [j \in 1..n |-> seqs[j]]
        BY ONLY <2>1, seqs = [j \in DOMAIN s |-> InOrder(s[j].children)]
    <2> PICK X : X = Seq(Nat)
        OBVIOUS
    <2>4. seqs \in [1..n -> X]
        BY ONLY <2>2, <2>3, X = Seq(Nat)
    <2>5. seqs \in Seq(X) /\ Len(seqs) = n
        BY ONLY <1>1, <2>4
    <2> QED
        BY ONLY <2>1, <2>5, X = Seq(Nat)
<1>4. Children = FlattenSeq(seqs)
    BY DEF Children
<1>5. FlattenSeq(seqs) \in Seq(Nat) /\ ToSet(FlattenSeq(seqs)) = UNION {ToSet(seqs[i]) : i \in 1..n}
    BY ONLY <1>3, FlattenFacts
<1>6. ToSet(s) = {s[i] : i \in 1..n}
    BY <1>1 DEF ToSet
<1>7. UNION {ToSet(seqs[i]) : i \in 1..n} = UNION {g.children : g \in ToSet(s)}
    <2>1. \A i \in 1..n : ToSet(seqs[i]) = s[i].children
        BY <1>2, <1>3
    <2> QED
        BY ONLY <1>6, <2>1
<1> QED
    BY <1>4, <1>5, <1>7

\* What the block carries: some of the children of some of the groups that formed.
LEMMA ChildrenOfTheAgreed ==
    ASSUME pass \in Passes, TopSeated, RootAgreed
    PROVE  /\ root.groups \in Seq(FormedGroups) /\ ToSet(root.groups) \subseteq FormedGroups
           /\ Children \in Seq(Nat) /\ ToSet(Children) = UNION {g.children : g \in ToSet(root.groups)}
           /\ ToSet(Children) \subseteq finalGrids
<1>1. GroupsAreDealt
    BY DEF TopSeated
<1>2. PICK leader : \E chosen \in RootsOf(leader) : root.groups = chosen
    BY DEF RootAgreed
<1>3. root.groups \in Seq(FormedGroups)
    BY <1>1, <1>2, RootsAreOfTheFormed
<1>4. ASSUME NEW g \in FormedGroups
      PROVE  g.children \in SUBSET Nat /\ IsFiniteSet(g.children) /\ g.children \subseteq finalGrids
    <2>1. PICK j \in DOMAIN groups : g = groups[j]
        BY DEF FormedGroups
    <2>2. /\ Offered(g.seats) \in SUBSET Nat /\ IsFiniteSet(Offered(g.seats)) /\ Offered(g.seats) \subseteq finalGrids
          /\ g.children \in SUBSET Offered(g.seats)
        BY <1>1, <2>1, GroupFacts
    <2> QED
        BY <2>2, FS_Subset
<1>5. Children \in Seq(Nat) /\ ToSet(Children) = UNION {g.children : g \in ToSet(root.groups)}
    BY <1>3, <1>4, ChildrenAreListed
<1>6. ToSet(root.groups) \subseteq FormedGroups
    BY <1>3 DEF ToSet
<1>7. ToSet(Children) \subseteq finalGrids
    BY ONLY <1>4, <1>5, <1>6
<1> QED
    BY <1>3, <1>5, <1>6, <1>7

-----------------------------------------------------------------------------
(***************************************************************************)
(* The invariant is enough, property by property.                              *)
(***************************************************************************)
LEMMA WhoIsNotCounted ==
    ASSUME NEW S, IsFiniteSet(S), NEW T \in SUBSET S, NEW q \in Nat, Cardinality(T) >= q, NEW U \in SUBSET (S \ T)
    PROVE  Cardinality(U) <= Cardinality(S) - q
<1>1. IsFiniteSet(T) /\ IsFiniteSet(U) /\ IsFiniteSet(T \cup U)
    <2>1. T \cup U \in SUBSET S /\ U \in SUBSET S
        OBVIOUS
    <2> QED
        BY <2>1, FS_Subset
<1>2. T \cap U = {}
    OBVIOUS
<1>3. Cardinality(T \cup U) = Cardinality(T) + Cardinality(U)
    <2>1. Cardinality(T \cup U) = Cardinality(T) + Cardinality(U) - Cardinality(T \cap U)
        BY <1>1, FS_Union
    <2>2. Cardinality(T \cap U) = 0
        BY <1>2, FS_EmptySet
    <2>3. Cardinality(T) \in Nat /\ Cardinality(U) \in Nat
        BY <1>1, FS_CardinalityType
    <2> QED
        BY ONLY <2>1, <2>2, <2>3
<1>4. Cardinality(T \cup U) <= Cardinality(S)
    <2>1. T \cup U \in SUBSET S
        OBVIOUS
    <2> QED
        BY <2>1, FS_Subset
<1>5. Cardinality(S) \in Nat /\ Cardinality(T) \in Nat /\ Cardinality(U) \in Nat
    BY <1>1, FS_CardinalityType
<1> QED
    BY <1>3, <1>4, <1>5

\* In every state there are no groups yet, or they are dealt.
LEMMA GroupsAreKnown ==
    ASSUME PassInv
    PROVE  /\ pass \in Passes /\ (groups = <<>> \/ GroupsAreDealt)
           /\ root # <<>> => Agreed
BY DEF PassInv, NothingRun, TopSeated, NoMajority, NoGroup, Agreed, SoloAgreed

\* A bundle that leaves out more than the quorum can miss does not carry.
LEMMA OmissionsAreFew == ASSUME PassInv PROVE OmissionsAreTooFewToCount
<1>1. pass \in Passes /\ (groups = <<>> \/ GroupsAreDealt) /\ (root # <<>> => Agreed)
    BY GroupsAreKnown
<1>2. ASSUME NEW j \in DOMAIN groups, groups[j].leader # NoOne
      PROVE  Cardinality(Offered(groups[j].seats) \ (groups[j].children \cup groups[j].dropped))
                 <= Cardinality(groups[j].seats) - QuorumSize(Cardinality(groups[j].seats))
    <2> PICK group, seats, missing :
            /\ group = groups[j] /\ seats = group.seats
            /\ missing = Offered(seats) \ (group.children \cup group.dropped)
        OBVIOUS
    <2>1. GroupsAreDealt
        BY <1>1
    <2>2. /\ IsFiniteSet(seats) /\ Carries(seats, group.signers)
          /\ group.signers = {n \in seats : BundleIsValid(n, group.children, group.dropped)}
        BY <1>1, <1>2, <2>1, GroupFacts
    <2> PICK U : U = {n \in seats : GridOf(n) \in missing}
        OBVIOUS
    <2>3. U \in SUBSET (seats \ group.signers)
        BY <2>2 DEF BundleIsValid, NotOmitted
    <2>4. Cardinality(missing) <= Cardinality(U) /\ IsFiniteSet(missing) /\ IsFiniteSet(U)
        <3> PICK f : f = [n \in U |-> GridOf(n)]
            OBVIOUS
        <3>1. f \in [U -> missing] /\ \A g \in missing : \E n \in U : f[n] = g
            BY DEF Offered
        <3>2. f \in Surjection(U, missing)
            BY <3>1 DEF Surjection
        <3>3. IsFiniteSet(U)
            <4>1. U \in SUBSET seats
                OBVIOUS
            <4> QED
                BY <2>2, <4>1, FS_Subset
        <3> QED
            BY <3>2, <3>3, FS_Surjection
    <2>5. Cardinality(seats) \in Nat /\ QuorumSize(Cardinality(seats)) \in Nat
        BY <2>2, FS_CardinalityType, QuorumIsWithin
    <2>6. Cardinality(group.signers) >= QuorumSize(Cardinality(seats)) /\ group.signers \in SUBSET seats
        BY <2>2 DEF Carries
    <2>7. Cardinality(U) <= Cardinality(seats) - QuorumSize(Cardinality(seats))
        BY ONLY <2>2, <2>3, <2>5, <2>6, WhoIsNotCounted
    <2>8. Cardinality(U) \in Nat /\ Cardinality(missing) \in Nat
        BY <2>4, FS_CardinalityType
    <2>9. Cardinality(missing) <= Cardinality(seats) - QuorumSize(Cardinality(seats))
        BY ONLY <2>4, <2>5, <2>7, <2>8
    <2> QED
        BY <2>9
<1>3. ASSUME root # <<>>, root.tiers > 1
      PROVE  Cardinality(Committee \ UNION {g.seats : g \in ToSet(root.groups)})
                 <= Cardinality(Committee) - QuorumSize(Cardinality(Committee))
    <2>1. TopSeated /\ RootAgreed
        BY <1>1, <1>3 DEF Agreed, SoloAgreed
    <2>2. PICK leader : \E chosen \in RootsOf(leader) :
            Carries(Committee, RootSigners(chosen)) /\ root.groups = chosen
        BY <2>1 DEF RootAgreed
    <2>3. PICK chosen \in RootsOf(leader) : Carries(Committee, RootSigners(chosen)) /\ root.groups = chosen
        BY <2>2
    <2> PICK U : U = Committee \ UNION {g.seats : g \in ToSet(root.groups)}
        OBVIOUS
    <2>4. U \in SUBSET (Committee \ RootSigners(chosen))
        BY <2>3 DEF RootSigners, RootIsValid, ToSet
    <2>5. IsFiniteSet(Committee)
        BY <1>1, <2>1, FormedFacts DEF TopSeated
    <2>6. Cardinality(Committee) \in Nat /\ QuorumSize(Cardinality(Committee)) \in Nat
        BY <2>5, FS_CardinalityType, QuorumIsWithin
    <2>7. Cardinality(RootSigners(chosen)) >= QuorumSize(Cardinality(Committee)) /\ RootSigners(chosen) \in SUBSET Committee
        BY <2>3 DEF Carries, RootSigners
    <2>8. Cardinality(U) <= Cardinality(Committee) - QuorumSize(Cardinality(Committee))
        BY ONLY <2>4, <2>5, <2>6, <2>7, WhoIsNotCounted
    <2> QED
        BY <2>8
<1> QED
    BY <1>2, <1>3 DEF OmissionsAreTooFewToCount

\* A quorum finds valid only what the merge keeps whole.
LEMMA BundledOnce ==
    ASSUME pass \in Passes, GroupsAreDealt, NEW j \in DOMAIN groups
    PROVE  \A g, h \in groups[j].children : g # h => ~Collide(g, h)
<1> PICK group : group = groups[j]
    OBVIOUS
<1>1. /\ IsFiniteSet(group.seats) /\ Offered(group.seats) \in SUBSET Nat
      /\ IsFiniteSet(Offered(group.seats)) /\ group.children \in SUBSET Offered(group.seats)
      /\ group.leader = NoOne => group.children = {}
      /\ group.leader # NoOne =>
           /\ group.signers = {n \in group.seats : BundleIsValid(n, group.children, group.dropped)}
           /\ Carries(group.seats, group.signers)
    BY GroupFacts
<1>2. CASE group.leader = NoOne
    BY <1>1, <1>2
<1>3. CASE group.leader # NoOne
    <2>1. Cardinality(group.seats) \in Nat
        BY <1>1, FS_CardinalityType
    <2>2. QuorumSize(Cardinality(group.seats)) \in Nat /\ QuorumSize(Cardinality(group.seats)) >= 1
        BY <2>1, QuorumIsWithin
    <2>3. Cardinality(group.signers) >= 1
        <3>1. group.signers \in SUBSET group.seats
            BY <1>1, <1>3
        <3>2. Cardinality(group.signers) \in Nat
            BY <1>1, <3>1, FS_Subset, FS_CardinalityType
        <3> QED
            BY <1>1, <1>3, <2>2, <3>2 DEF Carries
    <2>4. group.signers # {}
        BY <2>3, FS_EmptySet
    <2>5. Merged(InOrder(group.children)) = InOrder(group.children)
        BY <1>1, <1>3, <2>4 DEF BundleIsValid
    <2>6. group.children \in SUBSET Int /\ IsFiniteSet(group.children)
        BY <1>1, FS_Subset
    <2> QED
        BY <2>5, <2>6, MergedOfSet
<1> QED
    BY <1>2, <1>3

\* Nothing is spent or made twice by what a group or a block applies.
LEMMA MadeOnce == ASSUME PassInv PROVE NothingIsMadeTwice
<1>1. pass \in Passes /\ (groups = <<>> \/ GroupsAreDealt)
    BY GroupsAreKnown
<1>2. ASSUME NEW j \in DOMAIN groups PROVE \A g, h \in groups[j].children : g # h => ~Collide(g, h)
    <2>1. GroupsAreDealt
        BY <1>1
    <2> QED
        BY <1>1, <2>1, BundledOnce
<1>3. ASSUME phase = "applied" PROVE \A g, h \in ToSet(Merged(Children)) : g # h => ~Collide(g, h)
    <2>1. Agreed
        BY <1>3 DEF PassInv, NothingRun
    <2>2. CASE SoloAgreed
        <3> PICK only : only = [NotFormed({}) EXCEPT !.children = Grids]
            OBVIOUS
        <3>1. root.groups = <<only>> /\ only.children = Grids
            BY <2>2 DEF SoloAgreed, NotFormed
        <3>2. Grids \in SUBSET Nat /\ IsFiniteSet(Grids)
            BY <1>1, LeadersAreOnes
        <3>3. root.groups \in Seq({only}) /\ \A g \in {only} : g.children \in SUBSET Nat /\ IsFiniteSet(g.children)
            BY <3>1, <3>2
        <3>4. Children \in Seq(Nat)
            BY <3>3, ChildrenAreListed
        <3> QED
            BY <3>4, MergedFacts
    <2>3. CASE TopSeated /\ RootAgreed
        <3>1. Children \in Seq(Nat)
            BY <1>1, <2>3, ChildrenOfTheAgreed
        <3> QED
            BY <3>1, MergedFacts
    <2> QED
        BY <2>1, <2>2, <2>3 DEF Agreed
<1> QED
    BY <1>2, <1>3 DEF NothingIsMadeTwice

-----------------------------------------------------------------------------
\* An honest leader loses no view when nobody refuses.
LEMMA HonestViewsAreKept ==
    ASSUME pass \in Passes, GroupsAreDealt, pass.refusing = {}, NEW n \in Committee, pass.topLeads[n] = "honest"
    PROVE  ~Lost(n)
<1>1. RootsOf(n) = {Formed}
    BY DEF RootsOf
<1>2. RootSigners(Formed) = Committee
    BY DEF RootSigners, RootIsValid, Committee
<1>3. IsFiniteSet(Committee)
    BY FormedFacts
<1>4. Cardinality(Committee) \in Nat /\ Cardinality(Committee) >= 1
    <2>1. Cardinality(Committee) \in Nat /\ Cardinality(Committee) # 0
        BY <1>3, FS_CardinalityType, FS_EmptySet
    <2> QED
        BY <2>1
<1>5. Carries(Committee, Committee)
    BY <1>4, QuorumIsWithin DEF Carries
<1> QED
    BY <1>1, <1>2, <1>5 DEF Lost

\* Without groups none has formed.
LEMMA NobodyFormedOfNone == ASSUME groups = <<>> PROVE Formed = <<>>
<1>1. {j \in DOMAIN groups : groups[j].leader # NoOne} = {}
    OBVIOUS
<1>2. Cardinality({j \in DOMAIN groups : groups[j].leader # NoOne}) = 0
    BY <1>1, FS_EmptySet
<1> QED
    BY <1>2 DEF Formed, Selected

\* If every view was lost, every view had a silent leader; and if nobody is left to lead, the honest
\* one led and lost.
LEMMA SilenceIsSurvived == ASSUME PassInv PROVE SilentLeadersCostViews
<1> DEFINE Silent == {n \in Committee : pass.topLeads[n] = "silent"}
<1> SUFFICES ASSUME Over, Formed # <<>>, pass.refusing = {},
                    \A n \in Committee : pass.topLeads[n] \in {"honest", "silent"},
                    \E n \in Committee : pass.topLeads[n] = "honest",
                    Cardinality(Silent) < pass.views
             PROVE  phase = "applied"
    BY DEF SilentLeadersCostViews
<1>1. groups # <<>> /\ pass \in Passes /\ GroupsAreDealt
    BY NobodyFormedOfNone, GroupsAreKnown
<1>2. ASSUME TopSeated, NEW i \in 1..Len(ledViews) PROVE ledViews[i] \in Silent
    <2>1. ledViews[i] \in Committee /\ Lost(ledViews[i])
        BY <1>2 DEF TopSeated, ViewsAreLed
    <2>2. pass.topLeads[ledViews[i]] # "honest"
        BY <1>1, <2>1, HonestViewsAreKept
    <2> QED
        BY <2>1, <2>2
<1>3. ASSUME TopSeated PROVE Len(ledViews) # pass.views
    <2> PICK n : n = Len(ledViews)
        OBVIOUS
    <2>1. n \in Nat /\ ledViews \in Seq(Committee) /\ \A i, k \in 1..n : i < k => ledViews[i] # ledViews[k]
        BY <1>3 DEF TopSeated, ViewsAreLed
    <2>2. \A i \in 1..n : ledViews[i] \in Silent
        BY <1>2, <1>3
    <2>3. ledViews \in [1..n -> Silent]
        <3> HIDE DEF Silent
        <3> QED
            BY ONLY <2>1, <2>2, n = Len(ledViews)
    <2>4. \A i, k \in 1..n : ledViews[i] = ledViews[k] => i = k
        <3>1. \A i, k \in 1..n : i < k \/ k < i \/ i = k
            BY ONLY <2>1
        <3> QED
            BY ONLY <2>1, <3>1
    <2>5. ledViews \in Injection(1..n, Silent)
        <3> HIDE DEF Silent
        <3> QED
            BY ONLY <2>3, <2>4 DEF Injection, IsInjective
    <2>6. IsFiniteSet(Silent)
        <3>1. IsFiniteSet(Committee) /\ Silent \in SUBSET Committee
            BY <1>1, FormedFacts
        <3> QED
            BY <3>1, FS_Subset
    <2>7. Cardinality(1..n) <= Cardinality(Silent)
        <3> HIDE DEF Silent
        <3> QED
            BY ONLY <2>5, <2>6, FS_Injection
    <2>8. Cardinality(1..n) = n
        <3>1. n \in Nat /\ n \in Int /\ 1 \in Int
            BY <2>1
        <3>2. Cardinality(1..n) = IF 1 > n THEN 0 ELSE n - 1 + 1
            BY ONLY <3>1, FS_Interval
        <3> QED
            BY ONLY <3>1, <3>2
    <2>9. Cardinality(Silent) \in Nat
        <3> HIDE DEF Silent
        <3> QED
            BY <2>6, FS_CardinalityType
    <2>10. pass.views \in Nat
        BY <1>1, PassAssumption DEF PassAssumption
    <2>11. n < pass.views
        <3> HIDE DEF Silent
        <3> QED
            BY ONLY <2>1, <2>7, <2>8, <2>9, <2>10, Cardinality(Silent) < pass.views
    <2> QED
        BY <2>1, <2>10, <2>11
<1>4. ASSUME TopSeated PROVE YetToLead # {}
    <2>1. PICK n \in Committee : pass.topLeads[n] = "honest"
        OBVIOUS
    <2>2. n \notin ToSet(ledViews)
        <3>1. DOMAIN ledViews = 1..Len(ledViews)
            BY <1>4 DEF TopSeated, ViewsAreLed
        <3>2. ToSet(ledViews) \subseteq Silent
            BY <1>2, <1>4, <3>1 DEF ToSet
        <3>3. n \notin Silent
            BY <2>1
        <3> QED
            BY <3>2, <3>3
    <2> QED
        BY <2>2 DEF YetToLead
<1>5. phase # "aborted"
    BY <1>1, <1>3 DEF PassInv, NothingRun, NoMajority, NoGroup
<1>6. phase # "raised"
    BY <1>4 DEF PassInv, NothingRun
<1> QED
    BY <1>5, <1>6 DEF Over

\* Honest leaders and seats that can check form every group of two.
LEMMA HonestGroups ==
    ASSUME pass \in Passes, NEW seats \in SUBSET Nodes, IsFiniteSet(seats), Offered(seats) \in SUBSET Nat,
           IsFiniteSet(Offered(seats)), NEW leader \in Nodes, AllHonest(pass.groupLeads), pass.refusing = {}
    PROVE  \E kept \in SUBSET Offered(seats) :
             /\ Bundles(leader, Offered(seats)) = {<<kept, Offered(seats) \ kept>>}
             /\ \A g \in Offered(seats) \ kept : \E h \in kept : Collide(g, h)
             /\ Signers(seats, <<kept, Offered(seats) \ kept>>) = seats
<1>1. pass.groupLeads[leader] = "honest"
    BY DEF AllHonest
<1> PICK o : o = Offered(seats)
    OBVIOUS
<1>2. PICK kept \in SUBSET o :
        /\ Bundles(leader, o) = {<<kept, o \ kept>>}
        /\ Merged(InOrder(kept)) = InOrder(kept)
        /\ \A g \in o \ kept : \E h \in kept : Collide(g, h)
    <2>1. o \in SUBSET Nat /\ IsFiniteSet(o)
        OBVIOUS
    <2> QED
        BY ONLY <1>1, <2>1, HonestBundles
<1>3. ASSUME NEW n \in seats PROVE BundleIsValid(n, kept, o \ kept)
    <2>1. GridOf(n) \in kept \cup (o \ kept)
        BY DEF Offered
    <2> QED
        BY <1>2, <2>1 DEF BundleIsValid, NotOmitted
<1>4. Signers(seats, <<kept, o \ kept>>) = seats
    BY <1>3 DEF Signers
<1> QED
    BY <1>2, <1>4

\* With honest leaders and seats that can check, every group of two or more forms.
LEMMA EveryGroupForms ==
    ASSUME pass \in Passes, GroupsAreDealt, AllTried, AllHonest(pass.groupLeads), pass.refusing = {},
           pass.size >= 3, Cardinality(finalGrids) >= 2, NEW j \in DOMAIN groups
    PROVE  groups[j].leader # NoOne
<1> SUFFICES ASSUME groups[j].leader = NoOne PROVE FALSE
    OBVIOUS
<1> PICK seats, d : seats = groups[j].seats /\ d = Deal(LeadersOf(finalGrids))
    OBVIOUS
<1>1. finalGrids \in SUBSET Grids /\ DOMAIN groups = DOMAIN d /\ seats = d[j]
    BY DEF GroupsAreDealt
<1>2. PICK k \in Nat \ {0} : DOMAIN d = 1..k /\ Dealt(finalGrids, k, d)
    BY <1>1, GridsAreDealt
<1>3. Cardinality(seats) >= 2
    BY <1>1, <1>2 DEF Dealt
<1>4. /\ seats \in SUBSET Nodes /\ IsFiniteSet(seats) /\ Offered(seats) \in SUBSET Nat
      /\ IsFiniteSet(Offered(seats))
    BY GroupFacts
<1>5. PICK leader \in seats :
        \/ pass.groupLeads[leader] = "silent"
        \/ \E bundle \in Bundles(leader, Offered(seats)) : ~Carries(seats, Signers(seats, bundle))
    <2>1. Unformed(groups[j])
        BY <1>3 DEF Unformed
    <2> QED
        BY <2>1 DEF AllTried, MayFail
<1>6. pass.groupLeads[leader] = "honest" /\ leader \in Nodes
    BY <1>4 DEF AllHonest
<1>7. PICK kept : /\ Bundles(leader, Offered(seats)) = {<<kept, Offered(seats) \ kept>>}
                  /\ Signers(seats, <<kept, Offered(seats) \ kept>>) = seats
    BY <1>4, <1>6, HonestGroups
<1>8. ~Carries(seats, seats)
    BY <1>5, <1>6, <1>7
<1>9. Cardinality(seats) \in Nat /\ Cardinality(seats) >= 1
    <2>1. Cardinality(seats) \in Nat
        BY <1>4, FS_CardinalityType
    <2> QED
        BY <1>3, <2>1
<1>10. Carries(seats, seats)
    BY <1>9, QuorumIsWithin DEF Carries
<1> QED
    BY <1>8, <1>10

\* With everybody honest the top carries every group, and the two merges drop only for a collision.
LEMMA EveryGridIsDelivered == ASSUME PassInv PROVE PassDeliversEveryGrid
<1> SUFFICES ASSUME Over, Cardinality(finalGrids) >= 2, pass.size >= 3, pass.refusing = {},
                    AllHonest(pass.groupLeads), AllHonest(pass.topLeads)
             PROVE  /\ phase = "applied"
                    /\ \A g \in finalGrids :
                           Delivered(g) \/ Blocked(g) \/ \E h \in finalGrids \ {g} : Collide(g, h) /\ Blocked(h)
    BY DEF PassDeliversEveryGrid
<1>1. pass \in Passes
    BY DEF PassInv
<1>2. ~SoloAgreed /\ ~NoMajority
    <2>1. Cardinality(finalGrids) # 0 /\ Cardinality(finalGrids) # 1
        OBVIOUS
    <2>2. finalGrids # {}
        BY <2>1, FS_EmptySet
    <2> QED
        BY <2>1, <2>2 DEF SoloAgreed, NoMajority
<1>3. GroupsAreDealt /\ AllTried
    BY <1>2 DEF PassInv, Over, NothingRun, NoGroup, TopSeated, Agreed
<1>4. \A j \in DOMAIN groups : groups[j].leader # NoOne
    BY <1>1, <1>3, EveryGroupForms
<1>5. FormedGroups = {groups[j] : j \in DOMAIN groups}
    BY <1>4 DEF FormedGroups
<1> PICK d : d = Deal(LeadersOf(finalGrids))
    OBVIOUS
<1>6. finalGrids \in SUBSET Grids /\ DOMAIN groups = DOMAIN d /\ \A j \in DOMAIN groups : groups[j].seats = d[j]
    BY <1>3 DEF GroupsAreDealt
<1>7. PICK k \in Nat \ {0} : DOMAIN d = 1..k /\ Dealt(finalGrids, k, d)
    BY <1>1, <1>6, GridsAreDealt
<1>8. /\ Formed \in Seq(FormedGroups) /\ ToSet(Formed) = FormedGroups
      /\ Committee \in SUBSET Nodes /\ IsFiniteSet(Committee)
      /\ Committee = UNION {g.seats : g \in FormedGroups}
    BY <1>1, <1>3, FormedFacts
<1>9. ASSUME NEW g \in finalGrids
      PROVE  \E group \in FormedGroups : pass.leader[g] \in group.seats
    <2>1. PICK j \in 1..k : pass.leader[g] \in d[j]
        BY <1>7 DEF Dealt
    <2>2. groups[j] \in FormedGroups /\ groups[j].seats = d[j]
        BY <1>5, <1>6, <1>7
    <2> QED
        BY <2>1, <2>2
<1>10. FormedGroups # {} /\ Committee # {}
    <2>1. finalGrids # {}
        BY <1>2, <1>3 DEF GroupsAreDealt
    <2> QED
        BY <1>8, <1>9, <2>1
<1>11. Formed # <<>>
    BY <1>8, <1>10 DEF ToSet
<1>12. \A n \in Committee : pass.topLeads[n] = "honest"
    BY <1>8 DEF AllHonest
<1>13. phase = "applied"
    <2>1. {n \in Committee : pass.topLeads[n] = "silent"} = {}
        BY <1>12
    <2>2. Cardinality({n \in Committee : pass.topLeads[n] = "silent"}) = 0
        BY <2>1, FS_EmptySet
    <2>3. pass.views \in Nat /\ 0 < pass.views
        BY <1>1, PassAssumption DEF PassAssumption
    <2>4. Cardinality({n \in Committee : pass.topLeads[n] = "silent"}) < pass.views
        BY ONLY <2>2, <2>3
    <2>5. \E n \in Committee : pass.topLeads[n] = "honest"
        BY <1>10, <1>12
    <2> QED
        BY <1>11, <1>12, <2>4, <2>5, SilenceIsSurvived DEF SilentLeadersCostViews
<1>14. TopSeated /\ RootAgreed /\ spentNotes = UNION {pass.spent[g] : g \in ToSet(Merged(Children))}
    BY <1>2, <1>13 DEF PassInv, NothingRun, Agreed
<1>15. root.groups = Formed
    <2>1. PICK leader \in Committee : \E chosen \in RootsOf(leader) : root.groups = chosen
        BY <1>14 DEF RootAgreed
    <2> QED
        BY <1>1, <1>3, <1>12, <2>1, RootsAreOfTheFormed
<1>16. /\ Children \in Seq(Nat) /\ ToSet(Children) = UNION {g.children : g \in FormedGroups}
       /\ ToSet(Children) \subseteq finalGrids
    BY <1>1, <1>8, <1>14, <1>15, ChildrenOfTheAgreed
<1>17. /\ ToSet(Merged(Children)) \subseteq ToSet(Children)
       /\ \A g \in ToSet(Children) \ ToSet(Merged(Children)) : \E h \in ToSet(Merged(Children)) : Collide(g, h)
    BY <1>16, MergedFacts
<1>18. \A h \in ToSet(Merged(Children)) : Delivered(h) /\ h \in finalGrids
    BY <1>14, <1>16, <1>17 DEF Delivered
<1>19. ASSUME NEW g \in ToSet(Children) PROVE g \in ToSet(Merged(Children)) \/ Blocked(g)
    <2>1. CASE g \notin ToSet(Merged(Children))
        <3>1. PICK h \in ToSet(Merged(Children)) : Collide(g, h)
            BY <1>17, <2>1
        <3> QED
            BY <1>18, <2>1, <3>1 DEF Blocked
    <2> QED
        BY <2>1
<1>20. ASSUME NEW g \in finalGrids
       PROVE  Delivered(g) \/ Blocked(g) \/ \E h \in finalGrids \ {g} : Collide(g, h) /\ Blocked(h)
    <2>1. PICK group \in FormedGroups : pass.leader[g] \in group.seats
        BY <1>9
    <2>2. PICK j \in DOMAIN groups : group = groups[j]
        BY <1>5
    <2>3. /\ group.seats \in SUBSET Nodes /\ IsFiniteSet(group.seats)
          /\ Offered(group.seats) \in SUBSET Nat /\ IsFiniteSet(Offered(group.seats))
          /\ group.leader \in group.seats
          /\ \E bundle \in Bundles(group.leader, Offered(group.seats)) :
                 group.children = bundle[1] /\ group.dropped = bundle[2]
        BY <1>1, <1>3, <1>4, <2>2, GroupFacts
    <2>4. PICK kept \in SUBSET Offered(group.seats) :
            /\ Bundles(group.leader, Offered(group.seats)) = {<<kept, Offered(group.seats) \ kept>>}
            /\ \A x \in Offered(group.seats) \ kept : \E h \in kept : Collide(x, h)
        <3>1. group.leader \in Nodes
            BY <2>3
        <3> QED
            BY <1>1, <2>3, <3>1, HonestGroups
    <2>5. group.children = kept
        BY <2>3, <2>4
    <2>6. g \in Offered(group.seats)
        <3>1. GridOf(pass.leader[g]) = g
            BY <1>1, <1>6, LeadersAreOnes
        <3> QED
            BY <2>1, <3>1 DEF Offered
    <2>7. kept \subseteq ToSet(Children)
        BY <1>16, <2>5
    <2>8. CASE g \in kept
        BY <1>18, <1>19, <2>7, <2>8
    <2>9. CASE g \notin kept
        <3>1. PICK h \in kept : Collide(g, h)
            BY <2>4, <2>6, <2>9
        <3>2. h # g /\ h \in ToSet(Children) /\ h \in finalGrids
            BY <1>16, <2>7, <2>9, <3>1
        <3>3. CASE h \in ToSet(Merged(Children))
            BY <1>18, <3>1, <3>2, <3>3 DEF Blocked
        <3>4. CASE Blocked(h)
            BY <3>1, <3>2, <3>4
        <3> QED
            BY <1>19, <3>2, <3>3, <3>4
    <2> QED
        BY <2>8, <2>9
<1> QED
    BY <1>13, <1>20

\* A seat is of one group, and its grid a child of no other.
LEMMA OneGroupSeats ==
    ASSUME pass \in Passes, GroupsAreDealt, NEW n, NEW x \in FormedGroups, NEW y \in FormedGroups,
           n \in x.seats, n \in y.seats
    PROVE  x = y
<1>1. PICK j \in DOMAIN groups : x = groups[j]
    BY DEF FormedGroups
<1>2. PICK l \in DOMAIN groups : y = groups[l]
    BY DEF FormedGroups
<1> PICK d : d = Deal(LeadersOf(finalGrids))
    OBVIOUS
<1>3. finalGrids \in SUBSET Grids /\ DOMAIN groups = DOMAIN d /\ x.seats = d[j] /\ y.seats = d[l]
    BY <1>1, <1>2 DEF GroupsAreDealt
<1>4. PICK k \in Nat \ {0} : DOMAIN d = 1..k /\ Dealt(finalGrids, k, d)
    BY <1>3, GridsAreDealt
<1>5. j = l
    BY <1>3, <1>4 DEF Dealt
<1> QED
    BY <1>1, <1>2, <1>5

\* Whoever led a grid a group is offered has a seat in that group.
LEMMA ItsGroupSeatsIt ==
    ASSUME pass \in Passes, GroupsAreDealt, NEW n \in Nodes, NEW x \in FormedGroups,
           GridOf(n) \in Offered(x.seats)
    PROVE  n \in x.seats
<1>1. PICK j \in DOMAIN groups : x = groups[j]
    BY DEF FormedGroups
<1>2. x.seats \in SUBSET Nodes
    BY <1>1, GroupFacts
<1>3. PICK m \in x.seats : GridOf(m) = GridOf(n)
    BY DEF Offered
<1>4. pass.leader[GridOf(n)] = n /\ pass.leader[GridOf(m)] = m
    BY <1>2, LeadersAreOnes
<1> QED
    BY <1>3, <1>4

\* The seats of some children are of those who led them.
LEMMA LedGrids ==
    ASSUME pass \in Passes, NEW n \in Nodes, NEW S \in SUBSET Grids
    PROVE  n \in SeatsOf(S) <=> GridOf(n) \in S
<1>1. GridOf(n) \in Grids /\ pass.leader[GridOf(n)] = n /\ \A g \in S : GridOf(pass.leader[g]) = g
    BY LeadersAreOnes
<1> QED
    BY <1>1 DEF SeatsOf

\* How many of two there are.
LEMMA CountOfTwo ==
    ASSUME NEW x, NEW y, x # y, NEW T \in SUBSET {x, y}
    PROVE  Cardinality(T) = (IF x \in T THEN 1 ELSE 0) + (IF y \in T THEN 1 ELSE 0)
<1>1. Cardinality({}) = 0
    BY FS_EmptySet
<1>2. Cardinality({x}) = 1 /\ Cardinality({y}) = 1 /\ IsFiniteSet({x})
    BY FS_Singleton
<1>3. Cardinality({x, y}) = 2
    <2>1. Cardinality({x} \cup {y}) = Cardinality({x}) + 1
        BY <1>2, FS_AddElement
    <2>2. {x} \cup {y} = {x, y}
        OBVIOUS
    <2> QED
        BY ONLY <1>2, <2>1, <2>2
<1>4. CASE x \in T /\ y \in T
    <2>1. T = {x, y}
        BY <1>4
    <2> QED
        BY <1>3, <1>4, <2>1
<1>5. CASE x \in T /\ y \notin T
    <2>1. T = {x}
        BY <1>5
    <2> QED
        BY <1>2, <1>5, <2>1
<1>6. CASE x \notin T /\ y \in T
    <2>1. T = {y}
        BY <1>6
    <2> QED
        BY <1>2, <1>6, <2>1
<1>7. CASE x \notin T /\ y \notin T
    <2>1. T = {}
        BY <1>7
    <2> QED
        BY <1>1, <1>7, <2>1
<1> QED
    BY <1>4, <1>5, <1>6, <1>7

\* The group a member of the committee sat in, when the block carries its grid, and the top.
SatAs(n, group, sat) ==
    /\ group \in FormedGroups /\ n \in group.seats /\ group # root /\ sat = {group, root}
    /\ {x \in ToSet(root.groups) : n \in SeatsOf(x.children)} = {group}
    /\ {x \in ToSet(Formed) : n \in x.seats} = {group}
    /\ n \in SeatsOf(group.children)

\* A member whose grid the block carries sat in one group and at the top.
LEMMA OneGroupSat ==
    ASSUME pass \in Passes, TopSeated, RootAgreed, NEW n \in Nodes, GridOf(n) \in ToSet(Children)
    PROVE  \E group : SatAs(n, group, {group, root})
<1>1. GroupsAreDealt
    BY DEF TopSeated
<1>2. /\ ToSet(root.groups) \subseteq FormedGroups
      /\ ToSet(Children) = UNION {g.children : g \in ToSet(root.groups)}
    BY ChildrenOfTheAgreed
<1>3. PICK group \in ToSet(root.groups) : GridOf(n) \in group.children
    BY <1>2
<1>4. ASSUME NEW x \in FormedGroups PROVE x.children \subseteq Offered(x.seats) /\ x.children \in SUBSET Grids
    <2>1. PICK j \in DOMAIN groups : x = groups[j]
        BY DEF FormedGroups
    <2>2. x.children \subseteq Offered(x.seats) /\ Offered(x.seats) \subseteq finalGrids /\ finalGrids \in SUBSET Grids
        BY <1>1, <2>1, GroupFacts DEF GroupsAreDealt
    <2> QED
        BY <2>2
<1>5. ASSUME NEW x \in FormedGroups, GridOf(n) \in x.children PROVE n \in x.seats
    BY <1>1, <1>4, <1>5, ItsGroupSeatsIt
<1>6. group \in FormedGroups /\ n \in group.seats
    BY <1>2, <1>3, <1>5
<1>7. ASSUME NEW x \in FormedGroups, n \in x.seats PROVE x = group
    BY <1>1, <1>6, <1>7, OneGroupSeats
<1>8. ASSUME NEW x \in FormedGroups PROVE n \in SeatsOf(x.children) <=> GridOf(n) \in x.children
    BY <1>4, LedGrids
<1>9. {x \in ToSet(root.groups) : n \in SeatsOf(x.children)} = {group}
    <2>1. \A x \in ToSet(root.groups) : n \in SeatsOf(x.children) <=> x = group
        BY <1>2, <1>3, <1>5, <1>7, <1>8
    <2> QED
        BY ONLY <2>1, <1>3
<1>10. {x \in ToSet(Formed) : n \in x.seats} = {group}
    <2>1. ToSet(Formed) = FormedGroups
        BY <1>1, FormedFacts
    <2> QED
        BY ONLY <2>1, <1>6, <1>7
<1>11. group # root
    <2>1. PICK j \in DOMAIN groups : group = groups[j]
        BY <1>6 DEF FormedGroups
    <2>2. GroupIsRight(group)
        BY <1>1, <2>1 DEF GroupsAreDealt
    <2>3. "seats" \in DOMAIN group
        BY <2>2 DEF GroupIsRight, NotFormed, BundledBy
    <2>4. DOMAIN root = {"groups", "leader", "signers", "tiers"}
        BY DEF RootAgreed
    <2> QED
        BY <2>3, <2>4
<1>12. n \in SeatsOf(group.children)
    BY <1>3, <1>6, <1>8
<1> QED
    BY <1>6, <1>9, <1>10, <1>11, <1>12 DEF SatAs

\* And it is credited with both.
LEMMA CreditedOnce ==
    ASSUME pass \in Passes, TopSeated, RootAgreed, NEW n \in Nodes, GridOf(n) \in ToSet(Children),
           NEW group, NEW sat, SatAs(n, group, sat)
    PROVE  TierService(n) = [seated |-> Cardinality(sat),
                             attended |-> Cardinality({s \in sat : n \in s.signers}),
                             led |-> Cardinality({s \in sat : s.leader = n})]
<1> PICK below, top :
        /\ below = Credited(SeatsOf(group.children), group.signers, group.leader, n)
        /\ top = Credited(SeatsOf(ToSet(Children)), root.signers, root.leader, n)
    OBVIOUS
<1>1. root.tiers \in {2, 3}
    BY DEF RootAgreed, Tiers
<1>2. TierService(n) = [seated |-> below.seated + top.seated, attended |-> below.attended + top.attended,
                        led |-> below.led + top.led]
    <2>1. {x \in ToSet(root.groups) : n \in SeatsOf(x.children)} = {group}
        BY DEF SatAs
    <2> PICK mine : mine = {x \in ToSet(root.groups) : n \in SeatsOf(x.children)}
        OBVIOUS
    <2>2. mine # {} /\ (CHOOSE g \in mine : TRUE) = group
        BY <2>1
    <2>3. ~(root.tiers < 2)
        BY <1>1
    <2> QED
        BY <2>2, <2>3 DEF TierService
<1>3. n \in SeatsOf(ToSet(Children)) /\ n \in SeatsOf(group.children)
    <2>1. ToSet(Children) \in SUBSET Grids
        BY ChildrenOfTheAgreed DEF TopSeated, GroupsAreDealt
    <2>2. n \in SeatsOf(ToSet(Children))
        BY <2>1, LedGrids
    <2> QED
        BY <2>2 DEF SatAs
<1>4. /\ below.seated = 1 /\ top.seated = 1
      /\ below.attended = (IF n \in group.signers THEN 1 ELSE 0)
      /\ top.attended = (IF n \in root.signers THEN 1 ELSE 0)
      /\ below.led = (IF group.leader = n THEN 1 ELSE 0)
      /\ top.led = (IF root.leader = n THEN 1 ELSE 0)
    BY <1>3 DEF Credited
<1>5. group # root /\ sat = {group, root}
    BY DEF SatAs
<1>6. Cardinality(sat) = 2
    <2> PICK T : T = sat
        OBVIOUS
    <2>1. group # root /\ T \in SUBSET {group, root} /\ group \in T /\ root \in T
        BY ONLY <1>5, T = sat
    <2>2. Cardinality(T) = (IF group \in T THEN 1 ELSE 0) + (IF root \in T THEN 1 ELSE 0)
        BY ONLY <2>1, CountOfTwo
    <2> QED
        BY ONLY <2>1, <2>2, T = sat
<1>7. Cardinality({s \in sat : n \in s.signers})
        = (IF n \in group.signers THEN 1 ELSE 0) + (IF n \in root.signers THEN 1 ELSE 0)
    <2> PICK T : T = {s \in sat : n \in s.signers}
        OBVIOUS
    <2>1. T \in SUBSET {group, root} /\ (group \in T <=> n \in group.signers) /\ (root \in T <=> n \in root.signers)
        BY <1>5
    <2>2. Cardinality(T) = (IF group \in T THEN 1 ELSE 0) + (IF root \in T THEN 1 ELSE 0)
        BY ONLY <1>5, <2>1, CountOfTwo
    <2> QED
        BY ONLY <2>1, <2>2, T = {s \in sat : n \in s.signers}
<1>8. Cardinality({s \in sat : s.leader = n})
        = (IF group.leader = n THEN 1 ELSE 0) + (IF root.leader = n THEN 1 ELSE 0)
    <2> PICK T : T = {s \in sat : s.leader = n}
        OBVIOUS
    <2>1. T \in SUBSET {group, root} /\ (group \in T <=> group.leader = n) /\ (root \in T <=> root.leader = n)
        BY <1>5
    <2>2. Cardinality(T) = (IF group \in T THEN 1 ELSE 0) + (IF root \in T THEN 1 ELSE 0)
        BY ONLY <1>5, <2>1, CountOfTwo
    <2> QED
        BY ONLY <2>1, <2>2, T = {s \in sat : s.leader = n}
<1> QED
    BY ONLY <1>2, <1>4, <1>6, <1>7, <1>8

\* A member whose grid the block does not carry is credited with nothing.
LEMMA CreditedAsTheySat == ASSUME PassInv PROVE ServiceIsWhoSat
<1> SUFFICES ASSUME phase = "applied", NEW n \in Nodes,
                    NEW sat, sat = IF root.tiers < 2 \/ GridOf(n) \notin ToSet(Children) THEN {}
                                   ELSE {g \in ToSet(Formed) : n \in g.seats} \cup {root}
             PROVE  TierService(n) = [seated |-> Cardinality(sat),
                                      attended |-> Cardinality({s \in sat : n \in s.signers}),
                                      led |-> Cardinality({s \in sat : s.leader = n})]
    BY DEF ServiceIsWhoSat
<1>1. pass \in Passes /\ Agreed
    BY DEF PassInv, NothingRun
<1> DEFINE Nothing == [seated |-> 0, attended |-> 0, led |-> 0]
<1>2. ASSUME sat = {}, TierService(n) = Nothing
      PROVE  TierService(n) = [seated |-> Cardinality(sat),
                               attended |-> Cardinality({s \in sat : n \in s.signers}),
                               led |-> Cardinality({s \in sat : s.leader = n})]
    <2>1. {s \in sat : n \in s.signers} = {} /\ {s \in sat : s.leader = n} = {}
        BY <1>2
    <2> QED
        BY <1>2, <2>1, FS_EmptySet
<1>3. CASE SoloAgreed
    <2>1. root.tiers = 1
        BY <1>3 DEF SoloAgreed
    <2>2. sat = {} /\ TierService(n) = Nothing
        BY <2>1 DEF TierService
    <2> QED
        BY <1>2, <2>2
<1>4. CASE TopSeated /\ RootAgreed
    <2>1. root.tiers \in {2, 3} /\ ~(root.tiers < 2)
        BY <1>4 DEF RootAgreed, Tiers
    <2>2. CASE GridOf(n) \in ToSet(Children)
        <3>1. PICK group : SatAs(n, group, {group, root})
            BY <1>1, <1>4, <2>2, OneGroupSat
        <3>2. sat = {group, root}
            <4>1. sat = {g \in ToSet(Formed) : n \in g.seats} \cup {root}
                BY <2>1, <2>2
            <4>2. {g \in ToSet(Formed) : n \in g.seats} = {group}
                BY <3>1 DEF SatAs
            <4> QED
                BY ONLY <4>1, <4>2
        <3> QED
            BY <1>1, <1>4, <2>2, <3>1, <3>2, CreditedOnce
    <2>3. CASE GridOf(n) \notin ToSet(Children)
        <3>1. /\ ToSet(Children) = UNION {g.children : g \in ToSet(root.groups)}
              /\ ToSet(Children) \in SUBSET Grids
            BY <1>1, <1>4, ChildrenOfTheAgreed DEF TopSeated, GroupsAreDealt
        <3>2. n \notin SeatsOf(ToSet(Children))
            BY <1>1, <2>3, <3>1, LedGrids
        <3>3. {g \in ToSet(root.groups) : n \in SeatsOf(g.children)} = {}
            BY <3>1, <3>2 DEF SeatsOf
        <3>4. LET top == Credited(SeatsOf(ToSet(Children)), root.signers, root.leader, n)
              IN top.seated = 0 /\ top.attended = 0 /\ top.led = 0
            BY <3>2 DEF Credited
        <3>5. TierService(n) = Nothing
            BY <2>1, <3>3, <3>4 DEF TierService
        <3>6. sat = {}
            BY <2>3
        <3> QED
            BY <1>2, <3>5, <3>6
    <2> QED
        BY <2>2, <2>3
<1> QED
    BY <1>1, <1>3, <1>4 DEF Agreed

\* Everything a run asks of a pass up the tiers holds in every pass (run_tiered_epoch).
THEOREM PassHolds == TierPassSpec => []PassIsSound
<1>1. PassInv => PassIsSound
    BY EveryGridIsDelivered, SilenceIsSurvived, OmissionsAreFew, MadeOnce, CreditedAsTheySat DEF PassIsSound
<1> QED
    BY <1>1, PassInvariance, PTL

=============================================================================
