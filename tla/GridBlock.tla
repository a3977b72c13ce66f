---- MODULE GridBlock ----
(* The block one grid makes of the epoch before and of what its leader holds, and what
   its seats make of it (GridWorkload in tiers.py, CeremonyBlock in tiered.py, the
   certificate and the fault report of block.py).

   Every node ends the epoch before on its own: with the certificate it assembled from its
   own envelope, or with a peer's when it fetched the block.  Then a leader builds, and may
   be one that changes its block anywhere before it is proposed.

   A statement is <<kind, who, height, block>>, and verifies when its author made it: a key
   is its owner's.  Evidence is [names, made]: a statement with the key it verifies under,
   and a name that nobody signed.  A digest is what it is taken of. *)
EXTENDS Register, Sequences, SequencesExt

CONSTANTS
    Worlds,         \* [height, founded, register, said, partition, live, ever, offered]
    BlockSeats,     \* the nodes that hold the grid's state
    Transactions,   \* name -> [ins, outs, parts, proof]
    Reports,        \* [kind, signed, evidence, at, subject]
    Flawed,         \* blocks whose own bytes contradict each other
    Seen,           \* sets of reports a node may end the epoch before with
    AlteredCerts,   \* what a leader may put in its block that is not its own
    MaxPool         \* bound: transactions the leader holds

\* A grid has so many members, and a member's record has a member's fields.
ASSUME WorldsAreWhole ==
    \A w \in Worlds :
        /\ w.height \in Nat /\ IsFiniteSet(Enrolled(w.register))
        /\ \A n \in Enrolled(w.register) : DOMAIN w.register.members[n] = DOMAIN Founder

VARIABLES
    world,          \* what every seat knows alike, and offered, what reaches the leader
    cert,           \* node -> the certificate of the block before it holds, <<>> before
    pending,        \* node -> world.pending_faults
    observed,       \* node -> the reports in its envelope when the epoch ended
    pool,           \* what the leader holds, in order
    block,          \* [leader, header, body], <<>> before
    altered,        \* the leader changed it
    verdicts        \* node -> whether the block is valid

gridVars == <<world, cert, pending, observed, pool, block, altered, verdicts>>

None == <<>>
Seated == SeatedMembers(world.register)

\* ---- block.py ----

Made(kind, who, height, what) == <<kind, who, height, what>> \in world.said

\* Every vote is an attestation of its name to the block the certificate names, a shadow
\* is checked like a vote, and nobody is there as both.
CertVerifiesVotes(c) ==
    /\ c.voters # {} /\ c.root
    /\ \A n \in c.voters : Made("attestation", n, c.height, c.block)
CertVerifies(c) ==
    /\ c.voters # {} /\ c.root
    /\ \A n \in c.voters \cup c.shadows : Made("attestation", n, c.height, c.block)
    /\ c.voters \cap c.shadows = {}

EvidenceOfAKind(r, kind) == \A e \in r.evidence : e.made[1] = kind
\* Each verifies under the key it carries, whosever that is.
EvidenceIsReal(r, kind) == \A e \in r.evidence : e.made[1] = kind /\ e.made \in world.said

Equivocates(r) ==
    /\ Cardinality(r.evidence) = 2 /\ EvidenceIsReal(r, "proposal")
    /\ \A e, f \in r.evidence : /\ e.names = f.names /\ e.made[2] = f.made[2]
                                /\ e.made[3] = r.at /\ (e # f => e.made[4] # f.made[4])

\* The report carries the block its attestations are to.
LazyWellFormed(r) ==
    /\ r.evidence # {} /\ EvidenceIsReal(r, "attestation")
    /\ \A e \in r.evidence : e.made[4] = r.subject /\ e.made[3] = r.at

Substantiated(r) ==
    \/ r.kind = "equivocation" /\ Equivocates(r)
    \/ r.kind = "lazy_attestation" /\ LazyWellFormed(r) /\ r.subject \in Flawed

ReportVerifies(r) ==
    /\ r.signed
    /\ r.kind = "equivocation" => Equivocates(r)
    /\ r.kind = "lazy_attestation" => LazyWellFormed(r)

Accused(r) == IF Substantiated(r) THEN {e.names : e \in r.evidence} ELSE {}
FaultedFrom(faults) == UNION {Accused(r) : r \in {f \in faults : ReportVerifies(f)}}

\* ---- the transactions of one grid ----

Inputs(txs) == UNION {Transactions[t].ins : t \in ToSet(txs)}
Outputs(txs) == UNION {Transactions[t].outs : t \in ToSet(txs)}

\* tx_partition: the partition all its nullifiers are of.
AtHome(t) == Transactions[t].parts = {world.partition}

Spendable(t, txs) ==
    /\ Transactions[t].ins \subseteq world.live \ Inputs(txs)
    /\ Transactions[t].outs \cap world.ever = {}

\* What build takes: the first of those that clash, and no proof is looked at.
FitsButOutputs(t, txs) == AtHome(t) /\ Spendable(t, txs)
Fits(t, txs) == AtHome(t) /\ Spendable(t, txs) /\ Transactions[t].outs \cap Outputs(txs) = {}
Chosen(held) ==
    LET chosen[i \in 0..Len(held)] ==
          IF i = 0 THEN <<>>
          ELSE IF Fits(held[i], chosen[i - 1]) THEN Append(chosen[i - 1], held[i]) ELSE chosen[i - 1]
    IN chosen[Len(held)]

\* What a seat accepts (check_ceremony_txs), in the order it is in.
CeremonyTxsButOutputs(txs) ==
    \A i \in DOMAIN txs :
        LET before == SubSeq(txs, 1, i - 1)
        IN AtHome(txs[i]) /\ Transactions[txs[i]].proof /\ Spendable(txs[i], before)
CheckCeremonyTxs(txs) ==
    \A i \in DOMAIN txs :
        LET before == SubSeq(txs, 1, i - 1)
        IN /\ AtHome(txs[i]) /\ Transactions[txs[i]].proof /\ Spendable(txs[i], before)
           /\ Transactions[txs[i]].outs \cap Outputs(before) = {}

DeltaOf(txs) == [spent |-> Inputs(txs), created |-> Outputs(txs)]

\* ---- tiers.py: GridWorkload ----

NoRoll == [epoch |-> -1, seated |-> {}, attended |-> {}]
RollOf(c) ==
    IF c = None THEN NoRoll
    ELSE RollFrom([height |-> c.height, signers |-> c.voters \cup c.shadows], Seated)

\* The register a block commits to; the service counters are left out.
RegisterAfter(roll, faulted) ==
    IF roll.epoch < 0 THEN world.register ELSE ApplyRoll(world.register, roll, faulted)

HeaderOf(body) ==
    [height |-> world.height + 1, partition |-> world.partition, txs |-> body.txs,
     delta |-> DeltaOf(body.txs), roll |-> body.roll, cert |-> body.cert, faults |-> body.faults,
     register |-> RegisterAfter(body.roll, FaultedFrom(body.faults)),
     quorum |-> RegisterQuorum(world.register)]

Carried(n) == {r \in pending[n] : ReportVerifies(r) /\ Substantiated(r)}

BuiltBy(n) ==
    LET txs == Chosen(pool)
        body == [txs |-> txs, delta |-> DeltaOf(txs), roll |-> RollOf(cert[n]),
                 cert |-> cert[n], faults |-> Carried(n)]
    IN [leader |-> n, header |-> HeaderOf(body), body |-> body]

\* _check_prev_cert: not how many signed, and not which certificate this seat holds.
PrevCertIsMine(n, c) == c = cert[n]
PrevCertStands(n, c) ==
    IF world.height = 0 \/ cert[n] = None THEN c = None
    ELSE c # None /\ c.height = world.height /\ CertVerifies(c)

Validates(n, b) ==
    LET h == b.header
    IN /\ h.height = world.height + 1 /\ h.partition = world.partition
       /\ h.txs = b.body.txs /\ CheckCeremonyTxs(b.body.txs)
       /\ h.delta = DeltaOf(b.body.txs) /\ b.body.delta = h.delta
       /\ PrevCertStands(n, b.body.cert) /\ h.cert = b.body.cert
       /\ h.faults = b.body.faults
       /\ \A r \in b.body.faults : ReportVerifies(r) /\ Substantiated(r)
       /\ b.body.roll = RollOf(b.body.cert) /\ h.roll = b.body.roll
       /\ h.register = RegisterAfter(h.roll, FaultedFrom(b.body.faults))
       /\ h.quorum = RegisterQuorum(world.register)

\* ---- the end of the epoch before ----

Attested(kind) == {n \in Seated : Made("attestation", n, world.height, "agreed") /\ StandingOf(world.register, n) = kind}

OwnCerts ==
    {[height |-> world.height, block |-> "agreed", voters |-> voters, shadows |-> shadows, root |-> TRUE] :
        voters \in {v \in SUBSET Attested("attester") : Cardinality(v) >= RegisterQuorum(world.register)},
        shadows \in SUBSET Attested("apprentice")}

AllKnow == \A n \in BlockSeats : cert[n] # None
HasHistory == world.height > 0 /\ ~world.founded

\* run_epoch on acceptance: pending_faults is what the envelope proves, and then
\* apply_network_block, which clears it.
AfterApplying(faults) == {}
Finalise(n, c, reports) ==
    /\ HasHistory /\ cert[n] = None
    /\ cert' = [cert EXCEPT ![n] = c]
    /\ observed' = [observed EXCEPT ![n] = reports]
    /\ pending' = [pending EXCEPT ![n] = AfterApplying({r \in reports : ReportVerifies(r) /\ Substantiated(r)})]
    /\ UNCHANGED <<world, pool, block, altered, verdicts>>

\* A node that did not follow takes the block with a peer's certificate.
Fetch(n, m) ==
    /\ cert[n] = None /\ cert[m] # None
    /\ cert' = [cert EXCEPT ![n] = cert[m]]
    /\ pending' = [pending EXCEPT ![n] = AfterApplying(@)]
    /\ UNCHANGED <<world, observed, pool, block, altered, verdicts>>

\* ---- this epoch ----

Ready == (AllKnow \/ ~HasHistory) /\ block = None

\* A pool keeps what was spent since, and what another grid's is now; not a bad proof.
Receive(t) ==
    /\ Ready /\ Len(pool) < MaxPool
    /\ t \in world.offered \ ToSet(pool) /\ Transactions[t].proof
    /\ pool' = Append(pool, t)
    /\ UNCHANGED <<world, cert, pending, observed, block, altered, verdicts>>

Build(n) ==
    /\ Ready
    /\ block' = BuiltBy(n)
    /\ UNCHANGED <<world, cert, pending, observed, pool, altered, verdicts>>

OnTheTable == block # None /\ ~altered /\ verdicts = <<>>
Alter(b) ==
    /\ OnTheTable /\ b # block
    /\ block' = b /\ altered' = TRUE
    /\ UNCHANGED <<world, cert, pending, observed, pool, verdicts>>

WithBody(body) == [block EXCEPT !.header = HeaderOf(body), !.body = body]
AlterTxs(txs) == Alter(WithBody([block.body EXCEPT !.txs = txs, !.delta = DeltaOf(txs)]))
AlterCert(c) == Alter(WithBody([block.body EXCEPT !.cert = c, !.roll = RollOf(c)]))
AlterFaults(faults) == Alter(WithBody([block.body EXCEPT !.faults = faults]))
\* Credit and standing that follow from nothing in the block.
AlterRoll(attended) ==
    LET roll == [block.body.roll EXCEPT !.attended = attended]
    IN Alter(WithBody([block.body EXCEPT !.roll = roll]))
AlterRegister(register) == Alter([block EXCEPT !.header.register = register])
AlterQuorum(quorum) == Alter([block EXCEPT !.header.quorum = quorum])

Validate(n) ==
    /\ block # None /\ n \notin DOMAIN verdicts
    /\ verdicts' = [m \in DOMAIN verdicts \cup {n} |-> IF m = n THEN Validates(n, block) ELSE verdicts[m]]
    /\ UNCHANGED <<world, cert, pending, observed, pool, block, altered>>

NothingHeld ==
    /\ cert = [n \in BlockSeats |-> None]
    /\ pending = [n \in BlockSeats |-> {}] /\ observed = [n \in BlockSeats |-> {}]
    /\ pool = <<>> /\ block = None /\ altered = FALSE /\ verdicts = <<>>

GridBlockInit == world \in Worlds /\ NothingHeld

AlterSomething ==
    \/ \E s, t \in DOMAIN Transactions : AlterTxs(<<s>>) \/ AlterTxs(<<s, t>>)
    \/ \E c \in AlteredCerts : AlterCert(c)
    \/ \E r \in Reports : AlterFaults({r})
    \/ \E attended \in SUBSET Seated : AlterRoll(attended)
    \/ AlterRegister(world.register)
    \/ \E q \in 0..Cardinality(Seated) : AlterQuorum(q)

GridBlockNext ==
    \/ \E n \in BlockSeats, reports \in Seen : \E c \in OwnCerts : Finalise(n, c, reports)
    \/ \E n, m \in BlockSeats : Fetch(n, m)
    \/ \E t \in DOMAIN Transactions : Receive(t)
    \/ \E n \in BlockSeats : Build(n) \/ Validate(n)
    \/ OnTheTable /\ AlterSomething

GridBlockSpec == GridBlockInit /\ [][GridBlockNext]_gridVars

\* ---- properties ----

Accepted == \E n \in DOMAIN verdicts : verdicts[n]

\* Seats that hold different certificates of the block before, and pools of their own, all
\* accept what any of them would build (the doc of _check_prev_cert: comparing with one's
\* own stalled the network within six epochs).
HonestBlocksValidate == ~altered => \A n \in DOMAIN verdicts : verdicts[n]

\* Whatever a leader proposes, the seats that hold the same state come to one verdict.
VerdictsAreTheSame == \A n, m \in DOMAIN verdicts : verdicts[n] = verdicts[m]

\* Seats with one state have one verdict, and an honest leader's block passes.
SeatsAgreeOnBlocks == HonestBlocksValidate /\ VerdictsAreTheSame

\* Signed two blocks of one height, or attested to a flawed one.
SignedTwo(n) ==
    \E s, t \in world.said :
        /\ s[1] = "proposal" /\ t[1] = "proposal" /\ s[2] = n /\ t[2] = n
        /\ s[3] = t[3] /\ s[4] # t[4]
SignedFlawed(n) == \E s \in world.said : s[1] = "attestation" /\ s[2] = n /\ s[4] \in Flawed

Suspends(n) ==
    /\ StandingOf(block.header.register, n) = "suspended" /\ StandingOf(world.register, n) # "suspended"

\* A report names n over what m signed.
NamedOver(faults, n, m) == \E r \in faults : \E e \in r.evidence : e.names = n /\ e.made[2] = m

\* A block that any seat accepts credits nobody that did not attest at the height before, and
\* suspends nobody but whom its evidence names over the key of one that signed two blocks of
\* one height or attested to a flawed one.
StandingIsEarned ==
    Accepted =>
        /\ \A n \in block.body.roll.attended :
               \E s \in world.said : s[1] = "attestation" /\ s[2] = n /\ s[3] = world.height
        /\ \A n \in Enrolled(block.header.register) : Suspends(n) =>
               \E s \in world.said : /\ NamedOver(block.body.faults, n, s[2])
                                     /\ SignedTwo(s[2]) \/ SignedFlawed(s[2])

\* "a claim a validator cannot re-check is a claim a leader could invent about anyone it
\* disliked" (tiered.py, faulted_from): who is suspended did it.
SuspendedDidIt ==
    Accepted => \A n \in Enrolled(block.header.register) : Suspends(n) => SignedTwo(n) \/ SignedFlawed(n)

\* Its delta applies: every note live, in this grid's partition and spent once, every output
\* new and created once.
AcceptedDeltasApply ==
    Accepted =>
        LET txs == block.body.txs
        IN /\ Inputs(txs) \subseteq world.live /\ Outputs(txs) \cap world.ever = {}
           /\ \A i, j \in DOMAIN txs :
                  i # j => /\ Transactions[txs[i]].ins \cap Transactions[txs[j]].ins = {}
                           /\ Transactions[txs[i]].outs \cap Transactions[txs[j]].outs = {}
           /\ \A i \in DOMAIN txs : AtHome(txs[i])

\* What passes is sound, in its register and in its delta.
AcceptedIsSound == StandingIsEarned /\ AcceptedDeltasApply

\* "Faults observed this epoch, for the next block to carry" (net/node.py): what the next
\* leader saw proved is in the block it builds.
ProvedFaultsAreCarried ==
    block # None /\ ~altered =>
        {r \in observed[block.leader] : ReportVerifies(r) /\ Substantiated(r)} \subseteq block.body.faults
====
