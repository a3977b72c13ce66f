---- MODULE Mempool ----
(* What one node of the tiered network does with a submission: the cheap checks at
   once, the proof later and only out of the epoch's slack (chain/node.py,
   chain/net/budget.py, _offer_tx of chain/net/node.py), and the blocks it builds
   from what it holds (GridWorkload.build, ChainState.check_ceremony_txs).
   A note is the number its nullifier is; a transaction is what it says it spends
   and creates; a proof is a submission's own, and one body may come with several. *)
EXTENDS Integers, Sequences, FiniteSets, SequencesExt, Selection

CONSTANTS
    Txs,             \* bodies
    Body,            \* body -> [ins, outs, fee, authentic]
    Submissions,     \* <<body, proof>>: what may arrive
    GoodProofs,      \* proofs that verify
    IssuedNotes,     \* live from the start
    MaxMempool, MaxRefusedProofs, ProofStrikes, MaxEpochsQueued,
    QueueFloor, QueueCapacity,
    Slacks,          \* units of work an epoch may have to spare after its reserve
    Costs,           \* units one verification may really take
    DrainItems,      \* bound on one drain
    MaxGrids         \* bound: partitions

VARIABLES
    chain,           \* [live, ever]: notes unspent, notes that ever were
    pool,            \* [held, claims, strikes, refused] of Node
    work,            \* jobs in order of arrival: [prio, tx, proof, age]
    depth,           \* WorkQueue.capacity
    slack, left,     \* the epoch's budget, and what is left of it
    grids            \* topology.n_partitions

ASSUME MempoolAssumption ==
    /\ \A tx \in Txs : Body[tx].fee \in Nat
    /\ \A s \in Submissions : s = <<s[1], s[2]>> /\ s[1] \in Txs
    /\ {MaxMempool, MaxRefusedProofs, ProofStrikes, MaxEpochsQueued, MaxGrids} \subseteq Nat \ {0}
    /\ {QueueFloor, QueueCapacity, DrainItems} \subseteq Nat /\ QueueFloor <= QueueCapacity
    /\ Slacks \subseteq Nat /\ Costs \subseteq Nat

mempoolVars == <<chain, pool, work, depth, slack, left, grids>>

\* ---- chain/locality.py ----

HomeOf(tx) == LET parts == {n % grids : n \in Body[tx].ins}
              IN IF Cardinality(parts) = 1 THEN parts ELSE {}

\* ---- the pool: chain/node.py ----

PoolTxs(p) == ToSet(p.held)

SpendsLive(c, tx) == Body[tx].ins \subseteq c.live /\ Body[tx].outs \cap c.ever = {}

\* Lowest fee, and the oldest of those.
Cheapest(p) ==
    LET fee(i) == Body[p.held[i]].fee
    IN p.held[CHOOSE i \in DOMAIN p.held :
                /\ \A j \in DOMAIN p.held : fee(i) <= fee(j)
                /\ \A j \in 1..(i - 1) : fee(i) < fee(j)]

Admissible(c, p, tx) ==
    /\ tx \notin PoolTxs(p)
    /\ SpendsLive(c, tx)
    /\ Body[tx].ins \cap DOMAIN p.claims = {}
    /\ Len(p.held) >= MaxMempool => Body[tx].fee > Body[Cheapest(p)].fee

\* A proof that failed is refused from memory, a body it failed on is not.
ForgetsFailures(p, tx, proof) == FALSE
Remembered(p, tx, proof) == p.strikes[tx] > 0 /\ <<tx, proof>> \in ToSet(p.refused)

Authenticated(c, p, tx, proof) ==
    Admissible(c, p, tx) /\ ~Remembered(p, tx, proof) /\ Body[tx].authentic

Suspect(p, tx) == p.strikes[tx] >= ProofStrikes

\* The oldest go when it is full.
BoundedPut(seq, key) ==
    IF key \in ToSet(seq) THEN seq
    ELSE Append(SubSeq(seq, 1 + (IF Len(seq) < MaxRefusedProofs THEN 0
                                 ELSE Len(seq) - MaxRefusedProofs + 1), Len(seq)), key)

\* A count past the threshold means the same as the threshold.
RememberRefusal(p, tx, proof) ==
    [p EXCEPT !.strikes[tx] = IF @ < ProofStrikes THEN @ + 1 ELSE @,
              !.refused = BoundedPut(@, <<tx, proof>>)]

\* Whatever of S is held goes, and the reservations on its notes with it, in
\* whoever's name they are.
EvictKeepsClaims(p, S) == [p EXCEPT !.held = Lacking(@, S)]
Evict(p, S) ==
    LET freed == UNION {Body[tx].ins : tx \in S \cap PoolTxs(p)}
    IN [p EXCEPT !.held = Lacking(@, S),
                 !.claims = [n \in DOMAIN @ \ freed |-> @[n]]]

\* The pool is never over its cap, so one round of the loop is enough.
KeepsAll(p, tx) == p
MakeRoom(p, tx) ==
    IF Len(p.held) < MaxMempool \/ Cheapest(p) = tx THEN p ELSE Evict(p, {Cheapest(p)})

Admitted(p, tx) ==
    [p EXCEPT !.held = IF tx \in PoolTxs(p) THEN @ ELSE Append(@, tx),
              !.claims = [n \in DOMAIN @ \cup Body[tx].ins |->
                            IF n \in Body[tx].ins THEN tx ELSE @[n]]]

VerifyAndAdmit(p, tx, proof) ==
    IF proof \in GoodProofs THEN Admitted(MakeRoom(p, tx), tx)
    ELSE RememberRefusal(p, tx, proof)

\* ---- the queue: chain/net/budget.py ----

PeerPriority == 1
OwnerPriority == 2
AnonPriority == 3

\* More important first, older first within a class.
Rank(q, job) ==
    LET at(j) == CHOOSE i \in DOMAIN q : q[i] = j
    IN Cardinality({i \in DOMAIN q : \/ q[i].prio < job.prio
                                     \/ q[i].prio = job.prio /\ i < at(job)})

KeepOldest(q, n) == IF Len(q) > n THEN SubSeq(q, 1, n) ELSE q
KeepBest(q, n) == Selected(q, {i \in DOMAIN q : Rank(q, q[i]) < n})

\* The newcomer goes if nothing waiting is less important than it.
Enqueue(q, job) ==
    IF \E i \in DOMAIN q : q[i].tx = job.tx THEN q
    ELSE KeepBest(Append(q, job), depth)

\* FLOORS: nothing, a quarter and a half of the slack are out of reach.
FloorQuarters(prio) == CASE prio = PeerPriority -> 0
                         [] prio = OwnerPriority -> 1
                         [] prio = AnonPriority -> 2
Afford(prio, l) == 4 * (l - 1) >= FloorQuarters(prio) * slack

\* What could be served for the least important before it would expire.
Servable(s) ==
    LET n == (MaxEpochsQueued * s) \div 2
    IN IF n < QueueFloor THEN QueueFloor ELSE IF n > QueueCapacity THEN QueueCapacity ELSE n

Expire(q) == Selected(q, {i \in DOMAIN q : q[i].age < MaxEpochsQueued})

\* The most important, if it can be paid for: whatever is behind it costs more.
ServeNext(s, cost) ==
    IF s.q = <<>> THEN s
    ELSE LET job == CHOOSE j \in ToSet(s.q) : Rank(s.q, j) = 0
         IN IF ~Afford(job.prio, s.l) THEN s
            ELSE [q |-> Lacking(s.q, {job}),
                  p |-> VerifyAndAdmit(s.p, job.tx, job.proof),
                  l |-> IF s.l > cost THEN s.l - cost ELSE 0]

DrainFrom(start, cost) ==
    LET after[i \in 0..DrainItems] == IF i = 0 THEN start ELSE ServeNext(after[i - 1], cost)
    IN after[DrainItems]

\* ---- what happens to a node ----

Offer(tx, proof, fromPeer) ==
    /\ HomeOf(tx) # {}
    /\ Authenticated(chain, pool, tx, proof)
    /\ work' = Enqueue(work, [prio |-> IF fromPeer THEN PeerPriority
                                       ELSE IF Suspect(pool, tx) THEN AnonPriority
                                       ELSE OwnerPriority,
                              tx |-> tx, proof |-> proof, age |-> 0])
    /\ UNCHANGED <<chain, pool, depth, slack, left, grids>>

Drain ==
    \E cost \in Costs :
       LET end == DrainFrom([q |-> Expire(work), p |-> pool, l |-> left], cost)
       IN /\ work' = end.q /\ pool' = end.p /\ left' = end.l
          /\ UNCHANGED <<chain, depth, slack, grids>>

TimePasses ==
    /\ left > 0 /\ left' = left - 1
    /\ UNCHANGED <<chain, pool, work, depth, slack, grids>>

\* The budget is opened and the queue cut to what it says can be served.
OpenEpoch ==
    \E s \in Slacks :
       /\ slack' = s /\ left' = s /\ depth' = Servable(s)
       /\ work' = KeepBest([i \in DOMAIN work |->
                              [work[i] EXCEPT !.age = IF @ < MaxEpochsQueued THEN @ + 1 ELSE @]],
                           Servable(s))
          /\ UNCHANGED <<chain, pool, grids>>

\* ---- blocks ----

\* check_ceremony_txs: against the last block, not against each other's effects.
LegalTogether(c, S, part) ==
    /\ \A tx \in S : HomeOf(tx) = {part} /\ SpendsLive(c, tx)
    /\ \A tx \in S : \A other \in S \ {tx} :
          /\ Body[tx].ins \cap Body[other].ins = {}
          /\ Body[tx].outs \cap Body[other].outs = {}

BuildFromAll(c, p, part) ==
    Lacking(p.held, {tx \in Txs : HomeOf(tx) # {part} \/ ~SpendsLive(c, tx)})
\* A conflict with an earlier pick is skipped.
Pick(c, chosen, tx, part) ==
    IF LegalTogether(c, ToSet(chosen) \cup {tx}, part) THEN Append(chosen, tx) ELSE chosen
Build(c, p, part) ==
    LET upTo[i \in 0..Len(p.held)] ==
            IF i = 0 THEN <<>> ELSE Pick(c, upTo[i - 1], p.held[i], part)
    IN upTo[Len(p.held)]

ApplyTxs(c, S) ==
    LET spends == UNION {Body[tx].ins : tx \in S}
        makes == UNION {Body[tx].outs : tx \in S}
    IN [live |-> (c.live \ spends) \cup makes, ever |-> c.ever \cup makes]

\* Any transactions the grids of the network may agree on in one block.
LegalBlock(c, S) ==
    /\ \A tx \in S : HomeOf(tx) # {}
    /\ \A part \in 0..(grids - 1) :
         LegalTogether(c, {tx \in S : HomeOf(tx) = {part}}, part)

ApplyBlock(S) ==
    /\ S # {} /\ LegalBlock(chain, S)
    /\ chain' = ApplyTxs(chain, S)
    /\ pool' = Evict(pool, S)
    /\ UNCHANGED <<work, depth, slack, left, grids>>

\* The number of partitions moves: everything held is evicted, then submitted
\* again to whoever sits in its new home, which is this node for partition `mine`.
Resubmit(p, tx, mine) ==
    IF {n % (grids + 1) : n \in Body[tx].ins} = {mine} /\ Admissible(chain, p, tx)
    THEN Admitted(MakeRoom(p, tx), tx) ELSE p

Reroute(mine) ==
    /\ grids < MaxGrids /\ mine \in 0..grids
    /\ grids' = grids + 1
    /\ LET upTo[i \in 0..Len(pool.held)] ==
               IF i = 0 THEN Evict(pool, PoolTxs(pool))
               ELSE Resubmit(upTo[i - 1], pool.held[i], mine)
       IN pool' = upTo[Len(pool.held)]
    /\ UNCHANGED <<chain, work, depth, slack, left>>

Issued == [live |-> IssuedNotes, ever |-> IssuedNotes]

\* A snapshot is adopted, or blocks are taken back: the node is on another ledger
\* and what described the old one goes.  Failed proofs and queued work stay.
NewLedger(S) ==
    /\ LegalBlock(Issued, S) /\ chain' = ApplyTxs(Issued, S) /\ chain' # chain
    /\ pool' = [pool EXCEPT !.held = <<>>, !.claims = <<>>]
    /\ UNCHANGED <<work, depth, slack, left, grids>>

EmptyPool == [held |-> <<>>, claims |-> <<>>, strikes |-> [tx \in Txs |-> 0],
              refused |-> <<>>]

MempoolInit ==
    /\ chain = Issued /\ pool = EmptyPool /\ work = <<>>
    /\ slack \in Slacks /\ left = slack /\ depth = Servable(slack)
    /\ grids = 1

Arrive == \E s \in Submissions, fromPeer \in BOOLEAN : Offer(s[1], s[2], fromPeer)

MempoolNext ==
    \/ Arrive
    \/ Drain
    \/ TimePasses
    \/ OpenEpoch
    \/ \E S \in SUBSET Txs : ApplyBlock(S)
    \/ \E mine \in 0..MaxGrids : Reroute(mine)
    \/ \E S \in SUBSET Txs : NewLedger(S)

MempoolSpec == MempoolInit /\ [][MempoolNext]_mempoolVars

\* ---- properties ----

\* The pool is within its cap and so are the failures it remembers, whatever was
\* queued when it last looked.
MempoolTypeOK ==
    /\ chain.live \subseteq chain.ever
    /\ Len(pool.held) <= MaxMempool /\ IsInjective(pool.held) /\ PoolTxs(pool) \subseteq Txs
    /\ Len(pool.refused) <= MaxRefusedProofs
    /\ pool.strikes \in [Txs -> 0..ProofStrikes]
    /\ Len(work) <= depth /\ depth \in QueueFloor..QueueCapacity
    /\ left \in 0..slack /\ grids \in 1..MaxGrids

\* A note this node refuses to see spent twice is being spent by something it holds:
\* no eviction, reroute or change of ledger leaves a claim behind (Node._evict).
EveryClaimIsHeld ==
    \A n \in DOMAIN pool.claims :
        pool.claims[n] \in PoolTxs(pool) /\ n \in Body[pool.claims[n]].ins

\* Whatever the pool has come to hold, conflicts and spent notes included, the block
\* built from it is one every validator accepts, and it is not short: a transaction
\* left out conflicts with the state or with one put in.
BlockIsLegalAndFull ==
    \A part \in 0..(grids - 1) :
       LET b == ToSet(Build(chain, pool, part))
       IN /\ LegalTogether(chain, b, part)
          /\ \A tx \in PoolTxs(pool) \ b : ~LegalTogether(chain, b \cup {tx}, part)

\* What the queue gives up for want of room is never more important than what it
\* keeps, nor older among equals (WorkQueue.offer, resize).
LeastImportantGoes ==
    [][Drain \/ \A job \in ToSet(work) :
         (\A j \in ToSet(work') : j.tx # job.tx) =>
            \A kept \in ToSet(work') \cap ToSet(work) : Rank(work, kept) < Rank(work, job)]_mempoolVars

\* A proof this node remembers failing is never paid for again, though its body may be.
NoFailureIsPaidForTwice ==
    \A job \in ToSet(work) : <<job.tx, job.proof>> \notin ToSet(pool.refused)

\* "Without these two, a node would happily hold two transactions spending the same
\* note" (chain/node.py): with them it holds one.
OneClaimPerNote ==
    \A i, j \in DOMAIN pool.held : i # j =>
        Body[pool.held[i]].ins \cap Body[pool.held[j]].ins = {}

\* ---- the inductive invariant ----

Notes == UNION {Body[tx].ins : tx \in Txs}
Job == [prio : 1..3, tx : Txs, proof : {s[2] : s \in Submissions}, age : 0..MaxEpochsQueued]

PoolRecord == [held : Seq(Txs), claims : UNION {[D -> Txs] : D \in SUBSET Notes},
                strikes : [Txs -> 0..ProofStrikes], refused : Seq(Submissions)]

\* No transaction is held twice, a claim is in the name of what is held, and nothing is
\* remembered as failing that has no strike.
PoolInv(p) ==
    /\ p \in PoolRecord /\ IsInjective(p.held) /\ Len(p.held) <= MaxMempool
    /\ \A n \in DOMAIN p.claims : p.claims[n] \in PoolTxs(p) /\ n \in Body[p.claims[n]].ins
    /\ Len(p.refused) <= MaxRefusedProofs
    /\ \A s \in ToSet(p.refused) : p.strikes[s[1]] > 0

\* No body waits twice, and what waits arrived and is not remembered as failing.
Queued(q) == q \in Seq(Job) /\ \A i, j \in DOMAIN q : q[i].tx = q[j].tx => i = j
QueueInv(q, p) ==
    /\ Queued(q)
    /\ \A job \in ToSet(q) : /\ <<job.tx, job.proof>> \in Submissions
                            /\ <<job.tx, job.proof>> \notin ToSet(p.refused)

MempoolInv ==
    /\ PoolInv(pool) /\ QueueInv(work, pool) /\ Len(work) <= depth
    /\ depth \in QueueFloor..QueueCapacity /\ slack \in Nat /\ left \in 0..slack
    /\ grids \in 1..MaxGrids /\ chain.live \subseteq chain.ever

\* The pool's cap, its claims, the failures it remembers and the block built from it, over
\* everything that comes and goes.
PoolIsSound == MempoolTypeOK /\ EveryClaimIsHeld /\ NoFailureIsPaidForTwice /\ BlockIsLegalAndFull
====
