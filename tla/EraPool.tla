---- MODULE EraPool ----
(* Era 0 of the hardening pool as the ceremony it is at a launch (hardening/contrib.py and
   hardening/ceremony.py): every holder publishes the keys of its own slice, whoever drafts
   the document puts the tree together, and then every holder signs a claim that names the
   root.  A leaf is who made it, for which network, and for which turn, since one cannot be
   moved; a digest and a root are what they are taken over.

   The schemer drafts, holds a slice like the others, and signs and publishes what it likes.
   A ceremony that did not end is run again, perhaps in another order, perhaps after it was
   rehearsed on another network. *)
EXTENDS Integers, Sequences, FiniteSets, SequencesExt, FiniteSetsExt

CONSTANTS
    Orders,       \* sequences of holders, as the drafter may deal to them
    Schemer,
    Networks,     \* the network's name, and a rehearsal's
    Turns,
    MaxRuns,      \* bound: how often the ceremony is begun
    Asked         \* inputs of the arithmetic: [holders, turns, claimed]

VARIABLES
    runs,         \* begun so far
    ceremony,     \* [network, parts, published, tree]
    pools,        \* the trees that were assembled, each with its network
    claims,       \* every claim an honest holder has signed
    asked         \* what the arithmetic is asked

poolVars == <<runs, ceremony, pools, claims, asked>>

PoolHolders == UNION {ToSet(order) : order \in Orders}
Honest == PoolHolders \ {Schemer}
NoTree == <<>>

\* Orders are lists, and what the arithmetic is asked is of numbers.
PoolAssumption ==
    /\ Turns \in Nat
    /\ \A order \in Orders : Len(order) \in Nat /\ DOMAIN order = 1..Len(order)
    /\ \A a \in Asked : /\ a.holders \in Nat /\ a.turns \in Nat
                        /\ a.claimed \in Seq([first : Int, count : Int])
ASSUME PoolAssumption

\* ---- slices ----

\* What the first so many of these numbers add up to.
Sums(numbers) ==
    LET sum[i \in 0..Len(numbers)] == IF i = 0 THEN 0 ELSE sum[i - 1] + numbers[i]
    IN sum

Divisible(holders, turns) == holders # <<>> /\ turns >= Len(holders)

DealRestToTheLast(holders, turns) ==
    [i \in DOMAIN holders |->
        [holder |-> holders[i], first |-> (i - 1) * (turns \div Len(holders)),
         count |-> turns \div Len(holders) + (IF i = Len(holders) THEN turns % Len(holders) ELSE 0)]]
\* deal: contiguous, and as even as the arithmetic allows.
Deal(holders, turns) ==
    LET counts == [i \in DOMAIN holders |->
                      turns \div Len(holders) + (IF i <= turns % Len(holders) THEN 1 ELSE 0)]
    IN [i \in DOMAIN holders |->
           [holder |-> holders[i], first |-> Sums(counts)[i - 1], count |-> counts[i]]]

Slice(c) == c.first .. c.first + c.count - 1

\* Only that what is claimed adds up to the pool.
CoversByTheSum(cs, turns) ==
    /\ \A i \in DOMAIN cs : cs[i].count >= 1
    /\ FoldLeft(LAMBDA at, c : at + c.count, 0, cs) = turns
\* In the order of the turns; of those that begin together, as they are listed.
ByFirst(cs) ==
    LET earlier == [i \in DOMAIN cs |->
            {j \in DOMAIN cs : cs[j].first < cs[i].first \/ (cs[j].first = cs[i].first /\ j < i)}]
    IN [k \in DOMAIN cs |-> cs[CHOOSE i \in DOMAIN cs : Cardinality(earlier[i]) = k - 1]]
\* check_coverage: in that order, each slice begins where the last one ended.
Covers(cs, turns) ==
    LET sorted == ByFirst(cs)
        at == Sums([i \in DOMAIN cs |-> sorted[i].count])
    IN /\ \A i \in DOMAIN cs : sorted[i].count >= 1 /\ sorted[i].first = at[i - 1]
       /\ at[Len(cs)] = turns

HeldBy(h, cs) == Sums([i \in DOMAIN cs |-> IF cs[i].holder = h THEN cs[i].count ELSE 0])[Len(cs)]
\* shares, against a third: a holder that contributed twice is counted once.
MoreThanAThird(h, cs, turns) == HeldBy(h, cs) * 3 > turns

\* ---- round one: publish ----

Leaf(h, network, turn) == <<h, network, turn>>
LeavesOf(h, network, slice) ==
    [i \in 1..slice.count |-> Leaf(h, network, slice.first + i - 1)]

BeginCeremony(network, order) ==
    /\ runs < MaxRuns /\ Divisible(order, Turns)
    /\ runs' = runs + 1
    /\ ceremony' = [network |-> network, parts |-> Deal(order, Turns), published |-> {}, tree |-> NoTree]
    /\ UNCHANGED <<pools, claims, asked>>

PublishLeaves(i) ==
    /\ runs > 0 /\ i \in DOMAIN ceremony.parts \ ceremony.published
    /\ ceremony' = [ceremony EXCEPT !.published = @ \cup {i}]
    /\ UNCHANGED <<runs, pools, claims, asked>>

\* ---- the tree ----

\* Everybody's leaves in the order of the turns, but for the slices whose leaves the
\* schemer put its own in the place of.
Assembled(parts, network, replaced) ==
    FlattenSeq([i \in DOMAIN parts |->
        LeavesOf(IF i \in replaced THEN Schemer ELSE parts[i].holder, network, parts[i])])

AssembleTree(replaced) ==
    /\ runs > 0 /\ ceremony.tree = NoTree /\ ceremony.published = DOMAIN ceremony.parts
    /\ LET tree == Assembled(ceremony.parts, ceremony.network, replaced)
       IN /\ ceremony' = [ceremony EXCEPT !.tree = tree]
          /\ pools' = pools \cup {[network |-> ceremony.network, tree |-> tree]}
    /\ UNCHANGED <<runs, claims, asked>>

\* ---- round two: sign ----

\* What is signed: everything but the root, or all of it.
MessageWithoutTheRoot(network, c, root) ==
    [network |-> network, holder |-> c.holder, first |-> c.first, count |-> c.count,
     digest |-> c.digest]
Message(network, c, root) ==
    [network |-> network, holder |-> c.holder, first |-> c.first, count |-> c.count,
     digest |-> c.digest, root |-> root]

\* under: the tree there was, which the document does not say.
Claim(network, slice, leaves, root) ==
    LET c == [holder |-> slice.holder, first |-> slice.first, count |-> slice.count, digest |-> leaves]
    IN [holder |-> c.holder, first |-> c.first, count |-> c.count, digest |-> c.digest,
        signed |-> Message(network, c, root), under |-> root]

\* An honest holder's digest is over the leaves it made.
SignClaim(i) ==
    /\ runs > 0 /\ ceremony.tree # NoTree
    /\ LET slice == ceremony.parts[i]
           own == LeavesOf(slice.holder, ceremony.network, slice)
           c == Claim(ceremony.network, slice, own, ceremony.tree)
       IN slice.holder \in Honest /\ c \notin claims /\ claims' = claims \cup {c}
    /\ UNCHANGED <<runs, ceremony, pools, asked>>

\* ---- what is checked ----

\* The schemer signs for any turns, with whatever leaves the tree has there.
SchemersClaims(pool, turns) ==
    {Claim(pool.network, [holder |-> Schemer, first |-> t, count |-> 1], <<pool.tree[t + 1]>>, pool.tree) :
        t \in turns}

\* _era0_problems: from the document alone.
DocumentAccepts(network, cs, root) ==
    /\ \A i \in DOMAIN cs : cs[i].holder \in PoolHolders /\ cs[i].signed = Message(network, cs[i], root)
    /\ Covers(cs, Turns)
    /\ \A i \in DOMAIN cs : ~MoreThanAThird(cs[i].holder, cs, Turns)

TranscriptOfTheRoot(cs, root, leaves) == Len(leaves) = Turns /\ Covers(cs, Turns) /\ root = leaves
\* verify_transcript: and with the leaves that were published.
TranscriptHolds(cs, root, leaves) ==
    /\ Len(leaves) = Turns /\ Covers(cs, Turns)
    /\ \A i \in DOMAIN cs : SubSeq(leaves, cs[i].first + 1, cs[i].first + cs[i].count) = cs[i].digest
    /\ root = leaves

PoolInit ==
    /\ runs = 0 /\ pools = {} /\ claims = {} /\ asked \in Asked
    /\ ceremony = [network |-> "", parts |-> <<>>, published |-> {}, tree |-> NoTree]

PoolNext ==
    \/ \E network \in Networks, order \in Orders : BeginCeremony(network, order)
    \/ \E i \in DOMAIN ceremony.parts : PublishLeaves(i) \/ SignClaim(i)
    \/ \E replaced \in SUBSET DOMAIN ceremony.parts : AssembleTree(replaced)

PoolSpec == PoolInit /\ [][PoolNext]_poolVars

\* ---- properties ----

\* What a drafter may put in a document beside a pool: any claims there are, of whichever
\* run, one of them perhaps twice, and its own for any turns.
ClaimLists(pool) ==
    {SetToSeq(x[1]) \o SetToSeq(x[2]) \o SetToSeq(SchemersClaims(pool, x[3])) :
        x \in {y \in (SUBSET claims) \X ({{}} \cup {{c} : c \in claims}) \X SUBSET (0..Turns - 1) :
                 y[2] \subseteq y[1]}}

\* Whatever the drafter put together: if the document's era 0 passes, and the transcript with
\* it, the turns of an honest holder are turns that only it can sign, and the schemer can
\* sign no more of them than the document says it holds, which is what a rewrite ceiling is
\* computed from and is at most a third.
CeilingIsTheShare ==
    \A pool \in pools : \A cs \in ClaimLists(pool) :
        DocumentAccepts(pool.network, cs, pool.tree) /\ TranscriptHolds(cs, pool.tree, pool.tree) =>
            LET spendable == {t \in 0..Turns - 1 : pool.tree[t + 1][1] = Schemer}
            IN /\ \A i \in DOMAIN cs : \A t \in Slice(cs[i]) :
                      cs[i].holder \in Honest => pool.tree[t + 1] = Leaf(cs[i].holder, pool.network, t)
               /\ Cardinality(spendable) <= HeldBy(Schemer, cs) /\ 3 * Cardinality(spendable) <= Turns

\* A claim is to the pool that was assembled when it was signed: what was signed in a
\* rehearsal, or in a ceremony that was begun again with other slices, is of no use beside
\* another tree.
ClaimsAreOfOnePool ==
    \A c \in claims : \A pool \in pools :
        (\E cs \in ClaimLists(pool) : c \in ToSet(cs) /\ DocumentAccepts(pool.network, cs, pool.tree))
            => c.under = pool.tree

\* A turn of the pool is whose the document says it is.
TurnsAreTheirs == CeilingIsTheShare /\ ClaimsAreOfOnePool

\* The slices of a deal are the pool: every turn in one of them, and no holder with two turns
\* more than another (deal, for every number of holders and turns).
DealIsFair ==
    LET slices == Deal([i \in 1..asked.holders |-> i], asked.turns)
    IN Divisible([i \in 1..asked.holders |-> i], asked.turns) =>
           /\ UNION {Slice(slices[i]) : i \in DOMAIN slices} = 0..asked.turns - 1
           /\ Covers(slices, asked.turns)
           /\ \A i, j \in DOMAIN slices : slices[i].count <= slices[j].count + 1

\* Slices cover when every turn is in exactly one of them, in whatever order they are given.
CoverageIsAPartition ==
    Covers(asked.claimed, asked.turns) <=>
        /\ \A i \in DOMAIN asked.claimed : Slice(asked.claimed[i]) # {}
        /\ UNION {Slice(asked.claimed[i]) : i \in DOMAIN asked.claimed} = 0..asked.turns - 1
        /\ \A i, j \in DOMAIN asked.claimed :
               i # j => Slice(asked.claimed[i]) \cap Slice(asked.claimed[j]) = {}

\* Slices, dealt or claimed, part the pool.
SlicesPartThePool == DealIsFair /\ CoverageIsAPartition
====
