---- MODULE History ----
(* Hardened history and its fork choice (hardening/history.py, draw.py, params.py), and
   the client that weighs two of them (client/adjudicate.py).  A block is its hash, and
   the order of the numbers is the order of the hashes; a stamp is its turn, and the
   work of a block is how many it carries, every stamp weighing the same. *)
EXTENDS Draw, Sequences, SequencesExt

CONSTANTS
    Hashes,          \* blocks there may be: positive numbers
    Stampings,       \* sets of turns that may come with one, drawn for it or not
    ReorgLimit,      \* blocks this node can undo
    Held,            \* turns one party holds
    Page,            \* rows one answer carries
    MaxRetaken       \* bound: blocks taken again with other stamps

\* A pool is a tree with so many leaves (hardening/pool.py).
ASSUME HistoryAssumption ==
    /\ Hashes \subseteq Nat \ {0} /\ ReorgLimit \in Nat /\ IsFiniteSet(Turns)
    /\ Stampings \subseteq SUBSET Turns

VARIABLES
    blocks,          \* hash -> hardened block, every branch seen
    tipHash, halted,
    rows,            \* hash -> hardened block, as the store has them
    committee,       \* hash -> the turns drawn on top of it, once somebody has looked
    taken            \* hash -> the sets of stamps it was accepted with (what happened)

historyVars == <<blocks, tipHash, halted, rows, committee, taken>>

GenesisHash == 0

\* ---- walking a branch ----

\* Newest first, without genesis.
Branch(tree, hash) ==
    LET back[h \in DOMAIN tree \cup {GenesisHash}] ==
          IF h = GenesisHash THEN <<>> ELSE <<h>> \o back[tree[h].prev]
    IN back[hash]

HeightAt(tree, hash) == IF hash = GenesisHash THEN 0 ELSE tree[hash].height
CumulativeAt(tree, hash) == IF hash = GenesisHash THEN 0 ELSE tree[hash].cumulative

SpentNowhere(tree, hash) == {}
\* Per branch, never global, and whether or not they stamped.
SpentUpto(tree, hash) == UNION {tree[h].drawn : h \in ToSet(Branch(tree, hash))}

Ancestors(tree, hash) == ToSet(Branch(tree, hash)) \cup {GenesisHash}
CommonAncestor(tree, a, b) ==
    CHOOSE h \in Ancestors(tree, a) \cap Ancestors(tree, b) :
        \A g \in Ancestors(tree, a) \cap Ancestors(tree, b) : HeightAt(tree, g) <= HeightAt(tree, h)

\* Blocks to undo to go from one tip to the other.
ReorgDepth(tree, from, to) ==
    HeightAt(tree, from) - HeightAt(tree, CommonAncestor(tree, from, to))

\* ---- one block ----

Hardened(tree, prev, drawn, stamps) ==
    [prev |-> prev, height |-> HeightAt(tree, prev) + 1, drawn |-> drawn, stamps |-> stamps,
     weight |-> Cardinality(stamps),
     cumulative |-> CumulativeAt(tree, prev) + Cardinality(stamps)]

BelievesTheClaim(tree, hb, expected) ==
    hb.drawn = expected /\ hb.drawn # Exhausted /\ hb.stamps \subseteq hb.drawn
\* check: everything a third party can verify for itself.
Checks(tree, hb, expected) ==
    /\ hb.drawn = expected /\ hb.drawn # Exhausted
    /\ hb.drawn \cap SpentUpto(tree, hb.prev) = {}
    /\ hb.stamps \subseteq hb.drawn /\ Cardinality(hb.stamps) >= Threshold
    /\ hb.weight = Cardinality(hb.stamps)
    /\ hb.cumulative = CumulativeAt(tree, hb.prev) + hb.weight

\* ---- fork choice ----

\* Heaviest, and of those the lowest hash.
Heaviest(tree) ==
    CHOOSE h \in DOMAIN tree \cup {GenesisHash} :
        \A g \in DOMAIN tree \cup {GenesisHash} :
            \/ CumulativeAt(tree, g) < CumulativeAt(tree, h)
            \/ CumulativeAt(tree, g) = CumulativeAt(tree, h) /\ h <= g

NeverTooDeep(tree, from, to) == FALSE
TooDeep(tree, from, to) == ReorgDepth(tree, from, to) > ReorgLimit

\* _retip: follow it, unless that is a rollback this node cannot perform.
Retip(tree) ==
    LET best == Heaviest(tree)
    IN IF TooDeep(tree, tipHash, best) THEN halted' = TRUE /\ UNCHANGED tipHash
       ELSE tipHash' = best /\ UNCHANGED halted

\* ---- steps ----

\* Somebody draws the committee that follows a block.
Drawn(prev) ==
    IF prev \in DOMAIN committee THEN UNCHANGED committee
    ELSE \E drawn \in Drawable(SpentUpto(blocks, prev)) :
            committee' = [h \in DOMAIN committee \cup {prev} |->
                             IF h = prev THEN drawn ELSE committee[h]]

\* accept, then the row when the answer was yes; a halt has ended the process.  The block
\* comes from anybody, and claims the work it likes.  Its hash covers the block before it;
\* known or not, it is written over, and what was built on it keeps the work it had.
Accept(hash, prev, stamps, claimed) ==
    LET base == Hardened(blocks, prev, committee'[prev], stamps)
        hb == [base EXCEPT !.weight = claimed, !.cumulative = CumulativeAt(blocks, prev) + claimed]
        With(tree) == [h \in DOMAIN tree \cup {hash} |-> IF h = hash THEN hb ELSE tree[h]]
    IN /\ ~halted
       /\ prev \in DOMAIN blocks \cup {GenesisHash}
       /\ hash \in DOMAIN blocks => prev = blocks[hash].prev
       /\ Drawn(prev)
       /\ Checks(blocks, hb, committee'[prev])
       /\ blocks' = With(blocks) /\ Retip(With(blocks))
       /\ rows' = IF halted' THEN rows ELSE With(rows)
       /\ taken' = [h \in DOMAIN taken \cup {hash} |->
                       (IF h \in DOMAIN taken THEN taken[h] ELSE {})
                           \cup (IF h = hash THEN {stamps} ELSE {})]

\* The process starts again and reads its rows back, in height order, unchecked.
Restore ==
    /\ blocks' = rows /\ tipHash' = Heaviest(rows) /\ halted' = FALSE
    /\ blocks' # blocks \/ halted
    /\ taken' = [h \in DOMAIN rows |-> taken[h]]
    /\ UNCHANGED <<rows, committee>>

HistoryInit ==
    /\ blocks = <<>> /\ rows = <<>> /\ taken = <<>> /\ tipHash = GenesisHash /\ halted = FALSE
    /\ \E drawn \in Drawable({}) : committee = [h \in {GenesisHash} |-> drawn]

Retaken == {h \in DOMAIN taken : Cardinality(taken[h]) > 1}

HistoryNext ==
    \/ \E hash \in Hashes, prev \in DOMAIN blocks \cup {GenesisHash}, stamps \in Stampings :
          /\ hash \in DOMAIN taken => stamps \in taken[hash] \/ Cardinality(Retaken) < MaxRetaken
          /\ \E claimed \in {Cardinality(stamps), Cardinality(stamps) + 1} :
                Accept(hash, prev, stamps, claimed)
    \/ Restore

HistorySpec == HistoryInit /\ [][HistoryNext]_historyVars

\* ---- the client that weighs two answers ----

\* One page of a node's canonical chain, oldest first, each block checked.
Examined(tree, hash) ==
    LET chain == Reverse(Branch(tree, hash))
    IN SubSeq(chain, 1, IF Len(chain) < Page THEN Len(chain) ELSE Page)

Agree(tree, a, b) == Last(Examined(tree, a)) = Last(Examined(tree, b))

\* Most work, then height, then the highest hash.
Winner(tree, tips) ==
    CHOOSE h \in tips : \A g \in tips :
        \/ CumulativeAt(tree, g) < CumulativeAt(tree, h)
        \/ CumulativeAt(tree, g) = CumulativeAt(tree, h) /\ HeightAt(tree, g) < HeightAt(tree, h)
        \/ /\ CumulativeAt(tree, g) = CumulativeAt(tree, h)
           /\ HeightAt(tree, g) = HeightAt(tree, h) /\ g <= h

\* ---- properties ----

\* No turn is drawn twice on one branch, whatever branches there are and whoever built
\* them (history.py: "a branch that reuses a turn spent on its own history is invalid").
SpentOncePerBranch ==
    \A hash \in DOMAIN blocks :
        \A g, h \in ToSet(Branch(blocks, hash)) :
            g # h => blocks[g].drawn \cap blocks[h].drawn = {}

\* What the chain a node stands on is said to weigh is no more than the turns that were
\* burned on it, none of them twice, and block by block enough of those its own draw named,
\* whatever a peer claimed it weighs; and it is exactly that many unless a block of it was
\* taken again with other stamps.
BurnedOn(chain) == UNION {UNION taken[h] : h \in chain}
WeightWasBurned ==
    LET chain == ToSet(Branch(blocks, tipHash))
    IN /\ CumulativeAt(blocks, tipHash) <= Cardinality(BurnedOn(chain))
       /\ (\A h \in chain : taken[h] = {blocks[h].stamps}) =>
             CumulativeAt(blocks, tipHash) = Cardinality(BurnedOn(chain))
       /\ \A h \in chain : Cardinality(blocks[h].stamps \cap committee[blocks[h].prev]) >= Threshold

\* A chain is worth what it says: turns of its own, burned once.
HistoryIsEarned == SpentOncePerBranch /\ WeightWasBurned

\* "Fork choice compares cumulative weight" (hardening/history.py, restore), which is what
\* the blocks of the branch carry.
WeighsWhatItCarries ==
    LET chain == ToSet(Branch(blocks, tipHash))
    IN CumulativeAt(blocks, tipHash) = Cardinality(UNION {blocks[h].stamps : h \in chain})

\* A node never follows a branch it would have to undo more blocks to reach than it keeps
\* records for, and starting again does not take it there either.
ReorgsAreReversible ==
    [][ReorgDepth(blocks', tipHash, tipHash') <= ReorgLimit]_historyVars

\* "the deepest branch it can ever build is that many turns divided by the width.  Not a
\* probability - a bound" (hardening/draw.py, max_fork_depth): what one party stamped
\* alone, at the end of any branch, is no longer than that.
StampedAlone(hash) ==
    LET newest == Branch(blocks, hash)
    IN Max({n \in 0..Len(newest) : \A i \in 1..n : blocks[newest[i]].stamps \subseteq Held})
CeilingIsABound == \A hash \in DOMAIN blocks : StampedAlone(hash) <= Ceiling(Held)

\* "Fetch a node's hardened chain and check every block of it" (client/adjudicate.py,
\* examine): two nodes on two tips are told apart.
RivalsAreToldApart ==
    \A a, b \in DOMAIN blocks : Agree(blocks, a, b) => a = b \/ a \in Ancestors(blocks, b)
                                                     \/ b \in Ancestors(blocks, a)

\* Between two nodes whose chains it weighs, a client picks the one every node would.
ClientsChooseAsNodesDo ==
    \A a, b \in DOMAIN blocks :
        LET both == (Ancestors(blocks, a) \cup Ancestors(blocks, b)) \ {GenesisHash}
        IN Winner(blocks, {a, b}) = Heaviest([h \in both |-> blocks[h]])
====
