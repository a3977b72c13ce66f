---- MODULE Stamping ----
(* How an agreed block becomes hardened history (the hardening half of net/node.py,
   hardening/stamp.py, and the stamping side of history.py and store/db.py).  The nodes
   agree one chain of blocks, each holds a share of the turns, and a block enters history
   at a node when that node has collected Threshold stamps from the turns drawn for it.
   A stamp is its turn, and a pool keeps one stamp a turn, the first that came. *)
EXTENDS Draw, Sequences, SequencesExt

CONSTANTS
    Seats,           \* nodes that stamp
    OwnerOf,         \* turn -> the seat that holds its key
    MaxHeight, MaxMishaps, MaxRubbish   \* bounds

ASSUME HeightsAreBounded == MaxHeight \in Nat

VARIABLES
    draws,           \* height -> the turns drawn for it: a function of the chain
    stamper,         \* seat -> [height, pending, stamped, pool, wrong, history]: wrong, the
                     \* pooled turns whose stamp is of the block under another height
    stamps,          \* broadcasts on their way: [to, height, turns]
    signed,          \* turn -> heights whose anchor it has signed
    mishaps, rubbish \* broadcasts lost, restarts, adoptions; stray stamps: bounds

stampingVars == <<draws, stamper, stamps, signed, mishaps, rubbish>>

Heights == 1..MaxHeight

\* ---- the draw ----

ConsumedByTheLast(d, height) == UNION {d[h] : h \in (1..(height - 1)) \cap {height - 1}}
\* Consumed by the blocks before, stamped or not.
ConsumedBefore(d, height) == UNION {d[h] : h \in 1..(height - 1)}

Schedules == {d \in [Heights -> UNION {Drawable({}), {Exhausted}}] :
                \A h \in Heights : d[h] \in Drawable(ConsumedBefore(d, h))}

\* ---- one node ----

\* The first height that is not history yet.
NextHeight(node) == Len(node.history) + 1

PooledWhole(pooled, drawn) == pooled
\* assemble: what was not drawn is dropped, not refused.
Assembled(pooled, drawn) == pooled \cap drawn

PoisonedByStrays(pooled, wrong, drawn) ==
    Cardinality(pooled) >= Threshold /\ pooled \subseteq drawn /\ wrong = {}
\* _try_harden and check: enough in the pool, enough of it drawn, and all of that of this
\* block at this height: a stamp that is not is refused with the rest of the set.
CanHarden(pooled, wrong, drawn) ==
    /\ drawn # Exhausted
    /\ Cardinality(pooled) >= Threshold
    /\ Cardinality(Assembled(pooled, drawn)) >= Threshold
    /\ Assembled(wrong, drawn) = {}

\* The turns of its own that answer, the first time it comes to this height.
Mined(node, seat, height) ==
    IF height \in node.stamped THEN {} ELSE {t \in draws[height] : OwnerOf[t] = seat}

Pooled(node, seat, height) == node.pool[height] \cup Mined(node, seat, height)

\* The heights from the next one on that harden, each once the one before has: strictly
\* in order, as far as the stamps allow.
Hardens(node, seat) ==
    {h \in node.pending : \A g \in NextHeight(node)..h :
        g \in node.pending /\ CanHarden(Pooled(node, seat, g), node.wrong[g], draws[g])}
        \cap {h \in Heights : h >= NextHeight(node)}

\* What is stamped on the way, for those who have not.
Answers(node, seat, visited) ==
    {[height |-> h, turns |-> Mined(node, seat, h)] : h \in visited} \ [height : visited, turns : {{}}]
ToEach(others, sent) ==
    {[to |-> to, height |-> m.height, turns |-> m.turns] : to \in others, m \in sent}

Advanced(node, seat, hardens, visited) ==
    [node EXCEPT
        !.pending = @ \ hardens, !.stamped = @ \cup visited,
        !.pool = [h \in Heights |-> IF h \in visited THEN Pooled(node, seat, h) ELSE @[h]],
        !.history = @ \o [i \in 1..Cardinality(hardens) |->
            Assembled(Pooled(node, seat, Len(@) + i), draws[Len(@) + i])]]

\* _advance_hardening: those become history, and the one after is mined for.
AdvanceHardening(node, seat, onTheWay) ==
    \E hardens \in {Hardens(node, seat)} :
    \E visited \in {hardens \cup (node.pending \cap {NextHeight(node) + Cardinality(hardens)})} :
    \E sent \in {Answers(node, seat, visited)} :
        /\ stamper' = [stamper EXCEPT ![seat] = Advanced(node, seat, hardens, visited)]
        /\ stamps' = onTheWay \cup ToEach(Seats \ {seat}, sent)
        /\ signed' = [t \in Turns |-> signed[t] \cup {m.height : m \in {s \in sent : t \in s.turns}}]

\* ---- steps ----

\* _stamp: a block this node has just applied, in its epoch or by catching up.
Stamp(seat) ==
    LET height == stamper[seat].height + 1
    IN /\ height \in Heights
       /\ AdvanceHardening([stamper[seat] EXCEPT !.height = height, !.pending = @ \cup {height}],
                           seat, stamps)
       /\ UNCHANGED <<draws, mishaps, rubbish>>

\* _absorb_stamps, whether or not this node has the block yet.
AbsorbStamps(m) ==
    /\ AdvanceHardening([stamper[m.to] EXCEPT !.pool[m.height] = @ \cup m.turns], m.to, stamps \ {m})
    /\ UNCHANGED <<draws, mishaps, rubbish>>

\* A stamp that verifies, under the height its sender gives: of a turn that was not drawn
\* for the block or, if its owner signed the block under another height, of one that was.
AbsorbStray(seat, height, turn) ==
    /\ rubbish < MaxRubbish /\ rubbish' = rubbish + 1
    /\ turn \notin stamper[seat].pool[height] /\ OwnerOf[turn] # seat
    /\ AdvanceHardening([stamper[seat] EXCEPT !.pool[height] = @ \cup {turn},
                                              !.wrong[height] = @ \cup ({turn} \cap draws[height])],
                        seat, stamps)
    /\ UNCHANGED <<draws, mishaps>>

Mishap == mishaps < MaxMishaps /\ mishaps' = mishaps + 1

\* Not sent again.
LoseStamps(m) == Mishap /\ stamps' = stamps \ {m} /\ UNCHANGED <<draws, stamper, signed, rubbish>>

Unstamped(height, history) ==
    [height |-> height, pending |-> {}, stamped |-> {}, pool |-> [h \in Heights |-> {}],
     wrong |-> [h \in Heights |-> {}], history |-> history]

\* The chain and the hardened rows are durable; what awaits hardening is not.
RestartStamper(seat) ==
    /\ Mishap
    /\ stamper' = [stamper EXCEPT ![seat] = Unstamped(@.height, @.history)]
    /\ stamps' = {m \in stamps : m.to # seat}
    /\ UNCHANGED <<draws, signed, rubbish>>

\* A snapshot replaces chain and hardened rows; what was pending stays pending.
AdoptChain(seat, height) ==
    /\ Mishap
    /\ height > stamper[seat].height /\ \E other \in Seats : stamper[other].height >= height
    /\ stamper' = [stamper EXCEPT ![seat].height = height, ![seat].history = <<>>]
    /\ UNCHANGED <<draws, stamps, signed, rubbish>>

StampingInit ==
    /\ draws \in Schedules
    /\ stamper = [seat \in Seats |-> Unstamped(0, <<>>)]
    /\ stamps = {} /\ signed = [t \in Turns |-> {}]
    /\ mishaps = 0 /\ rubbish = 0

StampingNext ==
    \/ \E seat \in Seats : Stamp(seat)
    \/ \E m \in stamps : AbsorbStamps(m) \/ LoseStamps(m)
    \/ \E seat \in Seats, height \in Heights, turn \in Turns : AbsorbStray(seat, height, turn)
    \/ \E seat \in Seats : RestartStamper(seat)
    \/ \E seat \in Seats, height \in Heights : AdoptChain(seat, height)

\* Blocks go on being applied, and inboxes are drained.
StampingFairness ==
    /\ \A seat \in Seats : WF_stampingVars(Stamp(seat))
    /\ \A seat \in Seats, height \in Heights :
          WF_stampingVars(\E m \in {s \in stamps : s.to = seat /\ s.height = height} : AbsorbStamps(m))

StampingSpec == StampingInit /\ [][StampingNext]_stampingVars /\ StampingFairness

\* ---- properties ----

\* What is history at a node was witnessed: enough of the turns the draw named for that
\* block, no other, and each of them signed this block.
HardenedIsWitnessed ==
    \A seat \in Seats : \A h \in DOMAIN stamper[seat].history :
        LET kept == stamper[seat].history[h]
        IN /\ kept \subseteq draws[h] /\ Cardinality(kept) >= Threshold
           /\ \A t \in kept : h \in signed[t]

\* No turn signs two blocks, which would give its key away: not over a restart, an
\* adopted chain or a stamp that arrives before its block.
NoTurnSignsTwice == \A t \in Turns : Cardinality(signed[t]) <= 1

\* A stamp means one block, and history means enough of them.
StampsAreWitness == HardenedIsWitnessed /\ NoTurnSignsTwice

\* While nothing is lost every agreed block the pool still has turns for is history
\* everywhere in the end, whatever stray stamps of other turns were sent with the good
\* ones; or a stamp under another height keeps a node from its next block, and the others
\* come at least as far, and past it while they have what they need.
Hardenable == Cardinality({h \in Heights : draws[h] # Exhausted})
Spoiled(node) == NextHeight(node) \in Heights /\ node.wrong[NextHeight(node)] # {}
KeptBack(seat) ==
    \/ Spoiled(stamper[seat])
    \/ \E other \in Seats : /\ Spoiled(stamper[other])
                           /\ NextHeight(stamper[other]) < NextHeight(stamper[seat])
AgreedIsHardened ==
    [](mishaps = 0) =>
        <>(\A seat \in Seats : Len(stamper[seat].history) = Hardenable \/ KeptBack(seat))

\* "a peer sending rubbish should cost the block nothing" (hardening/history.py, assemble).
RubbishCostsNothing ==
    [](mishaps = 0) => <>(\A seat \in Seats : Len(stamper[seat].history) = Hardenable)
====
