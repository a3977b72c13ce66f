---- MODULE CatchUp ----
(* How a node that fell behind comes back (net/catchup.py, store/snapshot.py and the
   catch-up half of net/node.py).  One node is behind; the others, its helpers, agree
   blocks without it.  Messages of a connection arrive in order; a connection that is
   lost loses what was on it.  A body is [height, view, cert, sound]; a part of a
   snapshot is the height it was exported at, since every height changes every part. *)
EXTENDS Selection, SequencesExt, FiniteSetsExt

CONSTANTS
    Helpers, Views,
    Window,          \* BODY_WINDOW
    Batch,           \* BATCH
    Parts,           \* chunks of a snapshot, in the order they are asked for
    AtOnce,          \* chunks asked for at once
    MaxTip, MaxFaults, MaxOnWire   \* bounds

ASSUME CatchUpAssumption ==
    /\ {Window, Batch, AtOnce, MaxTip, MaxFaults, MaxOnWire} \subseteq Nat
    /\ Parts \in Seq(ToSet(Parts))

VARIABLES
    tip,             \* height the network has agreed
    helper,          \* helper -> [order, byHeight, offered]
    node,            \* [height, parts, target, blocks, asked, inbound, adopted]
    toHelper, toNode,   \* helper -> sequence of messages
    faults           \* connections lost, restarts, unsound answers: bound

catchUpVars == <<tip, helper, node, toHelper, toNode, faults>>

NoOffer == [from |-> "none"]
NoBody == [height |-> 0]
Bigger(a, b) == IF a > b THEN a ELSE b
Smaller(a, b) == IF a < b THEN a ELSE b

\* A state is the height each part of it is of.
StateAt(height) == [p \in ToSet(Parts) |-> height]

Body(height, view, cert) == [height |-> height, view |-> view, cert |-> cert, sound |-> TRUE]
SameHash(b, c) == b.height = c.height /\ b.view = c.view

\* ---- the bodies a helper keeps (BodyCache) ----

Reindexed(byHeight, gone) ==
    [h \in {g \in DOMAIN byHeight : ~\E b \in gone : SameHash(byHeight[g], b)} |-> byHeight[h]]

\* Oldest first, by insertion.
EvictBodies(cache) ==
    LET over == Bigger(Len(cache.order) - Window, 0)
    IN [cache EXCEPT !.order = SubSeq(@, over + 1, Len(@)),
                     !.byHeight = Reindexed(@, ToSet(SubSeq(cache.order, 1, over)))]

PutBareOver(cache, body) ==
    EvictBodies([cache EXCEPT
        !.order = IF \E i \in DOMAIN @ : SameHash(@[i], body)
                  THEN [i \in DOMAIN @ |-> IF SameHash(@[i], body) THEN body ELSE @[i]]
                  ELSE Append(@, body),
        !.byHeight = [h \in DOMAIN @ \cup {body.height} |-> IF h = body.height THEN body ELSE @[h]]])
\* A bare copy of a body that is held is not taken.
PutBody(cache, body) ==
    IF ~body.cert /\ \E i \in DOMAIN cache.order : SameHash(cache.order[i], body)
    THEN cache ELSE PutBareOver(cache, body)

At(cache, height) ==
    IF height \notin DOMAIN cache.byHeight THEN NoBody
    ELSE CHOOSE b \in ToSet(cache.order) : SameHash(b, cache.byHeight[height])

\* BodyCache.range: certified ones only, and as many as one answer carries.
RangeOf(cache, start, end) ==
    LET held == {g \in start..end : At(cache, g) # NoBody /\ At(cache, g).cert}
    IN [k \in 1..Smaller(Batch, Cardinality(held)) |-> At(cache, Nth(held, k))]

\* ---- the buffer of the node (Catchup) ----

Behind(n) == Bigger(0, n.target - n.height)

\* <<from, to>>, or <<>> when nothing is worth asking for.
Wanted(n) ==
    LET end == Smaller(n.target, n.height + Batch)
        lacking == {h \in (n.height + 1)..end : h \notin DOMAIN n.blocks}
    IN IF Behind(n) = 0 \/ lacking = {} THEN <<>> ELSE <<Min(lacking), end>>

AbsorbBlocks(n, bodies) ==
    LET fresh == {b.height : b \in ToSet(bodies)} \ DOMAIN n.blocks
        first(h) == bodies[Min({i \in DOMAIN bodies : bodies[i].height = h})]
    IN [n EXCEPT !.blocks = [h \in DOMAIN @ \cup fresh |-> IF h \in fresh THEN first(h) ELSE @[h]],
                 !.target = Max({@} \cup fresh)]

KeepAll(held, gone) == held
Without(held, gone) == [h \in DOMAIN held \ gone |-> held[h]]
ForgetUpTo(n, height) == [n EXCEPT !.blocks = Without(@, {h \in DOMAIN @ : h <= height})]

\* An adopted state comes without the spine of the blocks before it, and so does what a
\* restart rebuilds from the rows the adoption left.  The header of every block after it
\* commits to a spine, so none is valid here.
HasSpine(n) == ~n.adopted

\* _apply_caught_up: certified by this grid's seats, and valid on the tip it comes onto.
Applies(n, body) == HasSpine(n) /\ body.cert /\ body.sound

\* Catchup.advance with a budget for so many blocks: in order, up to the first that is
\* missing or does not apply, and that one is dropped.
Advance(n, budget) ==
    LET runs == {k \in 0..Smaller(budget, Batch) :
                   \A i \in 1..k : /\ n.height + i \in DOMAIN n.blocks
                                   /\ Applies(n, n.blocks[n.height + i])}
        done == Max(runs)
        next == n.height + done + 1
        refused == done < Smaller(budget, Batch) /\ next \in DOMAIN n.blocks
    IN ForgetUpTo([n EXCEPT !.height = @ + done,
                            !.parts = IF done = 0 THEN @ ELSE StateAt(n.height + done),
                            !.blocks = Without(@, IF refused THEN {next} ELSE {})],
                  n.height + done)

\* ---- messages: a question that is still on its way is not asked again ----

NotOnItsWay(ask, queue) == Lacking(ask, ToSet(queue))
Asks(ask) ==
    toHelper' = [h \in Helpers |-> toHelper[h] \o NotOnItsWay(ask, toHelper[h])]
Answered(h, messages) ==
    /\ Len(toNode[h]) + Len(messages) <= MaxOnWire
    /\ toHelper' = [toHelper EXCEPT ![h] = Tail(@)]
    /\ toNode' = [toNode EXCEPT ![h] = @ \o messages]

\* ---- the network agrees ----

\* The network agrees a block, and with it the node if it was level and finds it valid.
AgreeBlock(view, present) ==
    /\ tip < MaxTip /\ tip' = tip + 1
    /\ helper' = [h \in Helpers |-> PutBody(helper[h], Body(tip + 1, view, TRUE))]
    /\ present => node.height = tip /\ HasSpine(node)
    /\ node' = IF present THEN [node EXCEPT !.height = tip + 1, !.parts = StateAt(tip + 1)] ELSE node
    /\ UNCHANGED <<toHelper, toNode, faults>>

\* A proposal's body reaches a helper, while its height is being agreed or in what is
\* left of the epoch after.
OfferBody(h, view) ==
    /\ \E height \in {tip, tip + 1} :
          /\ height \in 1..MaxTip
          /\ helper' = [helper EXCEPT ![h] = PutBody(@, Body(height, view, FALSE))]
    /\ helper' # helper
    /\ UNCHANGED <<tip, node, toHelper, toNode, faults>>

\* ---- a helper answers ----

Waiting(h, kind) == toHelper[h] # <<>> /\ Head(toHelper[h]).kind = kind

ServeBlocks(h) ==
    /\ Waiting(h, "getblocks")
    /\ LET asked == Head(toHelper[h])
       IN \E bodies \in {RangeOf(helper[h], asked.from, Smaller(asked.to, asked.from + Batch - 1))} :
          \/ /\ Answered(h, IF bodies = <<>> THEN <<>> ELSE <<[kind |-> "blocks", bodies |-> bodies]>>)
             /\ UNCHANGED faults
          \* one whose certificate does not hold here
          \/ /\ bodies # <<>> /\ faults < MaxFaults
             /\ Answered(h, <<[kind |-> "blocks", bodies |-> [bodies EXCEPT ![1].sound = FALSE]]>>)
             /\ faults' = faults + 1
    /\ UNCHANGED <<tip, helper, node>>

ServeSnapshot(h) ==
    /\ Waiting(h, "getsnapshot")
    /\ Answered(h, <<[kind |-> "snapshot", height |-> tip]>>)
    /\ helper' = [helper EXCEPT ![h].offered = tip]
    /\ UNCHANGED <<tip, node, faults>>

\* The file is of the height the helper is at now.
ServeChunk(h) ==
    /\ Waiting(h, "getchunk")
    /\ Answered(h, <<[kind |-> "chunk", part |-> Head(toHelper[h]).part, payload |-> tip]>>)
    /\ UNCHANGED <<tip, helper, node, faults>>

\* ---- the node ----

\* At the end of an epoch it was not part of, the height of the leader's proposal: the
\* tip if it was agreed, one more if it was not.
NoteHeight(height) ==
    /\ node.height < tip /\ node.target < height
    /\ node' = [node EXCEPT !.target = height]
    /\ UNCHANGED <<tip, helper, toHelper, toNode, faults>>

\* A new epoch: a snapshot may be asked for again.  An epoch outlasts a transfer.
Transferring ==
    \E h \in Helpers : \E m \in ToSet(toHelper[h] \o toNode[h]) :
        m.kind \in {"getsnapshot", "snapshot", "getchunk", "chunk"}
NewEpoch ==
    /\ node.asked /\ ~Transferring
    /\ node' = [node EXCEPT !.asked = FALSE]
    /\ UNCHANGED <<tip, helper, toHelper, toNode, faults>>

\* _catch_up, with a budget for so many blocks: ask for state when blocks cannot reach,
\* apply what is there, ask for what is not.
CatchUpStep(budget) ==
    LET state == Behind(node) > Window /\ ~node.asked
    IN /\ Behind(node) > 0
       /\ \E moved \in {Advance([node EXCEPT !.asked = @ \/ state], budget)} :
             /\ node' = moved
             /\ \E want \in {Wanted(moved)} :
                   Asks((IF state THEN <<[kind |-> "getsnapshot"]>> ELSE <<>>)
                        \o (IF want = <<>> THEN <<>>
                            ELSE <<[kind |-> "getblocks", from |-> want[1], to |-> want[2]]>>))
       /\ UNCHANGED <<tip, helper, toNode, faults>>

Arrived(h, kind) == toNode[h] # <<>> /\ Head(toNode[h]).kind = kind
Took(h) == toNode' = [toNode EXCEPT ![h] = Tail(@)]

TakeBlocks(h) ==
    /\ Arrived(h, "blocks") /\ Took(h)
    /\ node' = AbsorbBlocks(node, Head(toNode[h]).bodies)
    /\ UNCHANGED <<tip, helper, toHelper, faults>>

\* The next few parts that are missing.
AskForChunks(inbound, queue) ==
    LET missing == Lacking(Parts, DOMAIN inbound.chunks)
        few == SubSeq(missing, 1, Smaller(AtOnce, Len(missing)))
    IN NotOnItsWay([i \in DOMAIN few |-> [kind |-> "getchunk", part |-> few[i]]], queue)

\* An offer of something higher whose certificate holds replaces any other.
BeginSnapshot(h) ==
    LET offer == [from |-> h, height |-> Head(toNode[h]).height, chunks |-> <<>>]
        ask == AskForChunks(offer, toHelper[h])
    IN /\ Arrived(h, "snapshot") /\ Took(h)
       /\ IF offer.height <= node.height THEN UNCHANGED <<node, toHelper>>
          ELSE /\ node' = [node EXCEPT !.inbound = offer]
               /\ toHelper' = [toHelper EXCEPT ![h] = @ \o ask]
       /\ UNCHANGED <<tip, helper, faults>>

FoldsUnchecked(inbound) == TRUE
\* write_parts and load: every part as the manifest says, and the header's roots.
Folds(inbound) == \A p \in DOMAIN inbound.chunks : inbound.chunks[p] = inbound.height

\* _finish_snapshot and _adopt_snapshot.
Finish(n, inbound) ==
    IF ~Folds(inbound) \/ inbound.height <= n.height THEN [n EXCEPT !.inbound = NoOffer]
    ELSE ForgetUpTo([n EXCEPT !.inbound = NoOffer, !.height = inbound.height,
                              !.parts = inbound.chunks, !.adopted = TRUE], inbound.height)

TakeChunk(h) ==
    /\ Arrived(h, "chunk") /\ Took(h)
    /\ LET chunk == Head(toNode[h])
           in == node.inbound
           chunks == [p \in DOMAIN in.chunks \cup {chunk.part} |->
                        IF p = chunk.part THEN chunk.payload ELSE in.chunks[p]]
           now == [in EXCEPT !.chunks = chunks]
           ask == AskForChunks(now, toHelper[h])
       IN IF in = NoOffer \/ in.from # h THEN UNCHANGED <<node, toHelper>>
          ELSE IF DOMAIN chunks # ToSet(Parts)
          THEN /\ node' = [node EXCEPT !.inbound = now]
               /\ toHelper' = [toHelper EXCEPT ![h] = @ \o ask]
          ELSE node' = Finish(node, now) /\ UNCHANGED toHelper
    /\ UNCHANGED <<tip, helper, faults>>

\* ---- what goes wrong ----

LoseConnection(h) ==
    /\ faults < MaxFaults /\ (toNode[h] # <<>> \/ toHelper[h] # <<>>)
    /\ faults' = faults + 1
    /\ toNode' = [toNode EXCEPT ![h] = <<>>] /\ toHelper' = [toHelper EXCEPT ![h] = <<>>]
    /\ UNCHANGED <<tip, helper, node>>

\* Everything but the chain was memory.
Fresh(height, parts, adopted) ==
    [height |-> height, parts |-> parts, adopted |-> adopted, target |-> 0,
     blocks |-> <<>>, asked |-> FALSE, inbound |-> NoOffer]
Restart ==
    /\ faults < MaxFaults
    /\ faults' = faults + 1
    /\ node' = Fresh(node.height, node.parts, node.adopted)
    /\ toNode' = [h \in Helpers |-> <<>>] /\ toHelper' = [h \in Helpers |-> <<>>]
    /\ UNCHANGED <<tip, helper>>

CatchUpInit ==
    /\ tip = 0 /\ node = Fresh(0, StateAt(0), FALSE)
    /\ helper = [h \in Helpers |-> [order |-> <<>>, byHeight |-> <<>>, offered |-> 0]]
    /\ toHelper = [h \in Helpers |-> <<>>] /\ toNode = [h \in Helpers |-> <<>>]
    /\ faults = 0

CatchUpNext ==
    \/ \E view \in Views, present \in BOOLEAN : AgreeBlock(view, present)
    \/ \E h \in Helpers, view \in Views : OfferBody(h, view)
    \/ \E h \in Helpers : ServeBlocks(h) \/ ServeSnapshot(h) \/ ServeChunk(h)
    \/ NoteHeight(tip) \/ NoteHeight(tip + 1)
    \/ NewEpoch
    \/ \E budget \in 0..Batch : CatchUpStep(budget)
    \/ \E h \in Helpers : TakeBlocks(h) \/ BeginSnapshot(h) \/ TakeChunk(h)
    \/ \E h \in Helpers : LoseConnection(h)
    \/ Restart

\* Every loop of the code runs: the helpers drain their inboxes, the node its own, an
\* epoch ends and the next has budget for a block, and leaders go on signing headers.
CatchUpFairness ==
    /\ \A h \in Helpers : /\ WF_catchUpVars(ServeBlocks(h) \/ ServeSnapshot(h) \/ ServeChunk(h))
                          /\ WF_catchUpVars(TakeBlocks(h) \/ BeginSnapshot(h) \/ TakeChunk(h))
    /\ WF_catchUpVars(NoteHeight(tip)) /\ WF_catchUpVars(NewEpoch)
    /\ WF_catchUpVars(\E budget \in 1..Batch : CatchUpStep(budget))

CatchUpSpec == CatchUpInit /\ [][CatchUpNext]_catchUpVars /\ CatchUpFairness

\* ---- properties ----

\* Whatever it was sent, in whatever order, over however many connections, the node
\* holds the state one agreed header commits to, and never one ahead of the network.
HoldsOneState ==
    /\ node.height <= tip
    /\ \A p \in ToSet(Parts) : node.parts[p] = node.height

\* "exactly how far behind a node may fall and still be helped by a peer"
\* (net/catchup.py, BODY_WINDOW): the last heights agreed can be asked of anybody.
Serves(h, height) == DOMAIN RangeOf(helper[h], height, height) # {}
HelpWithinTheWindow ==
    \A h \in Helpers, height \in 1..tip : tip - height < Window => Serves(h, height)

\* "One range of the snapshot this node last offered" (net/node.py, _serve_chunk).
ChunksAreOfTheOffer ==
    \A h \in Helpers : \A i \in DOMAIN toNode[h] :
        toNode[h][i].kind = "chunk" =>
            \/ toNode[h][i].payload = helper[h].offered
            \/ \E j \in 1..i : toNode[h][j].kind = "snapshot"

\* A node that fell behind comes back, by bodies or by state, through lost connections,
\* restarts and answers that do not hold, unless it is too near to ask for state, and a
\* body it needs is gone or it stands on an adopted state, where no body applies.
OutOfReach ==
    /\ tip - node.height <= Window
    /\ \/ ~HasSpine(node)
       \/ \E height \in (node.height + 1)..tip : \A h \in Helpers : ~Serves(h, height)
BackToTheTip == []<>(node.height = tip \/ OutOfReach)

\* "Catching up happens by itself: blocks by range while the body window covers the gap,
\* then a state snapshot" (docs/deployment_guide.md): of a node that adopted one as well.
AdoptedGoOn ==
    []<>(\/ node.height = tip
         \/ \E height \in (node.height + 1)..tip : \A h \in Helpers : ~Serves(h, height))
====
