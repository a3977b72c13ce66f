---- MODULE Wallet ----
(* A wallet, the light client beside it and the node they read (wallet/store.py,
   client/rpc.py, client/light.py, answer in chain/net/node.py).  A request is
   answered on its connection's own thread while a block is being applied on
   another: the world moves first, the database the answer is read from after.
   A note is known by when it was made. *)
EXTENDS Integers, Sequences, FiniteSets, SequencesExt, Selection

CONSTANTS
    Grids,           \* partitions
    Addresses,       \* diversifiers watched
    Currencies,      \* assets of notes
    NoteLimit,       \* 2^range_bits: no note is worth as much
    Incoming,        \* notes others may pay: [value, part, to, asset], to an address or Other
    Amounts, Fee, MaxInputs,
    PageLimits,      \* rows to a page
    MaxHeight, MaxUndo   \* bounds

Other == -1
Unspent == -1

\* A fee or an amount may be nothing, a payment may not (Wallet.send): there would be
\* no input to take the change's address from.
ASSUME WalletAssumption ==
    /\ Grids \subseteq Nat /\ PageLimits \subseteq Nat
    /\ Fee \in Nat /\ MaxInputs \in Nat /\ MaxHeight \in Nat
    /\ Amounts \subseteq Nat /\ \A a \in Amounts : a + Fee > 0
    /\ NoteLimit \in Nat
    /\ Incoming \subseteq [value : 0..(NoteLimit - 1), part : Grids,
                          to : Addresses \cup {Other}, asset : Currencies]

VARIABLES
    notes,           \* every note there has been, in order
    blocks,          \* blocks[h + 1]: [made, gone] at height h, two sequences of positions
    committed,       \* height the database is at; the world may be one block ahead
    wallet,          \* [held: position -> height it was spent at, scanned, sent]
    light,           \* [trusted: blocks trusted so far, scanned, outs, nfs]
    page,            \* a scan under way
    undone           \* bound

walletVars == <<notes, blocks, committed, wallet, light, page, undone>>

World == Len(blocks) - 1

\* ---- what the chain holds ----

\* <<height, what, position>>, those of the first h blocks of a chain: positions are
\* issued in order and never reused.
ChainRows(chain, field) ==
    LET rows[h \in 0..Len(chain)] ==
            IF h = 0 THEN <<>>
            ELSE LET below == rows[h - 1]
                 IN below \o [i \in DOMAIN chain[h][field] |->
                                <<h - 1, chain[h][field][i], Len(below) + i>>]
    IN rows
AllRows(chain, field) == ChainRows(chain, field)[Len(chain)]
Among(rows, from, to) == Selected(rows, {i \in DOMAIN rows : from <= rows[i][1] /\ rows[i][1] <= to})
RowsBetween(field, from, to) == Among(AllRows(blocks, field), from, to)
Lesser(a, b) == IF a < b THEN a ELSE b

Whole(rows, cut) == Selected(rows, {i \in DOMAIN rows : rows[i][1] <= cut})

\* _cut_on_height: whole heights until the page is full, the first one in any case.
CutOnHeight(outs, nfs, limit) ==
    IF Len(outs) <= limit /\ Len(nfs) <= limit THEN [outs |-> outs, nfs |-> nfs, next |-> -1]
    ELSE LET heights == {r[1] : r \in ToSet(outs \o nfs)}
             first == CHOOSE h \in heights : \A g \in heights : h <= g
             fits(h) == Len(Whole(outs, h)) <= limit /\ Len(Whole(nfs, h)) <= limit
             taken == {h \in heights : \A g \in heights : g <= h => fits(g) \/ g = first}
             cut == CHOOSE h \in taken : \A g \in taken : g <= h
         IN [outs |-> Whole(outs, cut), nfs |-> Whole(nfs, cut), next |-> cut + 1]

\* ---- the wallet ----

Held == DOMAIN wallet.held
Mine(n) == notes[n].to \in Addresses
UnspentNotes == {n \in Held : wallet.held[n] = Unspent}
Sum(S) ==
    LET total[n \in 0..Len(notes)] ==
            IF n = 0 THEN 0 ELSE total[n - 1] + (IF n \in S THEN notes[n].value ELSE 0)
    IN total[Len(notes)]
AnyPool(part) == UnspentNotes
Pool(part) == {n \in UnspentNotes : notes[n].part = part}

\* Greatest value first, so that few are needed.
Sooner(S) == {p \in S \X S : \/ notes[p[1]].value > notes[p[2]].value
                             \/ notes[p[1]].value = notes[p[2]].value /\ p[1] < p[2]}
Descending(S) ==
    [k \in 1..Cardinality(S) |->
        CHOOSE n \in S : Cardinality({m \in S : <<m, n>> \in Sooner(S)}) = k - 1]
Ascending(S) == Reverse(Descending(S))
SpendingOrder(S) == Descending(S)

\* As many as it takes, from the front.
Cover(part, amount) ==
    LET order == SpendingOrder(Pool(part))
        enough == {k \in 0..Len(order) : Sum(ToSet(SubSeq(order, 1, k))) >= amount}
    IN IF enough = {} THEN <<>>
       ELSE SubSeq(order, 1, CHOOSE k \in enough : \A j \in enough : k <= j)

\* Fewest inputs, then the smaller total, then the lower partition; <<>> if no one
\* partition covers it.
Select(amount) ==
    LET covers == [g \in Grids |-> Cover(g, amount)]
        totals == [g \in Grids |-> Sum(ToSet(covers[g]))]
        able == {g \in Grids : Len(covers[g]) \in 1..MaxInputs}
        before(a, b) == \/ Len(covers[a]) < Len(covers[b])
                        \/ Len(covers[a]) = Len(covers[b]) /\ totals[a] < totals[b]
                        \/ Len(covers[a]) = Len(covers[b]) /\ totals[a] = totals[b] /\ a <= b
    IN IF able = {} THEN <<>>
       ELSE covers[CHOOSE g \in able : \A other \in able : before(g, other)]

ScanRows(w, rows) ==
    LET found == {r[2] : r \in {s \in ToSet(rows) : notes[s[2]].to \in Addresses}} \ DOMAIN w.held
        top == {r[1] : r \in ToSet(rows)} \cup {w.scanned}
    IN [w EXCEPT !.held = [n \in DOMAIN @ \cup found |-> IF n \in found THEN Unspent ELSE @[n]],
                 !.scanned = CHOOSE h \in top : \A g \in top : g <= h]

ReconcileRows(w, rows, height) ==
    LET gone == {r[2] : r \in ToSet(rows)}
    IN [w EXCEPT !.held = [n \in DOMAIN @ |-> IF (n \in gone /\ @[n] = Unspent) THEN height ELSE @[n]]]

\* ---- the node ----

Created(ns) == [i \in DOMAIN ns |-> Len(notes) + i]

\* The world takes a block and the database has yet to.
Apply(gone, made) ==
    /\ World = committed /\ World < MaxHeight
    /\ notes' = notes \o made
    /\ blocks' = Append(blocks, [made |-> Created(made), gone |-> gone])
    /\ UNCHANGED <<committed, light, page, undone>>

ReceivePayment(note) == Apply(<<>>, <<note>>) /\ UNCHANGED wallet

OnChain(field) == UNION {ToSet(blocks[h][field]) : h \in DOMAIN blocks}

\* What the wallet sent, if its inputs are still there.
Include(tx) ==
    /\ ToSet(tx.ins) \subseteq OnChain("made") \ OnChain("gone")
    /\ Apply(tx.ins, tx.outs)
    /\ wallet' = [wallet EXCEPT !.sent = @ \ {tx}]

\* It waits in mempools until it is forgotten.
Forget(tx) ==
    /\ wallet' = [wallet EXCEPT !.sent = @ \ {tx}]
    /\ UNCHANGED <<notes, blocks, committed, light, page, undone>>

Commit ==
    /\ committed < World /\ committed' = World
    /\ UNCHANGED <<notes, blocks, wallet, light, page, undone>>

\* The tip is taken back for another block of its height (a re-tip).
Undo ==
    /\ committed = World /\ World > 0 /\ undone < MaxUndo
    /\ undone' = undone + 1 /\ committed' = committed - 1
    /\ blocks' = Front(blocks)
    /\ UNCHANGED <<notes, wallet, light, page>>

\* ---- paying ----

Change(part, value, to, asset) == [value |-> value, part |-> part, to |-> to, asset |-> asset]

\* The payment and change, aimed back at the partition and address it came from.
Payment(chosen, amount, theirPart) ==
    LET from == notes[chosen[1]]
    IN [ins |-> chosen,
        outs |-> <<Change(theirPart, amount, Other, from.asset),
                   Change(from.part, Sum(ToSet(chosen)) - amount - Fee, from.to, from.asset)>>]

OneAsset(S) == \A m, n \in S : notes[m].asset = notes[n].asset
\* A transaction spends one asset at a time, and build_transaction takes no note out of
\* range.
Builds(tx) ==
    OneAsset(ToSet(tx.ins)) /\ \A i \in DOMAIN tx.outs : tx.outs[i].value < NoteLimit

Sends(tx) ==
    /\ Builds(tx)
    /\ wallet' = [wallet EXCEPT !.sent = {tx}]
    /\ UNCHANGED <<notes, blocks, committed, light, page, undone>>

Send(amount, theirPart) ==
    LET chosen == Select(amount + Fee)
    IN chosen # <<>> /\ Sends(Payment(chosen, amount, theirPart))

Consolidate(part) ==
    LET order == Descending(Pool(part))
        chosen == SubSeq(order, 1, Lesser(MaxInputs, Len(order)))
        first == notes[chosen[1]]
    IN /\ Len(chosen) >= 2 /\ Sum(ToSet(chosen)) > Fee
       /\ Sends([ins |-> chosen,
                 outs |-> <<Change(part, Sum(ToSet(chosen)) - Fee, first.to, first.asset)>>])

\* ---- scanning, one request at a time ----

Idle == [by |-> "none"]
Ask(by, since, to, limit) ==
    page' = [by |-> by, since |-> since, to |-> to, limit |-> limit, at |-> "asked",
             outs |-> <<>>, nfs |-> <<>>, rows |-> <<>>, spent |-> <<>>, height |-> 0, next |-> -1]

StartSync(limit) ==
    /\ page = Idle /\ Ask("sync", wallet.scanned + 1, MaxHeight, limit)
    /\ UNCHANGED <<notes, blocks, committed, wallet, light, undone>>

StartScan(limit) ==
    /\ page = Idle /\ light.trusted # <<>>
    /\ Ask("scan", IF light.scanned = 0 THEN 0 ELSE light.scanned + 1,
           Len(light.trusted) - 1, limit)
    /\ UNCHANGED <<notes, blocks, committed, wallet, light, undone>>

\* The two SELECTs of one page, then the height it is said to reach.
ReadOutputs ==
    /\ page # Idle /\ page.at = "asked"
    /\ page' = [page EXCEPT !.at = "outputs",
                            !.rows = RowsBetween("made", page.since, Lesser(page.to, committed))]
    /\ UNCHANGED <<notes, blocks, committed, wallet, light, undone>>

ReadNullifiers ==
    /\ page # Idle /\ page.at = "outputs"
    /\ LET cut == CutOnHeight(page.rows, RowsBetween("gone", page.since, Lesser(page.to, committed)),
                              page.limit)
       IN page' = [page EXCEPT !.at = "read", !.rows = cut.outs, !.spent = cut.nfs,
                               !.next = cut.next]
    /\ UNCHANGED <<notes, blocks, committed, wallet, light, undone>>

Reached == IF page.next # -1 THEN page.next - 1 ELSE Lesser(page.to, World)
Answer ==
    /\ page # Idle /\ page.at = "read"
    /\ page' = [page EXCEPT !.at = "answered", !.height = Reached]
    /\ UNCHANGED <<notes, blocks, committed, wallet, light, undone>>

\* A node that quietly drops one row.
AnswerShort ==
    /\ page # Idle /\ page.at = "read" /\ page.by = "scan"
    /\ \/ page.rows # <<>> /\ page' = [page EXCEPT !.at = "answered", !.rows = Front(@)]
       \/ page.spent # <<>> /\ page' = [page EXCEPT !.at = "answered", !.spent = Front(@)]
    /\ UNCHANGED <<notes, blocks, committed, wallet, light, undone>>

NextPage == [page EXCEPT !.at = "asked", !.since = page.next, !.rows = <<>>, !.spent = <<>>,
                         !.height = 0, !.next = -1]

\* FinClient.sync: every page as it comes, and believe the height.
TakeSynced ==
    /\ page # Idle /\ page.at = "answered" /\ page.by = "sync"
    /\ LET scanned == ReconcileRows(ScanRows(wallet, page.rows), page.spent, page.height)
       IN wallet' = [scanned EXCEPT !.scanned = IF @ < page.height THEN page.height ELSE @]
    /\ page' = IF page.next = -1 THEN Idle ELSE NextPage
    /\ UNCHANGED <<notes, blocks, committed, light, undone>>

Uncounted(rows, first, last) == TRUE
\* Every position, once each, in order.
Spans(rows, first, last) ==
    /\ Len(rows) = last - first
    /\ \A i \in DOMAIN rows : rows[i][3] = first + i

Counts(trusted) ==
    [outs |-> Len(AllRows(trusted, "made")), nfs |-> Len(AllRows(trusted, "gone"))]

\* LightClient.scan: all of it or none.
TakeScanned ==
    /\ page # Idle /\ page.at = "answered" /\ page.by = "scan"
    /\ LET outs == page.outs \o page.rows
           nfs == page.nfs \o page.spent
           top == Len(light.trusted) - 1
           last == page.next = -1 \/ page.next > top
           want == Counts(light.trusted)
       IN IF ~last
          THEN page' = [NextPage EXCEPT !.outs = outs, !.nfs = nfs] /\ UNCHANGED <<wallet, light>>
          ELSE /\ page' = Idle
               /\ IF /\ Spans(outs, light.outs, want.outs) /\ Spans(nfs, light.nfs, want.nfs)
                  THEN /\ wallet' = [ReconcileRows(ScanRows(wallet, outs), nfs, top)
                                       EXCEPT !.scanned = IF @ < top THEN top ELSE @]
                       /\ light' = [light EXCEPT !.scanned = top, !.outs = want.outs,
                                                 !.nfs = want.nfs]
                  ELSE UNCHANGED <<wallet, light>>
    /\ UNCHANGED <<notes, blocks, committed, undone>>

Descends(old) == IsPrefix(old, blocks)
\* The tip with its certificate, under which what was trusted must be.
Follow ==
    /\ committed = World /\ World > 0 /\ Descends(light.trusted) /\ Len(light.trusted) < Len(blocks)
    /\ light' = [light EXCEPT !.trusted = blocks]
    /\ UNCHANGED <<notes, blocks, committed, wallet, page, undone>>

WalletInit ==
    /\ \E first \in {n \in Incoming : n.to = 0} : notes = <<first>>
    /\ blocks = <<[made |-> <<1>>, gone |-> <<>>]>> /\ committed = 0
    /\ wallet = [held |-> <<>>, scanned |-> 0, sent |-> {}]
    /\ light = [trusted |-> <<>>, scanned |-> 0, outs |-> 0, nfs |-> 0]
    /\ page = Idle /\ undone = 0

WalletNext ==
    \/ \E note \in Incoming : ReceivePayment(note)
    \/ \E tx \in wallet.sent : Include(tx) \/ Forget(tx)
    \/ Commit
    \/ Undo
    \/ wallet.sent = {} /\ \E part \in Grids :
         Consolidate(part) \/ \E amount \in Amounts : Send(amount, part)
    \/ \E limit \in PageLimits : StartSync(limit) \/ StartScan(limit)
    \/ ReadOutputs
    \/ ReadNullifiers
    \/ Answer
    \/ AnswerShort
    \/ TakeSynced
    \/ TakeScanned
    \/ Follow

WalletSpec == WalletInit /\ [][WalletNext]_walletVars

\* ---- properties ----

Upto(h) == {n \in UNION {ToSet(blocks[i].made) : i \in 1..(h + 1)} : Mine(n)}
SpentUpto(h) == UNION {ToSet(blocks[i].gone) : i \in 1..(h + 1)}

\* A counted scan hides nothing: at the height it reached the wallet holds every note
\* paid to it and believes none of those unspent that the chain had seen spent, however
\* the pages were cut and whatever arrived between them.
CountedScanIsComplete ==
    IsPrefix(light.trusted, blocks) =>
        \A n \in Upto(light.scanned) :
            light.scanned > 0 =>
               /\ n \in Held
               /\ n \in SpentUpto(light.scanned) => wallet.held[n] # Unspent

\* A payment the wallet built finds a grid to go to and leaves the wallet able to pay
\* again: its inputs share one partition and one asset, its change is of both, and no
\* output is out of range.
PaymentsHaveAHome ==
    \A tx \in wallet.sent :
       /\ \A n \in ToSet(tx.ins) : /\ notes[n].part = Last(tx.outs).part
                                    /\ notes[n].asset = Last(tx.outs).asset
       /\ Len(tx.ins) <= MaxInputs
       /\ \A i \in DOMAIN tx.outs : tx.outs[i].value \in 0..(NoteLimit - 1)

\* Coin selection gives up only when no partition can pay, and never proves an input
\* it could have done without.
SelectionIsLeast ==
    \A amount \in {a + Fee : a \in Amounts} :
       LET covers == {S \in SUBSET UnspentNotes :
                        /\ Sum(S) >= amount /\ Cardinality(S) <= MaxInputs
                        /\ \E g \in Grids : \A n \in S : notes[n].part = g}
           chosen == Select(amount)
       IN IF covers = {} THEN chosen = <<>>
          ELSE \A S \in covers : chosen # <<>> /\ Len(chosen) <= Cardinality(S)

\* What is selected from notes of one asset is a payment there is no reason to refuse.
PaysInOneAsset ==
    OneAsset(UnspentNotes) =>
        \A amount \in Amounts :
           LET chosen == Select(amount + Fee)
           IN chosen # <<>> /\ amount < NoteLimit =>
                 \A part \in Grids : Builds(Payment(chosen, amount, part))

\* A wallet of one asset pays when it can, from one grid, with as few notes as there are
\* to pay with; one of several may select what send refuses, and sends nothing mixed.
PaymentsAreLeast == PaymentsHaveAHome /\ SelectionIsLeast /\ PaysInOneAsset

\* Which selection does not give a wallet of several assets.
PaysWhateverItHolds ==
    \A amount \in Amounts, part \in Grids :
       (\E S \in SUBSET UnspentNotes :
           /\ Sum(S) >= amount + Fee /\ Cardinality(S) <= MaxInputs /\ OneAsset(S)
           /\ \E g \in Grids : \A n \in S : notes[n].part = g) =>
       LET chosen == Select(amount + Fee)
       IN chosen # <<>> /\ Builds(Payment(chosen, amount, part))

\* "a wallet that stops here and comes back tomorrow is not missing the second half of
\* a block it thinks it has read" (client/rpc.py, sync).
SyncedIsComplete ==
    undone = 0 => \A n \in Upto(Lesser(wallet.scanned, World)) :
        n \in Held \/ n \in ToSet(blocks[1].made)
====
