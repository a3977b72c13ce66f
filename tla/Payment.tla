---- MODULE Payment ----
(* Money from the genesis mint to the last payment (chain/mint.py, transaction.py,
   txsystem.py, notes.py, wallet/sealing.py).  A commitment is the number of its
   opening and a hash is what it hashes; a proof shows one vector of rows under one
   binding.  The rows are those of TxSystem, each reduced to what it says. *)
EXTENDS Integers, Sequences, FiniteSets, SequencesExt

CONSTANTS
    Holders,
    P,               \* the field
    MaxValue,        \* 2^range_bits
    Supplies,        \* sets of values a genesis may declare, as sequences
    Totals,          \* what a mint may declare
    Values,          \* field elements a witness may put in a value slot
    Fees, Assets,
    MaxNotes         \* bound

VARIABLES
    openings,        \* every note made so far; its commitment is its number
    live,            \* commitments in the UTXO set
    nullifiers,
    posted,          \* commitment -> sealed opening on the chain, or Unsealed
    addressed,       \* commitments whose openings mint_supply or a wallet sealed
    supply,          \* declared by the mint
    burned,
    carried          \* a transaction on its way to the ledger, or None

paymentVars == <<openings, live, nullifiers, posted, addressed, supply, burned, carried>>

None == [tx |-> "none"]
Unsealed == <<>>
MaxSlots == 4

\* The value of a sequence of notes.
Amount(notes) ==
    LET sum[i \in 0..Len(notes)] == IF i = 0 THEN 0 ELSE sum[i - 1] + notes[i].value
    IN sum[Len(notes)]

Endowed(values) == Amount([i \in DOMAIN values |-> [value |-> values[i]]])

\* With k, m small and B << 255 the notes cannot wrap the field.  A fee can, and so
\* can what a mint declares: no code bounds either.
ASSUME FieldIsWide ==
    MaxSlots * MaxValue < P /\ \A values \in Supplies : Endowed(values) < P

ASSUME PaymentAssumption ==
    /\ P \in Nat /\ MaxValue \in Nat /\ Values \subseteq Int /\ Fees \subseteq Int
    /\ Totals \subseteq Int /\ Supplies \subseteq Seq(Nat) /\ Assets # {}

Commitments(first, outs) == [i \in DOMAIN outs |-> first + i]
NewCms(outs) == Commitments(Len(openings), outs)
Open(book, cms) == [i \in DOMAIN cms |-> book[cms[i]]]

\* ---- sealed openings ----

SealOutput(note, cm) == <<note.owner, cm>>

\* Trial decryption: the key is the recipient's and the commitment is hashed in.
DecryptOpening(blob, holder, cm) == blob = <<holder, cm>>

\* ---- the rows of one transaction ----

BindWithoutNotes(chain, fee, ins, outs, owners, sealed) ==
    <<chain, fee, ins, outs, owners>>
Binding(chain, fee, ins, outs, owners, sealed) ==
    <<chain, fee, ins, outs, owners, sealed>>

AnyValue(value) == TRUE
\* The bits are bits and they add up to the value.
InRange(value) == value \in 0..(MaxValue - 1)

\* TxSystem.F of a witness: what each kind of row comes to.
Rows(book, ins, outs, beta) ==
    LET notes == Open(book, ins) \o Open(book, outs)
    IN [notes |-> ins \o outs,
        sum |-> (Amount(Open(book, ins)) - Amount(Open(book, outs))) % P,
        asset |-> \A i, j \in DOMAIN notes : notes[i].asset = notes[j].asset,
        range |-> \A i \in DOMAIN outs : InRange(book[outs[i]].value),
        nfs |-> ins,
        owners |-> [i \in DOMAIN ins |-> book[ins[i]].owner],
        bind |-> beta]

Prove(v) == [rows |-> v]
VerifyProof(v, proof) == proof = [rows |-> v]

\* ---- the mint ----

MintBinding(context, total, outs, sealed) == <<context, total, outs, sealed>>

VerifyMint(mint, context) ==
    LET beta == MintBinding(context, mint.total, mint.outs, mint.sealed)
    IN /\ mint.context = context /\ mint.total >= 0
       /\ mint.outs # <<>> /\ IsInjective(mint.outs)
       /\ mint.v.bind = beta
       /\ mint.v.notes = mint.outs
       /\ mint.v.sum = (P - (mint.total % P)) % P
       /\ mint.v.asset /\ mint.v.range
       /\ VerifyProof(mint.v, mint.proof)

\* mint_supply: a note for every endowment, sealed to its holder.
BuildMint(context, total, notes) ==
    LET outs == NewCms(notes)
        sealed == [i \in DOMAIN notes |-> SealOutput(notes[i], outs[i])]
        v == Rows(openings \o notes, <<>>, outs, MintBinding(context, total, outs, sealed))
    IN [context |-> context, total |-> total, outs |-> outs, sealed |-> sealed,
        v |-> v, proof |-> Prove(v)]

\* ---- a transaction ----

\* What signed: the binding, by each owner named.
Assemble(chain, fee, ins, outs, notes, signers, sealed) ==
    LET beta == Binding(chain, fee, ins, outs, signers, sealed)
        v == Rows(openings \o notes, ins, outs, beta)
    IN [chain |-> chain, fee |-> fee, ins |-> ins, outs |-> outs, owners |-> signers,
        sealed |-> sealed, binding |-> beta, v |-> v, proof |-> Prove(v),
        sigs |-> [i \in DOMAIN ins |-> <<signers[i], beta>>]]

BuildableMixed(ins, notes, fee, signers) ==
    /\ Amount(Open(openings, ins)) - Amount(notes) = fee
    /\ \A i \in DOMAIN notes : InRange(notes[i].value)
    /\ IsInjective(ins)
\* What build_transaction agrees to build.
Buildable(ins, notes, fee, signers) ==
    LET spent == Open(openings, ins)
    IN /\ ins # <<>> /\ notes # <<>> /\ fee >= 0
       /\ Amount(spent) - Amount(notes) = fee
       /\ \A m, n \in ToSet(spent) \cup ToSet(notes) : m.asset = n.asset
       /\ \A i \in DOMAIN notes : InRange(notes[i].value)
       /\ \A i \in DOMAIN ins : spent[i].owner = signers[i]
       /\ IsInjective(ins)

OwnersUnread(tx) == TRUE
OwnersMatch(tx) == tx.v.owners = tx.owners

Authenticate(tx, chain) ==
    LET beta == Binding(tx.chain, tx.fee, tx.ins, tx.outs, tx.owners, tx.sealed)
    IN /\ tx.chain = chain /\ tx.fee >= 0
       /\ tx.ins # <<>> /\ tx.outs # <<>> /\ IsInjective(tx.ins) /\ IsInjective(tx.outs)
       /\ tx.sealed = <<>> \/ Len(tx.sealed) = Len(tx.outs)
       /\ tx.binding = beta /\ tx.v.bind = beta
       /\ tx.v.notes = tx.ins \o tx.outs
       /\ tx.v.sum = tx.fee % P
       /\ tx.v.asset /\ tx.v.range
       /\ tx.v.nfs = tx.ins
       /\ OwnersMatch(tx)
       /\ \A i \in DOMAIN tx.ins : tx.sigs[i] = <<tx.owners[i], beta>>

VerifyTransaction(tx, chain) ==
    /\ Authenticate(tx, chain) /\ VerifyProof(tx.v, tx.proof)
    /\ ToSet(tx.ins) \subseteq live /\ ToSet(tx.ins) \cap nullifiers = {}

\* ---- what happens ----

Chain == "this chain"

\* The artifact is published with its document; a node that cannot verify it does
\* not start.
MintGenesis ==
    \E values \in Supplies, total \in Totals :
       \E owners \in [DOMAIN values -> Holders] :
          LET notes == [i \in DOMAIN values |->
                          [value |-> values[i], asset |-> CHOOSE a \in Assets : TRUE,
                           owner |-> owners[i]]]
              mint == BuildMint(Chain, total, notes)
          IN /\ openings = <<>> /\ VerifyMint(mint, Chain)
             /\ openings' = notes /\ live' = ToSet(mint.outs)
             /\ posted' = mint.sealed /\ addressed' = live' /\ supply' = total
             /\ UNCHANGED <<nullifiers, burned, carried>>

Chosen == {<<a>> : a \in live} \cup {p \in live \X live : p[1] <= p[2]}
NotesOf(shape) == [shape -> [value : Values, asset : Assets, owner : Holders]]
Room(notes) == openings # <<>> /\ Len(openings) + Len(notes) <= MaxNotes

\* A wallet's: build_transaction, with every opening sealed to its owner.
Pay(ins, notes, fee) ==
    LET signers == [i \in DOMAIN ins |-> openings[ins[i]].owner]
        outs == NewCms(notes)
        sealed == [i \in DOMAIN notes |-> SealOutput(notes[i], outs[i])]
    IN /\ Room(notes) /\ Buildable(ins, notes, fee, signers)
       /\ carried' = [tx |-> Assemble(Chain, fee, ins, outs, notes, signers, sealed),
                      made |-> notes, from |-> "wallet", altered |-> FALSE]
       /\ UNCHANGED <<openings, live, nullifiers, posted, addressed, supply, burned>>

\* Anybody's: the same rows over a witness nobody looked at first, with nothing sealed
\* or what opens for anybody or for nobody, whosever the notes are.
Seals(notes) == {<<>>} \cup [DOMAIN notes -> Holders \X {Len(openings) + 1}]
Submit(ins, notes, fee, signer, sealed) ==
    LET outs == NewCms(notes)
    IN /\ Room(notes)
       /\ carried' = [tx |-> Assemble(Chain, fee, ins, outs, notes,
                                      [i \in DOMAIN ins |-> signer], sealed),
                      made |-> notes, from |-> "anyone", altered |-> FALSE]
       /\ UNCHANGED <<openings, live, nullifiers, posted, addressed, supply, burned>>

\* It is changed on the way and the hash over it made to fit; what was signed and
\* proved stays as it was.
Changed(tx, fee, outs, sealed) ==
    LET beta == Binding(tx.chain, fee, tx.ins, outs, tx.owners, sealed)
    IN [tx EXCEPT !.fee = fee, !.outs = outs, !.sealed = sealed,
                  !.binding = beta, !.v.bind = beta]
Alter ==
    /\ carried # None /\ ~carried.altered
    /\ \E fee \in Fees, swapOuts, swapSealed \in BOOLEAN :
          LET tx == carried.tx
              turn(s, yes) == IF yes THEN Reverse(s) ELSE s
              changed == Changed(tx, fee, turn(tx.outs, swapOuts), turn(tx.sealed, swapSealed))
          IN /\ changed # tx
             /\ carried' = [carried EXCEPT !.tx = changed, !.altered = TRUE]
    /\ UNCHANGED <<openings, live, nullifiers, posted, addressed, supply, burned>>

\* The ledger takes it or nobody hears of it again.
Deliver ==
    /\ carried # None /\ carried' = None
    /\ LET tx == carried.tx
       IN IF ~VerifyTransaction(tx, Chain)
          THEN UNCHANGED <<openings, live, nullifiers, posted, addressed, supply, burned>>
          ELSE /\ openings' = openings \o carried.made
               /\ live' = (live \ ToSet(tx.ins)) \cup ToSet(tx.outs)
               /\ nullifiers' = nullifiers \cup ToSet(tx.ins)
               /\ posted' = posted \o [i \in DOMAIN tx.outs |->
                                         IF tx.sealed = <<>> THEN Unsealed ELSE tx.sealed[i]]
               /\ addressed' = IF carried.from = "wallet" THEN addressed \cup ToSet(tx.outs)
                                                          ELSE addressed
               /\ burned' = burned + tx.fee
               /\ UNCHANGED supply

PaymentInit ==
    /\ openings = <<>> /\ live = {} /\ nullifiers = {} /\ posted = <<>>
    /\ addressed = {} /\ supply = 0 /\ burned = 0 /\ carried = None

PaymentNext ==
    \/ MintGenesis
    \/ carried = None /\ \E ins \in Chosen, shape \in {1..1, 1..2} :
         \E notes \in NotesOf(shape), fee \in Fees :
            \/ Pay(ins, notes, fee)
            \/ \E signer \in Holders, sealed \in Seals(notes) :
                  Submit(ins, notes, fee, signer, sealed)
    \/ Alter
    \/ Deliver

PaymentSpec == PaymentInit /\ [][PaymentNext]_paymentVars

\* ---- properties ----

\* The sum is taken in the field and only outputs are range-checked: every live note
\* is in range all the same, and what is live and what was burned is what was minted
\* but for a multiple of P.  The integers add up as long as no total and no fee came
\* near the field, which the running total of fees shows of each of them.
Worth(book, cms) ==
    Amount([i \in DOMAIN book |-> IF i \in cms THEN book[i] ELSE [value |-> 0]])
NothingWrapped == supply < P /\ burned + MaxSlots * MaxValue < P
SupplyIsConserved ==
    /\ \A cm \in live : InRange(openings[cm].value)
    /\ (supply - burned - Worth(openings, live)) % P = 0
    /\ NothingWrapped => supply = burned + Worth(openings, live)
\* Which verify_transaction does not give, nor verify_mint.
SupplyIsConservedAtAnyFee == supply = burned + Worth(openings, live)

\* A note leaves the UTXO set by its owner's signature over exactly what replaced it,
\* whoever assembled the transaction and whatever was done to it on the way.
OnlyTheOwnerSpends ==
    [][live \subseteq live' \/
       LET tx == carried.tx
       IN /\ ~carried.altered
          /\ \A i \in DOMAIN tx.ins :
                tx.sigs[i] = <<openings[tx.ins[i]].owner, tx.binding>>]_paymentVars

\* Where a wallet or the mint sealed the opening of a live note, its owner finds it
\* with its keys alone, and nobody else does: swapping two ciphertexts on the way is
\* refused, not silent.  What anybody else seals beside a note nobody checks.
FoundFromTheSeed ==
    \A cm \in live \cap addressed :
        \A h \in Holders : DecryptOpening(posted[cm], h, cm) <=> h = openings[cm].owner

\* What build_transaction agrees to build is accepted if it arrives as it was sent
\* and the notes are still there.
BuiltIsAccepted ==
    carried # None /\ carried.from = "wallet" /\ ~carried.altered =>
        VerifyTransaction(carried.tx, Chain)

\* ---- the inductive invariant ----

Opening == [value : Values \cup Nat, asset : Assets, owner : Holders]
SealedTo(notes) == [i \in DOMAIN notes |-> SealOutput(notes[i], NewCms(notes)[i])]

\* A commitment is made once, is spent or live, and what the mint or a wallet posted
\* beside it is its own.
BookInv ==
    /\ openings \in Seq(Opening)
    /\ live \subseteq DOMAIN openings /\ nullifiers \subseteq DOMAIN openings
    /\ live \cap nullifiers = {}
    /\ posted \in Seq({Unsealed} \cup (Holders \X Nat)) /\ Len(posted) = Len(openings)
    /\ addressed \subseteq DOMAIN openings
    /\ \A cm \in addressed : posted[cm] = SealOutput(openings[cm], cm)
    /\ supply \in Int /\ burned \in Nat
    /\ openings = <<>> => supply = 0 /\ burned = 0

\* What is on its way is what was signed, or is not any more.
Signed == carried.tx.sigs[1][2]
Written == Assemble(Signed[1], Signed[2], Signed[3], Signed[4], carried.made, Signed[5], Signed[6])
CarriedInv ==
    carried # None =>
        /\ carried = [tx |-> carried.tx, made |-> carried.made, from |-> carried.from,
                      altered |-> carried.altered]
        /\ openings # <<>> /\ carried.altered \in BOOLEAN
        /\ carried.made \in NotesOf(1..1) \cup NotesOf(1..2)
        /\ Signed[1] = Chain /\ Signed[2] \in Fees /\ Signed[3] \in Chosen
        /\ Signed[4] = NewCms(carried.made)
        /\ Signed[6] \in {<<>>} \cup [DOMAIN carried.made -> Holders \X Nat]
        /\ IF carried.altered
           THEN /\ carried.tx = Changed(Written, carried.tx.fee, carried.tx.outs, carried.tx.sealed)
                /\ carried.tx # Written
           ELSE carried.tx = Written
        /\ carried.from = "wallet" =>
              /\ Signed[5] = [i \in DOMAIN Signed[3] |-> openings[Signed[3][i]].owner]
              /\ Signed[6] = SealedTo(carried.made)
              /\ Buildable(Signed[3], carried.made, Signed[2], Signed[5])

PaymentInv == BookInv /\ SupplyIsConserved /\ CarriedInv

\* What is accepted is backed by what was minted, and what an honest wallet sends arrives.
PaymentsAreSound == SupplyIsConserved /\ FoundFromTheSeed /\ BuiltIsAccepted
====
