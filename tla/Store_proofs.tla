---------------------------- MODULE Store_proofs ----------------------------
(***************************************************************************)
(* Proofs about Store: between two blocks the tables hold what is in memory, *)
(* and while a block is in hand they are one commit away from it.            *)
(***************************************************************************)
EXTENDS Store, Selection_proofs

-----------------------------------------------------------------------------
(* What the operators of a ledger do to its type.                           *)

LEMMA GenesisTyped == GenesisLedger(GenesisNotes) \in LedgerType
BY StoreAssumption DEF GenesisLedger, LedgerType, Hashes

LEMMA ConcatTyped ==
    ASSUME NEW S, NEW s \in Seq(S), NEW t \in Seq(S)
    PROVE  s \o t \in Seq(S)
OBVIOUS

LEMMA ElementsTyped ==
    ASSUME NEW S, NEW s \in Seq(S)
    PROVE  ToSet(s) \subseteq S
BY DEF ToSet

LEMMA ApplyTyped ==
    ASSUME NEW l \in LedgerType, NEW d \in DeltaType
    PROVE  ApplyDelta(l, d) \in LedgerType
<1>1. /\ l.nfs \in Seq(Notes) /\ d.nfs \in Seq(Notes)
      /\ l.utxo \in Seq(Notes) /\ d.created \in Seq(Notes)
      /\ l.dead \subseteq Notes /\ d.spent \in Seq(Notes)
      /\ l.fees \in Nat /\ d.fees \in Nat
    BY DEF LedgerType, DeltaType
<1>2. /\ l.nfs \o d.nfs \in Seq(Notes)
      /\ l.utxo \o d.created \in Seq(Notes)
    BY <1>1, ConcatTyped
<1>3. l.dead \cup ToSet(d.spent) \subseteq Notes
    BY <1>1, ElementsTyped
<1>4. l.fees + d.fees \in Nat
    BY <1>1
<1> QED
    BY <1>2, <1>3, <1>4 DEF ApplyDelta, LedgerType

LEMMA HashTyped ==
    ASSUME NEW l \in LedgerType, NEW d \in DeltaType, NEW h \in Nat
    PROVE  HashOf(l, h, d) \in Hashes
<1>1. l.tip \in Seq(Nat \X DeltaType) /\ <<h, d>> \in Nat \X DeltaType
    BY DEF LedgerType, Hashes
<1> QED
    BY <1>1 DEF HashOf, Hashes

LEMMA RecordTyped ==
    ASSUME NEW l \in LedgerType, NEW h \in Nat, NEW hash \in Hashes
    PROVE  RecordBlock(l, h, hash) \in LedgerType
<1>1. Append(l.spine, hash) \in Seq(Hashes)
    BY DEF LedgerType
<1> QED
    BY <1>1 DEF RecordBlock, LedgerType

\* A ledger is its fields.
LEMMA LedgerIsItsFields ==
    ASSUME NEW l \in LedgerType
    PROVE  l = [utxo |-> l.utxo, dead |-> l.dead, nfs |-> l.nfs,
                fees |-> l.fees, spine |-> l.spine, height |-> l.height,
                tip |-> l.tip]
BY DEF LedgerType

\* The ledger a block leaves, field by field.
LEMMA BlockFields ==
    ASSUME NEW l \in LedgerType, NEW d \in DeltaType,
           NEW h \in Nat, NEW hash \in Hashes
    PROVE  RecordBlock(ApplyDelta(l, d), h, hash) =
             [utxo |-> l.utxo \o d.created,
              dead |-> l.dead \cup ToSet(d.spent),
              nfs |-> l.nfs \o d.nfs, fees |-> l.fees + d.fees,
              spine |-> Append(l.spine, hash), height |-> h, tip |-> hash]
<1> DEFINE a == ApplyDelta(l, d)
           r == RecordBlock(a, h, hash)
<1>1. a \in LedgerType /\ r \in LedgerType
    BY ApplyTyped, RecordTyped
<1>2. /\ a.utxo = l.utxo \o d.created /\ a.spine = l.spine
      /\ a.dead = l.dead \cup ToSet(d.spent)
      /\ a.nfs = l.nfs \o d.nfs /\ a.fees = l.fees + d.fees
    BY DEF ApplyDelta, LedgerType
<1> HIDE DEF a
<1>3. /\ r.utxo = a.utxo /\ r.dead = a.dead /\ r.nfs = a.nfs
      /\ r.fees = a.fees /\ r.spine = Append(a.spine, hash)
      /\ r.height = h /\ r.tip = hash
    BY <1>1 DEF RecordBlock, LedgerType
<1>4. r = [utxo |-> r.utxo, dead |-> r.dead, nfs |-> r.nfs, fees |-> r.fees,
           spine |-> r.spine, height |-> r.height, tip |-> r.tip]
    BY <1>1, LedgerIsItsFields
<1> HIDE DEF r
<1>5. r = [utxo |-> l.utxo \o d.created,
           dead |-> l.dead \cup ToSet(d.spent),
           nfs |-> l.nfs \o d.nfs, fees |-> l.fees + d.fees,
           spine |-> Append(l.spine, hash), height |-> h, tip |-> hash]
    BY <1>2, <1>3, <1>4
<1> QED
    BY <1>5 DEF r, a

\* A block's delta spends at most one note, which is live, and publishes one
\* nullifier for it.
LEMMA DeltaFacts ==
    ASSUME NEW l \in LedgerType, NEW d \in Deltas(l)
    PROVE  /\ d \in DeltaType
           /\ d.nfs = d.spent
           /\ CanApplyDelta(l, d)
           /\ d.spent = <<>> \/ \E n \in Live(l) : d.spent = <<n>>
<1>1. Live(l) \subseteq Notes
    BY ElementsTyped DEF Live, LedgerType
<1>2. \A n \in Notes : <<n>> \in Seq(Notes)
    OBVIOUS
<1>3. /\ d.spent \in {<<>>} \cup {<<n>> : n \in Live(l)}
      /\ d.nfs \in {<<>>} \cup {<<n>> : n \in Live(l)}
      /\ d.created \in {<<>>} \cup {<<n>> : n \in Notes \ ToSet(l.utxo)}
      /\ d.fees \in {0, 1}
      /\ d = [spent |-> d.spent, nfs |-> d.nfs, created |-> d.created,
              fees |-> d.fees]
      /\ d.nfs = d.spent /\ CanApplyDelta(l, d)
    BY DEF Deltas
<1>4. /\ d.spent \in Seq(Notes) /\ d.nfs \in Seq(Notes)
      /\ d.created \in Seq(Notes) /\ d.fees \in Nat
    <2>1. <<>> \in Seq(Notes)
        OBVIOUS
    <2>2. d.spent \in Seq(Notes) /\ d.nfs \in Seq(Notes)
        BY <1>1, <1>2, <1>3, <2>1
    <2>3. d.created \in Seq(Notes)
        BY <1>2, <1>3, <2>1
    <2> QED
        BY <1>3, <2>2, <2>3
<1>5. d \in DeltaType
    BY <1>3, <1>4 DEF DeltaType
<1> QED
    BY <1>3, <1>5

-----------------------------------------------------------------------------
(* The two records of a spend.                                              *)

Sound(l) ==
    /\ Distinct(l.utxo)
    /\ IsFiniteSet(l.dead)
    /\ CrossCheck(l)

LEMMA ConcatDistinct ==
    ASSUME NEW S, NEW s \in Seq(S), NEW t \in Seq(S),
           Distinct(s), Distinct(t), ToSet(s) \cap ToSet(t) = {}
    PROVE  Distinct(s \o t)
<1> DEFINE u == s \o t
<1>1. /\ DOMAIN u = 1 .. Len(s) + Len(t)
      /\ \A k \in 1 .. Len(s) : k \in DOMAIN s /\ u[k] = s[k]
      /\ \A k \in Len(s) + 1 .. Len(s) + Len(t) :
             k - Len(s) \in DOMAIN t /\ u[k] = t[k - Len(s)]
    OBVIOUS
<1>2. Len(s) \in Nat /\ Len(t) \in Nat
    OBVIOUS
<1>3. /\ \A k \in 1 .. Len(s) : u[k] \in ToSet(s)
      /\ \A k \in Len(s) + 1 .. Len(s) + Len(t) : u[k] \in ToSet(t)
    BY <1>1 DEF ToSet
<1> HIDE DEF u
<1> SUFFICES ASSUME NEW i \in DOMAIN u, NEW j \in DOMAIN u, u[i] = u[j]
             PROVE  i = j
    BY DEF Distinct, u
<1>4. /\ i \in Int /\ j \in Int
      /\ i \in 1 .. Len(s) \/ i \in Len(s) + 1 .. Len(s) + Len(t)
      /\ j \in 1 .. Len(s) \/ j \in Len(s) + 1 .. Len(s) + Len(t)
    BY <1>1, <1>2
<1>5. CASE i \in 1 .. Len(s) /\ j \in 1 .. Len(s)
    BY <1>1, <1>5 DEF Distinct
<1>6. CASE /\ i \in Len(s) + 1 .. Len(s) + Len(t)
           /\ j \in Len(s) + 1 .. Len(s) + Len(t)
    <2>1. i - Len(s) = j - Len(s)
        BY <1>1, <1>6 DEF Distinct
    <2> QED
        BY <1>2, <1>4, <2>1
<1>7. CASE /\ i \in 1 .. Len(s)
           /\ j \in Len(s) + 1 .. Len(s) + Len(t)
    BY <1>7, <1>3
<1>8. CASE /\ j \in 1 .. Len(s)
           /\ i \in Len(s) + 1 .. Len(s) + Len(t)
    BY <1>8, <1>3
<1> QED
    BY <1>4, <1>5, <1>6, <1>7, <1>8

LEMMA ApplySound ==
    ASSUME NEW l \in LedgerType, NEW d \in Deltas(l), Sound(l)
    PROVE  Sound(ApplyDelta(l, d))
<1> DEFINE m == ApplyDelta(l, d)
<1>1. /\ m.dead = l.dead \cup ToSet(d.spent)
      /\ m.nfs = l.nfs \o d.nfs
      /\ m.utxo = l.utxo \o d.created
    BY DEF ApplyDelta, LedgerType
<1>2. /\ d \in DeltaType /\ d.nfs = d.spent /\ CanApplyDelta(l, d)
      /\ d.spent = <<>> \/ \E n \in Live(l) : d.spent = <<n>>
    BY DeltaFacts
<1>3. /\ l.nfs \in Seq(Notes) /\ d.nfs \in Seq(Notes)
      /\ l.utxo \in Seq(Notes) /\ d.created \in Seq(Notes)
    BY <1>2 DEF LedgerType, DeltaType
<1>4. IsFiniteSet(m.dead) /\ Cardinality(m.dead) = Len(m.nfs)
    <2>1. CASE d.spent = <<>>
        <3>1. ToSet(d.spent) = {}
            BY <2>1 DEF ToSet
        <3>2. Len(m.nfs) = Len(l.nfs)
            BY <1>1, <1>2, <1>3, <2>1
        <3> QED
            BY <1>1, <3>1, <3>2 DEF Sound, CrossCheck
    <2>2. CASE \E n \in Live(l) : d.spent = <<n>>
        <3> PICK n \in Live(l) : d.spent = <<n>>
            BY <2>2
        <3>1. ToSet(d.spent) = {n} /\ n \notin l.dead
            BY DEF ToSet, Live
        <3>2. Len(m.nfs) = Len(l.nfs) + 1
            BY <1>1, <1>2, <1>3
        <3>3. /\ IsFiniteSet(l.dead \cup {n})
              /\ Cardinality(l.dead \cup {n}) = Cardinality(l.dead) + 1
            BY <3>1, FS_AddElement DEF Sound
        <3> QED
            BY <1>1, <3>1, <3>2, <3>3 DEF Sound, CrossCheck
    <2> QED
        BY <1>2, <2>1, <2>2
<1>5. Distinct(m.utxo)
    BY <1>1, <1>2, <1>3, ConcatDistinct DEF Sound, CanApplyDelta
<1> QED
    BY <1>4, <1>5 DEF Sound, CrossCheck

-----------------------------------------------------------------------------
(* The inductive invariant: what is on disk is what is in memory, or will be *)
(* when the block in hand is committed.                                      *)

BlockRows == [height : Nat, hash : Hashes]

\* A record with the fields of the schema, and nothing else.
IsTables(t) ==
    t \in [utxo : {t.utxo}, dead : {t.dead}, nfs : {t.nfs}, fees : {t.fees},
           netblock : {t.netblock}, height : {t.height}, tip : {t.tip},
           registers : {t.registers}, derived : {t.derived}, undo : {t.undo}]

TablesOK ==
    /\ IsTables(disk)
    /\ disk.netblock \in Seq(BlockRows)
    /\ IF IsEmpty(disk) THEN disk = EmptyTables
       ELSE LoadState(disk) \in LedgerType /\ Sound(LoadState(disk))

MemoryOK ==
    /\ phase \in {"down", "booting", "idle", "applied", "adopted"}
    /\ rollbacks \in 0 .. MaxRollbacks
    /\ phase # "down" => ledger \in LedgerType /\ Sound(ledger)

Mirrored ==
    /\ phase \in {"booting", "idle", "applied"} => ~IsEmpty(disk)
    /\ phase \in {"booting", "idle"} =>
         LoadState(disk) = ledger /\ disk.derived = derived
    /\ phase = "applied" =>
         /\ pending.height \in Nat /\ pending.hash \in Hashes
         /\ LoadState(CommitBlock(disk, pending)) = ledger
         /\ pending.derived = derived
    /\ phase = "adopted" => ledger.spine = <<>>

IInv == TablesOK /\ MemoryOK /\ Mirrored

-----------------------------------------------------------------------------
(* What is read back from the tables each transaction leaves.               *)

LEMMA PutShape ==
    ASSUME NEW t, IsTables(t), NEW l \in LedgerType
    PROVE  /\ IsTables(PutLedger(t, l))
           /\ PutLedger(t, l).netblock = t.netblock
           /\ PutLedger(t, l).derived = t.derived
           /\ PutLedger(t, l).registers = t.registers
           /\ PutLedger(t, l).tip = l.tip
           /\ t.netblock = <<>> /\ l.spine = <<>> =>
                  LoadState(PutLedger(t, l)) = l
<1> DEFINE p == PutLedger(t, l)
<1>1. /\ p.utxo = l.utxo /\ p.dead = l.dead /\ p.nfs = l.nfs
      /\ p.fees = l.fees /\ p.height = l.height /\ p.tip = l.tip
      /\ p.netblock = t.netblock /\ p.derived = t.derived
      /\ p.registers = t.registers
    BY DEF PutLedger, IsTables
<1>2. IsTables(p)
    BY DEF PutLedger, IsTables
<1>3. l = [utxo |-> l.utxo, dead |-> l.dead, nfs |-> l.nfs, fees |-> l.fees,
           spine |-> l.spine, height |-> l.height, tip |-> l.tip]
    BY LedgerIsItsFields
<1>4. ASSUME t.netblock = <<>>, l.spine = <<>>
      PROVE  LoadState(p) = l
    <2>1. [i \in DOMAIN p.netblock |-> p.netblock[i].hash] = <<>>
        BY <1>1, <1>4
    <2> HIDE DEF p
    <2> QED
        BY <1>1, <1>3, <1>4, <2>1 DEF LoadState
<1> QED
    BY <1>1, <1>2, <1>4

LEMMA CommitShape ==
    ASSUME NEW t, IsTables(t), NEW c
    PROVE  /\ IsTables(CommitBlock(t, c))
           /\ CommitBlock(t, c).dead = t.dead \cup ToSet(c.delta.spent)
           /\ CommitBlock(t, c).utxo = t.utxo \o c.delta.created
           /\ CommitBlock(t, c).nfs = t.nfs \o c.delta.nfs
           /\ CommitBlock(t, c).fees = c.fees
           /\ CommitBlock(t, c).height = c.height
           /\ CommitBlock(t, c).tip = c.hash
           /\ CommitBlock(t, c).netblock =
                Append(t.netblock, [height |-> c.height, hash |-> c.hash])
           /\ CommitBlock(t, c).derived = c.derived
           /\ CommitBlock(t, c).undo = PruneUndo(Append(t.undo, c.undo), c.height)
           /\ CommitBlock(t, c).registers =
                Without(Upsert(t.registers, c.registers), c.retired)
BY DEF CommitBlock, CommitRows, IsTables

LEMMA SpineOfAppend ==
    ASSUME NEW rows \in Seq(BlockRows), NEW row \in BlockRows
    PROVE  /\ Append(rows, row) \in Seq(BlockRows)
           /\ [i \in DOMAIN Append(rows, row) |-> Append(rows, row)[i].hash] =
              Append([i \in DOMAIN rows |-> rows[i].hash], row.hash)
<1> DEFINE hashes == [i \in DOMAIN rows |-> rows[i].hash]
<1>1. Append(rows, row) \in Seq(BlockRows)
    OBVIOUS
<1>2. hashes \in Seq(Hashes) /\ Len(hashes) = Len(rows)
    <2>1. /\ DOMAIN rows = 1 .. Len(rows) /\ Len(rows) \in Nat
          /\ \A i \in 1 .. Len(rows) : rows[i] \in BlockRows
        OBVIOUS
    <2>2. \A i \in 1 .. Len(rows) : rows[i].hash \in Hashes
        BY <2>1 DEF BlockRows
    <2> QED
        BY <2>1, <2>2
<1>3. /\ DOMAIN Append(rows, row) = 1 .. Len(rows) + 1
      /\ \A i \in 1 .. Len(rows) + 1 : Append(rows, row)[i] =
             IF i = Len(rows) + 1 THEN row ELSE rows[i]
    OBVIOUS
<1>4. Append(hashes, row.hash) =
        [i \in 1 .. Len(rows) + 1 |->
            IF i = Len(rows) + 1 THEN row.hash ELSE hashes[i]]
    BY <1>2
<1>5. \A i \in 1 .. Len(rows) + 1 :
        i # Len(rows) + 1 => i \in DOMAIN rows
    OBVIOUS
<1> QED
    BY <1>1, <1>3, <1>4, <1>5

\* The block table grows by the block the spine grows by.
LEMMA CommitMirrors ==
    ASSUME NEW t, IsTables(t), t.netblock \in Seq(BlockRows), NEW c,
           LoadState(t) \in LedgerType,
           c.delta \in DeltaType, c.height \in Nat, c.hash \in Hashes,
           c.fees = LoadState(t).fees + c.delta.fees
    PROVE  LoadState(CommitBlock(t, c)) =
             RecordBlock(ApplyDelta(LoadState(t), c.delta), c.height, c.hash)
<1> DEFINE row == [height |-> c.height, hash |-> c.hash]
              l == LoadState(t)
              b == CommitBlock(t, c)
<1>1. row \in BlockRows /\ row.hash = c.hash
    BY DEF BlockRows
<1>2. [i \in DOMAIN b.netblock |-> b.netblock[i].hash] =
        Append([i \in DOMAIN t.netblock |-> t.netblock[i].hash], c.hash)
    <2>1. b.netblock = Append(t.netblock, row)
        BY CommitShape
    <2> HIDE DEF row, b
    <2> QED
        BY <1>1, <2>1, SpineOfAppend
<1>3. LoadState(b) =
        [utxo |-> t.utxo \o c.delta.created,
         dead |-> t.dead \cup ToSet(c.delta.spent),
         nfs  |-> t.nfs \o c.delta.nfs, fees |-> c.fees,
         height |-> c.height, tip |-> c.hash,
         spine |-> Append([i \in DOMAIN t.netblock |-> t.netblock[i].hash],
                          c.hash)]
    <2>1. /\ b.utxo = t.utxo \o c.delta.created
          /\ b.dead = t.dead \cup ToSet(c.delta.spent)
          /\ b.nfs = t.nfs \o c.delta.nfs /\ b.fees = c.fees
          /\ b.height = c.height /\ b.tip = c.hash
        BY CommitShape, ZenonT(40)
    <2> HIDE DEF b
    <2> QED
        BY <1>2, <2>1 DEF LoadState
<1>4. RecordBlock(ApplyDelta(l, c.delta), c.height, c.hash) =
        [utxo |-> l.utxo \o c.delta.created,
         dead |-> l.dead \cup ToSet(c.delta.spent),
         nfs  |-> l.nfs \o c.delta.nfs, fees |-> l.fees + c.delta.fees,
         spine |-> Append(l.spine, c.hash),
         height |-> c.height, tip |-> c.hash]
    BY BlockFields
<1>5. /\ l.utxo = t.utxo /\ l.dead = t.dead /\ l.nfs = t.nfs
      /\ l.spine = [i \in DOMAIN t.netblock |-> t.netblock[i].hash]
      /\ c.fees = l.fees + c.delta.fees
    BY DEF LoadState
<1> HIDE DEF l, b, row
<1>6. LoadState(b) = RecordBlock(ApplyDelta(l, c.delta), c.height, c.hash)
    BY <1>3, <1>4, <1>5
<1> QED
    BY <1>6 DEF l, b

-----------------------------------------------------------------------------
(* The invariant is inductive, one lemma per action: the rollback is below,  *)
(* with the records it reads.                                               *)

LEMMA EmptyTablesOK ==
    IsTables(EmptyTables) /\ EmptyTables.netblock \in Seq(BlockRows)
<1>1. <<>> \in Seq(BlockRows)
    OBVIOUS
<1> QED
    BY <1>1 DEF EmptyTables, IsTables

LEMMA HashIsNotNone == \A h \in Hashes : h # None
BY NoneAssumption

LEMMA InitOK == Init => IInv
<1> SUFFICES ASSUME Init PROVE IInv
    OBVIOUS
<1>1. TablesOK
    BY EmptyTablesOK DEF Init, TablesOK, IsEmpty, EmptyTables
<1>2. MemoryOK /\ Mirrored
    BY StoreAssumption DEF Init, MemoryOK, Mirrored
<1> QED
    BY <1>1, <1>2 DEF IInv

LEMMA FirstBootOK == IInv /\ FirstBoot => IInv'
<1> SUFFICES ASSUME IInv, FirstBoot PROVE IInv'
    OBVIOUS
<1> DEFINE g == GenesisLedger(GenesisNotes)
<1>1. g \in LedgerType /\ g.spine = <<>> /\ g.tip \in Hashes
    BY GenesisTyped DEF GenesisLedger, LedgerType
<1>2. Sound(g)
    BY StoreAssumption, FS_EmptySet
    DEF GenesisLedger, Sound, CrossCheck
<1>3. /\ disk = EmptyTables /\ disk' = PutLedger(disk, g)
      /\ ledger' = g /\ derived' = NothingDerived /\ phase' = "booting"
      /\ UNCHANGED rollbacks
    BY DEF FirstBoot, Initialised, IInv, TablesOK, MemoryOK
<1>4. IsTables(disk) /\ disk.netblock \in Seq(BlockRows)
    BY DEF IInv, TablesOK
<1>5. disk.netblock = <<>> /\ disk.derived = NothingDerived
    BY <1>3 DEF EmptyTables
<1> HIDE DEF g
<1>6. /\ IsTables(disk') /\ disk'.netblock = disk.netblock
      /\ disk'.derived = disk.derived /\ disk'.tip = g.tip
      /\ LoadState(disk') = g
    BY <1>1, <1>3, <1>4, <1>5, PutShape
<1>7. ~IsEmpty(disk)'
    BY <1>1, <1>6, HashIsNotNone DEF IsEmpty
<1>8. TablesOK'
    BY <1>1, <1>2, <1>4, <1>6, <1>7 DEF TablesOK, IsEmpty
<1>9. MemoryOK' /\ Mirrored'
    BY <1>1, <1>2, <1>3, <1>5, <1>6, <1>7 DEF IInv, MemoryOK, Mirrored, IsEmpty
<1> QED
    BY <1>8, <1>9 DEF IInv

LEMMA SaveRegistersOK == IInv /\ SaveRegisters => IInv'
<1> SUFFICES ASSUME IInv, SaveRegisters PROVE IInv'
    OBVIOUS
<1>1. /\ phase = "booting" /\ phase' = "idle"
      /\ UNCHANGED <<ledger, derived, rollbacks>>
      /\ ~IsEmpty(disk) /\ IsTables(disk)
    BY DEF SaveRegisters, IInv, TablesOK, Mirrored, memory
<1>2. /\ IsTables(disk') /\ disk'.netblock = disk.netblock
      /\ disk'.utxo = disk.utxo /\ disk'.dead = disk.dead
      /\ disk'.nfs = disk.nfs /\ disk'.fees = disk.fees
      /\ disk'.height = disk.height /\ disk'.tip = disk.tip
      /\ disk'.derived = disk.derived
    BY <1>1 DEF SaveRegisters, IsTables
<1>3. LoadState(disk') = LoadState(disk) /\ ~IsEmpty(disk')
    BY <1>1, <1>2 DEF LoadState, IsEmpty
<1>4. TablesOK'
    BY <1>1, <1>2, <1>3 DEF IInv, TablesOK, IsEmpty
<1>5. MemoryOK' /\ Mirrored'
    BY <1>1, <1>2, <1>3 DEF IInv, MemoryOK, Mirrored, IsEmpty
<1> QED
    BY <1>4, <1>5 DEF IInv

LEMMA RestoreOK == IInv /\ Restore => IInv'
<1> SUFFICES ASSUME IInv, Restore PROVE IInv'
    OBVIOUS
<1>1. TablesOK'
    BY DEF IInv, TablesOK, Restore
<1>2. LoadState(disk) \in LedgerType /\ Sound(LoadState(disk))
    BY DEF IInv, TablesOK, Restore
<1>3. MemoryOK' /\ Mirrored'
    BY <1>2 DEF IInv, MemoryOK, Mirrored, Restore
<1> QED
    BY <1>1, <1>3 DEF IInv

LEMMA CrashOK == IInv /\ Crash => IInv'
<1> SUFFICES ASSUME IInv, Crash PROVE IInv'
    OBVIOUS
<1>1. TablesOK'
    BY DEF IInv, TablesOK, Crash
<1>2. MemoryOK' /\ Mirrored'
    BY DEF IInv, MemoryOK, Mirrored, Crash
<1> QED
    BY <1>1, <1>2 DEF IInv

\* Whatever the block does to the registers, its commit will leave on disk
\* the ledger it leaves in memory.
LEMMA ApplyNetworkBlockOK ==
    ASSUME IInv, NEW d \in Deltas(ledger), NEW ran, NEW took, NEW fs, NEW ms,
           ApplyNetworkBlock(d, ran, took, fs, ms)
    PROVE  IInv'
<1> DEFINE h == ledger.height + 1
           hash == HashOf(ledger, h, d)
           l == ApplyDelta(ledger, d)
<1>1. /\ phase = "idle" /\ phase' = "applied"
      /\ ledger' = RecordBlock(l, h, hash)
      /\ pending'.height = h /\ pending'.hash = hash
      /\ pending'.delta = d /\ pending'.fees = ledger'.fees
      /\ pending'.derived = derived'
      /\ UNCHANGED <<disk, rollbacks>>
    BY DEF ApplyNetworkBlock
<1>2. /\ ledger \in LedgerType /\ Sound(ledger)
      /\ LoadState(disk) = ledger /\ ~IsEmpty(disk)
    BY <1>1 DEF IInv, MemoryOK, Mirrored
<1>3. d \in DeltaType /\ h \in Nat /\ hash \in Hashes
    BY <1>2, DeltaFacts, HashTyped DEF LedgerType
<1>4. ledger' \in LedgerType /\ ledger'.fees = ledger.fees + d.fees
    <2> HIDE DEF h, hash
    <2>1. RecordBlock(l, h, hash).fees = ledger.fees + d.fees
        <3>1. RecordBlock(l, h, hash) =
                [utxo |-> ledger.utxo \o d.created,
                 dead |-> ledger.dead \cup ToSet(d.spent),
                 nfs |-> ledger.nfs \o d.nfs, fees |-> ledger.fees + d.fees,
                 spine |-> Append(ledger.spine, hash), height |-> h,
                 tip |-> hash]
            BY <1>2, <1>3, BlockFields
        <3> QED
            BY <3>1
    <2>2. l \in LedgerType
        BY <1>2, <1>3, ApplyTyped
    <2> HIDE DEF l
    <2>3. RecordBlock(l, h, hash) \in LedgerType
        BY <1>3, <2>2, RecordTyped
    <2> QED
        BY <1>1, <2>1, <2>3
<1>5. Sound(ledger')
    <2>1. Sound(l)
        BY <1>2, ApplySound
    <2>2. /\ ledger'.utxo = l.utxo /\ ledger'.dead = l.dead
          /\ ledger'.nfs = l.nfs
        BY <1>1, <1>2, <1>3, ApplyTyped DEF RecordBlock, LedgerType
    <2> QED
        BY <2>1, <2>2 DEF Sound, CrossCheck
<1>6. LoadState(CommitBlock(disk, pending')) = ledger'
    <2>1. IsTables(disk) /\ disk.netblock \in Seq(BlockRows)
        BY DEF IInv, TablesOK
    <2> HIDE DEF h, hash
    <2> QED
        BY <1>1, <1>2, <1>3, <1>4, <2>1, CommitMirrors
<1>7. TablesOK'
    BY <1>1 DEF IInv, TablesOK
<1>8. MemoryOK'
    BY <1>1, <1>4, <1>5 DEF IInv, MemoryOK
<1>9. Mirrored'
    BY <1>1, <1>2, <1>3, <1>6 DEF Mirrored
<1> QED
    BY <1>7, <1>8, <1>9 DEF IInv

LEMMA ApplyOK == IInv /\ Apply => IInv'
<1> SUFFICES ASSUME IInv, Apply PROVE IInv'
    OBVIOUS
<1> PICK d \in Deltas(ledger), ran \in SUBSET DOMAIN registers \ {{}},
             took \in SUBSET DOMAIN registers :
        \/ ApplyNetworkBlock(d, ran, took, {}, {})
        \/ \E f \in FoundingsOf(registers) :
               ApplyNetworkBlock(d, ran, took, {f}, {})
        \/ \E m \in MergesOf(TakeRolls(registers, took)) :
               ApplyNetworkBlock(d, ran, took, {}, {m})
    BY DEF Apply
<1> QED
    BY ApplyNetworkBlockOK

LEMMA CommitOK == IInv /\ Commit => IInv'
<1> SUFFICES ASSUME IInv, Commit PROVE IInv'
    OBVIOUS
<1> DEFINE row == [height |-> pending.height, hash |-> pending.hash]
<1>1. /\ phase = "applied" /\ phase' = "idle"
      /\ disk' = CommitBlock(disk, pending)
      /\ UNCHANGED <<ledger, derived, rollbacks>>
    BY DEF Commit, memory
<1>2. /\ LoadState(disk') = ledger /\ pending.derived = derived
      /\ ledger \in LedgerType /\ Sound(ledger)
      /\ row \in BlockRows
    BY <1>1 DEF IInv, MemoryOK, Mirrored, BlockRows
<1>3. IsTables(disk) /\ disk.netblock \in Seq(BlockRows)
    BY DEF IInv, TablesOK
<1>4. /\ IsTables(disk') /\ disk'.netblock = Append(disk.netblock, row)
      /\ disk'.derived = pending.derived
    BY <1>1, <1>3, CommitShape
<1>5. disk'.netblock \in Seq(BlockRows)
    <2> HIDE DEF row
    <2> QED
        BY <1>2, <1>3, <1>4
<1>6. ~IsEmpty(disk')
    <2>1. disk'.tip = ledger.tip
        BY <1>2 DEF LoadState
    <2> QED
        BY <1>2, <2>1, HashIsNotNone DEF IsEmpty, LedgerType
<1>7. TablesOK'
    BY <1>2, <1>4, <1>5, <1>6 DEF TablesOK, IsEmpty
<1>8. MemoryOK' /\ Mirrored'
    BY <1>1, <1>2, <1>4, <1>6 DEF IInv, MemoryOK, Mirrored, IsEmpty
<1> QED
    BY <1>7, <1>8 DEF IInv

LEMMA AdoptInMemoryOK == IInv /\ AdoptInMemory => IInv'
<1> SUFFICES ASSUME IInv, AdoptInMemory PROVE IInv'
    OBVIOUS
<1>1. phase = "idle" /\ phase' = "adopted" /\ UNCHANGED <<disk, rollbacks>>
    BY DEF AdoptInMemory
<1>2. ledger \in LedgerType /\ Sound(ledger)
    BY <1>1 DEF IInv, MemoryOK
<1> PICK h \in ledger.height + 1 .. MaxHeight, d \in Deltas(ledger) :
        ledger' = [ApplyDelta(ledger, d) EXCEPT
                     !.height = h, !.spine = <<>>,
                     !.tip = HashOf(ledger, h, d)]
    BY DEF AdoptInMemory
<1> DEFINE l == ApplyDelta(ledger, d)
           tip == HashOf(ledger, h, d)
<1>3. d \in DeltaType /\ l \in LedgerType /\ Sound(l)
    BY <1>2, DeltaFacts, ApplyTyped, ApplySound
<1>4. h \in Nat /\ tip \in Hashes
    <2>1. ledger.height \in Nat
        BY <1>2 DEF LedgerType
    <2>2. h \in Nat
        BY <2>1, StoreAssumption
    <2> QED
        BY <1>2, <1>3, <2>2, HashTyped
<1> HIDE DEF l, tip
<1>5. ledger' = [l EXCEPT !.height = h, !.spine = <<>>, !.tip = tip]
    BY DEF l, tip
<1>6. <<>> \in Seq(Hashes)
    OBVIOUS
<1>7. /\ ledger' \in LedgerType /\ ledger'.spine = <<>>
      /\ ledger'.utxo = l.utxo /\ ledger'.dead = l.dead
      /\ ledger'.nfs = l.nfs
    BY <1>3, <1>4, <1>5, <1>6 DEF LedgerType
<1>8. Sound(ledger')
    BY <1>3, <1>7 DEF Sound, CrossCheck
<1>9. TablesOK'
    BY <1>1 DEF IInv, TablesOK
<1>10. MemoryOK' /\ Mirrored'
    BY <1>1, <1>7, <1>8 DEF IInv, MemoryOK, Mirrored
<1> QED
    BY <1>9, <1>10 DEF IInv

LEMMA AdoptOnDiskOK == IInv /\ AdoptOnDisk => IInv'
<1> SUFFICES ASSUME IInv, AdoptOnDisk PROVE IInv'
    OBVIOUS
<1> DEFINE p == PutLedger(EmptyTables, ledger)
<1>1. /\ phase = "adopted" /\ phase' = "idle"
      /\ disk' = [p EXCEPT !.registers = registers, !.derived = derived]
      /\ UNCHANGED <<ledger, derived, rollbacks>>
    BY DEF AdoptOnDisk, AdoptState, memory
<1>2. ledger \in LedgerType /\ Sound(ledger) /\ ledger.spine = <<>>
    BY <1>1 DEF IInv, MemoryOK, Mirrored
<1>3. /\ IsTables(p) /\ LoadState(p) = ledger
      /\ p.netblock = <<>> /\ p.tip = ledger.tip
    <2>1. EmptyTables.netblock = <<>>
        BY DEF EmptyTables
    <2> QED
        BY <1>2, <2>1, EmptyTablesOK, PutShape
<1> HIDE DEF p
<1>4. /\ IsTables(disk') /\ disk'.derived = derived
      /\ disk'.netblock = p.netblock /\ disk'.utxo = p.utxo
      /\ disk'.dead = p.dead /\ disk'.nfs = p.nfs /\ disk'.fees = p.fees
      /\ disk'.height = p.height /\ disk'.tip = p.tip
    BY <1>1, <1>3 DEF IsTables
<1>5. LoadState(disk') = ledger
    BY <1>3, <1>4 DEF LoadState
<1>6. ~IsEmpty(disk') /\ disk'.netblock \in Seq(BlockRows)
    BY <1>2, <1>3, <1>4, HashIsNotNone DEF IsEmpty, LedgerType
<1>7. TablesOK'
    BY <1>2, <1>4, <1>5, <1>6 DEF TablesOK, IsEmpty
<1>8. MemoryOK' /\ Mirrored'
    BY <1>1, <1>2, <1>4, <1>5, <1>6 DEF IInv, MemoryOK, Mirrored, IsEmpty
<1> QED
    BY <1>7, <1>8 DEF IInv

LEMMA StutterOK == IInv /\ UNCHANGED vars => IInv'
<1> SUFFICES ASSUME IInv, UNCHANGED vars PROVE IInv'
    OBVIOUS
<1> USE DEF vars, memory
<1>1. TablesOK'
    BY DEF IInv, TablesOK
<1>2. MemoryOK' /\ Mirrored'
    BY DEF IInv, MemoryOK, Mirrored
<1> QED
    BY <1>1, <1>2 DEF IInv

-----------------------------------------------------------------------------
(* What a rollback leaves, in memory and on disk.                           *)

LEMMA DropAppended ==
    ASSUME NEW S, NEW s \in Seq(S), NEW t \in Seq(S)
    PROVE  DropLast(s \o t, Len(t)) = s
<1>1. /\ Len(s \o t) = Len(s) + Len(t) /\ Len(s) \in Nat /\ Len(t) \in Nat
      /\ \A k \in 1 .. Len(s) : (s \o t)[k] = s[k]
    OBVIOUS
<1>2. s = [k \in 1 .. Len(s) |-> s[k]]
    OBVIOUS
<1>3. Len(s \o t) - Len(t) = Len(s)
    BY <1>1
<1>4. SubSeq(s \o t, 1, Len(s)) = [k \in 1 .. Len(s) |-> (s \o t)[k]]
    BY <1>1
<1> QED
    BY <1>1, <1>2, <1>3, <1>4 DEF DropLast

\* A table without what was appended to it last.
LEMMA LackingTail ==
    ASSUME NEW S, NEW s \in Seq(S), NEW t \in Seq(S), ToSet(s) \cap ToSet(t) = {}
    PROVE  Lacking(s \o t, ToSet(t)) = s
<1> DEFINE both == s \o t
<1>1. /\ both \in Seq(S) /\ Len(both) = Len(s) + Len(t) /\ Len(s) \in Nat /\ Len(t) \in Nat
      /\ DOMAIN both = 1 .. Len(s) + Len(t)
      /\ \A k \in 1 .. Len(s) : both[k] = s[k] /\ k \in DOMAIN s
      /\ \A k \in Len(s) + 1 .. Len(s) + Len(t) : both[k] = t[k - Len(s)] /\ k - Len(s) \in DOMAIN t
    OBVIOUS
<1> HIDE DEF both
<1>2. {i \in DOMAIN both : both[i] \notin ToSet(t)} = 1 .. Len(s)
    <2>1. \A k \in 1 .. Len(s) : k \in DOMAIN both /\ both[k] \notin ToSet(t)
        <3>1. \A k \in 1 .. Len(s) : k \in DOMAIN both /\ both[k] \in ToSet(s)
            BY <1>1 DEF ToSet
        <3> QED
            BY <3>1
    <2>2. \A k \in DOMAIN both : k \in 1 .. Len(s) \/ k \in Len(s) + 1 .. Len(s) + Len(t)
        BY <1>1
    <2>3. \A k \in Len(s) + 1 .. Len(s) + Len(t) : both[k] \in ToSet(t)
        BY <1>1 DEF ToSet
    <2> QED
        BY <2>1, <2>2, <2>3
<1>3. Lacking(both, ToSet(t)) = SubSeq(both, 1, Len(s))
    <2>1. 1 \in 1 .. Len(both) + 1 /\ Len(s) \in 1 - 1 .. Len(both)
        BY <1>1
    <2> QED
        BY <1>1, <1>2, <2>1, SelectedRun DEF Lacking
<1>4. SubSeq(both, 1, Len(s)) = s
    <2>1. Len(both) - Len(t) = Len(s)
        BY <1>1
    <2> QED
        BY <2>1, DropAppended DEF DropLast, both
<1> QED
    BY <1>3, <1>4 DEF both

\* Rows whose heights run on from a height: all but the last.
LEMMA OthersThanTheLast ==
    ASSUME NEW S, NEW rows \in Seq(S), NEW low \in Nat, rows # <<>>,
           \A i \in 1 .. Len(rows) : rows[i].height = low + i
    PROVE  Selected(rows, Others(rows, low + Len(rows))) = SubSeq(rows, 1, Len(rows) - 1)
<1>1. Len(rows) \in Nat \ {0} /\ DOMAIN rows = 1 .. Len(rows)
    OBVIOUS
<1>2. Others(rows, low + Len(rows)) = 1 .. Len(rows) - 1
    <2>1. \A i \in 1 .. Len(rows) : rows[i].height # low + Len(rows) <=> i \in 1 .. Len(rows) - 1
        BY <1>1
    <2>2. \A i \in 1 .. Len(rows) - 1 : i \in 1 .. Len(rows)
        BY <1>1
    <2> QED
        BY <1>1, <2>1, <2>2 DEF Others
<1>3. 1 \in 1 .. Len(rows) + 1 /\ Len(rows) - 1 \in 1 - 1 .. Len(rows)
    BY <1>1
<1> QED
    BY <1>2, <1>3, SelectedRun

LEMMA UndoFields ==
    ASSUME NEW m \in LedgerType, NEW u
    PROVE  ApplyUndo(m, u) =
             [utxo |-> DropLast(m.utxo, Len(u.created)), dead |-> m.dead \ ToSet(u.unspend),
              nfs |-> DropLast(m.nfs, Len(u.nfs)), fees |-> m.fees - u.fees,
              spine |-> SubSeq(m.spine, 1, IF u.prevHeight < Len(m.spine)
                                           THEN u.prevHeight ELSE Len(m.spine)),
              height |-> u.prevHeight, tip |-> u.prevTip]
<1> DEFINE e == ApplyUndo(m, u)
<1>1. /\ e.utxo = DropLast(m.utxo, Len(u.created)) /\ e.dead = m.dead \ ToSet(u.unspend)
      /\ e.nfs = DropLast(m.nfs, Len(u.nfs)) /\ e.fees = m.fees - u.fees
      /\ e.height = u.prevHeight /\ e.tip = u.prevTip
    BY DEF ApplyUndo, LedgerType
<1>2. e.spine = SubSeq(m.spine, 1, IF u.prevHeight < Len(m.spine)
                                   THEN u.prevHeight ELSE Len(m.spine))
    BY DEF ApplyUndo, LedgerType
<1>3. e \in [utxo : {e.utxo}, dead : {e.dead}, nfs : {e.nfs}, fees : {e.fees}, spine : {e.spine},
             height : {e.height}, tip : {e.tip}]
    BY DEF ApplyUndo, LedgerType
<1> HIDE DEF e
<1>4. e = [utxo |-> DropLast(m.utxo, Len(u.created)), dead |-> m.dead \ ToSet(u.unspend),
           nfs |-> DropLast(m.nfs, Len(u.nfs)), fees |-> m.fees - u.fees,
           spine |-> SubSeq(m.spine, 1, IF u.prevHeight < Len(m.spine)
                                        THEN u.prevHeight ELSE Len(m.spine)),
           height |-> u.prevHeight, tip |-> u.prevTip]
    BY <1>1, <1>2, <1>3
<1> QED
    BY <1>4 DEF e

\* The record of a block takes the ledger it left back to the one it replaced.
LEMMA UndoneIsAsItWas ==
    ASSUME NEW l \in LedgerType, NEW d \in Deltas(l), NEW h \in Nat, NEW hash \in Hashes,
           NEW regs, l.height = h - 1, CanRecord(l, h)
    PROVE  ApplyUndo(RecordBlock(ApplyDelta(l, d), h, hash), Capture(l, d, h, hash, regs)) = l
<1>1. d \in DeltaType /\ CanApplyDelta(l, d)
    BY DeltaFacts
<1> DEFINE m == RecordBlock(ApplyDelta(l, d), h, hash)
           u == Capture(l, d, h, hash, regs)
<1>2. m = [utxo |-> l.utxo \o d.created, dead |-> l.dead \cup ToSet(d.spent),
           nfs |-> l.nfs \o d.nfs, fees |-> l.fees + d.fees,
           spine |-> Append(l.spine, hash), height |-> h, tip |-> hash]
    BY <1>1, BlockFields
<1>3. m \in LedgerType
    BY <1>1, ApplyTyped, RecordTyped
<1>4. /\ u.created = d.created /\ u.nfs = d.nfs /\ u.unspend = d.spent /\ u.fees = d.fees
      /\ u.prevHeight = l.height /\ u.prevTip = l.tip
    BY DEF Capture
<1>5. /\ l.utxo \in Seq(Notes) /\ d.created \in Seq(Notes) /\ l.nfs \in Seq(Notes) /\ d.nfs \in Seq(Notes)
      /\ l.fees \in Nat /\ d.fees \in Nat /\ l.spine \in Seq(Hashes)
    BY <1>1 DEF LedgerType, DeltaType
<1> HIDE DEF m, u
<1>6. DropLast(m.utxo, Len(u.created)) = l.utxo /\ DropLast(m.nfs, Len(u.nfs)) = l.nfs
    BY <1>2, <1>4, <1>5, DropAppended
<1>7. m.dead \ ToSet(u.unspend) = l.dead
    BY <1>1, <1>2, <1>4 DEF CanApplyDelta, Live
<1>8. m.fees - u.fees = l.fees
    BY <1>2, <1>4, <1>5
<1>9. SubSeq(m.spine, 1, IF u.prevHeight < Len(m.spine) THEN u.prevHeight ELSE Len(m.spine)) = l.spine
    <2>1. Len(l.spine) = l.height /\ l.height \in Nat
        BY DEF CanRecord, LedgerType
    <2>2. Len(Append(l.spine, hash)) = l.height + 1 /\ SubSeq(Append(l.spine, hash), 1, l.height) = l.spine
        BY <1>5, <2>1
    <2> QED
        BY <1>2, <1>4, <2>1, <2>2
<1>10. l = [utxo |-> l.utxo, dead |-> l.dead, nfs |-> l.nfs, fees |-> l.fees,
            spine |-> l.spine, height |-> l.height, tip |-> l.tip]
    BY LedgerIsItsFields
<1>11. ApplyUndo(m, u) = l
    BY <1>3, <1>4, <1>6, <1>7, <1>8, <1>9, <1>10, UndoFields
<1> QED
    BY <1>11 DEF m, u

LEMMA RollBackShape ==
    ASSUME NEW t, IsTables(t), NEW u
    PROVE  /\ IsTables(RollBack(t, u))
           /\ RollBack(t, u).utxo = Lacking(t.utxo, ToSet(u.created))
           /\ RollBack(t, u).dead = t.dead \ ToSet(u.unspend)
           /\ RollBack(t, u).nfs = Lacking(t.nfs, ToSet(u.nfs))
           /\ RollBack(t, u).netblock = Selected(t.netblock, Others(t.netblock, u.height))
           /\ RollBack(t, u).undo = Selected(t.undo, Others(t.undo, u.height))
           /\ RollBack(t, u).height = u.prevHeight /\ RollBack(t, u).tip = u.prevTip
           /\ RollBack(t, u).fees = t.fees - u.fees
           /\ RollBack(t, u).derived = t.derived
           /\ RollBack(t, u).registers = Upsert(t.registers, u.registers)
BY DEF RollBack, RollBackRows, IsTables

\* A record between two ledgers.
Between(u, l, m) ==
    /\ l \in LedgerType /\ Sound(l)
    /\ u.height \in Nat /\ l.height = u.height - 1 /\ CanRecord(l, u.height)
    /\ u.hash \in Hashes /\ DOMAIN u.registers \subseteq Grids
    /\ \E d \in Deltas(l) : /\ m = RecordBlock(ApplyDelta(l, d), u.height, u.hash)
                            /\ u = Capture(l, d, u.height, u.hash, u.registers)

LEMMA BetweenUndoes ==
    ASSUME NEW u, NEW l, NEW m, Between(u, l, m)
    PROVE  ApplyUndo(m, u) = l /\ m.height = u.height /\ m \in LedgerType
<1> PICK d \in Deltas(l) : /\ m = RecordBlock(ApplyDelta(l, d), u.height, u.hash)
                           /\ u = Capture(l, d, u.height, u.hash, u.registers)
    BY DEF Between
<1> DEFINE h == u.height
           hash == u.hash
           regs == u.registers
           cap == Capture(l, d, h, hash, regs)
<1>0. u = cap /\ m = RecordBlock(ApplyDelta(l, d), h, hash)
    OBVIOUS
<1> HIDE DEF h, hash, regs
<1>1. /\ l \in LedgerType /\ h \in Nat /\ hash \in Hashes /\ l.height = h - 1 /\ CanRecord(l, h)
    BY DEF Between, h, hash
<1>2. ApplyUndo(m, cap) = l
    BY <1>0, <1>1, UndoneIsAsItWas
<1>3. d \in DeltaType
    BY <1>1, DeltaFacts
<1>4. m = [utxo |-> l.utxo \o d.created, dead |-> l.dead \cup ToSet(d.spent),
           nfs |-> l.nfs \o d.nfs, fees |-> l.fees + d.fees,
           spine |-> Append(l.spine, hash), height |-> h, tip |-> hash]
    BY <1>0, <1>1, <1>3, BlockFields
<1>5. m \in LedgerType
    BY <1>0, <1>1, <1>3, ApplyTyped, RecordTyped
<1>6. m.height = h
    BY <1>4
<1> QED
    BY <1>0, <1>2, <1>5, <1>6 DEF h

\* What is read back after the rollback is what the block replaced.
LEMMA RollBackMirrors ==
    ASSUME NEW t, IsTables(t), t.netblock \in Seq(BlockRows), Len(t.netblock) = t.height,
           \A i \in 1 .. t.height : t.netblock[i].height = i,
           NEW u, NEW l, Between(u, l, LoadState(t))
    PROVE  /\ LoadState(RollBack(t, u)) = l
           /\ RollBack(t, u).netblock = SubSeq(t.netblock, 1, u.height - 1)
<1> DEFINE b == RollBack(t, u)
<1>a. /\ b.utxo = Lacking(t.utxo, ToSet(u.created)) /\ b.nfs = Lacking(t.nfs, ToSet(u.nfs))
      /\ b.dead = t.dead \ ToSet(u.unspend) /\ b.fees = t.fees - u.fees
      /\ b.height = u.prevHeight /\ b.tip = u.prevTip
      /\ b.netblock = Selected(t.netblock, Others(t.netblock, u.height))
    BY RollBackShape, ZenonT(40)
<1> HIDE DEF b
<1> PICK d \in Deltas(l) : /\ LoadState(t) = RecordBlock(ApplyDelta(l, d), u.height, u.hash)
                           /\ u = Capture(l, d, u.height, u.hash, u.registers)
    BY DEF Between
<1>1. /\ l \in LedgerType /\ u.height \in Nat /\ l.height = u.height - 1 /\ Len(l.spine) = u.height - 1
      /\ u.hash \in Hashes
    BY DEF Between, CanRecord
<1>2. d \in DeltaType /\ CanApplyDelta(l, d)
    BY <1>1, DeltaFacts
<1>3. LoadState(t) = [utxo |-> l.utxo \o d.created, dead |-> l.dead \cup ToSet(d.spent),
           nfs |-> l.nfs \o d.nfs, fees |-> l.fees + d.fees,
           spine |-> Append(l.spine, u.hash), height |-> u.height, tip |-> u.hash]
    <2> HIDE DEF Capture
    <2> QED
        BY <1>1, <1>2, BlockFields
<1>4. /\ u.created = d.created /\ u.nfs = d.nfs /\ u.unspend = d.spent /\ u.fees = d.fees
      /\ u.prevHeight = l.height /\ u.prevTip = l.tip
    BY DEF Capture
<1>5. /\ l.utxo \in Seq(Notes) /\ d.created \in Seq(Notes) /\ l.nfs \in Seq(Notes) /\ d.nfs \in Seq(Notes)
      /\ l.fees \in Nat /\ d.fees \in Nat /\ l.spine \in Seq(Hashes) /\ l.height \in Nat
    BY <1>1, <1>2 DEF LedgerType, DeltaType
<1>6. /\ t.utxo = l.utxo \o d.created /\ t.dead = l.dead \cup ToSet(d.spent) /\ t.nfs = l.nfs \o d.nfs
      /\ t.fees = l.fees + d.fees /\ t.height = u.height
      /\ [i \in DOMAIN t.netblock |-> t.netblock[i].hash] = Append(l.spine, u.hash)
    BY <1>3 DEF LoadState
<1>0. /\ b.utxo = Lacking(t.utxo, ToSet(d.created)) /\ b.nfs = Lacking(t.nfs, ToSet(d.nfs))
      /\ b.dead = t.dead \ ToSet(d.spent) /\ b.fees = t.fees - d.fees
      /\ b.height = l.height /\ b.tip = l.tip
      /\ b.netblock = Selected(t.netblock, Others(t.netblock, u.height))
    BY <1>a, <1>4
<1>7. b.utxo = l.utxo /\ b.nfs = l.nfs
    <2>1. ToSet(l.utxo) \cap ToSet(d.created) = {} /\ ToSet(l.nfs) \cap ToSet(d.nfs) = {}
        BY <1>2 DEF CanApplyDelta
    <2> QED
        BY <1>0, <1>5, <1>6, <2>1, LackingTail, SMTT(30)
<1>8. b.dead = l.dead /\ b.fees = l.fees /\ b.height = l.height /\ b.tip = l.tip
    <2>1. ToSet(d.spent) \cap l.dead = {}
        BY <1>2 DEF CanApplyDelta, Live
    <2> QED
        BY <1>0, <1>5, <1>6, <2>1
<1>9. b.netblock = SubSeq(t.netblock, 1, u.height - 1)
    <2> DEFINE rows == t.netblock
    <2>1. rows \in Seq(BlockRows) /\ Len(rows) = u.height /\ u.height # 0
        BY <1>1, <1>5, <1>6
    <2>2. \A i \in 1 .. Len(rows) : rows[i].height = 0 + i
        BY <1>6, <2>1
    <2>3. 0 + Len(rows) = u.height /\ rows # <<>>
        BY <1>1, <2>1
    <2>4. b.netblock = Selected(rows, Others(rows, u.height))
        BY <1>0
    <2> HIDE DEF rows
    <2>5. Selected(rows, Others(rows, 0 + Len(rows))) = SubSeq(rows, 1, Len(rows) - 1)
        BY <2>1, <2>2, <2>3, OthersThanTheLast
    <2> QED
        BY <2>1, <2>3, <2>4, <2>5 DEF rows
<1>10. [i \in DOMAIN b.netblock |-> b.netblock[i].hash] = l.spine
    <2> DEFINE rows == t.netblock
               n == u.height - 1
               less == SubSeq(rows, 1, n)
    <2>1. rows \in Seq(BlockRows) /\ Len(rows) = n + 1 /\ n \in Nat /\ Len(l.spine) = n
        BY <1>1, <1>5, <1>6
    <2>2. /\ DOMAIN less = 1 .. n /\ \A i \in 1 .. n : less[i] = rows[i]
          /\ DOMAIN rows = 1 .. n + 1 /\ 1 .. n \subseteq 1 .. n + 1
        BY <2>1
    <2>3. \A i \in 1 .. n : rows[i].hash = Append(l.spine, u.hash)[i]
        BY <1>6, <2>2
    <2>4. \A i \in 1 .. n : Append(l.spine, u.hash)[i] = l.spine[i]
        BY <1>5, <2>1
    <2>5. l.spine = [i \in 1 .. n |-> l.spine[i]]
        <3>1. DOMAIN l.spine = 1 .. n /\ l.spine = [i \in DOMAIN l.spine |-> l.spine[i]]
            BY <1>5, <2>1
        <3> QED
            BY <3>1
    <2> HIDE DEF less, n
    <2>6. [i \in DOMAIN less |-> less[i].hash] = [i \in 1 .. n |-> l.spine[i]]
        BY <2>2, <2>3, <2>4
    <2>7. b.netblock = less
        BY <1>9 DEF less, n
    <2> QED
        BY <2>5, <2>6, <2>7
<1>11. LoadState(b) = l
    BY <1>1, <1>7, <1>8, <1>10, LedgerIsItsFields DEF LoadState
<1> QED
    BY <1>9, <1>11 DEF b

-----------------------------------------------------------------------------
(* The records a store keeps.  Until a snapshot is adopted, before[h] is what  *)
(* the block of height h replaced, and the record of that block stands between *)
(* it and what came of it; after one there is no spine, and so no block and no *)
(* record.                                                                    *)

Listed(s) == \E S : s \in Seq(S)

\* The lowest height the store can still go back to.
Lowest == IF floor > peak - UndoDepth THEN floor ELSE peak - UndoDepth

StateAt(h) == IF h = disk.height THEN LoadState(disk) ELSE before[h + 1].ledger

\* One record of every height above the ceiling, in order.
RecordsKept ==
    /\ Listed(disk.undo) /\ Len(disk.undo) = disk.height - Lowest
    /\ \A i \in 1 .. Len(disk.undo) : disk.undo[i].height = Lowest + i

BranchKept ==
    /\ Len(disk.netblock) = disk.height
    /\ \A i \in 1 .. disk.height : disk.netblock[i].height = i
    /\ Len(before) >= disk.height
    /\ \A i \in 1 .. Len(disk.undo) :
         Between(disk.undo[i], before[disk.undo[i].height].ledger, StateAt(disk.undo[i].height))

BlockInHand ==
    /\ floor = 0 /\ pending.height = disk.height + 1 /\ pending.height <= MaxHeight
    /\ Len(before) = pending.height /\ before[pending.height].ledger = LoadState(disk)
    /\ pending.undo.height = pending.height
    /\ Between(pending.undo, LoadState(disk), ledger)

Undoable ==
    /\ floor \in Nat /\ peak \in Nat /\ Listed(before)
    /\ IsEmpty(disk) => floor = 0 /\ peak = 0
    /\ ~IsEmpty(disk) =>
         /\ Lowest <= disk.height /\ disk.height <= peak /\ peak <= MaxHeight
         /\ RecordsKept
         /\ floor = 0 => BranchKept
         /\ floor > 0 => disk.netblock = <<>> /\ disk.height = floor /\ peak = floor
    /\ phase = "applied" => BlockInHand
    /\ phase = "adopted" => ~IsEmpty(disk) /\ ledger.height \in disk.height .. MaxHeight \ {0}

LEMMA LowestTyped == Undoable => Lowest \in Nat /\ Lowest >= floor
BY StoreAssumption DEF Undoable, Lowest

LEMMA LoadedFields ==
    ASSUME NEW t
    PROVE  /\ LoadState(t).height = t.height /\ LoadState(t).tip = t.tip
           /\ LoadState(t).spine = [i \in DOMAIN t.netblock |-> t.netblock[i].hash]
BY DEF LoadState

LEMMA UndoableInit == Init => Undoable
<1>1. <<>> \in Seq({})
    OBVIOUS
<1> QED
    BY <1>1 DEF Init, Undoable, IsEmpty, EmptyTables, Listed

\* Nothing that matters to the records moves.
LEMMA UndoableFrame ==
    ASSUME Undoable, UNCHANGED <<floor, peak, before>>, LoadState(disk)' = LoadState(disk),
           disk'.tip = disk.tip, disk'.height = disk.height, disk'.netblock = disk.netblock,
           disk'.undo = disk.undo, phase' \notin {"applied", "adopted"}
    PROVE  Undoable'
<1>1. Lowest' = Lowest /\ IsEmpty(disk)' = IsEmpty(disk) /\ Listed(before)'
    BY DEF Lowest, IsEmpty, Undoable, Listed
<1>2. \A h : StateAt(h)' = StateAt(h)
    BY DEF StateAt
<1>3. RecordsKept => RecordsKept'
    BY <1>1 DEF RecordsKept, Listed
<1>4. BranchKept => BranchKept'
    BY <1>2 DEF BranchKept
<1> QED
    BY <1>1, <1>3, <1>4 DEF Undoable

LEMMA UndoableFirstBoot == ASSUME IInv, Undoable, FirstBoot PROVE Undoable'
<1> DEFINE g == GenesisLedger(GenesisNotes)
<1>1. /\ disk = EmptyTables /\ disk' = PutLedger(disk, g) /\ phase' = "booting"
      /\ UNCHANGED <<before, floor, peak>> /\ IsEmpty(disk)
    BY DEF FirstBoot, Initialised, IInv, TablesOK, history
<1>2. g.height = 0 /\ g.tip \in Hashes /\ g \in LedgerType
    BY GenesisTyped DEF GenesisLedger, LedgerType
<1>3. IsTables(disk) /\ disk.netblock = <<>> /\ disk.undo = <<>>
    BY <1>1, EmptyTablesOK DEF EmptyTables
<1> HIDE DEF g
<1>4. disk'.netblock = <<>> /\ disk'.undo = <<>> /\ disk'.height = 0 /\ disk'.tip = g.tip
    BY <1>1, <1>2, <1>3 DEF PutLedger, IsTables
<1>5. floor' = 0 /\ peak' = 0 /\ Lowest' = 0 /\ ~IsEmpty(disk)' /\ Listed(before)'
    BY <1>1, <1>2, <1>4, HashIsNotNone, StoreAssumption DEF Undoable, Lowest, IsEmpty, Listed
<1>6. RecordsKept'
    <2>1. <<>> \in Seq({}) /\ Len(<<>>) = 0
        OBVIOUS
    <2> QED
        BY <1>4, <1>5, <2>1 DEF RecordsKept, Listed
<1>7. BranchKept'
    <2>1. Len(<<>>) = 0 /\ Len(before) \in Nat
        BY DEF Undoable, Listed
    <2> QED
        BY <1>1, <1>4, <2>1 DEF BranchKept
<1> QED
    BY <1>1, <1>4, <1>5, <1>6, <1>7, StoreAssumption DEF Undoable

LEMMA UndoableSaveRegisters == ASSUME IInv, Undoable, SaveRegisters PROVE Undoable'
<1>1. /\ phase' = "idle" /\ IsTables(disk) /\ UNCHANGED <<floor, peak, before>>
      /\ disk' = [disk EXCEPT !.registers = Upsert(@, registers)]
    BY DEF SaveRegisters, IInv, TablesOK, history
<1>2. /\ disk'.netblock = disk.netblock /\ disk'.utxo = disk.utxo /\ disk'.dead = disk.dead
      /\ disk'.nfs = disk.nfs /\ disk'.fees = disk.fees /\ disk'.height = disk.height
      /\ disk'.tip = disk.tip /\ disk'.undo = disk.undo
    BY <1>1 DEF IsTables
<1>3. LoadState(disk)' = LoadState(disk)
    BY <1>2 DEF LoadState
<1> QED
    BY <1>1, <1>2, <1>3, UndoableFrame

\* A node that stands on a snapshot records no block, so no block is built on one.
LEMMA NoBlockOnASnapshot ==
    ASSUME IInv, Undoable, phase = "idle", CanRecord(ledger, ledger.height + 1)
    PROVE  floor = 0 /\ ledger.height = disk.height /\ ledger = LoadState(disk) /\ ~IsEmpty(disk)
<1>1. /\ ~IsEmpty(disk) /\ LoadState(disk) = ledger /\ ledger \in LedgerType
    BY DEF IInv, Mirrored, MemoryOK
<1>2. /\ ledger.height = disk.height /\ ledger.height \in Nat
      /\ ledger.spine = [i \in DOMAIN disk.netblock |-> disk.netblock[i].hash]
    BY <1>1, LoadedFields DEF LedgerType
<1>3. Len(ledger.spine) = ledger.height
    BY <1>2 DEF CanRecord
<1>4. floor > 0 => FALSE
    <2> SUFFICES ASSUME floor > 0 PROVE FALSE
        OBVIOUS
    <2>1. disk.netblock = <<>> /\ disk.height > 0
        BY <1>1 DEF Undoable
    <2>2. ledger.spine = <<>>
        BY <1>2, <2>1
    <2> QED
        BY <1>2, <1>3, <2>1, <2>2
<1> QED
    BY <1>1, <1>2, <1>4 DEF Undoable

LEMMA UndoableNetworkBlock ==
    ASSUME IInv, Undoable, DOMAIN registers \subseteq Grids,
           NEW d \in Deltas(ledger), NEW ran, NEW took \in SUBSET DOMAIN registers, NEW fs, NEW ms,
           ApplyNetworkBlock(d, ran, took, fs, ms)
    PROVE  Undoable'
<1> DEFINE h == ledger.height + 1
           hash == HashOf(ledger, h, d)
           regs == Restrict(registers, took)
           was == [ledger |-> ledger, registers |-> registers, derived |-> derived]
<1>1. /\ phase = "idle" /\ phase' = "applied" /\ h <= MaxHeight /\ CanRecord(ledger, h)
      /\ ledger' = RecordBlock(ApplyDelta(ledger, d), h, hash)
      /\ pending'.height = h
      /\ pending'.undo = Capture(ledger, d, h, hash, regs)
      /\ before' = Append(SubSeq(before, 1, h - 1 - floor), was)
      /\ UNCHANGED <<disk, floor, peak>>
    BY DEF ApplyNetworkBlock
<1>2. /\ floor = 0 /\ ledger.height = disk.height /\ ledger = LoadState(disk) /\ ~IsEmpty(disk)
    BY <1>1, NoBlockOnASnapshot
<1>3. ledger \in LedgerType /\ Sound(ledger) /\ ledger.height \in Nat
    BY <1>1 DEF IInv, MemoryOK, LedgerType
<1>4. d \in DeltaType /\ h \in Nat /\ hash \in Hashes /\ h - 1 = disk.height
    BY <1>2, <1>3, DeltaFacts, HashTyped
<1>5. BranchKept /\ RecordsKept /\ Lowest \in Nat
    BY <1>2, LowestTyped DEF Undoable
<1>6. PICK S : before \in Seq(S)
    BY DEF Undoable, Listed
<1> HIDE DEF h, hash, was
<1>7. /\ before' \in Seq(S \cup {was}) /\ Len(before') = h /\ before'[h] = was
      /\ \A k \in 1 .. disk.height : before'[k] = before[k]
    <2> DEFINE n == disk.height
               cut == SubSeq(before, 1, n)
    <2>1. n \in Nat /\ n <= Len(before) /\ h - 1 - floor = n /\ h = n + 1
        BY <1>2, <1>3, <1>4, <1>5 DEF BranchKept
    <2>2. before' = Append(cut, was)
        BY <1>1, <2>1
    <2> HIDE DEF n
    <2>3. cut \in Seq(S) /\ Len(cut) = n /\ \A k \in 1 .. n : cut[k] = before[k]
        BY <1>6, <2>1
    <2> HIDE DEF cut
    <2>4. cut \in Seq(S \cup {was})
        BY <2>3
    <2>5. /\ before' \in Seq(S \cup {was}) /\ Len(before') = n + 1 /\ before'[n + 1] = was
          /\ \A k \in 1 .. n : before'[k] = cut[k]
        BY <2>1, <2>2, <2>3, <2>4
    <2> QED
        BY <2>1, <2>3, <2>5 DEF n
<1>8. was.ledger = ledger
    BY DEF was
<1>9. DOMAIN regs \subseteq Grids
    BY DEF Restrict
<1>10. pending'.undo.height = h /\ pending'.undo.hash = hash /\ pending'.undo.registers = regs
    BY <1>1 DEF Capture
<1>11. Between(pending'.undo, ledger, ledger')
    <2> DEFINE u == pending'.undo
    <2> HIDE DEF regs
    <2>1. /\ u = Capture(ledger, d, h, hash, regs) /\ u.height = h /\ u.hash = hash /\ u.registers = regs
          /\ ledger' = RecordBlock(ApplyDelta(ledger, d), h, hash)
        BY <1>1, <1>10
    <2> HIDE DEF u
    <2>2. u.height \in Nat /\ ledger.height = u.height - 1 /\ CanRecord(ledger, u.height)
        BY <1>1, <1>3, <1>4, <2>1 DEF h
    <2>3. u.hash \in Hashes /\ DOMAIN u.registers \subseteq Grids
        BY <1>4, <1>9, <2>1 DEF regs
    <2>4. \E e \in Deltas(ledger) : /\ ledger' = RecordBlock(ApplyDelta(ledger, e), u.height, u.hash)
                                    /\ u = Capture(ledger, e, u.height, u.hash, u.registers)
        BY <2>1
    <2>5. Between(u, ledger, ledger')
        BY <1>3, <2>2, <2>3, <2>4 DEF Between
    <2> QED
        BY <2>5 DEF u
<1>12. BlockInHand'
    <2>1. LoadState(disk)' = ledger
        BY <1>1, <1>2
    <2> QED
        BY <1>1, <1>2, <1>4, <1>7, <1>8, <1>10, <1>11, <2>1 DEF BlockInHand
<1>13. Lowest' = Lowest /\ IsEmpty(disk)' = IsEmpty(disk) /\ Listed(before)' /\ RecordsKept'
    BY <1>1, <1>5, <1>7 DEF Lowest, IsEmpty, Listed, RecordsKept
<1>14. BranchKept'
    <2>1. ASSUME NEW i \in 1 .. Len(disk.undo)
          PROVE  /\ before'[disk.undo[i].height] = before[disk.undo[i].height]
                 /\ StateAt(disk.undo[i].height)' = StateAt(disk.undo[i].height)
        <3> PICK k : k = disk.undo[i].height
            OBVIOUS
        <3>0. disk'.undo[i].height = k
            BY <1>1
        <3>1. k = Lowest + i /\ Len(disk.undo) = disk.height - Lowest /\ Len(disk.undo) \in Nat
            BY <1>5 DEF RecordsKept, Listed
        <3>2. k \in 1 .. disk.height
            BY <1>3, <1>2, <1>5, <3>1
        <3>3. before'[k] = before[k]
            BY <1>7, <3>2
        <3>4. StateAt(disk.undo[i].height)' = StateAt(disk.undo[i].height)
            <4>1. k # disk.height => k + 1 \in 1 .. disk.height
                BY <1>2, <1>3, <3>2
            <4> QED
                BY <1>1, <1>7, <3>0, <4>1 DEF StateAt
        <3> QED
            BY <3>3, <3>4
    <2>2. Len(before') >= disk.height
        BY <1>2, <1>3, <1>4, <1>7
    <2> QED
        BY <1>1, <1>5, <2>1, <2>2 DEF BranchKept
<1> QED
    BY <1>1, <1>2, <1>12, <1>13, <1>14 DEF Undoable

LEMMA UndoableApply == ASSUME IInv, Undoable, DOMAIN registers \subseteq Grids, Apply PROVE Undoable'
<1> PICK d \in Deltas(ledger), ran \in SUBSET DOMAIN registers \ {{}},
             took \in SUBSET DOMAIN registers :
        \/ ApplyNetworkBlock(d, ran, took, {}, {})
        \/ \E f \in FoundingsOf(registers) :
               ApplyNetworkBlock(d, ran, took, {f}, {})
        \/ \E m \in MergesOf(TakeRolls(registers, took)) :
               ApplyNetworkBlock(d, ran, took, {}, {m})
    BY DEF Apply
<1> QED
    BY UndoableNetworkBlock

\* What a prune leaves of records whose heights run on: the last UndoDepth of them.
LEMMA PruneKeeps ==
    ASSUME NEW S, NEW s \in Seq(S), NEW low \in Nat, NEW h \in Nat, h = low + Len(s),
           \A i \in 1 .. Len(s) : s[i].height = low + i,
           NEW new \in low .. h, new >= h - UndoDepth, new \in {low, h - UndoDepth}
    PROVE  /\ PruneUndo(s, h) \in Seq(S) /\ Len(PruneUndo(s, h)) = h - new
           /\ \A i \in 1 .. h - new : PruneUndo(s, h)[i] = s[new - low + i]
<1> DEFINE c == new - low
           n == Len(s)
<1>1. /\ n \in Nat /\ DOMAIN s = 1 .. n /\ UndoDepth \in Nat \ {0} /\ h = low + n
    BY StoreAssumption
<1>2. new \in Nat /\ low <= new /\ new <= h
    BY <1>1
<1>3. c \in 0 .. n /\ n - c = h - new
    BY <1>1, <1>2
<1>4. \A i \in 1 .. n : low + i > h - UndoDepth <=> c + 1 <= i
    BY <1>1, <1>2
<1>5. {i \in DOMAIN s : s[i].height > h - UndoDepth} = c + 1 .. n
    <2>1. \A i \in DOMAIN s : s[i].height > h - UndoDepth <=> c + 1 <= i
        BY <1>1, <1>4
    <2>2. \A i \in c + 1 .. n : i \in DOMAIN s
        BY <1>1, <1>3
    <2>3. \A i \in DOMAIN s : c + 1 <= i => i \in c + 1 .. n
        BY <1>1, <1>3
    <2>4. \A i \in c + 1 .. n : c + 1 <= i
        BY <1>1, <1>3
    <2> HIDE DEF c, n
    <2> QED
        BY <2>1, <2>2, <2>3, <2>4
<1> HIDE DEF c
<1>6. PruneUndo(s, h) = SubSeq(s, c + 1, n)
    <2>1. c + 1 \in 1 .. Len(s) + 1 /\ n \in (c + 1) - 1 .. Len(s)
        BY <1>1, <1>3
    <2> HIDE DEF n
    <2> QED
        BY <1>5, <2>1, SelectedRun DEF PruneUndo
<1>7. /\ SubSeq(s, c + 1, n) \in Seq(S) /\ Len(SubSeq(s, c + 1, n)) = n - c
      /\ \A i \in 1 .. n - c : SubSeq(s, c + 1, n)[i] = s[c + i]
    BY <1>3, SuffixOf
<1>8. /\ PruneUndo(s, h) \in Seq(S) /\ Len(PruneUndo(s, h)) = h - new
      /\ \A i \in 1 .. h - new : PruneUndo(s, h)[i] = s[c + i]
    <2> HIDE DEF n
    <2> QED
        BY <1>3, <1>6, <1>7
<1>9. \A i \in 1 .. h - new : c + i = new - low + i
    BY DEF c
<1> QED
    BY <1>8, <1>9

LEMMA UndoableCommit == ASSUME IInv, Undoable, Commit PROVE Undoable'
<1>1. /\ phase = "applied" /\ phase' = "idle" /\ disk' = CommitBlock(disk, pending)
      /\ peak' = IF pending.height > peak THEN pending.height ELSE peak
      /\ UNCHANGED <<ledger, before, floor>>
    BY DEF Commit, memory
<1>2. /\ IsTables(disk) /\ ~IsEmpty(disk) /\ LoadState(disk') = ledger /\ ledger \in LedgerType
      /\ pending.hash \in Hashes /\ disk.netblock \in Seq(BlockRows)
    BY <1>1 DEF IInv, TablesOK, Mirrored, MemoryOK
<1> PICK h, u, low : h = pending.height /\ u = pending.undo /\ low = Lowest
    OBVIOUS
<1>3. /\ floor = 0 /\ peak \in Nat /\ low <= disk.height /\ disk.height <= peak /\ peak <= MaxHeight
      /\ low \in Nat /\ RecordsKept /\ BranchKept /\ BlockInHand
    BY <1>1, <1>2, LowestTyped DEF Undoable, BlockInHand
<1>4. /\ h = disk.height + 1 /\ h <= MaxHeight /\ Len(before) = h
      /\ before[h].ledger = LoadState(disk) /\ u.height = h /\ Between(u, LoadState(disk), ledger)
    BY <1>3 DEF BlockInHand
<1>5. disk.height \in Nat /\ h \in Nat
    <2>1. LoadState(disk) \in LedgerType
        BY <1>2 DEF IInv, TablesOK
    <2>2. LoadState(disk).height \in Nat
        BY <2>1 DEF LedgerType
    <2>3. LoadState(disk).height = disk.height
        BY LoadedFields
    <2> QED
        BY <1>4, <2>2, <2>3
<1>6. /\ disk'.height = h /\ disk'.tip = ledger.tip
      /\ disk'.netblock = Append(disk.netblock, [height |-> h, hash |-> pending.hash])
      /\ disk'.undo = PruneUndo(Append(disk.undo, u), h)
    <2>1. /\ disk'.height = pending.height /\ disk'.undo = PruneUndo(Append(disk.undo, pending.undo), pending.height)
          /\ disk'.netblock = Append(disk.netblock, [height |-> pending.height, hash |-> pending.hash])
        BY <1>1, <1>2, CommitShape, ZenonT(40)
    <2>2. LoadState(disk').tip = disk'.tip
        BY LoadedFields
    <2> QED
        BY <1>2, <2>1, <2>2
<1>7. PICK new \in low .. h : new = Lowest' /\ new >= h - UndoDepth /\ new \in {low, h - UndoDepth}
    <2>1. /\ Lowest' \in low .. h /\ Lowest' >= h - UndoDepth /\ Lowest' \in {low, h - UndoDepth}
        BY <1>1, <1>3, <1>4, <1>5, StoreAssumption DEF Lowest
    <2> QED
        BY <2>1
<1> PICK S : disk.undo \in Seq(S)
    BY <1>3 DEF RecordsKept, Listed
<1> DEFINE s == Append(disk.undo, u)
           n == Len(disk.undo)
           T == S \cup {u}
<1>8. /\ n \in Nat /\ n = disk.height - low /\ \A i \in 1 .. n : disk.undo[i].height = low + i
    BY <1>3 DEF RecordsKept
<1>9. /\ s \in Seq(T) /\ Len(s) = n + 1 /\ s[n + 1] = u
      /\ \A i \in 1 .. n : s[i] = disk.undo[i]
    <2>1. disk.undo \in Seq(T) /\ u \in T
        OBVIOUS
    <2> QED
        BY <2>1
<1>a. disk'.undo = PruneUndo(s, h)
    BY <1>6
<1>b. \A j \in 1 .. n : Between(disk.undo[j], before[disk.undo[j].height].ledger, StateAt(disk.undo[j].height))
    BY <1>3 DEF BranchKept
<1> HIDE DEF s, n, T
<1>10. /\ h = low + Len(s) /\ \A i \in 1 .. Len(s) : s[i].height = low + i
    <2>1. h = low + (n + 1)
        BY <1>3, <1>4, <1>5, <1>8
    <2>2. \A i \in 1 .. n + 1 : i = n + 1 \/ i \in 1 .. n
        BY <1>8
    <2> QED
        BY <1>4, <1>8, <1>9, <2>1, <2>2
<1> PICK kept : kept = disk'.undo
    OBVIOUS
<1>11. /\ new \in low .. h /\ kept \in Seq(T) /\ Len(kept) = h - new
       /\ \A i \in 1 .. h - new : kept[i] = s[new - low + i] /\ new - low + i \in 1 .. n + 1
    <2>1. /\ new \in low .. h /\ kept \in Seq(T) /\ Len(kept) = h - new
          /\ \A i \in 1 .. h - new : kept[i] = s[new - low + i]
        <3>1. kept = PruneUndo(s, h)
            BY <1>a
        <3> QED
            <4>1. /\ low \in Nat /\ h \in Nat /\ s \in Seq(T) /\ h = low + Len(s)
                  /\ \A i \in 1 .. Len(s) : s[i].height = low + i
                BY <1>3, <1>5, <1>9, <1>10
            <4>2. new \in low .. h /\ new >= h - UndoDepth /\ new \in {low, h - UndoDepth}
                BY <1>7
            <4>3. /\ PruneUndo(s, h) \in Seq(T) /\ Len(PruneUndo(s, h)) = h - new
                  /\ \A i \in 1 .. h - new : PruneUndo(s, h)[i] = s[new - low + i]
                BY ONLY <4>1, <4>2, PruneKeeps
            <4> QED
                BY <3>1, <4>2, <4>3
    <2>2. \A i \in 1 .. h - new : new - low + i \in 1 .. n + 1
        BY <1>3, <1>5, <1>9, <1>10, <2>1
    <2> QED
        BY <2>1, <2>2
<1>12. RecordsKept'
    <2>1. Listed(disk.undo)'
        BY <1>11 DEF Listed
    <2>2. \A i \in 1 .. h - new : kept[i].height = new + i
        <3>1. \A i \in 1 .. h - new : low + (new - low + i) = new + i
            BY <1>3, <1>5, <1>11
        <3>2. \A i \in 1 .. h - new : s[new - low + i].height = low + (new - low + i)
            BY <1>9, <1>10, <1>11
        <3> SUFFICES ASSUME NEW i \in 1 .. h - new PROVE kept[i].height = new + i
            OBVIOUS
        <3>3. kept[i] = s[new - low + i]
            BY <1>11
        <3> QED
            BY <3>1, <3>2, <3>3
    <2> QED
        BY <1>6, <1>7, <1>11, <2>1, <2>2 DEF RecordsKept
<1>13. BranchKept'
    <2>1. /\ Len(disk'.netblock) = h /\ \A i \in 1 .. h : disk'.netblock[i].height = i
        <3> PICK rows, row : rows = disk.netblock /\ row = [height |-> h, hash |-> pending.hash]
            OBVIOUS
        <3>1. rows \in Seq(BlockRows) /\ Len(rows) = disk.height /\ row.height = h
              /\ \A i \in 1 .. disk.height : rows[i].height = i
            BY <1>2, <1>3 DEF BranchKept
        <3>2. row \in BlockRows
            BY <1>2, <1>5 DEF BlockRows
        <3>3. /\ Len(Append(rows, row)) = h
              /\ \A i \in 1 .. h : Append(rows, row)[i] = IF i = h THEN row ELSE rows[i]
            BY <1>4, <3>1, <3>2
        <3>4. \A i \in 1 .. h : i # h => i \in 1 .. disk.height
            BY <1>4, <1>5
        <3> QED
            BY <1>6, <3>1, <3>3, <3>4
    <2>2. ASSUME NEW i \in 1 .. h - new
          PROVE  Between(kept[i], before[kept[i].height].ledger, StateAt(kept[i].height))'
        <3> PICK v, k : v = kept[i] /\ k = v.height
            OBVIOUS
        <3>1. CASE v = u
            <4>1. k = h /\ before[k].ledger = LoadState(disk)
                BY <1>4, <3>1
            <4>2. Between(v, LoadState(disk), ledger)
                BY <1>4, <3>1
            <4> QED
                BY <1>1, <1>2, <1>6, <4>1, <4>2 DEF StateAt
        <3>2. CASE v # u
            <4> PICK j \in 1 .. n : v = disk.undo[j]
                <5> PICK j : j = new - low + i
                    OBVIOUS
                <5>1. j \in 1 .. n + 1 /\ v = s[j]
                    BY <1>11
                <5>2. j # n + 1
                    BY <1>9, <3>2, <5>1
                <5>3. j \in 1 .. n
                    BY <1>8, <5>1, <5>2
                <5> QED
                    BY <1>9, <5>1, <5>3
            <4>1. Between(v, before[k].ledger, StateAt(k))
                <5>1. k = disk.undo[j].height
                    OBVIOUS
                <5> QED
                    BY ONLY <1>b, <5>1, j \in 1 .. n, v = disk.undo[j]
            <4>2. k = low + j /\ k \in 1 .. disk.height
                <5>1. k = disk.undo[j].height /\ disk.undo[j].height = low + j
                    BY <1>8
                <5>2. low + j \in 1 .. disk.height
                    <6>1. low \in Nat /\ disk.height \in Nat /\ n \in Nat /\ n = disk.height - low
                        BY <1>3, <1>5, <1>8
                    <6> QED
                        BY ONLY <6>1, j \in 1 .. n
                <5> QED
                    BY ONLY <5>1, <5>2
            <4>3. k # h /\ (k + 1 = h <=> k = disk.height)
                <5>1. h = disk.height + 1 /\ disk.height \in Nat /\ k \in 1 .. disk.height
                    BY <1>4, <1>5, <4>2
                <5> QED
                    BY ONLY <5>1
            <4>4. StateAt(k) = before[k + 1].ledger
                BY <1>4, <4>2, <4>3 DEF StateAt
            <4>5. Between(v, before[k].ledger, before[k + 1].ledger)
                BY <4>1, <4>4
            <4>6. StateAt(kept[i].height)' = before[k + 1].ledger
                BY <1>1, <1>6, <4>3 DEF StateAt
            <4> QED
                BY <1>1, <4>5, <4>6
        <3> QED
            BY <3>1, <3>2
    <2>3. Len(before') >= disk'.height
        BY <1>1, <1>4, <1>5, <1>6
    <2> QED
        BY <1>6, <1>11, <2>1, <2>2, <2>3 DEF BranchKept
<1>14. ~IsEmpty(disk)' /\ Listed(before)'
    BY <1>1, <1>2, <1>6, HashIsNotNone DEF IsEmpty, LedgerType, Undoable, Listed
<1>15. peak' \in Nat /\ Lowest' <= disk'.height /\ disk'.height <= peak' /\ peak' <= MaxHeight
    BY <1>1, <1>3, <1>4, <1>5, <1>6, <1>7, <1>11
<1> QED
    BY <1>1, <1>3, <1>12, <1>13, <1>14, <1>15 DEF Undoable

LEMMA UndoableAdoptInMemory == ASSUME IInv, Undoable, AdoptInMemory PROVE Undoable'
<1>1. /\ phase = "idle" /\ phase' = "adopted" /\ UNCHANGED <<disk, before, peak, floor>>
      /\ \E h \in ledger.height + 1 .. MaxHeight, d \in Deltas(ledger) :
            ledger' = [ApplyDelta(ledger, d) EXCEPT !.height = h, !.spine = <<>>,
                                                    !.tip = HashOf(ledger, h, d)]
    BY DEF AdoptInMemory, history
<1> PICK h \in ledger.height + 1 .. MaxHeight, d \in Deltas(ledger) :
            ledger' = [ApplyDelta(ledger, d) EXCEPT !.height = h, !.spine = <<>>,
                                                    !.tip = HashOf(ledger, h, d)]
    BY <1>1
<1>2. /\ ledger \in LedgerType /\ LoadState(disk) = ledger /\ ~IsEmpty(disk)
    BY <1>1 DEF IInv, MemoryOK, Mirrored
<1>3. ledger'.height = h
    <2>1. ApplyDelta(ledger, d) \in LedgerType
        BY <1>2, DeltaFacts, ApplyTyped
    <2> QED
        BY <2>1 DEF LedgerType
<1>4. h \in disk.height .. MaxHeight \ {0}
    <2>1. ledger.height = disk.height /\ ledger.height \in Nat
        BY <1>2, LoadedFields DEF LedgerType
    <2> QED
        BY <2>1, StoreAssumption
<1>5. /\ Lowest' = Lowest /\ IsEmpty(disk)' = IsEmpty(disk) /\ Listed(before)' = Listed(before)
      /\ RecordsKept' = RecordsKept
    BY <1>1 DEF Lowest, IsEmpty, Listed, RecordsKept
<1>6. BranchKept => BranchKept'
    <2>1. \A k : StateAt(k)' = StateAt(k)
        BY <1>1 DEF StateAt
    <2> QED
        BY <1>1, <2>1 DEF BranchKept
<1> QED
    BY <1>1, <1>2, <1>3, <1>4, <1>5, <1>6 DEF Undoable

LEMMA UndoableAdoptOnDisk == ASSUME IInv, Undoable, AdoptOnDisk PROVE Undoable'
<1> DEFINE p == PutLedger(EmptyTables, ledger)
<1>1. /\ phase = "adopted" /\ phase' = "idle"
      /\ disk' = [p EXCEPT !.registers = registers, !.derived = derived]
      /\ before' = <<>> /\ floor' = ledger.height /\ peak' = ledger.height
    BY DEF AdoptOnDisk, AdoptState
<1>2. ledger \in LedgerType /\ ledger.height \in disk.height .. MaxHeight \ {0}
    BY <1>1 DEF IInv, MemoryOK, Undoable
<1>3. /\ IsTables(p) /\ p.netblock = <<>> /\ p.undo = <<>> /\ p.tip = ledger.tip /\ p.height = ledger.height
    <2>1. EmptyTables.netblock = <<>> /\ EmptyTables.undo = <<>> /\ IsTables(EmptyTables)
        BY EmptyTablesOK DEF EmptyTables
    <2>2. IsTables(p) /\ p.netblock = EmptyTables.netblock /\ p.tip = ledger.tip
        BY <1>2, <2>1, PutShape
    <2>3. p.undo = EmptyTables.undo /\ p.height = ledger.height
        BY <2>1 DEF PutLedger, IsTables
    <2> QED
        BY <2>1, <2>2, <2>3
<1> HIDE DEF p
<1>4. /\ disk'.netblock = <<>> /\ disk'.undo = <<>> /\ disk'.height = ledger.height /\ disk'.tip = ledger.tip
    BY <1>1, <1>3 DEF IsTables
<1>5. ledger.height \in Nat /\ ledger.height > 0
    <2>1. disk.height \in Nat \/ disk.height = -1
        <3>1. CASE IsEmpty(disk)
            BY <3>1 DEF IInv, TablesOK, EmptyTables
        <3>2. CASE ~IsEmpty(disk)
            <4>1. LoadState(disk) \in LedgerType
                BY <3>2 DEF IInv, TablesOK
            <4>2. LoadState(disk).height \in Nat
                BY <4>1 DEF LedgerType
            <4> QED
                BY <4>2, LoadedFields
        <3> QED
            BY <3>1, <3>2
    <2>2. ledger.height \in Nat
        BY <1>2 DEF LedgerType
    <2>3. ~IsEmpty(disk)
        BY <1>1 DEF Undoable
    <2>4. disk.height >= 0
        BY <2>1, <2>3, LowestTyped DEF Undoable
    <2> QED
        BY <1>2, <2>1, <2>2, <2>4
<1>6. floor' \in Nat /\ peak' \in Nat /\ Lowest' = ledger.height
    BY <1>1, <1>5, StoreAssumption DEF Lowest
<1>7. Listed(<<>>)
    <2>1. <<>> \in Seq({})
        OBVIOUS
    <2> QED
        BY <2>1 DEF Listed
<1>8. RecordsKept'
    <2>1. Len(<<>>) = 0
        OBVIOUS
    <2> QED
        BY <1>4, <1>5, <1>6, <1>7, <2>1 DEF RecordsKept, Listed
<1>9. ~IsEmpty(disk)' /\ Listed(before)'
    BY <1>1, <1>2, <1>4, <1>7, HashIsNotNone DEF IsEmpty, LedgerType, Listed
<1> QED
    BY <1>1, <1>2, <1>4, <1>5, <1>6, <1>8, <1>9 DEF Undoable

\* What a rollback finds: the record of the tip, between what the block of the tip replaced
\* and the state of the node.
LEMMA RecordOfTheTip ==
    ASSUME IInv, Undoable, CanRollback, NEW u, u = Last(disk.undo)
    PROVE  /\ floor = 0 /\ ~IsEmpty(disk) /\ ledger = LoadState(disk)
           /\ disk.undo # <<>> /\ u.height = disk.height /\ u.height = Lowest + Len(disk.undo)
           /\ disk.height \in Nat
           /\ Between(u, before[u.height].ledger, ledger)
<1>1. /\ phase = "idle" /\ disk.undo # <<>> /\ u = disk.undo[Len(disk.undo)]
    BY DEF CanRollback, Last
<1>2. ~IsEmpty(disk) /\ ledger = LoadState(disk) /\ ledger \in LedgerType
    BY <1>1 DEF IInv, Mirrored, MemoryOK
<1>3. RecordsKept /\ Lowest \in Nat /\ Lowest >= floor /\ floor \in Nat /\ (floor = 0 => BranchKept)
      /\ (floor > 0 => disk.height = floor)
    BY <1>2, LowestTyped DEF Undoable
<1>4. Len(disk.undo) \in Nat \ {0} /\ Len(disk.undo) = disk.height - Lowest
    BY <1>1, <1>3 DEF RecordsKept, Listed
<1>5. floor = 0
    BY <1>3, <1>4
<1>6. disk.height \in Nat
    <2>1. ledger.height \in Nat
        BY <1>2 DEF LedgerType
    <2> QED
        BY <1>2, <2>1, LoadedFields
<1>7. Len(disk.undo) \in 1 .. Len(disk.undo)
    BY <1>4
<1>8. u.height = Lowest + Len(disk.undo)
    BY <1>1, <1>3, <1>7 DEF RecordsKept
<1>9. u.height = disk.height
    BY <1>3, <1>4, <1>6, <1>8
<1>10. Between(u, before[u.height].ledger, StateAt(u.height))
    BY <1>1, <1>3, <1>5, <1>7 DEF BranchKept
<1>11. StateAt(u.height) = ledger
    BY <1>2, <1>9 DEF StateAt
<1> QED
    BY <1>1, <1>2, <1>5, <1>6, <1>8, <1>9, <1>10, <1>11

\* Before and after: memory goes back to what the block replaced, and the tables with it.
LEMMA RolledBack ==
    ASSUME IInv, Undoable, Rollback, NEW u, u = Last(disk.undo), NEW l, l = before[u.height].ledger
    PROVE  /\ ledger' = l /\ LoadState(disk') = l /\ l \in LedgerType /\ Sound(l) /\ l.height = disk.height - 1
           /\ IsTables(disk') /\ disk'.derived = disk.derived
           /\ disk'.registers = Upsert(disk.registers, u.registers)
           /\ disk'.netblock = SubSeq(disk.netblock, 1, disk.height - 1)
           /\ disk'.undo = SubSeq(disk.undo, 1, Len(disk.undo) - 1)
<1>1. /\ CanRollback /\ ledger' = ApplyUndo(ledger, u) /\ disk' = RollBack(disk, u)
    BY DEF Rollback, RollbackInMemory
<1>2. /\ floor = 0 /\ ~IsEmpty(disk) /\ ledger = LoadState(disk)
      /\ disk.undo # <<>> /\ u.height = disk.height /\ u.height = Lowest + Len(disk.undo)
      /\ disk.height \in Nat /\ Between(u, l, ledger)
    BY <1>1, RecordOfTheTip
<1>3. ledger' = l
    BY <1>1, <1>2, BetweenUndoes
<1>4. l \in LedgerType /\ Sound(l) /\ l.height = disk.height - 1
    BY <1>2 DEF Between
<1>5. /\ IsTables(disk) /\ disk.netblock \in Seq(BlockRows)
    BY DEF IInv, TablesOK
<1>6. BranchKept /\ RecordsKept /\ Lowest \in Nat
    BY <1>2, LowestTyped DEF Undoable
<1>7. /\ LoadState(disk') = l
      /\ disk'.netblock = SubSeq(disk.netblock, 1, disk.height - 1)
    <2>1. Len(disk.netblock) = disk.height /\ \A i \in 1 .. disk.height : disk.netblock[i].height = i
        BY <1>6 DEF BranchKept
    <2>2. Between(u, l, LoadState(disk))
        BY <1>2
    <2>3. LoadState(RollBack(disk, u)) = l /\ RollBack(disk, u).netblock = SubSeq(disk.netblock, 1, u.height - 1)
        BY <1>5, <2>1, <2>2, RollBackMirrors
    <2> QED
        BY <1>1, <1>2, <2>3
<1>8. /\ IsTables(disk') /\ disk'.derived = disk.derived
      /\ disk'.registers = Upsert(disk.registers, u.registers)
      /\ disk'.undo = Selected(disk.undo, Others(disk.undo, u.height))
    BY <1>1, <1>5, RollBackShape
<1>9. disk'.undo = SubSeq(disk.undo, 1, Len(disk.undo) - 1)
    <2> PICK S : disk.undo \in Seq(S)
        BY <1>6 DEF RecordsKept, Listed
    <2> DEFINE rows == disk.undo
               low == Lowest
    <2>1. rows \in Seq(S) /\ rows # <<>> /\ low \in Nat /\ u.height = low + Len(rows)
          /\ \A i \in 1 .. Len(rows) : rows[i].height = low + i
        BY <1>2, <1>6 DEF RecordsKept
    <2>2. disk'.undo = Selected(rows, Others(rows, u.height))
        BY <1>8
    <2> HIDE DEF rows, low
    <2>3. Selected(rows, Others(rows, low + Len(rows))) = SubSeq(rows, 1, Len(rows) - 1)
        BY <2>1, OthersThanTheLast
    <2>4. disk'.undo = SubSeq(rows, 1, Len(rows) - 1)
        BY <2>1, <2>2, <2>3
    <2> QED
        BY <2>4 DEF rows
<1> QED
    BY <1>3, <1>4, <1>7, <1>8, <1>9

LEMMA RollbackOK == IInv /\ Undoable /\ Rollback => IInv'
<1> SUFFICES ASSUME IInv, Undoable, Rollback PROVE IInv'
    OBVIOUS
<1> PICK u, l : u = Last(disk.undo) /\ l = before[u.height].ledger
    OBVIOUS
<1>1. /\ phase = "idle" /\ rollbacks < MaxRollbacks /\ rollbacks' = rollbacks + 1
      /\ UNCHANGED <<phase, derived, pending>>
    BY DEF Rollback, CanRollback, RollbackInMemory
<1>2. /\ ledger' = l /\ LoadState(disk') = l /\ l \in LedgerType /\ Sound(l)
      /\ IsTables(disk') /\ disk'.derived = disk.derived
      /\ disk'.netblock = SubSeq(disk.netblock, 1, disk.height - 1)
    BY RolledBack
<1>3. ~IsEmpty(disk')
    <2>1. disk'.tip = l.tip
        BY <1>2, LoadedFields
    <2> QED
        BY <1>2, <2>1, HashIsNotNone DEF IsEmpty, LedgerType
<1>4. disk'.netblock \in Seq(BlockRows)
    <2>1. /\ floor = 0 /\ ~IsEmpty(disk) /\ disk.height \in Nat
        BY RecordOfTheTip DEF Rollback
    <2>2. disk.netblock \in Seq(BlockRows) /\ Len(disk.netblock) = disk.height
        BY <2>1 DEF IInv, TablesOK, Undoable, BranchKept
    <2> QED
        BY <1>2, <2>1, <2>2
<1>5. TablesOK'
    BY <1>2, <1>3, <1>4 DEF TablesOK, IsEmpty
<1>6. MemoryOK'
    <2>1. rollbacks \in 0 .. MaxRollbacks
        BY DEF IInv, MemoryOK
    <2> QED
        BY <1>1, <1>2, <2>1, StoreAssumption DEF MemoryOK
<1>7. Mirrored'
    <2>1. disk.derived = derived
        BY <1>1 DEF IInv, Mirrored
    <2> QED
        BY <1>1, <1>2, <1>3, <2>1 DEF Mirrored, IsEmpty
<1> QED
    BY <1>5, <1>6, <1>7 DEF IInv

LEMMA UndoableRollback == ASSUME IInv, Undoable, Rollback PROVE Undoable'
<1> PICK u, l, n, h : u = Last(disk.undo) /\ l = before[u.height].ledger /\ n = Len(disk.undo) /\ h = disk.height
    OBVIOUS
<1>1. /\ phase = "idle" /\ phase' = "idle" /\ UNCHANGED <<before, peak, floor>> /\ CanRollback
    BY DEF Rollback, CanRollback, history
<1>2. /\ ledger' = l /\ LoadState(disk') = l /\ l \in LedgerType /\ l.height = h - 1
      /\ disk'.netblock = SubSeq(disk.netblock, 1, h - 1)
      /\ disk'.undo = SubSeq(disk.undo, 1, n - 1)
    BY RolledBack
<1>3. /\ floor = 0 /\ ~IsEmpty(disk) /\ disk.undo # <<>> /\ u.height = h /\ h = Lowest + n /\ h \in Nat
    BY <1>1, RecordOfTheTip
<1>4. /\ BranchKept /\ RecordsKept /\ Lowest \in Nat /\ Listed(before)
      /\ Lowest <= h /\ h <= peak /\ peak <= MaxHeight /\ peak \in Nat
    BY <1>3, LowestTyped DEF Undoable
<1>5. disk'.height = h - 1 /\ ~IsEmpty(disk') /\ Lowest' = Lowest
    <2>1. disk'.height = l.height /\ disk'.tip = l.tip
        BY <1>2, LoadedFields
    <2> QED
        BY <1>1, <1>2, <2>1, HashIsNotNone DEF IsEmpty, LedgerType, Lowest
<1> PICK S : disk.undo \in Seq(S)
    BY <1>4 DEF RecordsKept, Listed
<1>6. n \in Nat \ {0} /\ n - 1 \in Nat
    BY <1>3
<1>7. /\ disk'.undo \in Seq(S) /\ Len(disk'.undo) = n - 1
      /\ \A i \in 1 .. n - 1 : disk'.undo[i] = disk.undo[i] /\ i \in 1 .. n
    BY <1>2, <1>6
<1>8. RecordsKept'
    <2>1. n - 1 = h - 1 - Lowest
        BY <1>3, <1>4, <1>6
    <2> QED
        BY <1>4, <1>5, <1>7, <2>1 DEF RecordsKept, Listed
<1>9. BranchKept'
    <2>1. Len(disk'.netblock) = h - 1 /\ \A i \in 1 .. h - 1 : disk'.netblock[i].height = i
        <3> DEFINE rows == disk.netblock
        <3>1. rows \in Seq(BlockRows) /\ Len(rows) = h /\ \A i \in 1 .. h : rows[i].height = i
            BY <1>4 DEF IInv, TablesOK, BranchKept
        <3>2. disk'.netblock = SubSeq(rows, 1, h - 1) /\ h - 1 \in Nat
            BY <1>2, <1>3, <1>4, <1>6
        <3> HIDE DEF rows
        <3>3. /\ Len(SubSeq(rows, 1, h - 1)) = h - 1
              /\ \A i \in 1 .. h - 1 : SubSeq(rows, 1, h - 1)[i] = rows[i] /\ i \in 1 .. h
            BY <3>1, <3>2
        <3> QED
            BY <3>1, <3>2, <3>3
    <2>2. Len(before') >= h - 1
        <3>1. Len(before) >= h
            BY <1>4 DEF BranchKept
        <3>2. Len(before) \in Nat
            BY <1>4 DEF Listed
        <3> QED
            BY <1>1, <1>3, <3>1, <3>2
    <2>3. ASSUME NEW i \in 1 .. n - 1
          PROVE  Between(disk.undo[i], before[disk.undo[i].height].ledger, StateAt(disk.undo[i].height))'
        <3> PICK v, k : v = disk.undo[i] /\ k = v.height
            OBVIOUS
        <3>1. Between(v, before[k].ledger, StateAt(k)) /\ k = Lowest + i
            BY <1>4, <1>7 DEF BranchKept, RecordsKept
        <3>2. k \in 1 .. h - 1
            BY <1>3, <1>4, <1>6, <3>1
        <3>3. StateAt(k) = before[k + 1].ledger
            BY <1>3, <3>2 DEF StateAt
        <3>4. disk'.undo[i] = v
            BY <1>7
        <3>5. StateAt(disk.undo[i].height)' = before[k + 1].ledger
            <4>1. k = h - 1 => k + 1 = h
                BY <1>3, <3>2
            <4>2. k = h - 1 => before[k + 1].ledger = l
                BY <1>3, <4>1
            <4> QED
                BY <1>1, <1>2, <1>5, <3>4, <4>2 DEF StateAt
        <3> QED
            BY <1>1, <3>1, <3>3, <3>4, <3>5
    <2> QED
        BY <1>5, <1>7, <2>1, <2>2, <2>3 DEF BranchKept
<1>10. Lowest' <= disk'.height /\ disk'.height <= peak' /\ peak' <= MaxHeight
    BY <1>1, <1>3, <1>4, <1>5, <1>6
<1>11. floor' = 0 /\ peak' \in Nat /\ Listed(before)' /\ ~IsEmpty(disk)'
    BY <1>1, <1>3, <1>4, <1>5 DEF IsEmpty, Listed
<1> QED
    BY <1>1, <1>8, <1>9, <1>10, <1>11 DEF Undoable

LEMMA UndoableRestore == ASSUME IInv, Undoable, Restore PROVE Undoable'
<1>1. /\ phase' = "idle" /\ UNCHANGED <<disk, floor, peak, before>>
    BY DEF Restore, history
<1> QED
    BY <1>1, UndoableFrame

LEMMA UndoableCrash == ASSUME IInv, Undoable, Crash PROVE Undoable'
<1>1. /\ phase' = "down" /\ UNCHANGED <<disk, floor, peak, before>>
    BY DEF Crash, history
<1> QED
    BY <1>1, UndoableFrame

LEMMA UndoableStutter == ASSUME Undoable, UNCHANGED vars PROVE Undoable'
<1> USE DEF vars, memory, history
<1>1. RecordsKept' = RecordsKept /\ Lowest' = Lowest /\ IsEmpty(disk)' = IsEmpty(disk) /\ Listed(before)' = Listed(before)
    BY DEF RecordsKept, Lowest, IsEmpty, Listed
<1>2. \A k : StateAt(k)' = StateAt(k)
    BY DEF StateAt
<1>3. BranchKept' = BranchKept
    BY <1>2 DEF BranchKept
<1>4. BlockInHand' = BlockInHand
    BY DEF BlockInHand
<1> QED
    BY <1>1, <1>3, <1>4 DEF Undoable

LEMMA StepOK == IInv /\ Undoable /\ [Next]_vars => IInv'
BY FirstBootOK, SaveRegistersOK, RestoreOK, CrashOK, ApplyOK, CommitOK,
   AdoptInMemoryOK, AdoptOnDiskOK, RollbackOK, StutterOK DEF Next

LEMMA UndoableStep ==
    ASSUME IInv, Undoable, DOMAIN registers \subseteq Grids, [Next]_vars PROVE Undoable'
BY UndoableFirstBoot, UndoableSaveRegisters, UndoableRestore, UndoableCrash, UndoableApply,
   UndoableCommit, UndoableAdoptInMemory, UndoableAdoptOnDisk, UndoableRollback, UndoableStutter DEF Next

-----------------------------------------------------------------------------
(* The registers.  Where blocks found and merge no grids, every grid whose   *)
(* register a block moves is among those it writes.                         *)

IsFcn(f) == f = [g \in DOMAIN f |-> f[g]]

RegistersMirrored ==
    /\ IsFcn(registers) /\ IsFcn(disk.registers)
    /\ phase = "booting" => disk.registers = EmptyFcn
    /\ phase = "idle" => disk.registers = registers
    /\ phase = "applied" => CommitBlock(disk, pending).registers = registers

LEMMA UpsertWritten ==
    ASSUME NEW regs, IsFcn(regs), NEW took \in SUBSET DOMAIN regs
    PROVE  LET new == TakeRolls(regs, took)
           IN  /\ IsFcn(new)
               /\ Without(Upsert(regs, Restrict(new, took \cap DOMAIN new)), {})
                     = new
BY DEF TakeRolls, Without, Upsert, Restrict, IsFcn

LEMMA RegistersInit == Init => RegistersMirrored
BY DEF Init, RegistersMirrored, IsFcn, EmptyTables, EmptyFcn

LEMMA RegistersStep ==
    ASSUME Regrouping = FALSE, IInv, RegistersMirrored, [Next]_vars
    PROVE  RegistersMirrored'
<1>1. CASE FirstBoot
    <2>1. /\ disk = EmptyTables /\ disk' = PutLedger(disk, ledger')
          /\ registers' = GenesisRegisters /\ phase' = "booting"
        BY <1>1 DEF FirstBoot, Initialised, IInv, TablesOK
    <2>2. disk'.registers = EmptyFcn
        BY <2>1 DEF PutLedger, EmptyTables
    <2>3. IsFcn(EmptyFcn)
        BY DEF IsFcn, EmptyFcn
    <2> QED
        BY <2>1, <2>2, <2>3 DEF RegistersMirrored, GenesisRegisters, IsFcn
<1>2. CASE SaveRegisters
    <2>1. /\ phase = "booting" /\ phase' = "idle" /\ UNCHANGED registers
          /\ disk' = [disk EXCEPT !.registers =
                          Upsert(disk.registers, registers)]
        BY <1>2 DEF SaveRegisters, memory
    <2>2. disk'.registers = Upsert(disk.registers, registers)
        BY <2>1 DEF IInv, TablesOK, IsTables
    <2>3. disk'.registers = registers
        BY <2>1, <2>2 DEF RegistersMirrored, Upsert, EmptyFcn, IsFcn
    <2> QED
        BY <2>1, <2>3 DEF RegistersMirrored
<1>3. CASE Restore
    BY <1>3 DEF Restore, RegistersMirrored
<1>4. CASE Crash
    <2>1. phase' = "down" /\ registers' = EmptyFcn /\ UNCHANGED disk
        BY <1>4 DEF Crash
    <2> QED
        BY <2>1 DEF RegistersMirrored, IsFcn, EmptyFcn
<1>5. CASE Apply
    <2> PICK d \in Deltas(ledger), ran \in SUBSET DOMAIN registers \ {{}},
             took \in SUBSET DOMAIN registers :
            ApplyNetworkBlock(d, ran, took, {}, {})
        BY <1>5 DEF Apply, FoundingsOf, MergesOf
    <2> DEFINE new == TakeRolls(registers, took)
    <2>1. /\ phase = "idle" /\ phase' = "applied" /\ UNCHANGED disk
          /\ registers' = new /\ pending'.retired = {}
          /\ pending'.registers = Restrict(new, took \cap DOMAIN new)
        BY DEF ApplyNetworkBlock
    <2>2. IsFcn(registers) /\ disk.registers = registers
        BY <2>1 DEF RegistersMirrored
    <2>3. /\ IsFcn(new)
          /\ Without(Upsert(registers, Restrict(new, took \cap DOMAIN new)),
                     {}) = new
        BY <2>2, UpsertWritten
    <2>4. CommitBlock(disk, pending').registers = new
        BY <2>1, <2>2, <2>3, CommitShape, ZenonT(40) DEF IInv, TablesOK
    <2> QED
        BY <2>1, <2>3, <2>4 DEF RegistersMirrored
<1>6. CASE Commit
    BY <1>6 DEF Commit, memory, RegistersMirrored
<1>7. CASE AdoptInMemory
    BY <1>7 DEF AdoptInMemory, RegistersMirrored, TakeRolls, IsFcn
<1>8. CASE AdoptOnDisk
    <2>1. /\ phase' = "idle" /\ UNCHANGED registers
          /\ disk' = AdoptState(disk, ledger, registers, derived)
        BY <1>8 DEF AdoptOnDisk, memory
    <2>2. disk'.registers = registers
        BY <2>1 DEF AdoptState, PutLedger, EmptyTables
    <2> QED
        BY <2>1, <2>2 DEF RegistersMirrored
<1>9. CASE Rollback
    <2> PICK u : u = Last(disk.undo)
        OBVIOUS
    <2>1. /\ phase = "idle" /\ phase' = "idle" /\ disk' = RollBack(disk, u)
          /\ registers' = Upsert(registers, u.registers)
        BY <1>9 DEF Rollback, CanRollback
    <2>2. disk'.registers = Upsert(disk.registers, u.registers)
        BY <2>1, RollBackShape DEF IInv, TablesOK
    <2>3. disk.registers = registers
        BY <2>1 DEF RegistersMirrored
    <2>4. IsFcn(Upsert(registers, u.registers))
        BY DEF IsFcn, Upsert
    <2> QED
        BY <2>1, <2>2, <2>3, <2>4 DEF RegistersMirrored
<1>10. CASE UNCHANGED vars
    BY <1>10 DEF vars, memory, RegistersMirrored
<1> QED
    BY <1>1, <1>2, <1>3, <1>4, <1>5, <1>6, <1>7, <1>8, <1>9, <1>10 DEF Next

-----------------------------------------------------------------------------
(* What is in the other variables.                                          *)

GridsOK ==
    /\ phase = "down" => ledger = None
    /\ phase # "applied" => pending = None
    /\ DOMAIN registers \subseteq Grids
    /\ DOMAIN disk.registers \subseteq Grids
    /\ phase = "applied" => DOMAIN pending.registers \subseteq Grids

LEMMA GridsInit == Init => GridsOK
BY DEF Init, GridsOK, EmptyTables, EmptyFcn

LEMMA GridsStep ==
    ASSUME IInv, Undoable, GridsOK, [Next]_vars
    PROVE  GridsOK'
<1>0. IsTables(disk)
    BY DEF IInv, TablesOK
<1>1. CASE FirstBoot
    <2>1. disk'.registers = disk.registers
        BY <1>0, <1>1 DEF FirstBoot, Initialised, PutLedger, IsTables
    <2> QED
        BY <1>1, <2>1, StoreAssumption
        DEF FirstBoot, GridsOK, GenesisRegisters
<1>2. CASE SaveRegisters
    <2>1. disk'.registers = Upsert(disk.registers, registers)
        BY <1>0, <1>2 DEF SaveRegisters, IsTables
    <2> QED
        BY <1>2, <2>1 DEF SaveRegisters, memory, GridsOK, Upsert
<1>3. CASE Restore
    BY <1>3 DEF Restore, GridsOK
<1>4. CASE Crash
    BY <1>4 DEF Crash, GridsOK, EmptyFcn
<1>5. CASE Apply
    <2> PICK d \in Deltas(ledger), ran \in SUBSET DOMAIN registers \ {{}},
             took \in SUBSET DOMAIN registers :
            \/ ApplyNetworkBlock(d, ran, took, {}, {})
            \/ \E f \in FoundingsOf(registers) :
                   ApplyNetworkBlock(d, ran, took, {f}, {})
            \/ \E m \in MergesOf(TakeRolls(registers, took)) :
                   ApplyNetworkBlock(d, ran, took, {}, {m})
        BY <1>5 DEF Apply
    <2> DEFINE rolled == TakeRolls(registers, took)
    <2>1. DOMAIN rolled = DOMAIN registers /\ DOMAIN registers \subseteq Grids
        BY DEF TakeRolls, GridsOK
    <2>2. ASSUME NEW fs, NEW ms, ApplyNetworkBlock(d, ran, took, fs, ms),
                 DOMAIN registers' \subseteq Grids
          PROVE  GridsOK'
        <3>1. /\ phase' = "applied" /\ UNCHANGED disk
              /\ pending'.registers =
                   Restrict(registers', took \cap DOMAIN registers')
            BY <2>2 DEF ApplyNetworkBlock
        <3> QED
            BY <2>2, <3>1 DEF GridsOK, Restrict
    <2>3. CASE ApplyNetworkBlock(d, ran, took, {}, {})
        <3>1. registers' = rolled
            BY <2>3 DEF ApplyNetworkBlock
        <3> QED
            BY <2>1, <2>2, <2>3, <3>1
    <2>4. ASSUME NEW f \in FoundingsOf(registers),
                 ApplyNetworkBlock(d, ran, took, {f}, {})
          PROVE  GridsOK'
        <3>1. registers' = FoundGrid(rolled, f)
            <4>1. (CHOOSE x \in {f} : TRUE) = f
                OBVIOUS
            <4> QED
                BY <2>4, <4>1 DEF ApplyNetworkBlock
        <3>2. f.donor \in DOMAIN registers /\ f.grid \in Grids
            BY <2>4 DEF FoundingsOf
        <3>3. DOMAIN registers' = DOMAIN rolled \cup {f.donor, f.grid}
            BY <3>1 DEF FoundGrid, Upsert
        <3> QED
            BY <2>1, <2>2, <2>4, <3>2, <3>3
    <2>5. ASSUME NEW m \in MergesOf(rolled),
                 ApplyNetworkBlock(d, ran, took, {}, {m})
          PROVE  GridsOK'
        <3>1. registers' = MergeGrid(rolled, m)
            <4>1. (CHOOSE x \in {m} : TRUE) = m
                OBVIOUS
            <4> QED
                BY <2>5, <4>1 DEF ApplyNetworkBlock
        <3>2. m.into \in DOMAIN rolled
            BY <2>5 DEF MergesOf
        <3>3. DOMAIN registers' \subseteq DOMAIN rolled \cup {m.into}
            BY <3>1 DEF MergeGrid, Upsert, Without, Restrict
        <3> QED
            BY <2>1, <2>2, <2>5, <3>2, <3>3
    <2> QED
        BY <2>3, <2>4, <2>5
<1>6. CASE Commit
    <2>1. disk'.registers =
            Without(Upsert(disk.registers, pending.registers),
                    pending.retired)
        BY <1>0, <1>6, CommitShape DEF Commit
    <2>2. DOMAIN disk'.registers \subseteq Grids
        BY <1>6, <2>1 DEF Commit, GridsOK, Without, Upsert, Restrict
    <2> QED
        BY <1>6, <2>2 DEF Commit, memory, GridsOK
<1>7. CASE AdoptInMemory
    BY <1>7 DEF AdoptInMemory, GridsOK, TakeRolls
<1>8. CASE AdoptOnDisk
    <2>1. disk'.registers = registers
        BY <1>8 DEF AdoptOnDisk, AdoptState, PutLedger, EmptyTables
    <2> QED
        BY <1>8, <2>1 DEF AdoptOnDisk, memory, GridsOK
<1>9. CASE Rollback
    <2> PICK u : u = Last(disk.undo)
        OBVIOUS
    <2>1. /\ phase = "idle" /\ phase' = "idle" /\ disk' = RollBack(disk, u) /\ CanRollback
          /\ registers' = Upsert(registers, u.registers) /\ UNCHANGED pending
        BY <1>9 DEF Rollback, CanRollback
    <2>2. disk'.registers = Upsert(disk.registers, u.registers)
        BY <1>0, <2>1, RollBackShape
    <2>3. DOMAIN u.registers \subseteq Grids
        BY <2>1, RecordOfTheTip DEF Between
    <2> QED
        BY <2>1, <2>2, <2>3 DEF GridsOK, Upsert
<1>10. CASE UNCHANGED vars
    BY <1>10 DEF vars, memory, GridsOK
<1> QED
    BY <1>1, <1>2, <1>3, <1>4, <1>5, <1>6, <1>7, <1>8, <1>9, <1>10 DEF Next

-----------------------------------------------------------------------------
(* The theorems, for every genesis, every set of notes, every depth of the   *)
(* undo log and every bound.                                                *)

StoreInv == IInv /\ Undoable /\ GridsOK

LEMMA StoreInitially == Init => StoreInv
BY InitOK, UndoableInit, GridsInit DEF StoreInv

LEMMA StoreStep == StoreInv /\ [Next]_vars => StoreInv'
<1> SUFFICES ASSUME StoreInv, [Next]_vars PROVE StoreInv'
    OBVIOUS
<1>1. IInv /\ Undoable /\ GridsOK /\ DOMAIN registers \subseteq Grids
    BY DEF StoreInv, GridsOK
<1> QED
    BY <1>1, StepOK, UndoableStep, GridsStep DEF StoreInv

\* The inductive invariant (chain/store/db.py's tables against chain/state.py's memory).
THEOREM StoreInvariance == Spec => []StoreInv
BY StoreInitially, StoreStep, PTL DEF Spec

\* Type correctness of the node and its tables.
THEOREM StoreTypeCorrect == Spec => []TypeOK
<1>1. StoreInv => TypeOK
    BY StoreAssumption DEF StoreInv, IInv, GridsOK, MemoryOK, TablesOK, TypeOK
<1> QED
    BY <1>1, StoreInvariance, PTL

\* Whatever the order of boots, blocks, foundings, merges, adoptions, rollbacks and
\* crashes, the ledger read back from the tables between two blocks is the one in memory.
THEOREM LedgerIsDurable == Spec => []LedgerSurvives
<1>1. StoreInv => LedgerSurvives
    BY DEF StoreInv, IInv, Mirrored, LedgerSurvives
<1> QED
    BY <1>1, StoreInvariance, PTL

\* And so is what the next block's roll is derived from.
THEOREM DerivedIsDurable == Spec => []DerivedSurvives
<1>1. StoreInv => DerivedSurvives
    BY DEF StoreInv, IInv, Mirrored, DerivedSurvives
<1> QED
    BY <1>1, StoreInvariance, PTL

\* A node of one grid, which founds and merges none, keeps its register too.
THEOREM RegistersAreDurable == ASSUME Regrouping = FALSE PROVE Spec => []RegistersSurvive
<1>1. Init => StoreInv /\ RegistersMirrored
    BY StoreInitially, RegistersInit
<1>2. StoreInv /\ RegistersMirrored /\ [Next]_vars => StoreInv' /\ RegistersMirrored'
    BY StoreStep, RegistersStep DEF StoreInv
<1>3. RegistersMirrored => RegistersSurvive
    BY DEF RegistersMirrored, RegistersSurvive
<1> QED
    BY <1>1, <1>2, <1>3, PTL DEF Spec

\* The two records of a spend never part, in memory or on disk: every spend
\* tombstones one note and publishes one nullifier, a rollback takes both back,
\* wherever a crash falls.
THEOREM SpendsNeverPart == Spec => []SpendsAgree
<1>1. CrossCheck(LoadState(EmptyTables))
    BY FS_EmptySet DEF CrossCheck, LoadState, EmptyTables
<1>2. StoreInv => SpendsAgree
    BY <1>1 DEF StoreInv, GridsOK, IInv, MemoryOK, TablesOK, Sound, SpendsAgree
<1> QED
    BY <1>2, StoreInvariance, PTL

\* All of it together (SurvivesCrashes, apply_network_block and Store.load_state): a crash
\* between two blocks costs a node of one grid nothing.
THEOREM CrashesCostNothing == ASSUME Regrouping = FALSE PROVE Spec => []SurvivesCrashes
<1>1. Spec => []LedgerSurvives
    BY LedgerIsDurable
<1>2. Spec => []RegistersSurvive
    BY RegistersAreDurable
<1>3. Spec => []DerivedSurvives
    BY DerivedIsDurable
<1>4. Spec => []SpendsAgree
    BY SpendsNeverPart
<1>5. LedgerSurvives /\ RegistersSurvive /\ DerivedSurvives /\ SpendsAgree => SurvivesCrashes
    BY DEF SurvivesCrashes
<1> QED
    BY <1>1, <1>2, <1>3, <1>4, <1>5, PTL

LEMMA RecordsReachTheCeiling == StoreInv => ReversibleToTheCeiling
<1> SUFFICES ASSUME StoreInv PROVE ReversibleToTheCeiling
    OBVIOUS
<1> DEFINE heights == {disk.undo[i].height : i \in DOMAIN disk.undo}
           above == {h \in 1 .. MaxHeight : Lowest < h /\ h <= disk.height}
<1>1. CASE IsEmpty(disk)
    <2>1. disk.undo = <<>> /\ disk.height = -1
        BY <1>1 DEF StoreInv, IInv, TablesOK, EmptyTables
    <2>2. heights = {} /\ above = {}
        BY <2>1
    <2> QED
        BY <2>2 DEF ReversibleToTheCeiling, Lowest
<1>2. CASE ~IsEmpty(disk)
    <2> PICK low, n : low = Lowest /\ n = Len(disk.undo)
        OBVIOUS
    <2>1. /\ Undoable /\ RecordsKept /\ low \in Nat
          /\ disk.height <= peak /\ peak <= MaxHeight /\ peak \in Nat
        BY <1>2, LowestTyped DEF StoreInv, Undoable
    <2>2. /\ n \in Nat /\ DOMAIN disk.undo = 1 .. n /\ n = disk.height - low
          /\ \A i \in 1 .. n : disk.undo[i].height = low + i
        BY <2>1 DEF RecordsKept, Listed
    <2>3. disk.height \in Nat /\ disk.height = low + n
        <3>1. LoadState(disk) \in LedgerType
            BY <1>2 DEF StoreInv, IInv, TablesOK
        <3>2. LoadState(disk).height \in Nat
            BY <3>1 DEF LedgerType
        <3>3. LoadState(disk).height = disk.height
            BY LoadedFields
        <3> QED
            BY <2>1, <2>2, <3>2, <3>3
    <2>4. heights = {low + i : i \in 1 .. n}
        BY <2>2
    <2>5. above = {low + i : i \in 1 .. n}
        <3>1. ASSUME NEW h \in above PROVE h \in {low + i : i \in 1 .. n}
            <4>1. h - low \in 1 .. n /\ h = low + (h - low)
                BY <2>1, <2>2, <2>3
            <4> QED
                BY <4>1
        <3>2. ASSUME NEW i \in 1 .. n PROVE low + i \in above
            BY <2>1, <2>2, <2>3, StoreAssumption
        <3> HIDE DEF above
        <3> QED
            BY <3>1, <3>2
    <2> QED
        BY <2>4, <2>5 DEF ReversibleToTheCeiling, Lowest
<1> QED
    BY <1>1, <1>2

LEMMA RollbackPutsBack ==
    ASSUME StoreInv, [Next]_vars, rollbacks' > rollbacks
    PROVE  ledger' = before[ledger.height - floor].ledger
<1>1. rollbacks \in Nat
    BY StoreAssumption DEF StoreInv, IInv, MemoryOK
<1>2. Rollback
    <2>1. FirstBoot \/ SaveRegisters \/ Restore \/ Crash => rollbacks' = rollbacks
        BY DEF FirstBoot, SaveRegisters, Restore, Crash
    <2>2. Apply => rollbacks' = rollbacks
        <3>1. ASSUME NEW d, NEW ran, NEW took, NEW fs, NEW ms, ApplyNetworkBlock(d, ran, took, fs, ms)
              PROVE  rollbacks' = rollbacks
            BY <3>1 DEF ApplyNetworkBlock
        <3> QED
            BY <3>1 DEF Apply
    <2>3. Commit \/ AdoptInMemory \/ AdoptOnDisk \/ UNCHANGED vars => rollbacks' = rollbacks
        BY DEF Commit, AdoptInMemory, AdoptOnDisk, vars
    <2> QED
        BY <1>1, <2>1, <2>2, <2>3 DEF Next
<1> PICK u, l : u = Last(disk.undo) /\ l = before[u.height].ledger
    OBVIOUS
<1>3. ledger' = l
    BY <1>2, RolledBack DEF StoreInv
<1>4. floor = 0 /\ ledger = LoadState(disk) /\ u.height = disk.height /\ disk.height \in Nat
    BY <1>2, RecordOfTheTip DEF StoreInv, Rollback
<1>5. ledger.height - floor = u.height
    <2>1. LoadState(disk).height = disk.height
        BY LoadedFields
    <2> QED
        BY <1>4, <2>1
<1> QED
    BY <1>3, <1>5

\* A rollback (ChainStore.rollback over chain/store/undo.py) is possible down to the rewrite
\* ceiling and no further, and puts the whole ledger back as it was before the block, what no
\* root commits to included: fees, spine and tip.  It leaves registers, certificates and
\* credits as they are.
THEOREM RollbacksRestoreTheLedger == Spec => RollbackRestoresTheLedger
<1>1. StoreInv /\ [Next]_vars => [rollbacks' > rollbacks => ledger' = before[ledger.height - floor].ledger]_vars
    BY RollbackPutsBack
<1> QED
    BY <1>1, StoreInvariance, RecordsReachTheCeiling, PTL DEF Spec, RollbackRestoresTheLedger, RollbackIsExact


-----------------------------------------------------------------------------
(* A disk that may refuse a rollback.  Memory is then one block below the      *)
(* tables, until the process ends or adopts: Parted.  What the tables hold is   *)
(* one chain in either case.                                                  *)

\* What Undoable says of the records, whatever memory holds.
DiskKept ==
    /\ floor \in Nat /\ peak \in Nat /\ Listed(before)
    /\ IsEmpty(disk) => floor = 0 /\ peak = 0
    /\ ~IsEmpty(disk) =>
         /\ Lowest <= disk.height /\ disk.height <= peak /\ peak <= MaxHeight
         /\ RecordsKept
         /\ floor = 0 => BranchKept
         /\ floor > 0 => disk.netblock = <<>> /\ disk.height = floor /\ peak = floor

Parted ==
    /\ TablesOK /\ DiskKept /\ DOMAIN disk.registers \subseteq Grids
    /\ rollbacks \in 0 .. MaxRollbacks /\ phase \in {"idle", "applied"}
    /\ ~IsEmpty(disk) /\ floor = 0 /\ disk.height \in Nat \ {0}
    /\ phase = "idle" =>
         /\ ledger = before[disk.height].ledger /\ ledger \in LedgerType /\ Sound(ledger)
         /\ ledger.height = disk.height - 1 /\ pending = None
         /\ DOMAIN registers \subseteq Grids
    /\ phase = "applied" => pending.height = disk.height

\* The blocks in the table stand on each other and on what they replaced.
ChainKept ==
    LET rows == disk.netblock IN
    /\ rows # <<>> => rows[Len(rows)].hash = disk.tip
    /\ \A i \in 1 .. Len(rows) :
          /\ Front(rows[i].hash) = before[i].ledger.tip
          /\ i > 1 => Front(rows[i].hash) = rows[i - 1].hash
    /\ phase = "applied" /\ pending.height = disk.height + 1 => Front(pending.hash) = disk.tip

\* No row of a register is of a grid memory does not have, or will not when the block is
\* committed.
RowsAreOfGrids ==
    /\ phase \in {"booting", "idle"} => DOMAIN disk.registers \subseteq DOMAIN registers
    /\ phase = "applied" =>
         (DOMAIN disk.registers \cup DOMAIN pending.registers) \ pending.retired \subseteq DOMAIN registers

LEMMA KeptByBoth ==
    /\ Undoable => DiskKept
    /\ DiskKept /\ phase \notin {"applied", "adopted"} => Undoable
BY DEF Undoable, DiskKept

\* The registers a block leaves are of the grids there were, and of those it founds.
LEMMA GridsAfterBlock ==
    ASSUME NEW d \in Deltas(ledger), NEW ran \in SUBSET DOMAIN registers, NEW took \in SUBSET DOMAIN registers,
           \/ ApplyNetworkBlock(d, ran, took, {}, {})
           \/ \E f \in FoundingsOf(registers) : ApplyNetworkBlock(d, ran, took, {f}, {})
           \/ \E m \in MergesOf(TakeRolls(registers, took)) : ApplyNetworkBlock(d, ran, took, {}, {m})
    PROVE  /\ DOMAIN registers \ pending'.retired \subseteq DOMAIN registers'
           /\ DOMAIN pending'.registers \subseteq DOMAIN registers'
<1> DEFINE rolled == TakeRolls(registers, took)
<1>1. DOMAIN rolled = DOMAIN registers
    BY DEF TakeRolls
<1>2. ASSUME NEW fs, NEW ms, ApplyNetworkBlock(d, ran, took, fs, ms)
      PROVE  /\ pending'.retired = {m.from : m \in ms} /\ DOMAIN pending'.registers \subseteq DOMAIN registers'
    <2>1. pending'.registers = Restrict(registers', took \cap DOMAIN registers')
          /\ pending'.retired = {m.from : m \in ms}
        BY <1>2 DEF ApplyNetworkBlock
    <2> QED
        BY <2>1 DEF Restrict
<1>3. CASE ApplyNetworkBlock(d, ran, took, {}, {})
    <2>1. registers' = rolled
        BY <1>3 DEF ApplyNetworkBlock
    <2> QED
        BY <1>1, <1>2, <1>3, <2>1
<1>4. ASSUME NEW f \in FoundingsOf(registers), ApplyNetworkBlock(d, ran, took, {f}, {})
      PROVE  /\ DOMAIN registers \ pending'.retired \subseteq DOMAIN registers'
             /\ DOMAIN pending'.registers \subseteq DOMAIN registers'
    <2>1. registers' = FoundGrid(rolled, f)
        <3>1. (CHOOSE x \in {f} : TRUE) = f
            OBVIOUS
        <3> QED
            BY <1>4, <3>1 DEF ApplyNetworkBlock
    <2>2. DOMAIN registers' = DOMAIN rolled \cup {f.donor, f.grid}
        BY <2>1 DEF FoundGrid, Upsert
    <2> QED
        BY <1>1, <1>2, <1>4, <2>2
<1>5. ASSUME NEW m \in MergesOf(rolled), ApplyNetworkBlock(d, ran, took, {}, {m})
      PROVE  /\ DOMAIN registers \ pending'.retired \subseteq DOMAIN registers'
             /\ DOMAIN pending'.registers \subseteq DOMAIN registers'
    <2>1. registers' = MergeGrid(rolled, m)
        <3>1. (CHOOSE x \in {m} : TRUE) = m
            OBVIOUS
        <3> QED
            BY <1>5, <3>1 DEF ApplyNetworkBlock
    <2>2. DOMAIN registers' = (DOMAIN rolled \cup {m.into}) \ {m.from}
        BY <2>1 DEF MergeGrid, Upsert, Without, Restrict
    <2>3. pending'.retired = {m.from}
        BY <1>2, <1>5
    <2> QED
        BY <1>1, <1>2, <1>5, <2>2, <2>3
<1> QED
    BY <1>3, <1>4, <1>5

LEMMA RowsStep ==
    ASSUME IsTables(disk), IsEmpty(disk) => disk = EmptyTables, RowsAreOfGrids, [NextOnABadDisk]_vars
    PROVE  RowsAreOfGrids'
<1>1. CASE FirstBoot
    <2>1. disk'.registers = disk.registers /\ DOMAIN disk.registers = {} /\ phase' = "booting"
        BY <1>1 DEF FirstBoot, Initialised, PutLedger, IsTables, EmptyTables, EmptyFcn
    <2> QED
        BY <2>1 DEF RowsAreOfGrids
<1>2. CASE SaveRegisters
    <2>1. disk'.registers = Upsert(disk.registers, registers) /\ phase = "booting" /\ phase' = "idle"
          /\ registers' = registers
        BY <1>2 DEF SaveRegisters, IsTables, memory
    <2> QED
        BY <2>1 DEF RowsAreOfGrids, Upsert
<1>3. CASE Restore
    BY <1>3 DEF Restore, RowsAreOfGrids
<1>4. CASE Crash
    BY <1>4 DEF Crash, RowsAreOfGrids
<1>5. CASE Apply
    <2> PICK d \in Deltas(ledger), ran \in SUBSET DOMAIN registers \ {{}}, took \in SUBSET DOMAIN registers :
            \/ ApplyNetworkBlock(d, ran, took, {}, {})
            \/ \E f \in FoundingsOf(registers) : ApplyNetworkBlock(d, ran, took, {f}, {})
            \/ \E m \in MergesOf(TakeRolls(registers, took)) : ApplyNetworkBlock(d, ran, took, {}, {m})
        BY <1>5 DEF Apply
    <2>1. ran \in SUBSET DOMAIN registers
        OBVIOUS
    <2>2. /\ DOMAIN registers \ pending'.retired \subseteq DOMAIN registers'
          /\ DOMAIN pending'.registers \subseteq DOMAIN registers'
        BY <2>1, GridsAfterBlock
    <2>3. phase = "idle" /\ phase' = "applied" /\ disk' = disk
        BY DEF ApplyNetworkBlock
    <2> QED
        BY <2>2, <2>3 DEF RowsAreOfGrids
<1>6. CASE Commit
    <2>1. disk'.registers = Without(Upsert(disk.registers, pending.registers), pending.retired)
          /\ phase = "applied" /\ phase' = "idle" /\ registers' = registers
        BY <1>6, CommitShape DEF Commit, memory
    <2> QED
        BY <2>1 DEF RowsAreOfGrids, Without, Upsert, Restrict
<1>7. CASE AdoptInMemory
    BY <1>7 DEF AdoptInMemory, RowsAreOfGrids
<1>8. CASE AdoptOnDisk
    <2>1. disk'.registers = registers /\ registers' = registers /\ phase' = "idle"
        BY <1>8 DEF AdoptOnDisk, AdoptState, PutLedger, EmptyTables, memory
    <2> QED
        BY <2>1 DEF RowsAreOfGrids
<1>9. CASE Rollback
    <2> PICK u : u = Last(disk.undo)
        OBVIOUS
    <2>1. /\ phase = "idle" /\ phase' = "idle" /\ disk' = RollBack(disk, u)
          /\ registers' = Upsert(registers, u.registers)
        BY <1>9 DEF Rollback, CanRollback
    <2>2. disk'.registers = Upsert(disk.registers, u.registers)
        BY <2>1, RollBackShape
    <2> QED
        BY <2>1, <2>2 DEF RowsAreOfGrids, Upsert
<1>10. CASE RollbackFails
    <2> PICK u : u = Last(disk.undo)
        OBVIOUS
    <2>1. phase = "idle" /\ phase' = "idle" /\ disk' = disk /\ registers' \in {registers, Upsert(registers, u.registers)}
        BY <1>10 DEF RollbackFails, CanRollback
    <2>2. DOMAIN registers \subseteq DOMAIN registers'
        BY <2>1 DEF Upsert
    <2> QED
        BY <2>1, <2>2 DEF RowsAreOfGrids
<1>11. CASE UNCHANGED vars
    BY <1>11 DEF vars, memory, RowsAreOfGrids
<1> QED
    BY <1>1, <1>2, <1>3, <1>4, <1>5, <1>6, <1>7, <1>8, <1>9, <1>10, <1>11 DEF NextOnABadDisk, Next

LEMMA RollbackFailsParts == ASSUME StoreInv, RollbackFails PROVE Parted'
<1> PICK u, l, h : u = Last(disk.undo) /\ h = disk.height /\ l = before[h].ledger
    OBVIOUS
<1>1. /\ CanRollback /\ phase = "idle" /\ phase' = "idle" /\ ledger' = ApplyUndo(ledger, u)
      /\ registers' \in {registers, Upsert(registers, u.registers)} /\ rollbacks' = rollbacks + 1
      /\ rollbacks < MaxRollbacks /\ UNCHANGED <<pending, disk, before, peak, floor>>
    BY DEF RollbackFails, RollbackInMemory, CanRollback, history
<1>2. IInv /\ Undoable /\ GridsOK
    BY DEF StoreInv
<1>3. /\ floor = 0 /\ ~IsEmpty(disk) /\ disk.undo # <<>> /\ u.height = h /\ h = Lowest + Len(disk.undo)
      /\ h \in Nat /\ Between(u, l, ledger)
    BY <1>1, <1>2, RecordOfTheTip
<1>4. ledger' = l /\ l \in LedgerType /\ Sound(l) /\ l.height = h - 1 /\ DOMAIN u.registers \subseteq Grids
    BY <1>1, <1>3, BetweenUndoes DEF Between
<1>5. h \in Nat \ {0}
    <2>1. RecordsKept /\ Lowest \in Nat
        BY <1>2, <1>3, LowestTyped DEF Undoable
    <2> PICK S : disk.undo \in Seq(S)
        BY <2>1 DEF RecordsKept, Listed
    <2>2. Len(disk.undo) \in Nat \ {0}
        BY <1>3
    <2> QED
        BY <1>3, <2>1, <2>2
<1>6. DiskKept'
    <2>1. DiskKept
        BY <1>2, KeptByBoth
    <2>2. RecordsKept' = RecordsKept /\ Lowest' = Lowest /\ IsEmpty(disk)' = IsEmpty(disk) /\ Listed(before)' = Listed(before)
        BY <1>1 DEF RecordsKept, Lowest, IsEmpty, Listed
    <2>3. \A k : StateAt(k)' = StateAt(k)
        BY <1>1 DEF StateAt
    <2>4. BranchKept' = BranchKept
        BY <1>1, <2>3 DEF BranchKept
    <2> QED
        BY <1>1, <2>1, <2>2, <2>4 DEF DiskKept
<1>7. TablesOK' /\ ~IsEmpty(disk)' /\ DOMAIN disk'.registers \subseteq Grids
    BY <1>1, <1>2, <1>3 DEF IInv, TablesOK, IsEmpty, GridsOK
<1>8. rollbacks' \in 0 .. MaxRollbacks
    BY <1>1, <1>2, StoreAssumption DEF IInv, MemoryOK
<1>9. DOMAIN registers' \subseteq Grids /\ pending' = None
    BY <1>1, <1>2, <1>4 DEF GridsOK, Upsert
<1> QED
    BY <1>1, <1>3, <1>4, <1>5, <1>6, <1>7, <1>8, <1>9 DEF Parted

\* The tables refuse a second block of their height.
LEMMA NothingIsCommitted == Parted => ~Commit
<1> SUFFICES ASSUME Parted, Commit PROVE FALSE
    OBVIOUS
<1> PICK h : h = disk.height
    OBVIOUS
<1>1. pending.height = h /\ CanCommit(disk, pending)
    BY DEF Commit, Parted
<1>2. h \in Nat \ {0} /\ BranchKept
    BY DEF Parted, DiskKept
<1>3. h \in DOMAIN disk.netblock /\ disk.netblock[h].height = h
    BY <1>2 DEF BranchKept, Parted, TablesOK
<1> QED
    BY <1>1, <1>3 DEF CanCommit

LEMMA PartedStep == ASSUME Parted, [NextOnABadDisk]_vars PROVE Parted' \/ StoreInv'
<1> PICK h : h = disk.height
    OBVIOUS
<1>1. /\ TablesOK /\ DiskKept /\ DOMAIN disk.registers \subseteq Grids /\ rollbacks \in 0 .. MaxRollbacks
      /\ phase \in {"idle", "applied"} /\ ~IsEmpty(disk) /\ floor = 0 /\ h \in Nat \ {0}
    BY DEF Parted
<1>2. BranchKept /\ RecordsKept /\ Lowest \in Nat
    <2>1. Lowest \in Nat
        BY <1>1, StoreAssumption DEF DiskKept, Lowest
    <2> QED
        BY <1>1, <2>1 DEF DiskKept
<1>3. phase = "idle" =>
         /\ ledger = before[h].ledger /\ ledger \in LedgerType /\ Sound(ledger)
         /\ ledger.height = h - 1 /\ pending = None /\ DOMAIN registers \subseteq Grids
    BY DEF Parted
<1>4. CASE Crash
    <2>1. /\ phase' = "down" /\ ledger' = None /\ registers' = EmptyFcn /\ pending' = None
          /\ UNCHANGED <<disk, rollbacks, before, peak, floor>>
        BY <1>4 DEF Crash, history
    <2>2. TablesOK' /\ GridsOK'
        BY <1>1, <2>1 DEF TablesOK, IsEmpty, GridsOK, EmptyFcn
    <2>3. MemoryOK' /\ Mirrored'
        BY <1>1, <2>1 DEF MemoryOK, Mirrored
    <2>4. Undoable'
        <3>1. RecordsKept' = RecordsKept /\ Lowest' = Lowest /\ IsEmpty(disk)' = IsEmpty(disk) /\ Listed(before)' = Listed(before)
            BY <2>1 DEF RecordsKept, Lowest, IsEmpty, Listed
        <3>2. \A k : StateAt(k)' = StateAt(k)
            BY <2>1 DEF StateAt
        <3>3. BranchKept' = BranchKept
            BY <2>1, <3>2 DEF BranchKept
        <3> QED
            BY <1>1, <2>1, <3>1, <3>3 DEF Undoable, DiskKept
    <2> QED
        BY <2>2, <2>3, <2>4 DEF StoreInv, IInv
<1>5. ASSUME NEW d \in Deltas(ledger), NEW ran, NEW took, NEW fs, NEW ms,
             ApplyNetworkBlock(d, ran, took, fs, ms)
      PROVE  Parted'
    <2> DEFINE next == ledger.height + 1
               was == [ledger |-> ledger, registers |-> registers, derived |-> derived]
    <2>a. phase = "idle" /\ phase' = "applied" /\ UNCHANGED <<disk, rollbacks, peak, floor>>
        BY <1>5 DEF ApplyNetworkBlock
    <2>b. pending'.height = next
        BY <1>5 DEF ApplyNetworkBlock
    <2>c. before' = Append(SubSeq(before, 1, next - 1 - floor), was)
        BY <1>5 DEF ApplyNetworkBlock
    <2>2. next = h /\ ledger = before[h].ledger /\ next - 1 - floor = h - 1 /\ was.ledger = ledger
        BY <1>1, <1>3, <2>a
    <2> HIDE DEF next, was
    <2>1. /\ phase = "idle" /\ phase' = "applied" /\ pending'.height = h
          /\ before' = Append(SubSeq(before, 1, h - 1), was)
          /\ UNCHANGED <<disk, rollbacks, peak, floor>>
        BY <2>a, <2>b, <2>c, <2>2
    <2> PICK S : before \in Seq(S)
        BY <1>1 DEF DiskKept, Listed
    <2>3. Len(before) >= h /\ Len(before) \in Nat
        BY <1>2 DEF BranchKept
    <2> PICK kept : kept = SubSeq(before, 1, h - 1)
        OBVIOUS
    <2>4. kept \in Seq(S) /\ Len(kept) = h - 1 /\ \A k \in 1 .. h - 1 : kept[k] = before[k]
        <3> PICK rows, m : rows = before /\ m = h - 1
            OBVIOUS
        <3>1. rows \in Seq(S) /\ m \in Nat /\ m <= Len(rows) /\ kept = SubSeq(rows, 1, m)
            BY <1>1, <2>3
        <3>2. /\ SubSeq(rows, 1, m) \in Seq(S) /\ Len(SubSeq(rows, 1, m)) = m
              /\ \A k \in 1 .. m : SubSeq(rows, 1, m)[k] = rows[k]
            BY ONLY <3>1
        <3> QED
            BY <3>1, <3>2
    <2>5. before' = Append(kept, was)
        BY <2>1
    <2>6. before' \in Seq(S \cup {was}) /\ Len(before') = h /\ before'[h] = was
          /\ \A k \in 1 .. h - 1 : before'[k] = before[k]
        <3>1. kept \in Seq(S \cup {was}) /\ was \in S \cup {was}
            BY <2>4
        <3> QED
            BY ONLY <1>1, <2>4, <2>5, <3>1
    <2>7. \A k \in 1 .. h : before'[k].ledger = before[k].ledger
        <3>1. before'[h].ledger = before[h].ledger
            BY <2>2, <2>6
        <3>2. \A k \in 1 .. h : k = h \/ k \in 1 .. h - 1
            BY <1>1
        <3> QED
            BY <2>6, <3>1, <3>2
    <2>8. RecordsKept' = RecordsKept /\ Lowest' = Lowest /\ IsEmpty(disk)' = IsEmpty(disk) /\ Listed(before)'
        BY <2>1, <2>6 DEF RecordsKept, Lowest, IsEmpty, Listed
    <2>9. BranchKept'
        <3>1. ASSUME NEW i \in 1 .. Len(disk.undo)
              PROVE  Between(disk.undo[i], before[disk.undo[i].height].ledger, StateAt(disk.undo[i].height))'
            <4> PICK k : k = disk.undo[i].height
                OBVIOUS
            <4>1. k = Lowest + i /\ Len(disk.undo) = h - Lowest
                BY <1>2 DEF RecordsKept
            <4>2. k \in 1 .. h /\ (k # h => k + 1 \in 1 .. h)
                <5> PICK low : low = Lowest
                    OBVIOUS
                <5>1. k = low + i /\ i \in 1 .. h - low /\ low \in Nat
                    BY <1>2, <4>1
                <5> QED
                    BY ONLY <1>1, <5>1
            <4>3. Between(disk.undo[i], before[k].ledger, StateAt(k))
                BY <1>2 DEF BranchKept
            <4>4. StateAt(k)' = StateAt(k) /\ before'[k].ledger = before[k].ledger
                BY <2>1, <2>7, <4>2 DEF StateAt
            <4>5. StateAt(disk.undo[i].height)' = StateAt(k)' /\ disk'.undo[i] = disk.undo[i]
                BY <2>1 DEF StateAt
            <4> QED
                BY <4>3, <4>4, <4>5
        <3>2. Len(disk'.netblock) = disk'.height /\ \A i \in 1 .. disk'.height : disk'.netblock[i].height = i
            BY <1>2, <2>1 DEF BranchKept
        <3>3. Len(before') >= disk'.height /\ disk'.undo = disk.undo
            BY <1>1, <2>1, <2>6
        <3> QED
            BY <3>1, <3>2, <3>3 DEF BranchKept
    <2>10. DiskKept'
        BY <1>1, <2>1, <2>8, <2>9 DEF DiskKept
    <2> QED
        BY <1>1, <2>1, <2>2, <2>10 DEF Parted, TablesOK, IsEmpty
<1>6. CASE Apply
    BY <1>5, <1>6 DEF Apply
<1>7. ~Commit
    BY NothingIsCommitted
<1>8. CASE AdoptInMemory
    <2>1. /\ phase = "idle" /\ phase' = "adopted" /\ UNCHANGED <<pending, disk, rollbacks, before, peak, floor>>
          /\ \E k \in ledger.height + 1 .. MaxHeight, d \in Deltas(ledger) :
                ledger' = [ApplyDelta(ledger, d) EXCEPT !.height = k, !.spine = <<>>, !.tip = HashOf(ledger, k, d)]
        BY <1>8 DEF AdoptInMemory, history
    <2>2. \E took : registers' = TakeRolls(registers, took)
        BY <1>8 DEF AdoptInMemory
    <2> PICK k \in ledger.height + 1 .. MaxHeight, d \in Deltas(ledger) :
                ledger' = [ApplyDelta(ledger, d) EXCEPT !.height = k, !.spine = <<>>, !.tip = HashOf(ledger, k, d)]
        BY <2>1
    <2>3. ledger \in LedgerType /\ Sound(ledger) /\ ledger.height = h - 1 /\ DOMAIN registers \subseteq Grids /\ pending = None
        BY <1>3, <2>1
    <2>4. k \in h .. MaxHeight \ {0} /\ k \in Nat
        BY <1>1, <2>3, StoreAssumption
    <2>5. ledger' \in LedgerType /\ Sound(ledger') /\ ledger'.spine = <<>> /\ ledger'.height = k
        <3> PICK l, tip : l = ApplyDelta(ledger, d) /\ tip = HashOf(ledger, k, d)
            OBVIOUS
        <3>1. d \in DeltaType /\ l \in LedgerType /\ Sound(l)
            BY <2>3, DeltaFacts, ApplyTyped, ApplySound
        <3>2. tip \in Hashes
            BY <2>3, <2>4, <3>1, HashTyped
        <3>3. ledger' = [l EXCEPT !.height = k, !.spine = <<>>, !.tip = tip] /\ <<>> \in Seq(Hashes)
            OBVIOUS
        <3>4. /\ ledger' \in LedgerType /\ ledger'.spine = <<>> /\ ledger'.height = k
              /\ ledger'.utxo = l.utxo /\ ledger'.dead = l.dead /\ ledger'.nfs = l.nfs
            BY <2>4, <3>1, <3>2, <3>3 DEF LedgerType
        <3> QED
            BY <3>1, <3>4 DEF Sound, CrossCheck
    <2>6. TablesOK' /\ GridsOK'
        BY <1>1, <2>1, <2>2, <2>3 DEF TablesOK, IsEmpty, GridsOK, TakeRolls
    <2>7. MemoryOK' /\ Mirrored'
        BY <1>1, <2>1, <2>5 DEF MemoryOK, Mirrored
    <2>8. Undoable'
        <3>1. RecordsKept' = RecordsKept /\ Lowest' = Lowest /\ IsEmpty(disk)' = IsEmpty(disk) /\ Listed(before)' = Listed(before)
            BY <2>1 DEF RecordsKept, Lowest, IsEmpty, Listed
        <3>2. \A i : StateAt(i)' = StateAt(i)
            BY <2>1 DEF StateAt
        <3>3. BranchKept' = BranchKept
            BY <2>1, <3>2 DEF BranchKept
        <3> QED
            BY <1>1, <2>1, <2>4, <2>5, <3>1, <3>3 DEF Undoable, DiskKept
    <2> QED
        BY <2>6, <2>7, <2>8 DEF StoreInv, IInv
<1>9. ~CanRollback
    <2> SUFFICES ASSUME CanRollback PROVE FALSE
        OBVIOUS
    <2>1. phase = "idle" /\ ledger.height = Last(disk.undo).height /\ Last(disk.undo).height = h
        BY DEF CanRollback, CanUndo
    <2> QED
        BY <1>1, <1>3, <2>1
<1>10. CASE UNCHANGED vars
    <2>1. UNCHANGED <<phase, ledger, registers, derived, pending, disk, rollbacks, before, peak, floor>>
        BY <1>10 DEF vars, memory, history
    <2>2. RecordsKept' = RecordsKept /\ Lowest' = Lowest /\ IsEmpty(disk)' = IsEmpty(disk) /\ Listed(before)' = Listed(before)
        BY <2>1 DEF RecordsKept, Lowest, IsEmpty, Listed
    <2>3. \A i : StateAt(i)' = StateAt(i)
        BY <2>1 DEF StateAt
    <2>4. BranchKept' = BranchKept
        BY <2>1, <2>3 DEF BranchKept
    <2>5. DiskKept' /\ TablesOK'
        BY <1>1, <2>1, <2>2, <2>4 DEF DiskKept, TablesOK
    <2> QED
        BY <1>1, <1>3, <2>1, <2>2, <2>5 DEF Parted
<1>11. ~FirstBoot /\ ~SaveRegisters /\ ~Restore /\ ~AdoptOnDisk
    BY <1>1 DEF FirstBoot, SaveRegisters, Restore, AdoptOnDisk
<1>12. ~Rollback /\ ~RollbackFails
    BY <1>9 DEF Rollback, RollbackFails
<1> QED
    BY <1>4, <1>6, <1>7, <1>8, <1>10, <1>11, <1>12 DEF NextOnABadDisk, Next

LEMMA ChainFrame ==
    ASSUME ChainKept, disk'.netblock = disk.netblock, disk'.tip = disk.tip, before' = before,
           phase' # "applied"
    PROVE  ChainKept'
BY DEF ChainKept

LEMMA FrontOfAppend ==
    ASSUME NEW S, NEW s \in Seq(S), NEW x
    PROVE  Front(Append(s, x)) = s
<1> PICK t : t = Append(s, x)
    OBVIOUS
<1>1. Len(t) = Len(s) + 1 /\ Len(t) - 1 = Len(s) /\ \A k \in 1 .. Len(s) : t[k] = s[k]
    OBVIOUS
<1>2. t \in Seq(S \cup {x})
    <2>1. s \in Seq(S \cup {x}) /\ x \in S \cup {x}
        OBVIOUS
    <2> QED
        BY ONLY <2>1, t = Append(s, x)
<1>3. SubSeq(t, 1, Len(s)) = s
    BY <1>1, <1>2
<1> QED
    BY <1>1, <1>3 DEF Front

\* A list that is cut and gets one more.
LEMMA CutAndAppended ==
    ASSUME NEW s, Listed(s), NEW m \in Nat, m <= Len(s), NEW x, NEW t, t = Append(SubSeq(s, 1, m), x)
    PROVE  t[m + 1] = x /\ \A k \in 1 .. m : t[k] = s[k]
<1> PICK S : s \in Seq(S)
    BY DEF Listed
<1> PICK cut : cut = SubSeq(s, 1, m)
    OBVIOUS
<1>1. cut \in Seq(S) /\ Len(cut) = m /\ \A k \in 1 .. m : cut[k] = s[k]
    BY ONLY s \in Seq(S), m \in Nat, m <= Len(s), cut = SubSeq(s, 1, m)
<1>2. t = Append(cut, x)
    OBVIOUS
<1> QED
    BY ONLY <1>1, <1>2, m \in Nat

LEMMA ChainApply ==
    ASSUME StoreInv \/ Parted, ChainKept, NEW d \in Deltas(ledger), NEW ran, NEW took, NEW fs, NEW ms,
           ApplyNetworkBlock(d, ran, took, fs, ms)
    PROVE  ChainKept'
<1> DEFINE next == ledger.height + 1
           hash == HashOf(ledger, next, d)
           was == [ledger |-> ledger, registers |-> registers, derived |-> derived]
<1>1. phase = "idle" /\ phase' = "applied" /\ UNCHANGED disk /\ CanRecord(ledger, next)
    BY DEF ApplyNetworkBlock
<1>2. pending'.height = next /\ pending'.hash = hash
    BY DEF ApplyNetworkBlock
<1>3. before' = Append(SubSeq(before, 1, next - 1 - floor), was)
    BY DEF ApplyNetworkBlock
<1> PICK n, m : n = disk.height /\ m = ledger.height
    OBVIOUS
<1>4. \/ m = n /\ ledger = LoadState(disk)
      \/ m = n - 1 /\ n \in Nat \ {0} /\ ledger = before[n].ledger
    <2>1. CASE StoreInv
        BY <1>1, <2>1, NoBlockOnASnapshot DEF StoreInv
    <2>2. CASE Parted
        BY <1>1, <2>2 DEF Parted
    <2> QED
        BY <2>1, <2>2
<1>5. /\ floor = 0 /\ ledger \in LedgerType /\ m \in Nat /\ Listed(before)
      /\ Len(before) >= n /\ Len(disk.netblock) = n
    <2>1. CASE StoreInv
        <3>1. floor = 0 /\ ~IsEmpty(disk) /\ ledger \in LedgerType
            BY <1>1, <2>1, NoBlockOnASnapshot DEF StoreInv, IInv, MemoryOK
        <3> QED
            BY <2>1, <3>1 DEF StoreInv, Undoable, BranchKept, LedgerType
    <2>2. CASE Parted
        BY <1>1, <2>2 DEF Parted, DiskKept, BranchKept, LedgerType
    <2> QED
        BY <2>1, <2>2
<1>6. was.ledger = ledger /\ next = m + 1 /\ next - 1 - floor = m /\ n \in Nat /\ m <= Len(before)
    <2>1. Len(before) \in Nat
        BY <1>5 DEF Listed
    <2> QED
        BY <1>4, <1>5, <2>1
<1> HIDE DEF was
<1>7. before'[m + 1] = was /\ \A k \in 1 .. m : before'[k] = before[k]
    <2>1. before' = Append(SubSeq(before, 1, m), was)
        BY <1>3, <1>6
    <2> QED
        BY ONLY <1>5, <1>6, <2>1, CutAndAppended
<1>8. \A k \in 1 .. n : before'[k].ledger = before[k].ledger
    <2> SUFFICES ASSUME NEW k \in 1 .. n PROVE before'[k].ledger = before[k].ledger
        OBVIOUS
    <2>1. CASE k \in 1 .. m
        BY <1>7, <2>1
    <2>2. CASE k \notin 1 .. m
        <3>1. m = n - 1 /\ k = n /\ m + 1 = n
            BY <1>4, <1>5, <1>6, <2>2
        <3>2. ledger = before[n].ledger
            BY <1>4, <1>5, <3>1
        <3> QED
            BY <1>6, <1>7, <3>1, <3>2
    <2> QED
        BY <2>1, <2>2
<1>9. next = n + 1 => Front(hash) = disk.tip
    <2> SUFFICES ASSUME next = n + 1 PROVE Front(hash) = disk.tip
        OBVIOUS
    <2>1. m = n
        BY <1>4, <1>5, <1>6
    <2>2. LoadState(disk) = ledger
        BY <1>4, <2>1
    <2>3. ledger.tip = disk.tip
        BY <2>2, LoadedFields
    <2>4. ledger.tip \in Seq(Nat \X DeltaType)
        BY <1>5 DEF LedgerType, Hashes
    <2> QED
        BY <2>3, <2>4, FrontOfAppend DEF HashOf
<1> HIDE DEF next, hash
<1> QED
    BY <1>1, <1>2, <1>5, <1>8, <1>9 DEF ChainKept

LEMMA ChainCommit == ASSUME StoreInv, ChainKept, Commit PROVE ChainKept'
<1> PICK n, row, rows : /\ n = disk.height /\ rows = disk.netblock
                        /\ row = [height |-> pending.height, hash |-> pending.hash]
    OBVIOUS
<1>1. phase = "applied" /\ phase' = "idle" /\ disk' = CommitBlock(disk, pending) /\ before' = before
    BY DEF Commit
<1>2. disk'.netblock = Append(rows, row) /\ disk'.tip = pending.hash
    BY <1>1, CommitShape DEF StoreInv, IInv, TablesOK
<1>3. floor = 0 /\ pending.height = n + 1 /\ before[n + 1].ledger = LoadState(disk)
    BY <1>1 DEF StoreInv, Undoable, BlockInHand
<1>4. ~IsEmpty(disk) /\ rows \in Seq(BlockRows) /\ Len(rows) = n /\ n \in Nat
    BY <1>1, <1>3 DEF StoreInv, IInv, TablesOK, Mirrored, Undoable, BranchKept
<1>5. Front(pending.hash) = disk.tip /\ before[n + 1].ledger.tip = disk.tip
    BY <1>1, <1>3, LoadedFields DEF ChainKept
<1>6. /\ Len(disk'.netblock) = n + 1 /\ disk'.netblock[n + 1] = row
      /\ \A i \in 1 .. n : disk'.netblock[i] = rows[i]
    BY <1>2, <1>4
<1>7. row.hash = pending.hash
    OBVIOUS
<1>8. ASSUME NEW i \in 1 .. n + 1
      PROVE  /\ Front(disk'.netblock[i].hash) = before'[i].ledger.tip
             /\ i > 1 => Front(disk'.netblock[i].hash) = disk'.netblock[i - 1].hash
    <2>1. CASE i \in 1 .. n
        <3>1. i > 1 => i - 1 \in 1 .. n
            BY <1>4
        <3> QED
            BY <1>1, <1>4, <1>6, <2>1, <3>1 DEF ChainKept
    <2>2. CASE i = n + 1
        <3>1. n > 0 => rows # <<>> /\ rows[n].hash = disk.tip /\ n \in 1 .. n
            BY <1>4 DEF ChainKept
        <3>2. i - 1 = n /\ (i > 1 => n > 0)
            BY <1>4, <2>2
        <3> QED
            BY <1>1, <1>5, <1>6, <1>7, <2>2, <3>1, <3>2
    <2> QED
        BY <1>4, <2>1, <2>2
<1> QED
    BY <1>1, <1>2, <1>6, <1>7, <1>8 DEF ChainKept

LEMMA ChainRollback == ASSUME StoreInv, ChainKept, Rollback PROVE ChainKept'
<1> PICK h, rows, l : h = disk.height /\ rows = disk.netblock /\ l = before[h].ledger
    OBVIOUS
<1>1. phase' # "applied" /\ before' = before /\ CanRollback
    BY DEF Rollback, CanRollback, history
<1>2. Last(disk.undo).height = h /\ floor = 0 /\ h \in Nat /\ ~IsEmpty(disk)
    BY <1>1, RecordOfTheTip DEF StoreInv
<1>3. LoadState(disk') = l /\ disk'.netblock = SubSeq(rows, 1, h - 1) /\ l \in LedgerType /\ l.height = h - 1
    BY <1>2, RolledBack DEF StoreInv
<1>4. rows \in Seq(BlockRows) /\ Len(rows) = h
    BY <1>2 DEF StoreInv, IInv, TablesOK, Undoable, BranchKept
<1> PICK m : m = h - 1
    OBVIOUS
<1>5. m \in Nat /\ m <= Len(rows) /\ h = m + 1 /\ h \in 1 .. h
    BY <1>2, <1>3, <1>4 DEF LedgerType
<1>6. disk'.tip = l.tip
    BY <1>3, LoadedFields
<1>7. Len(disk'.netblock) = m /\ \A i \in 1 .. m : disk'.netblock[i] = rows[i]
    <2>1. disk'.netblock = SubSeq(rows, 1, m)
        BY <1>3
    <2> QED
        BY ONLY <1>4, <1>5, <2>1
<1>8. m > 0 => rows[m].hash = l.tip
    <2>1. Front(rows[h].hash) = l.tip /\ (h > 1 => Front(rows[h].hash) = rows[h - 1].hash)
        BY <1>4, <1>5 DEF ChainKept
    <2>2. h - 1 = m /\ (m > 0 => h > 1)
        BY <1>5
    <2> QED
        BY <2>1, <2>2
<1>9. disk'.netblock # <<>> => m > 0
    <2>1. disk'.netblock \in Seq(BlockRows)
        BY <1>3, <1>4, <1>5
    <2> QED
        BY <1>5, <1>7, <2>1
<1>10. ASSUME NEW i \in 1 .. m
       PROVE  /\ Front(disk'.netblock[i].hash) = before'[i].ledger.tip
              /\ i > 1 => Front(disk'.netblock[i].hash) = disk'.netblock[i - 1].hash
    <2>1. i \in 1 .. h /\ (i > 1 => i - 1 \in 1 .. m)
        BY <1>5
    <2> QED
        BY <1>1, <1>4, <1>7, <2>1 DEF ChainKept
<1>11. m > 0 => m \in 1 .. m
    BY <1>5
<1> QED
    BY <1>1, <1>6, <1>7, <1>8, <1>9, <1>10, <1>11 DEF ChainKept

LEMMA ChainStep == ASSUME StoreInv \/ Parted, ChainKept, [NextOnABadDisk]_vars PROVE ChainKept'
<1>0. IsTables(disk) /\ (IsEmpty(disk) => disk = EmptyTables)
    BY DEF StoreInv, IInv, Parted, TablesOK
<1>1. CASE FirstBoot
    <2>1. disk'.netblock = disk.netblock /\ disk.netblock = <<>> /\ phase' # "applied"
        BY <1>0, <1>1 DEF FirstBoot, Initialised, PutLedger, IsTables, EmptyTables
    <2> QED
        BY <2>1 DEF ChainKept
<1>2. CASE SaveRegisters
    <2>1. disk'.netblock = disk.netblock /\ disk'.tip = disk.tip /\ before' = before /\ phase' # "applied"
        BY <1>0, <1>2 DEF SaveRegisters, IsTables, history
    <2> QED
        BY <2>1, ChainFrame
<1>3. CASE Restore \/ Crash \/ AdoptInMemory \/ RollbackFails
    <2>1. disk' = disk /\ before' = before /\ phase' # "applied"
        BY <1>3 DEF Restore, Crash, AdoptInMemory, RollbackFails, CanRollback, history
    <2> QED
        BY <2>1, ChainFrame
<1>4. CASE Apply
    BY <1>4, ChainApply DEF Apply
<1>5. CASE Commit
    BY <1>5, ChainCommit, NothingIsCommitted
<1>6. CASE AdoptOnDisk
    <2>1. disk'.netblock = <<>> /\ phase' = "idle"
        BY <1>6 DEF AdoptOnDisk, AdoptState, PutLedger, EmptyTables
    <2> QED
        BY <2>1 DEF ChainKept
<1>7. CASE Rollback
    <2>1. ~Parted
        BY <1>7 DEF Rollback, CanRollback, CanUndo, Parted
    <2> QED
        BY <1>7, <2>1, ChainRollback
<1>8. CASE UNCHANGED vars
    <2>1. UNCHANGED <<disk, before, phase, pending>>
        BY <1>8 DEF vars, history
    <2> QED
        BY <2>1 DEF ChainKept
<1> QED
    BY <1>1, <1>2, <1>3, <1>4, <1>5, <1>6, <1>7, <1>8 DEF NextOnABadDisk, Next

\* What a node keeps whole on a disk that may refuse a rollback.
WholeInv == (StoreInv \/ Parted) /\ ChainKept /\ RowsAreOfGrids

\* On a disk that may refuse a rollback (ChainStore.rollback, whose transaction raises after
\* memory has moved), with grids founded and merged, adoptions and crashes: no register of a
\* grid that is gone comes back, and the block table is one chain that ends at the tip.
THEOREM TablesHold == SpecOnABadDisk => []TablesStayWhole
<1>1. Init => WholeInv
    <2>1. Init => ChainKept /\ RowsAreOfGrids
        BY DEF Init, ChainKept, RowsAreOfGrids, EmptyTables
    <2> QED
        BY <2>1, StoreInitially DEF WholeInv
<1>2. WholeInv /\ [NextOnABadDisk]_vars => WholeInv'
    <2> SUFFICES ASSUME WholeInv, [NextOnABadDisk]_vars PROVE WholeInv'
        OBVIOUS
    <2>1. StoreInv' \/ Parted'
        <3>1. CASE StoreInv
            BY <3>1, StoreStep, RollbackFailsParts DEF NextOnABadDisk
        <3>2. CASE Parted
            BY <3>2, PartedStep
        <3> QED
            BY <3>1, <3>2 DEF WholeInv
    <2>2. ChainKept'
        BY ChainStep DEF WholeInv
    <2>3. RowsAreOfGrids'
        <3>1. IsTables(disk) /\ (IsEmpty(disk) => disk = EmptyTables)
            BY DEF WholeInv, StoreInv, IInv, Parted, TablesOK
        <3> QED
            BY <3>1, RowsStep DEF WholeInv
    <2> QED
        BY <2>1, <2>2, <2>3 DEF WholeInv
<1>3. WholeInv => TablesStayWhole
    <2> SUFFICES ASSUME WholeInv PROVE TablesStayWhole
        OBVIOUS
    <2>1. RetiredStayRetired
        BY DEF WholeInv, RowsAreOfGrids, RetiredStayRetired
    <2>2. TablesOK /\ DiskKept
        BY KeptByBoth DEF WholeInv, StoreInv, IInv, Parted
    <2> PICK rows : rows = disk.netblock
        OBVIOUS
    <2>3. rows \in Seq(BlockRows) /\ \A i \in 1 .. Len(rows) : rows[i].height = i
        <3>1. CASE IsEmpty(disk) \/ floor > 0
            <4>1. rows = <<>>
                BY <2>2, <3>1 DEF TablesOK, DiskKept, EmptyTables
            <4> QED
                BY <4>1
        <3>2. CASE ~IsEmpty(disk) /\ ~(floor > 0)
            <4>1. floor = 0
                BY <2>2, <3>2 DEF DiskKept
            <4> QED
                BY <2>2, <3>2, <4>1 DEF TablesOK, DiskKept, BranchKept
        <3> QED
            BY <3>1, <3>2
    <2>4. TablesAreOneChain
        <3>1. rows # <<>> => Last(rows).hash = disk.tip
            BY DEF WholeInv, ChainKept, Last
        <3>2. ASSUME NEW i \in 2 .. Len(rows)
              PROVE  rows[i].height = rows[i - 1].height + 1 /\ Front(rows[i].hash) = rows[i - 1].hash
            <4>1. i \in 1 .. Len(rows) /\ i - 1 \in 1 .. Len(rows) /\ i > 1
                BY <2>3
            <4>2. rows[i].height = i /\ rows[i - 1].height = i - 1 /\ i \in Nat
                BY <2>3, <4>1
            <4>3. Front(rows[i].hash) = rows[i - 1].hash
                BY <4>1 DEF WholeInv, ChainKept
            <4> QED
                BY <4>2, <4>3
        <3> QED
            BY <3>1, <3>2 DEF TablesAreOneChain
    <2> QED
        BY <2>1, <2>4 DEF TablesStayWhole
<1> QED
    BY <1>1, <1>2, <1>3, PTL DEF SpecOnABadDisk
=============================================================================
