------------------------------- MODULE Store -------------------------------
(***************************************************************************)
(* One node's durable state, and everything that moves it: the first boot,   *)
(* the network block applied in memory and then committed in one             *)
(* transaction, the adoption of a snapshot, the rollback of the tip, and a   *)
(* crash between any two of them.  chain/store/db.py (ChainStore), with      *)
(* TierWorld.apply_network_block, .adopt and .restore_from (chain/tiers.py)  *)
(* and the boot of chain/net/node.py.                                       *)
(*                                                                         *)
(* A register is cut down to what a lost write would lose: how many rolls it *)
(* has taken and who is in it.  What the next block's roll is derived from   *)
(* (rolls, certificates, leaders, service) is cut down to the block it came  *)
(* off.                                                                     *)
(***************************************************************************)
EXTENDS Ledger, Selection, Functions

CONSTANTS
    Notes,          \* every note there can be
    GenesisNotes,   \* the notes issued at genesis, in order
    Members,        \* the nodes the registers seat
    Grids,          \* every grid there can be
    GenesisGrids,   \* [the grids of genesis -> their members]
    UndoDepth,      \* how many undo records a store keeps
    MaxHeight,      \* bound: the highest block
    MaxRollbacks,   \* bound: how often the tip is rolled back
    Regrouping,     \* BOOLEAN: blocks may found grids and merge them away
    Adoptions,      \* BOOLEAN: the node may adopt a snapshot
    None            \* what is not there

ASSUME StoreAssumption ==
    /\ GenesisNotes \in Seq(Notes) /\ Distinct(GenesisNotes)
    /\ DOMAIN GenesisGrids \subseteq Grids
    /\ \A g \in DOMAIN GenesisGrids : GenesisGrids[g] \subseteq Members
    /\ UndoDepth \in Nat \ {0} /\ MaxHeight \in Nat /\ MaxRollbacks \in Nat
    /\ {Regrouping, Adoptions} \subseteq BOOLEAN

DeltaType ==
    [spent : Seq(Notes), nfs : Seq(Notes), created : Seq(Notes), fees : Nat]

\* A hash is the history it stands on.
Hashes == Seq(Nat \X DeltaType)

ASSUME NoneAssumption == None \notin Hashes

VARIABLES
    phase,      \* where the process is: down, booting, idle, applied, adopted
    ledger,     \* ChainState in memory
    registers,  \* the registers in memory, by grid
    derived,    \* what the next block's roll is derived from: [certs, credit]
    pending,    \* what a block applied in memory has still to commit
    disk,       \* the tables
    rollbacks,  \* how many rollbacks so far
    before,     \* history variable: what each block of this branch replaced
    peak,       \* history variable: the highest block committed
    floor       \* history variable: the height of the last adoption

memory == <<ledger, registers, derived>>
history == <<before, peak, floor>>
vars == <<phase, memory, pending, disk, rollbacks, history>>

EmptyFcn == [g \in {} |-> None]
NothingDerived == [certs |-> EmptyFcn, credit |-> None]

Register(rolls, members) == [rolls |-> rolls, members |-> members]

GenesisRegisters ==
    [g \in DOMAIN GenesisGrids |-> Register(0, GenesisGrids[g])]

\* A schema with nothing in it: no meta row, no tip.
EmptyTables ==
    [utxo |-> <<>>, dead |-> {}, nfs |-> <<>>, fees |-> 0, netblock |-> <<>>,
     height |-> -1, tip |-> None, registers |-> EmptyFcn,
     derived |-> NothingDerived, undo |-> <<>>]

IsEmpty(tables) == tables.tip = None

-----------------------------------------------------------------------------
(* What the tables hold, and what is read back from them.                    *)

\* An insert that overwrites: the grids not named keep their rows.
Upsert(rows, new) ==
    [g \in DOMAIN rows \cup DOMAIN new |->
        IF g \in DOMAIN new THEN new[g] ELSE rows[g]]

Without(rows, grids) == Restrict(rows, DOMAIN rows \ grids)

LoadState(tables) ==
    [utxo |-> tables.utxo, dead |-> tables.dead, nfs |-> tables.nfs,
     fees |-> tables.fees, height |-> tables.height, tip |-> tables.tip,
     spine |-> [i \in DOMAIN tables.netblock |-> tables.netblock[i].hash]]

PutLedger(tables, l) ==
    [tables EXCEPT !.utxo = l.utxo, !.dead = l.dead, !.nfs = l.nfs,
                   !.fees = l.fees, !.height = l.height, !.tip = l.tip]

Initialised(tables, l) == PutLedger(tables, l)

\* One record too few is kept.
PruneUndoEarly(undo, height) ==
    Selected(undo, {i \in DOMAIN undo : undo[i].height > height - UndoDepth + 1})

\* _prune_undo: records at or below the ceiling are dead weight.
PruneUndo(undo, height) ==
    Selected(undo, {i \in DOMAIN undo : undo[i].height > height - UndoDepth})

\* Rows written over rows that are there, as INSERT OR REPLACE would.
CommitReplaces(tables, c) == c.height <= tables.height + 1

\* What the tables refuse, and the transaction with it: a spend of a note that
\* is not there unspent, a note or nullifier that is there already, and a
\* height that has its block.
CanCommit(tables, c) ==
    /\ ToSet(c.delta.spent) \subseteq ToSet(tables.utxo) \ tables.dead
    /\ ToSet(c.delta.created) \cap ToSet(tables.utxo) = {}
    /\ ToSet(c.delta.nfs) \cap ToSet(tables.nfs) = {}
    /\ \A i \in DOMAIN tables.netblock : tables.netblock[i].height # c.height

\* commit: one transaction, what the block changed and nothing else.
CommitRows(tables, c) ==
    [tables EXCEPT
        !.dead     = @ \cup ToSet(c.delta.spent),
        !.utxo     = @ \o c.delta.created,
        !.nfs      = @ \o c.delta.nfs,
        !.netblock = Append(@, [height |-> c.height, hash |-> c.hash]),
        !.undo     = PruneUndo(Append(@, c.undo), c.height),
        !.height   = c.height,
        !.tip      = c.hash,
        !.fees     = c.fees]

\* A grid merged away is left in the store, as it was before review C4.
CommitUpsertOnly(tables, c) ==
    [CommitRows(tables, c) EXCEPT
        !.registers = Upsert(@, c.registers), !.derived = c.derived]

\* What the next roll is derived from is not written, as it was not before
\* grid_cert existed.
CommitWithoutDerived(tables, c) ==
    [CommitRows(tables, c) EXCEPT
        !.registers = Without(Upsert(@, c.registers), c.retired)]

CommitBlock(tables, c) ==
    [CommitRows(tables, c) EXCEPT
        !.registers = Without(Upsert(@, c.registers), c.retired),
        !.derived   = c.derived]

\* The rows of the chain that was replaced stay behind in the block table.
AdoptKeepsBlocks(tables, l, regs, d) ==
    [PutLedger(EmptyTables, l) EXCEPT
        !.registers = regs, !.derived = d, !.netblock = tables.netblock]

\* adopt: every table emptied and rewritten.
AdoptState(tables, l, regs, d) ==
    [PutLedger(EmptyTables, l) EXCEPT !.registers = regs, !.derived = d]

\* The rows of a table that are not of this height.
Others(rows, height) == {i \in DOMAIN rows : rows[i].height # height}

\* rollback, on disk: the rows the record names, and the pre-images of the
\* registers it kept.
RollBackRows(tables, u) ==
    [tables EXCEPT
        !.utxo     = Lacking(@, ToSet(u.created)),
        !.dead     = @ \ ToSet(u.unspend),
        !.netblock = Selected(@, Others(@, u.height)),
        !.undo     = Selected(@, Others(@, u.height)),
        !.height   = u.prevHeight,
        !.tip      = u.prevTip,
        !.fees     = @ - u.fees]

\* The nullifiers of the block that came off stay published.
RollBackKeepsNullifiers(tables, u) ==
    [RollBackRows(tables, u) EXCEPT !.registers = Upsert(@, u.registers)]

\* The pre-images of the registers are not written back.
RollBackKeepsRegisters(tables, u) ==
    [RollBackRows(tables, u) EXCEPT
        !.nfs = Lacking(@, ToSet(u.nfs))]

RollBack(tables, u) ==
    [RollBackRows(tables, u) EXCEPT
        !.nfs       = Lacking(@, ToSet(u.nfs)),
        !.registers = Upsert(@, u.registers)]

-----------------------------------------------------------------------------
(* What a block does to the registers in memory.                             *)

TakeRolls(regs, grids) ==
    [g \in DOMAIN regs |->
        IF g \in grids THEN [regs[g] EXCEPT !.rolls = @ + 1] ELSE regs[g]]

\* _found_grid: a cohort leaves its grid for a new one.
FoundGrid(regs, f) ==
    Upsert(regs, [g \in {f.donor, f.grid} |->
        Register(regs[f.donor].rolls,
                 IF g = f.grid THEN f.cohort
                               ELSE regs[f.donor].members \ f.cohort)])

\* _merge_grid: a whole grid moves into another.
MergeGrid(regs, m) ==
    Without(Upsert(regs, [g \in {m.into} |->
                Register(regs[g].rolls,
                         regs[g].members \cup regs[m.from].members)]),
            {m.from})

\* The foundings and merges a block over these registers can carry.
FoundingsOf(regs) ==
    IF ~Regrouping THEN {}
    ELSE {f \in [donor : DOMAIN regs, grid : Grids \ DOMAIN regs,
                 cohort : SUBSET Members \ {{}}] :
             f.cohort \subseteq regs[f.donor].members
             /\ f.cohort # regs[f.donor].members}

MergesOf(regs) ==
    IF ~Regrouping THEN {}
    ELSE {m \in [from : DOMAIN regs, into : DOMAIN regs] :
             m.from # m.into /\ regs[m.from].rolls = regs[m.into].rolls}

\* A delta a valid block carries: at most one note spent, one created.
Deltas(l) ==
    {d \in [spent : {<<>>} \cup {<<n>> : n \in Live(l)},
            nfs : {<<>>} \cup {<<n>> : n \in Live(l)},
            created : {<<>>} \cup {<<n>> : n \in Notes \ ToSet(l.utxo)},
            fees : {0, 1}] :
        d.nfs = d.spent /\ d.fees = Len(d.spent)
        /\ CanApplyDelta(l, d)}

-----------------------------------------------------------------------------
Init ==
    /\ phase = "down"
    /\ ledger = None /\ registers = EmptyFcn /\ derived = NothingDerived
    /\ pending = None
    /\ disk = EmptyTables
    /\ rollbacks = 0
    /\ before = <<>> /\ peak = 0 /\ floor = 0

\* A store with no tip is written genesis; the registers come in a second
\* transaction, after this one has committed.
FirstBoot ==
    /\ phase = "down" /\ IsEmpty(disk)
    /\ ledger' = GenesisLedger(GenesisNotes)
    /\ registers' = GenesisRegisters
    /\ derived' = NothingDerived
    /\ disk' = Initialised(disk, GenesisLedger(GenesisNotes))
    /\ phase' = "booting"
    /\ UNCHANGED <<pending, rollbacks, history>>

SaveRegisters ==
    /\ phase = "booting"
    /\ disk' = [disk EXCEPT !.registers = Upsert(@, registers)]
    /\ phase' = "idle"
    /\ UNCHANGED <<memory, pending, rollbacks, history>>

\* restore_from: the node becomes what the tables say it was.
Restore ==
    /\ phase = "down" /\ ~IsEmpty(disk)
    /\ ledger' = LoadState(disk)
    /\ registers' = disk.registers
    /\ derived' = disk.derived
    /\ phase' = "idle"
    /\ UNCHANGED <<pending, disk, rollbacks, history>>

\* A crash, or an exception the epoch loop does not catch.
Crash ==
    /\ phase # "down"
    /\ phase' = "down"
    /\ ledger' = None /\ registers' = EmptyFcn /\ derived' = NothingDerived
    /\ pending' = None
    /\ UNCHANGED <<disk, rollbacks, history>>

\* apply_network_block up to the commit.  `ran` are the grids with a ceremony
\* block in it, and `took` those whose ceremony block carried a roll or whose
\* members served above: only these are captured for the undo record, and only
\* these are written.
ApplyNetworkBlock(d, ran, took, foundings, merges) ==
    LET height == ledger.height + 1
        hash   == HashOf(ledger, height, d)
        rolled == TakeRolls(registers, took)
        moved  == IF foundings # {}
                  THEN FoundGrid(rolled, CHOOSE f \in foundings : TRUE)
                  ELSE rolled
        merged == IF merges # {}
                  THEN MergeGrid(moved, CHOOSE m \in merges : TRUE)
                  ELSE moved
        next   == [credit |-> hash,
                   certs  |-> [g \in DOMAIN merged
                                       \cap (ran \cup DOMAIN derived.certs) |->
                       IF g \in ran THEN hash ELSE derived.certs[g]]]
        moving == RecordBlock(ApplyDelta(ledger, d), height, hash)
    IN  /\ phase = "idle"
        /\ height <= MaxHeight
        /\ CanRecord(ledger, height)
        /\ ran \cup took \subseteq DOMAIN registers
        /\ ledger' = moving
        /\ registers' = merged
        /\ derived' = next
        /\ pending' =
             [height |-> height, hash |-> hash, delta |-> d,
              fees |-> moving.fees, derived |-> next,
              registers |-> Restrict(merged, took \cap DOMAIN merged),
              retired |-> {m.from : m \in merges},
              undo |-> Capture(ledger, d, height, hash,
                               Restrict(registers, took))]
        /\ phase' = "applied"
        /\ before' = Append(SubSeq(before, 1, height - 1 - floor),
                            [ledger |-> ledger, registers |-> registers,
                             derived |-> derived])
        /\ UNCHANGED <<disk, rollbacks, peak, floor>>

Apply ==
    /\ phase = "idle"
    /\ \E d \in Deltas(ledger), ran \in SUBSET DOMAIN registers \ {{}},
          took \in SUBSET DOMAIN registers :
        \/ ApplyNetworkBlock(d, ran, took, {}, {})
        \/ \E f \in FoundingsOf(registers) :
               ApplyNetworkBlock(d, ran, took, {f}, {})
        \/ \E m \in MergesOf(TakeRolls(registers, took)) :
               ApplyNetworkBlock(d, ran, took, {}, {m})

\* A commit the tables refuse raises, and the process with it (Crash).
Commit ==
    /\ phase = "applied"
    /\ CanCommit(disk, pending)
    /\ disk' = CommitBlock(disk, pending)
    /\ pending' = None
    /\ phase' = "idle"
    /\ peak' = IF pending.height > peak THEN pending.height ELSE peak
    /\ UNCHANGED <<memory, rollbacks, before, floor>>

\* world.adopt: a state a peer sent and a header proved.  Its spine is empty:
\* a snapshot's chunks carry notes, nullifiers and registers, and no history.
AdoptInMemory ==
    /\ Adoptions /\ phase = "idle"
    /\ \E h \in ledger.height + 1 .. MaxHeight, d \in Deltas(ledger),
          took \in SUBSET DOMAIN registers :
         LET l == [ApplyDelta(ledger, d) EXCEPT
                     !.height = h, !.spine = <<>>,
                     !.tip = HashOf(ledger, h, d)]
         IN  /\ ledger' = l
             /\ registers' = TakeRolls(registers, took)
             /\ derived' = [credit |-> l.tip,
                            certs |-> [g \in DOMAIN registers |-> l.tip]]
    /\ phase' = "adopted"
    /\ UNCHANGED <<pending, disk, rollbacks, history>>

AdoptOnDisk ==
    /\ phase = "adopted"
    /\ disk' = AdoptState(disk, ledger, registers, derived)
    /\ phase' = "idle"
    /\ before' = <<>> /\ floor' = ledger.height /\ peak' = ledger.height
    /\ UNCHANGED <<memory, pending, rollbacks>>

\* ChainStore.rollback: the newest record, applied to the live state first.
CanRollback ==
    /\ phase = "idle" /\ rollbacks < MaxRollbacks
    /\ disk.undo # <<>> /\ Last(disk.undo).height = disk.height
    /\ CanUndo(ledger, Last(disk.undo))
    /\ UndoProved(ApplyUndo(ledger, Last(disk.undo)), Last(disk.undo))

RollbackInMemory ==
    /\ ledger' = ApplyUndo(ledger, Last(disk.undo))
    /\ rollbacks' = rollbacks + 1

Rollback ==
    /\ CanRollback
    /\ RollbackInMemory
    /\ registers' = Upsert(registers, Last(disk.undo).registers)
    /\ disk' = RollBack(disk, Last(disk.undo))
    /\ UNCHANGED <<phase, derived, pending, history>>

\* The transaction raises: the rows stay, and the live state has moved already
\* (the registers too if it was the final COMMIT that failed).
RollbackFails ==
    /\ CanRollback
    /\ RollbackInMemory
    /\ registers' \in {registers, Upsert(registers, Last(disk.undo).registers)}
    /\ UNCHANGED <<phase, derived, pending, disk, history>>

Next ==
    \/ FirstBoot \/ SaveRegisters \/ Restore \/ Crash
    \/ Apply \/ Commit
    \/ AdoptInMemory \/ AdoptOnDisk
    \/ Rollback

Spec == Init /\ [][Next]_vars

\* The same on a disk that may refuse a rollback.
NextOnABadDisk == Next \/ RollbackFails
SpecOnABadDisk == Init /\ [][NextOnABadDisk]_vars

-----------------------------------------------------------------------------
(* Properties.                                                              *)

LedgerType ==
    [utxo : Seq(Notes), dead : SUBSET Notes, nfs : Seq(Notes), fees : Nat,
     spine : Seq(Hashes), height : Nat, tip : Hashes]

TypeOK ==
    /\ phase \in {"down", "booting", "idle", "applied", "adopted"}
    /\ IF phase = "down" THEN ledger = None ELSE ledger \in LedgerType
    /\ phase # "applied" => pending = None
    /\ IF IsEmpty(disk) THEN disk = EmptyTables
                       ELSE LoadState(disk) \in LedgerType
    /\ DOMAIN registers \subseteq Grids
    /\ DOMAIN disk.registers \subseteq Grids
    /\ rollbacks \in 0 .. MaxRollbacks

\* Restarting between two blocks changes nothing a later block depends on:
\* the ledger and its spine, rebuilt from the rows, are the ones in memory.
\* (test_a_restarted_node_is_the_node_it_was, for every order of blocks,
\* rollbacks, adoptions and crashes.)
LedgerSurvives == phase = "idle" => LoadState(disk) = ledger

\* The same for the registers: who sits where, and how many rolls each grid
\* has taken.
RegistersSurvive == phase = "idle" => disk.registers = registers

\* And for what the next block's roll is derived from: a node that comes back
\* without it cannot validate the next block.
DerivedSurvives == phase = "idle" => disk.derived = derived

\* A grid merged away does not come back from the store, holding members who
\* are by then in another register too.
RetiredStayRetired ==
    phase = "idle" => DOMAIN disk.registers \subseteq DOMAIN registers

\* The two records of a spend never disagree, in memory or on disk, so the
\* node never stops itself with LedgerInconsistent.
SpendsAgree ==
    /\ ledger # None => CrossCheck(ledger) /\ Distinct(ledger.utxo)
    /\ CrossCheck(LoadState(disk))

\* The node that would come back after a crash between two blocks is the one that runs.
SurvivesCrashes == LedgerSurvives /\ RegistersSurvive /\ DerivedSurvives /\ SpendsAgree

\* The store can undo exactly the blocks between the rewrite ceiling (or the
\* adoption) and the tip: one record each, none missing, none beyond.
ReversibleToTheCeiling ==
    LET lowest == IF floor > peak - UndoDepth THEN floor ELSE peak - UndoDepth
    IN  {disk.undo[i].height : i \in DOMAIN disk.undo} =
            {h \in 1 .. MaxHeight : lowest < h /\ h <= disk.height}

\* The block table is one chain that ends at the tip, whatever failed on the
\* way: a node whose memory and tables have parted writes nothing.
TablesAreOneChain ==
    LET rows == disk.netblock
    IN  /\ rows # <<>> => Last(rows).hash = disk.tip
        /\ \A i \in 2 .. Len(rows) :
               /\ rows[i].height = rows[i - 1].height + 1
               /\ Front(rows[i].hash) = rows[i - 1].hash

\* Grids that come and go leave the tables of a node whole: no row of a grid that was
\* merged away returns (RetiredStayRetired), and a rollback whose transaction fails leaves
\* no table a height from the others (TablesAreOneChain).
TablesStayWhole == RetiredStayRetired /\ TablesAreOneChain

\* A rollback puts the whole ledger back as it was before the block, what no
\* root commits to (fees, spine, tip) included.
RollbackIsExact ==
    [][rollbacks' > rollbacks =>
         ledger' = before[ledger.height - floor].ledger]_vars

\* A rollback is possible down to the ceiling and no further, and puts the ledger back.
\* Registers, certificates and credits it leaves (RollbackRestoresEverything).
RollbackRestoresTheLedger == []ReversibleToTheCeiling /\ RollbackIsExact

\* Whoever memory seats sits in one register on disk, and one only: what a
\* founding or a merge moved, a crash does not lose or double.
NobodyIsLost ==
    phase = "idle" =>
        \A g \in DOMAIN registers : \A m \in registers[g].members :
            Cardinality({k \in DOMAIN disk.registers :
                            m \in disk.registers[k].members}) = 1

\* A rollback puts back everything the block replaced, what the next block's
\* roll is derived from included.
RollbackRestoresEverything ==
    [][rollbacks' > rollbacks =>
         LET was == before[ledger.height - floor]
         IN  disk'.registers = was.registers /\ disk'.derived = was.derived]_vars

\* Whatever state a node stands on, its spine holds the blocks below it, so
\* that the next block can be recorded.
SpineReachesTheTip == phase = "idle" => CanRecord(ledger, ledger.height + 1)

\* A node that has booted knows its grid.
RegistersAreThere == phase = "idle" => DOMAIN registers # {}
=============================================================================
