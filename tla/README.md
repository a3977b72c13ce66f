# A verification of fin6

fin6 is a ledger kept by a network of mutually distrusting nodes. A node is one
process (`src/chain/net/node.py`) that sits in a *grid*; every epoch - a window
of wall time - the grid holds a *ceremony* in which a leader proposes the next
block, the seats validate it themselves and attest to it, and a quorum of
attestations finalises it. The blocks of the grids are bundled, tier by tier,
into one network block. This directory holds TLA+ models of that program, TLC
configurations that check them on small instances, and proofs that TLAPS checks
for every instance.

1. The system
2. Modules
3. Runs: instances, bounds, fairness, findings
4. Proofs
5. Known divergences
6. What is only model-checked, what is not modelled

## 1. The system: parts, state, operations

| part | code | state | operations | what is hard |
|---|---|---|---|---|
| Seat and view change | `net/seat.py`, `viewchange.py`, the loop of `net/node.py`, `Grid.seat` and `Envelope` of `ceremony.py`, `net/clock.py` | per seat: envelope (proposals, attestations, faults), view, lock, view changes, verdict | enter a view, propose, take a header or a body, react, accept, time out, give up the epoch, catch up, restart | seats share no clock and leave views at different moments; statements are lost, late, repeated; a block may be final at one seat while others give up on it; locks, quorums over different sets, restarts |
| In-process ceremony | `ceremony.py` | grid, one envelope per seat, round number | gossip round, react, decide, retry with another leader | round bound from the graph's diameter, equivocation, withholding apprentices |
| Register, seats, faults | `register.py`, `seats.py`, `faults.py` | members with standing, attendance, departures | admit, apply a roll, promote, suspend, release, absorb | caps, thresholds, evidence used twice, seats leaving |
| Ledger | `state.py`, `notes.py`, `transaction.py`, `mint.py`, `node.py` | note set, nullifiers, history, supply, mempool | authenticate, verify, admit, apply, fork, merge | double spends, order of application, refusal half-way |
| Tiers | `tiers.py`, `tiered.py`, `locality.py`, `seal.py` | registers per grid, topology, pending rolls and faults | build and validate per tier, drop a grid, merge and split grids | partial failure of a tier, state read before the root decides |
| Hardening | `hardening/` | stamp pool, cumulative work, hardened height | stamp, absorb, harden, choose a branch | reorganisation beyond a ceiling, duplicated stamps |
| Store | `store/` | block files, indexes, a commit marker, undo records, high-water mark, snapshots | commit, recover, roll back, prune, snapshot, restore | a crash between any two writes; a mark that must never go back |
| Catch-up | `net/catchup.py`, `store/snapshot.py` | target height, buffered bodies, chunks | note a height, request, absorb, advance, fall back to a snapshot | bodies out of order, bodies refused, a window that moves |
| Transport and admission control | `net/peer.py`, `handshake.py`, `frame.py`, `limits.py`, `budget.py`, `gate.py`, `directory.py` | connections, nonces, token buckets, work queue, proof budget, address book | handshake, send, receive, refuse, spend, queue, evict | two sides opening at once, a budget reserved for the ceremony, eviction |
| Supervisor | `net/supervisor.py` | child, restarts, back-off | start, watch, restart, give up | restart storms |
| Protocol versions | `protocol.py`, `params.py` | activation heights | expected version, halt | a node that does not know an activated version |
| Genesis and founding ceremonies | `genesis.py`, `hardening/contrib.py`, `hardening/ceremony.py` | contributions, transcript | contribute, verify, seal | order and completeness of contributions |
| Wallet | `wallet/` | notes, reservations, scan height | scan, select, reserve, confirm, roll back | a spend that never confirms, a chain that goes back |
| Light client | `client/` | headers, trusted roots | follow, adjudicate | sources that disagree |
| Command line, demos, measurement | `fin6/`, `examples/`, `chain/measure.py` | none | - | - |
| Proof systems | `mq/` | none | number theory | out of a model checker's reach |

The parts meet in `NodeProcess`. `run` waits for an epoch, catches up, and runs
`_views`; `_views` creates one `Seat` per view and `_gossip` feeds it what
`_handle` receives. What a seat accepts goes to `apply_network_block` (ledger,
registers), to the store and to the stamp pool, and its body to the cache that
serves peers that are behind.

## 2. Modules

| module | models | over |
|---|---|---|
| `ViewChange` | the seats of one grid at one height | |
| `Faults` | the same when quorums of seats overlap: the invariant that no restart and no late seat breaks | `ViewChange` |
| `OnTime` | the provisos under which one epoch certifies one block: the schedule of leaders, the inductive invariant, the refinement of `HeightDecision` | `Faults` |
| `HeightDecision` | the abstract promise: one block is agreed, seats learn it | |
| `ViewTiming` | `ViewChange` on a shared clock, with the fairness of the node's loop | `ViewChange` |
| `Ceremony` | one ceremony in one process, round by round, and the views of an epoch | |
| `GridBlock` | what is in the block a grid agrees and what its seats make of it | `Register` |
| `TierPass` | one pass of blocks from the grids through groups to the root | |
| `Register` | one grid's register as a value | |
| `Tiers` | the network over many epochs: grids, registers, foundings, merges | `Register` |
| `Ledger` | one node's ledger as a value: deltas and how they are undone | |
| `Store` | one node's durable state and everything that moves it | `Ledger` |
| `Selection` | what a table or a list keeps of its rows, in the order they had | |
| `HighWater` | the file a holder of stamping turns writes before it signs | |
| `CatchUp` | a node that fell behind, and its helpers | |
| `Draw`, `Stamping`, `History` | turns and their draw; how an agreed block is hardened; fork choice | `Draw` |
| `Params` | which parameters may be founded on | |
| `Founding`, `EraPool` | the genesis document and its founders; era 0 of the pool of turns | `Params` |
| `Payment` | what a transaction has to prove | |
| `Mempool` | pool, queue, proof budget and building | |
| `Wallet` | wallet, light client and the node they read | |
| `Mesh`, `Gate`, `Limiter`, `Directory` | sessions and frames; sockets and penalties; token buckets; addresses | |
| `Activation` | which rules a height runs under | |
| `OnTime_proofs` | proofs about seats and views | `OnTime`, `Faults` |
| `Tiers_proofs` | proofs about grids that are founded and merged, and about wallets | `Tiers`, `Wallet` |
| `Grid_proofs` | proofs about the block of a grid | `GridBlock` |
| `Store_proofs` | proofs about what is durable | `Store` |
| `Sync_proofs` | proofs about the mark, hardening, coming back and fork choice | `HighWater`, `Stamping`, `CatchUp`, `History` |
| `Network_proofs` | proofs about what stands between two nodes | `Mesh`, `Gate`, `Limiter`, `Directory`, `Activation` |
| `Value_proofs` | proofs about quorums, founding, money, the pool and era 0 | `Params`, `Founding`, `Payment`, `Mempool`, `EraPool` |
| `Selection_proofs` | the lemmas the others share | `Selection` |
| `MC_*` | instances for TLC | |

An `MC_` module that runs several components puts them *side by side*: a variable
`part` says which of them moves, and the others stay in their initial states. It
saves configurations and composes nothing. What is composed is composed in the
modules: `Store` over `Ledger` and `Selection`; `Tiers` and `GridBlock` over
`Register`; `Stamping` and `History` over `Draw`; `Founding` over `Params`; and `MC_Tiers` runs
`Store` with grids that are founded and merged, as `Tiers` founds and merges them (it extends both).

Two abstractions are made everywhere. A signature, a seal or a proof verifies
exactly when its author made it for what it is attached to: a statement is in a
set of the model exactly when it was signed. A digest is what it is taken over, so
digests do not collide.

### ViewChange

*State.* `proposals`, `attestations` and `changes` are all the signed
statements ever made: they are the network. An envelope (`Envelope` in
`ceremony.py`) is a part of them, and since gossip relays everything and nothing
bounds when it arrives, a handler that reads the envelope reads any part of
them, chosen when it reads. Signatures and keys are abstracted: a statement is
in one of the sets exactly when its author made it. The one part of the envelope
that is kept is `seen`, the proposals held, because a seat reacts once and to a
sole proposal. `epoch`, `view`, `tried` and `locked` are the locals of `run` and
`_views`; `validated` and `reacted` are fields of `Seat`; `proposed` is the
closure state of `_run_view`; `held` is the body cache; `decided` is the block
applied at this height.

*Actions.*

| action | code |
|---|---|
| `StartEpoch` | `wait_for_next_epoch`, `run_epoch` up to `_views`, `_seat_view` of the first view |
| `NextView` | the view's deadline in `_gossip`, `tried.append`, `lock = self.seat.locked`, `_seat_view` with its `view_change()` |
| `EndEpoch` | `_views` returns None, `run_epoch` gives the epoch up |
| `Propose` | `propose_now`, `view_cert`, `_propose`, `adopt` |
| `TakeProposal` | `absorb`, `_take_header`, `offer_block`, `add_proposal` |
| `TakeBody` | `_handle` of a body no header waits for |
| `ReactToEquivocation`, `React` | the two halves of `Seat.react` |
| `Accept` | `Seat.accepted` and what `run_epoch` does with it |
| `CatchUp` | `_catch_up` and `_apply_caught_up` for this height |
| `Restart` | the process ends and a new one starts; `StartEpoch` then enters the epoch that runs (`Enters`) |

A seat dies (`Down`) when `Grid.seat` has no untried attester left. A header and
its body are one step: a body that is missing is asked for again until it
arrives, and a seat reacts to neither alone. `Quorum` is a constant because
`register.quorum` depends on the register only, which does not change within a
height; `LeaderOf` is a constant because the leader is drawn by a hash.

*Not in it.* Fault reports and rolls (they act on the register: `GridBlock`), the content of
blocks (`BadBlocks` is what `validate` refuses), the height itself (a seat that
has decided is done), Byzantine seats other than lazy and silent ones and the
ones a restart makes equivocate.

What is asked of the seats is `OneBlockPerEpoch`, `KeepsThePromise` and, where seats
are lazy or forget, `FaultsAreContained`: nothing invalid is ever final, and two blocks
certified in one epoch convict somebody or show two seats that led one view. A process that
restarts is given the running epoch (`epoch_now`) and passes over the views that are over
by then, without recording their leaders; `rejoin` is the first view that can still run.
Two views show the restarts; a fork that convicts nobody takes three (section 5), and the
theorem is of any number.

### Ledger and Store

*State.* `disk` is the SQLite database of `ChainStore`: one field per table that
a block touches (`utxo` with its dead bits, `nullifier`, `netblock`, `undo`, the
registers, the `grid_cert` and credit rows the next roll is derived from, and the
`meta` row with tip, height and fees). SQLite gives atomic, durable transactions
(`_write` is BEGIN IMMEDIATE .. COMMIT), so a transaction is one step and a crash
falls between two. `ledger`, `registers` and `derived` are the same things in
memory (`ChainState`, `TierWorld.registers`, `credit_block` and the grids'
certificates); `pending` is what `apply_network_block` has applied in memory and
still has to commit. `phase` is where the process stands between the two.
`before`, `peak` and `floor` are history variables: no action reads them except
to maintain them. A hash is the history it stands on, so hashes do not collide.

*Actions.*

| action | code |
|---|---|
| `FirstBoot`, `SaveRegisters` | the two transactions of `node.py` on an empty store: `initialise`, `save_registers` |
| `Restore` | `TierWorld.restore_from`: `load_state`, `load_registers`, `load_grid_certs` |
| `Crash` | the process ends: a kill, or an exception the epoch loop does not catch |
| `Apply` | `TierWorld.apply_network_block` up to its commit: capture, delta, rolls, foundings, merges, spine |
| `Commit` | `ChainStore.commit` with `_prune_undo`, and what the tables refuse |
| `AdoptInMemory`, `AdoptOnDisk` | `TierWorld.adopt`, `ChainStore.adopt` |
| `Rollback`, `RollbackFails` | `ChainStore.rollback` with `apply_undo`; the same when its transaction raises |

`Apply` and `Commit` are two steps and so are the halves of an adoption, because
the code moves memory first. `Rollback` is one: it holds the transaction open
while it moves both, and `RollbackFails`, a step of `SpecOnABadDisk` only, is what happens when it does not
close.

*Data.* A register is cut down to who is in it and how many rolls it has taken;
what the next roll is derived from is cut down to the block it came off; a note
stands for its nullifier.

*Asked of it.* `SurvivesCrashes`: between two blocks, the node that would come back
after a crash is the node that is running - ledger, registers, what the next roll is
derived from - and tombstones and nullifiers count the same spends, in memory and on
disk. `RollbackRestoresTheLedger`: the undo table holds one record for each block between the
rewrite ceiling (or the last adoption) and the tip, over all orders of blocks,
rollbacks and prunings, and a rollback brings back the whole ledger, also the parts
no root commits to. Registers, certificates and credits it leaves as the block made them
(section 5, `RollbackRestoresEverything`). `TablesStayWhole` (checked in `tiers`, with grids and with rollbacks
whose transaction fails): a grid merged away does not come back from the store, and
what is committed after a failed rollback has left memory and tables apart is still
one chain, because the tables refuse the rest.

### Ceremony

One ceremony in one process (`Ceremony.run`, `Envelope`, `Grid.seat`, the row
topology and `run_epoch` of `ceremony.py`). The seats run in lock step: `Round`
gives every seat what its neighbours held when the round began and lets it react.
`BeginView` draws an order, `Propose` is the leader's move, `Decide` what the seats
accept after the last round, the roll, and the end or the retry. `RunOut` is
`Grid.seat` with nobody left. A leader is `honest`, `silent` or `equivocating`, as
the code can act them out; beside that, seats may be `mute`, because the topology
exists for seats through whom nothing passes, and some may find the block invalid.

*Asked of it.* `EpochsFinalise` is three things: an honest leader's block is final in
the rounds the schedule gives, for every shape of the rows; an epoch with a view
for every attester finalises when one of them leads honestly; and roll and
certificate name the same nodes. `EquivocationIsCaught`: when two attesters of the
first row were given two blocks the seats find out among themselves, and nobody
accepts either.

### GridBlock

The block a grid makes of the epoch before and of what its leader holds, and what
its seats say of it (`GridWorkload.build` and `.validate`, `CeremonyBlock`,
`QuorumCert`, the fault reports of `block.py`). Nodes end the epoch before with
certificates of their own (`Finalise`) or with a peer's (`Fetch`); the leader
builds, may change its block anywhere before it is proposed (`AlterSomething`), and
the seats validate.

*Asked of it.* `SeatsAgreeOnBlocks`: an honest leader's block is valid for everybody,
and seats that know the same give the same verdict although they hold different
certificates. `AcceptedIsSound`: in a block that passes, standing is earned by
attestations that were made and lost to evidence over the key of a seat that signed two
blocks or attested to a flawed one, and the delta applies to the ledger. Evidence
carries the key it is checked with and the name of whom it accuses, which nobody signed
and no validator compares with the roster (`block.py:281`, `block.py:319`), so a piece of
it is `[names, made]`: whom it names, and the statement it proves. That the two are the
same seat's is `SuspendedDidIt`, which the code does not keep (section 5). `ProvedFaultsAreCarried` is a finding.

### TierPass

`run_tiered_epoch`, `_run_solo_epoch`, the deal into groups, `GroupBlock`, the views
of the top tier, and `apply_network_block` as far as siblings, credits and the rows
of `txblock` go. Leaders above the grids are honest, silent, leave children out, list
children as dropped, or keep children that collide.

*Asked of it.* `PassIsSound`: honest leaders deliver every grid that finalised, or its
work collides with what is applied, or with a sibling's that does; a
silent leader at the top costs a view and not the epoch; what can be left out
unnoticed is no more than a quorum misses; no note is created twice by the merged
block; and service is credited to those who sat. `ConfirmedIsApplied` is a finding.
The third case of the first comes of there being two merges: a group drops a child for a
sibling, and the network block may then drop the sibling for another group's, so that
the first, which collides with nothing applied, is not applied either. Three of five
grids, in two groups, show it (`{{1, 2}, {2, 4}}` in `MC_Epoch`).

### Register and Tiers

`Register` (`register.py`) is a record of functions: standing, attendance,
suspensions, the pool of newcomers. `Missed`, `Advanced`, `Admit`, `Absorb` and the
others are its methods.

`Tiers` moves registers, topology and waiting transactions one network block at a
time. `Epoch` is one block: some grids finish, their rolls are applied, members who
were reported are suspended, a grid that outgrew itself founds another, one that
shrank is merged into a sibling, transactions are rerouted (`run_tiered_epoch`,
`apply_network_block`, `plan_foundings`, `plan_merges`, `_found_grid`, `_merge_grid`,
`reroute_mempools`). `AdmitNode`, `ReportFault` and
`Submit` are what happens between blocks. The state is the committed one, which
every node holds alike; `world = "raised"` is an agreed block whose application
raised.

*Asked of it.* `SeatingIsSound`: one register each, whatever is founded and merged.
`PaymentsFindTheirGrid`: the indices have no hole, so every nullifier has a grid, and
what waits waits where it may be included. `MovingEarnsNothing`: no sequence of
foundings and merges launders a suspension, shortens the probation gate or changes a
member's region. `TablesStayWhole`, of `Store` under the same foundings and merges.

### Payment

From the mint of genesis to the last payment (`mint.py`, `transaction.py`,
`txsystem.py`, `notes.py`, `wallet/sealing.py`). A commitment is the number of its
opening. The rows of the constraint system are each reduced to what they say, and
the sum row holds modulo `P`; `Amount` is the sum of some notes' values and `Worth` that
of the commitments in a set. No code bounds a fee or the total a mint declares, so
`Fees` and `Totals` hold some that wrap. `Pay` is what a wallet builds, `Submit` what
anybody may put together of notes and keys, with openings sealed to anybody or to
nobody beside them; `addressed` remembers whose openings the mint or a wallet sealed; `Alter` what may be exchanged on the way, `Deliver`
what `verify_transaction` and `apply_delta` do with it.

*Asked of it.* `PaymentsAreSound`: what is live and what was burned is what was minted,
but for a multiple of the field, and exactly that while neither the declared total nor the
fees burned come near it; a note that a wallet or the mint sealed is found by the seed
it was sealed to, and by no other; what an honest wallet builds is accepted. That the
integers add up at any fee is `SupplyIsConservedAtAnyFee`, which the code does not keep
(section 5). `OnlyTheOwnerSpends` is an action property.

### Mempool

One node's side of a submission: the cheap checks at once, the proof later and out
of the slack of the epoch (`node.py`, `net/budget.py`, `_offer_tx`). `Arrive`
authenticates and enqueues, `Drain` runs jobs while the budget lasts, `OpenEpoch`
resizes the queue, `ApplyBlock`, `Reroute` and `NewLedger` are the ledger moving under
the pool, `Build` (an operator) is the block a leader makes of it.

*Asked of it.* `PoolIsSound`: the cap is kept; a held transaction and only a held one
has its claims; a proof that failed is not paid for twice while it is remembered;
the block built is legal and leaves nothing out it could take. `LeastImportantGoes`:
what a full queue drops is nothing better than what it keeps.

### Wallet

Wallet, light client and the node they read (`wallet/store.py`, `client/rpc.py`,
`client/light.py`, `answer`). A page is answered on a thread of its own while a block
is applied: the world moves first and the database after, so `Commit` is a step of
its own and a scan is `StartSync`, `ReadOutputs`, `ReadNullifiers`, `Answer` and
`TakeSynced`. `AnswerShort` is a node that drops a row. `Undo` is a re-tip. A row is a
height, a note and a position; positions are issued in order over the whole chain, which
is what a light client counts (`Spans`, `Counts`).

*Asked of it.* `CountedScanIsComplete`: a light client's scan that passes its counts
missed nothing. `PaymentsAreLeast`: a payment that can be made from one grid is selected
for, with as few notes as there are to make it with, and when the wallet holds one asset
it is sent; what is sent is of one grid and one asset. `select` looks at values and
partitions only, so a wallet of two assets may select what `send` then refuses:
`PaysWhateverItHolds` (section 5).

### CatchUp

A node that is behind and its helpers (`net/catchup.py`, `store/snapshot.py`, and the
catch-up half of `net/node.py`). Messages of a connection arrive in order; a lost
connection loses what was on it. `CatchUpStep` is `_catch_up` with the budget of an
epoch: ask for what is missing, apply the run that has come, or ask for a snapshot.
`TakeBlocks`, `BeginSnapshot` and `TakeChunk` are the handlers, the `Serve` actions
those of the helpers, `OfferBody` the body of a proposal that takes a place in the
window. A body that is unsound, a connection that is lost and a restart are faults.

*Asked of it.* `HoldsOneState`: what a node has is the state of one height, never
chunks of two, and never ahead of the network. `BackToTheTip`: again and again it is at
the tip, unless it is out of reach: nearer than a snapshot is asked for, and a body it
needs is nobody's any more, or it stands on a state it adopted. The spine of an adopted
state is empty (`store/snapshot.py:270`) and `record_block` takes no block on it, so such
a node (`adopted`) moves by further snapshots only, and neither agrees nor applies a
block. Both cases are real and in section 5 (`HelpWithinTheWindow`, `AdoptedGoOn`).

### Stamping, History, Draw

`Draw` is the pool of turns and what a block's draw takes of it. `Stamping` is the
hardening half of `net/node.py`: `Stamp` signs a block with the turns a seat owns
among those drawn, broadcasts, pools and hardens in order; `AbsorbStamps` and
`AbsorbStray` receive. A stamp is verified under the height its sender states
(`net/node.py:721`), pooled under the block's and never replaced, so a turn that is drawn may
come with a stamp for another height: it is then also in `wrong`, and a set with it in is
refused (`CanHarden`). `RestartStamper` is a process that has forgotten what awaits
hardening; `AdoptChain` is a snapshot. `History` is `NetworkHistory`: `Accept` with
all that is checked and the reorganisation it may cause, or the halt that ends the
process; `Restore` is the next process, from the rows. A block that is known may come
again with other stamps: its entry and its row are written over, and what was built on it
keeps the cumulative work it had (`history.py:392`). What a block weighs is how many
turns it came with; `taken` remembers each set it ever came with. The hash of a block
covers its predecessor, and a sender that states another one for it is not modelled.

*Asked of them.* `StampsAreWitness`: a hardened block carries its threshold of turns
drawn for it, and a turn signs one height. `StampsHarden`: without mishaps what is
agreed is hardened, up to a height at which a node was sent a drawn turn's stamp under
another height, or was left behind by one that was. `HistoryIsEarned`: turns are spent
once on a branch, and the chain a node stands on is said to weigh no more than what was
burned on it, and exactly that unless a block of it was taken again. That rubbish costs
nothing and that a chain weighs what its blocks carry are in section 5
(`PoolsStayGood`, `WeighsWhatItCarries`). `ReorgsAreReversible`: no node ever
follows a branch it would have to undo more blocks to reach than it keeps records
for, and starting again does not take it there either.

### HighWater

The mark a holder of turns writes before it signs. Truncating, writing and the end
of the write are moments a crash falls between: what it leaves is a mark, an empty
file or a torn one. `SignsOnceUnlessEmptied`: a height is signed once at most, unless
a crash left the file empty, which the code takes for a new holder's.

### Mesh, Gate, Limiter, Directory

`Mesh` is one directed connection and its successors (`net/peer.py`, `handshake.py`,
`frame.py`). `Dial` and `Dialled` are the dial loop; a send is three steps -
`ChooseSocket` reads the socket without the lock, `PackFrame` takes the lock, numbers
and signs, `WriteFrame` writes - because another thread or the dial loop may come
between them. The path may lose, repeat and move frames. `MeshIsFaithful`: what is
taken of a connection is what was sent on it, once and in order, and a hello opens one
session. `HonestFramesAreTaken`: no honest sender's frame is refused, unless a write that
failed on a connection already replaced has dropped the one that replaced it
(`droppedAlive`): the failing thread pops whatever socket there is by then. Section 5 has
what that does.

`Gate` is `net/gate.py` with the accept and read loops. `SocketsAreCounted`: the total
and the count by address are the sockets that are open, on every way a connection
ends. `PenaltiesAreServed`: a penalised address is kept out until its time is over,
unless a full box evicted it.

`Limiter` is `net/limits.py`, with a price of submissions that moves under the
buckets. `BudgetIsABound`: what a source was ever allowed is at most a burst and what
it earned, unless a full table forgot it. `MeterIsBearable`: a client that waits gets
its submission in at every price, and the table is bounded.

`Directory` is the address records of `net/directory.py`, their exchange and the
dialling they cause, over restarts that forget all but the file.
`SeatsFindEachOther`: everybody ends up with a socket to everybody.

### Activation

`protocol.py` and the places that ask it: builds of different versions, a schedule,
blocks named and produced under versions. `Certify` is a leader whose block a quorum of
builds accepts, `Follow` a node that applies the next one or halts.
`UpgradesAreSafe`: nobody applies a height whose rules it has not, and whoever halts
was reported as not ready at every height before.

### Founding, Params, EraPool

`Params` is what `ChainParams.__post_init__` and `ChainParams.assess` ask of the quorum
fraction and the floors. `Founding` is the document: drafted, edited,
ratified, saved, its file edited, loaded, booted from and booted from again.
`EraPool` is the ceremony of era 0 in its two rounds, with one party that drafts,
claims and publishes what it likes, and runs that are abandoned and begun again.

*Asked of them.* `FoundingIsByConsent`: a document a node boots from has the signatures
of its threshold over its body - of everybody it names at a launch; while those that
sign more than one document are fewer than a third, one roster founds one chain; and a
one-tier draft with the defaults can be founded. `TurnsAreTheirs`: the turns of an honest
holder are its own, whoever drafted the document; nobody can sign more turns than the
document says it holds, nor more than a third; and a claim signed in one run of the
ceremony is of no use to another. `SlicesPartThePool`: the slices dealt part the
turns, and a coverage that passes is a partition.

## 3. Runs

| run | module | what moves, and its bounds | shows | states | time |
|---|---|---|---|---|---|
| `on_time` | `MC_OnTime` | 3 attesters, quorum 2, 3 views of 1 epoch, 2 blocks, the schedule of leaders | the inductive invariant, one block an epoch, the refinement of `HeightDecision` | 495 485 | 1 min |
| `faulty_seats` | `MC_ViewChange` | 3 attesters, 2 views, one lazy, the first leader restarts once, block 3 does not validate | `FaultsAreContained` | 2 184 358 | 100 s |
| `store` | `MC_Store` | 1 grid, 2 notes, height 3, undo depth 2, 2 rollbacks, adoptions | what survives a crash, what a rollback restores | 108 132 | 5 s |
| `tiers` | `MC_Tiers` | 6 nodes; four networks: young, shrunken with a fault, of two regions, of three grids; 4 blocks. And `Store` with 2 grids that come and go, height 3, a rollback that may fail | seating, homes of payments, what moving earns, tables of grids that are gone | 1 094 580 | 3 min |
| `value` | `MC_Value` | `Payment`: field of 11, values to 2, 4 notes, fees of 0, 1 and 10, totals of 2, 3 and 13. `Mempool`: 4 transactions, pool of 2, queue of 2, 2 strikes. `Wallet`: 2 addresses, 2 grids, 2 assets, pages of 1, height 2, 1 re-tip | supply, ownership, the pool, what a scan finds, how a wallet chooses | 1 468 186 | 4 min |
| `sync` | `MC_Sync` | `CatchUp`: 1 helper, window 2, tip 3, 1 fault. `Stamping`: 6 turns drawn by 3, threshold 2, 2 seats, 1 mishap, 1 stray stamp. `History`: 4 hashes, 7 sets of stamps, 1 block taken again, rewrite limit 1, a page of 1. `HighWater`: marks to 2, 2 crashes | coming back, hardening, fork choice, the mark | 152 953 | 3 min |
| `network` | `MC_Network` | `Mesh`: 2 threads, 3 sockets, 3 frames, 1 fault of the path. `Gate`: 2 addresses, 3 connections. `Limiter`: 3 sources, 4 ticks. `Directory`: 3 seats in a line, one restarts. `Activation`: builds 1, 2, 3, 3. `ViewTiming`: 4 attesters, quorum 3, 3 views, leaders 1 and 2 silent | what stands between two nodes; that silent leaders cost no epoch | 698 855 | 3 min |
| `founding` | `MC_Founding` | 4 founders of whom one signs anything, a pool of 3 turns and 2 runs, 1 edit; deals of up to 13 turns to up to 6 holders | what a network is founded on | 1 006 128 | 2 min |
| `epoch` | `MC_Epoch` | `Ceremony`: every seating of 2 to 7 seats in rows of 2 to 4. `GridBlock`: 2 seats, 4 worlds, one alteration. `TierPass`: 1 to 5 grids in groups of 2 to 3, no collision, one, or two in a row, 3 views | one epoch in one process | 927 584 | 2 min |
| `cross_epoch` | `MC_ViewChange` | 3 attesters, 2 views, 2 epochs at one height | **violated**: `OneBlockPerHeight` | | 5 s |
| `lost_faults` | `MC_Epoch` | as `epoch` | **violated**: `ProvedFaultsAreCarried` | | 1 min |
| `unapplied` | `MC_Epoch` | as `epoch` | **violated**: `ConfirmedIsApplied` | | 1 min |

A property named for several things is a conjunction, and each conjunct is stated and
commented on its own in the component's module: `SurvivesCrashes` of four,
`PassIsSound` of five. `PROJECT.json` names, for every property, definitions of the
model with a plausible mistake in them that the property finds out - one for every
conjunct.

*Bounds, and why they are enough.* A bound is the smallest value for which the cases
the property is about all happen.

* Three seats with quorum two are the smallest grid in which one seat can finish alone
  while the other two go on without it; three views are the fewest in which a lock has
  to survive a view in which it is not used; two blocks are enough for a disagreement.
  Epochs of a grid that is on time do not touch each other, and the theorems are for
  every number of them; `cross_epoch` has two.
* An undo depth of two and three blocks are the fewest with a record that is pruned
  while two remain; two rollbacks after it reach the ceiling from above. Two notes are
  enough for a note spent in one block and one created in the next.
* Six nodes in grids of two to five allow a founding, a merge with a choice of siblings
  and a merge with a suspended member; four blocks are enough for a member to be founded
  away, suspended and merged back.
* In `Payment`'s field the notes of one transaction do not wrap, nor do those of a mint
  (`FieldIsWide`, an assumption TLC evaluates, as `txsystem.py` says of the parameters); a
  value of 10, out of range, does, and so do a fee of 10, which is -1 in the field, and a
  total of 13, which is 2. Two assets in one partition are the fewest that `select` can mix. A pool and a queue of two with four
  transactions are the fewest that overflow with a conflict among them. Pages of one
  and a height of two put a block between two pages.
* A window of two and a tip of three put one block out of the window. Three turns
  of which two are a threshold, drawn from six, give two seats a majority each of one
  draw. Four hashes are a fork of two branches of two, which can overtake each other; the
  sets of stamps (`Stampings`) are two or three turns of the first draw, of the second, of
  both, and too few, so that a block taken again can weigh more or less than before, and
  one such block lies under another.
  Two crashes are one in a write and one in the recovery from it.
* Two sockets are a connection and the one that replaces it, two threads a sender and
  another that replaces it between its steps. A line of three is the smallest file in
  which two seats do not name each other. Builds 1, 2, 3 and 3, of
  which two carry a block, have at every activation one that is short of it and two that
  are not.
* A pool of three turns and two runs are the fewest in which a claim signed in one run
  could be used in the other. Seven seats in rows of two are the fewest with three rows,
  which is where a round too few is noticed; five grids in groups of two
  or three are dealt evenly, unevenly, and with one left over, and in two groups of three
  and two a child may collide in its own group with one that collides in the other.

`MaxEpoch`, `MaxRestarts`, `MaxHeight`, `MaxRollbacks`, `MaxTierHeight`, `MaxFaults`,
`MaxMishaps`, `MaxRubbish`, `MaxRetaken`, `MaxOnWire`, `MaxFrames`, `MaxPath`, `MaxSeconds`, `MaxTime`,
`MaxRuns`, `MaxEdits` and `MaxCrashes` bound the search and nothing in the code. The
others - `UndoDepth`, `Window`, `ReorgLimit`, `MaxMempool`, `QueueCapacity`,
`MaxConnections`, `MaxSources` and their like - are parameters of the code, made small.
`tiers` uses symmetry of two nodes that start alike in every network, `value` of the two
holders, whom nothing tells apart; no temporal property with fairness is checked under it.

*Deadlock* is not checked: an epoch that ends without a block after the last epoch of
the bound, a height that everybody has finished, a halted node and a network that was
founded are ends. In `Store` a node whose memory and tables have parted stops too.

*Fairness* is weak, and of loops that nothing but the end of the process stops.

* `SilentLeadersCostNoEpoch`: each seat's steps, because `run` and `_gossip` are loops.
  `ViewIsOver` is the clock: slices are at least `MIN_VIEW_MS` long and `views_for` gives
  fewer views rather than shorter ones, so what is possible in a view happens before it
  ends. Without it no liveness holds, as the design says.
* `BackToTheTip`: helpers answer and the node reads, since both are read loops; heights
  are announced again, epochs pass, and in an epoch `_catch_up` runs with some budget.
  A node that adopted a state comes back by the next snapshot, once it is far enough behind.
  Nothing is assumed of faults; they are bounded.
* `StampsHarden`: a seat stamps what it holds, and broadcasts arrive unless they are
  lost; without a mishap only, because a broadcast of stamps is sent once. Rubbish is no
  mishap: stray stamps keep a node back where one of a drawn turn came under another height,
  and nowhere else.
* `SeatsFindEachOther`: epochs pass, addresses are shared in every one, and the dial loop
  turns. Nothing is assumed of answers that are late.

*Findings.* The three violated runs are disagreements of the code with its own
documents and comments; `PROJECT.json` quotes the lines.

* `cross_epoch`: a lock is a local of `_views` (`net/node.py:501`), so it ends with its
  epoch while the height stays the same, and two epochs finalise two blocks at one
  height; `docs/view_change_design.md:48` and `seat.py:90` say why that must not be.
* `lost_faults`: what an envelope proved is put by in `pending_faults`
  (`net/node.py:681`) before the step that clears it (`tiers.py:299`); a networked leader
  never carries a fault.
* `unapplied`: a grid's block that collides with another group's stays in the network
  block and only its delta is dropped (`tiers.py:245`); its transactions are evicted and
  recorded as in the block.

## 4. Proofs

Every theorem is for all values of the constants that satisfy the assumptions named
in the module that declares them; TLC evaluates those assumptions in the runs.

| module | theorem | states | run |
|---|---|---|---|
| `OnTime_proofs` | `Invariance` | `Spec => []IInv` | `on_time` |
| | `Agreement` | `Spec => []OneBlockPerEpoch` | `on_time` |
| | `Refinement` | `Spec => KeepsThePromise` | `on_time` |
| | `Carried`, `LocksAreTold` | a certified block is the only one proposed later in its epoch; a view change never hides its author's earlier attestation | |
| | `FaultInvariance`, `TypeCorrect` | `Spec => []FaultInv`, `[]TypeOK`, restarts and late seats included | |
| | `FaultsLeaveTraces` | `Spec => []FaultsAreContained` | `faulty_seats` |
| | `Finality` | what a seat finishes with was certified, whoever restarts | |
| `Tiers_proofs` | `TiersInvariance` | `TiersSpec => []TiersInv` | |
| | `SeatingHolds` | `SeatingIsSound` | `tiers` |
| | `PaymentsFind` | `PaymentsFindTheirGrid` | `tiers` |
| | `MovingHolds` | `MovingEarnsNothing` | `tiers` |
| | `WalletInvariance` | `WalletSpec => []WalletInv` | |
| | `ScansAreComplete` | `CountedScanIsComplete` | `value` |
| | `PaymentsHold` | `PaymentsAreLeast` | `value` |
| `Grid_proofs` | `GridInvariance` | `GridSpec => []GridInv` | |
| | `SeatsOfOneMind` | `SeatsAgreeOnBlocks` | `epoch` |
| | `WhatIsAcceptedIsSound` | `AcceptedIsSound` | `epoch` |
| | `PassInvariance` | `TierPassSpec => []PassInv` | |
| | `PassHolds` | `PassIsSound` | `epoch` |
| `Store_proofs` | `StoreInvariance`, `StoreTypeCorrect` | `Spec => []StoreInv`, `[]TypeOK` | |
| | `RollbacksRestoreTheLedger` | `RollbackRestoresTheLedger` | `store` |
| | `LedgerIsDurable`, `DerivedIsDurable`, `SpendsNeverPart` | each conjunct of `SurvivesCrashes` but one | |
| | `RegistersAreDurable`, `CrashesCostNothing` | without regrouping: the last conjunct, and `Spec => []SurvivesCrashes` | `store` |
| | `TablesHold` | `SpecOnABadDisk => []TablesStayWhole` | `tiers` |
| `Sync_proofs` | `MarkInvariance`, `MarkKeepsFromSigningTwice` | `SignsOnceUnlessEmptied` | `sync` |
| | `StampInvariance`, `HistoryHasWitnesses` | `StampsAreWitness` | `sync` |
| | `CatchUpInvariance`, `FollowersHoldOneState` | `HoldsOneState` | `sync` |
| | `HistoryInvariance`, `HistoryWeighsWhatWasBurned` | `HistoryIsEarned` | `sync` |
| | `NobodyUndoesTooMuch` | `ReorgsAreReversible` | `sync` |
| `Network_proofs` | `MeshesAreFaithful`, `HonestFramesPass` | `MeshIsFaithful`, `HonestFramesAreTaken` | `network` |
| | `CountsAreSockets`, `PenaltiesAreKept` | `SocketsAreCounted`, `PenaltiesAreServed` | `network` |
| | `OneBurstAndWhatIsEarned`, `MetersAreBearable` | `BudgetIsABound`, `MeterIsBearable` | `network` |
| | `UpgradesNeverSurprise` | `UpgradesAreSafe` | `network` |
| | `SeatsAreNeverSentBack` | `NeverSentBack`: no record moves a directory back to an older address | |
| `Value_proofs` | `QuorumIsReachable`, `QuorumsMeet`, `QuorumIsAMajority` | what a quorum is worth | |
| | `FoundingInvariance`, `FoundersConsent` | `FoundingIsByConsent` | `founding` |
| | `PaymentInvariance`, `MoneyIsSound` | `PaymentsAreSound` | `value` |
| | `OwnersSpend` | `OnlyTheOwnerSpends` | `value` |
| | `MempoolInvariance`, `PoolsHold` | `PoolIsSound` | `value` |
| | `TheLeastImportantGoes` | `LeastImportantGoes` | `value` |
| | `EraPoolInvariance`, `TurnsHold` | `TurnsAreTheirs` | `founding` |
| | `SlicesHold` | `SlicesPartThePool` | `founding` |

*Assumptions.* Of seats: `SeatsAssumption`, `BlocksAssumption`, `NumbersAssumption`
(`ViewChange`), `OverlapAssumption`, `LeaderAssumption` (`Faults`), `OnTimeAssumption`,
`NobodyIsLate`, `ScheduleAssumption` (`OnTime`). The others are types
and signs of parameters (`StoreAssumption`, `LimiterAssumption`, `MempoolAssumption` and
their like), except that: a bucket idle for long enough to be forgotten is full
(`ForgottenIsFull`); a threshold of turns is no more than are drawn
(`ThresholdIsReachable`); neither the notes of a transaction in range nor the notes of a
mint wrap the field (`FieldIsWide`; of fees and totals it says nothing); a draft names each founder once, by the key it holds
(`DraftsAssumption`: the last clause of `FoundersConsent`, that a one-tier draft boots, is of
such drafts only); the records of a grid's members have a member's fields
(`WorldsAreWhole`); the grids of a pass are numbered from 1, each led by a node that
leads no other (`PassAssumption`); and an amount a wallet sends is not nothing, fee
included (`WalletAssumption`).

*Induction.* The prover cannot instantiate the induction theorems of the library, so
each induction is done by a least counterexample: `LeastOfSome` says a set of numbers
that is not empty has a least element, and what fails somewhere fails first somewhere.
`StepsInTurn` is the one place where a recursive function is shown to exist; what a
loop of the code does - a drain, a block that is picked, a branch that is walked, a
supply that is summed, slices that are laid end to end - is proved of such a function,
one step at a time (`CarriedAlong`: what holds of 0 and passes from each number to the
next holds of all up to a bound). `Selection`
defines what a filter keeps by counting positions, so that `SelectedFacts` can say what
it keeps.

### Faults and OnTime

Section 5 has three ways for one epoch to certify two blocks. One of them is assumed
away in `Faults`: two quorums of *seats* that do not overlap. What is left there are lazy
attesters, silent leaders, arbitrary loss and delay, seats that find slices over and skip
them, and processes that restart inside an epoch with nothing remembered and skip them too;
`FaultsLeaveTraces` says what such an epoch may do: while the lazy are short of
a quorum nothing invalid is final, and two blocks certified in one epoch convict a seat
by its own signatures, or show two seats that led one view, as after a skipped one. That
somebody is always convicted is false (section 5, `ForkLeavesEvidence`). `FaultInv` says
every vote is for an acceptable proposal of its view, every certificate is of view changes
that were signed, and every lock a view change reports was voted. The
argument: suppose no seat has contradicted itself and no view had two leaders. Of the later views with a vote for
another block take the least. Its proposal carries a certificate of view changes; it meets
the attesters of the certified block in a node; that node's change tells a lock at or above
the certified view, so the highest lock does, and by minimality it is on the certified
block - which the leader then had to propose. Two blocks in the *same* view are two
proposals of its one leader.

`OnTime` assumes besides that nobody restarts inside an epoch or finds a slice over, and then
an epoch is safe for any number of seats, views, epochs and blocks. Its invariant `IInv` is a
conjunction of

* `SeatInv`: what a seat holds is of its own view, and a lock stands for an attestation it
  made in this epoch;
* `ScheduleInv`: its `tried` is the leaders of the earlier views;
* `AttestationInv`: an attestation is for a proposal of its view, and its author
  carries a lock at least as high for the rest of the epoch;
* `ChangeInv`: a view change reports the last attestation of its author before
  it, and its author has left the earlier views;
* `ProposalInv`: one proposal a view, by the scheduled leader, and `OnlyB`: for
  every *earlier* view a quorum of seats has left it having attested to nothing
  but the proposed block;
* `DecisionInv`: what a seat finishes with was certified.

`OnlyB` is what makes it inductive. That a certified block is carried is not
preserved by itself: a block may come to be certified in an old view after the
new leader has proposed, when a late attestation arrives. `OnlyB` speaks of what
can no longer happen. Given a certificate whose highest lock is on `b` in view
`v`, the quorum that signed it witnesses `OnlyB` for all views after `v`, the
proposal in `v` (one per view) witnesses the views before it, and a certificate
without locks witnesses all of them. Overlap of quorums turns `OnlyB` into
`OneBlockPerEpoch`.

`LeaderAssumption` and `ScheduleAssumption` are `Grid.seat`: it returns an untried
attester, and the leader of a view is the same for everybody who agrees on the leaders
before it. The refinement maps the certified blocks of an epoch
to what `HeightDecision` has agreed and `decided` to what its seats have learnt; a step
that certifies a block is its `Agree`, a step that accepts one its `Learn`, and the rest
stutter. The theorems are per epoch: that two *epochs* may finalise two blocks is the
finding `cross_epoch`.

### Store

For any notes, members, grids, undo depth and heights, through crashes, adoptions,
prunings and rollbacks (`Spec`). The inductive invariant `StoreInv` is

* `TablesOK`: the tables are either the empty schema or can be read back as a ledger;
* `MemoryOK`: the ledger in memory is typed and `Sound` (distinct notes, one nullifier a
  tombstone);
* `Mirrored`: booting and idle, the tables and memory are equal; *applied*, committing
  what is pending to the tables would make them so; *adopted*, the spine is empty, which
  is what the tables will be left with;
* `Undoable`: the undo records run from the rewrite ceiling to the tip. Until a snapshot is
  adopted, `before[h]` is what block `h` replaced, and the record of that block takes
  what came of it back to it. After an adoption there is no spine, so no block and no
  record;
* `GridsOK`: the registers in memory, pending and in the tables are of grids there are.

`Mirrored` is what makes it inductive: `LedgerSurvives` says nothing of the moment
between applying and committing. `CommitMirrors` is the lemma that pays for it. Of
`Undoable` it is the pairing of a record with the states on both its sides: a rollback
deletes the last record, and what the one before it leads back to is what it has always
been. `RegistersAreDurable` adds `RegistersMirrored` and needs `Regrouping = FALSE`, because
with regrouping the statement is false (section 5, *a founded grid*).

`TablesHold` is of `SpecOnABadDisk`, where a rollback may move memory and have its
transaction refused. That leaves `StoreInv` (`LedgerSurvives` fails, section 5), for
`Parted`: memory is at what the block at the tip replaced, one height below tables that
are as they were. What the node applies then has the height the tables have, so the
tables refuse it, a further rollback finds no record of memory's height, and only a
crash, or the snapshot of another node, gets it out - to `StoreInv` again. What is
invariant is `StoreInv \/ Parted` with two more things: `ChainKept`, that a row of the
block table stands on the row under it and on what `before` says it replaced, so that a
block committed after rollbacks stands on the tip of the tables and not on one that was
taken back; and `RowsAreOfGrids`, that no register is in the tables whose grid memory does
not have, or will not have when the block is committed that retires it.

### Grids that come and go

For any members, grids, parameters and starting networks (`TiersAssumption` and
`RegisterAssumption` give them types). `TiersInv` says while the world is up that

* a register is enrolled with exactly those whose home is its grid, and is no further
  than the network block (`TopologyOK`);
* the indices of the grids are 0 to K - 1, one each;
* a certificate is of a block there has been, and whoever signed it had joined before it
  (`CertOK`);
* a streak is no longer than the ceremonies since its bearer joined, and an attester that
  was not a founder has served the gate (`Served`);

and of a world that `raised` only the last. `CertOK` is what makes `Served` inductive: a
roll is derived from a certificate and from the members of *now*, and someone who has just
been admitted or has come from another grid would be given an attendance if that
certificate could carry its signature. `Served` is of the register's epoch and `joined` of
another register's, for those who were founded or merged away; that the clocks compare is
`CanAbsorb`'s equality of epochs and `FoundRegister`'s copy of the donor's.

`RanksFill` is the counting behind the indices: in a finite total order the elements have
the ranks 0 to n - 1. It gives the first indices and those a merge deals again; a founding
adds the next one. `NextGridId` exists because among n + 1 numbers one is free, by the
pigeonhole of the library (`ANumberIsFree`).

### The block of a grid

`GridInv`: before there is a block every seat has the grid's certificate, its own or a
peer's, or there is none to have; what the leader built and nobody altered is accepted by
everybody; and a verdict once given is the one the seat would give now. Certificates
differ, so verdicts could: that they do not is because what a seat reads of its own
certificate it only compares with what it can check of the block's (`SameEyes`). The same
lemmas give `AcceptedIsSound`, since what is compared is a certificate whose signatures
were made, and `Advanced` suspends nobody but those reported. What a report proves it proves
of a key (`AccusedOverAKey`): somebody signed what its evidence carries, and the evidence
names whom it likes.

### A pass up the tiers

For any number of grids, size of a group, fraction of a quorum and number of views, and
whatever the leaders and the refusing seats do. `PassInv` says, phase by phase,

* the groups are the deal of the grids that finalised (`GroupsAreDealt`), each either
  as it was dealt or bundled by one of its seats, from what such a leader bundles, with
  a quorum that found it valid (`GroupIsRight`); and those that did not form could fail
  (`AllTried`);
* nobody led two views of the top tier, and whoever led one lost it for a reason - it
  proposes nothing, or what it proposes does not carry (`ViewsAreLed`);
* what is agreed is what one of the committee proposes and the committee carries
  (`RootAgreed`), or the only grid's block (`SoloAgreed`).

The rest is about the operators. `DealFacts`: a deal round the table gives every card one
place, and no group of less than two when groups are of three or more. `MergedFacts`, by
induction along the list: what a merge keeps collides with nothing it keeps, what it drops
collides with something it keeps, and it keeps a list whole that has no collision in it -
so a bundle that was merged once is found valid by everybody (`MergedOfSet`).
`FlattenFacts`: the children of a block are those of its groups. From these,
`EveryGridIsDelivered` follows a grid from its deal through its group's merge and the
network's; `SilenceIsSurvived` counts: were every view lost, there would be as many
silent leaders as views, and were nobody left to lead, the honest one would have led and
lost; `OmissionsAreFew` is that those who miss nothing and those who are missing are
disjoint (`WhoIsNotCounted`); and `CreditedAsTheySat` is that a member's grid is in one
group (`OneGroupSeats`), so that it sat in at most two tiers above it.

### Hardening, coming back, fork choice

* `HighWater`: `SignsOnce` is not inductive, since it says nothing of what the file
  knows. `Known` does, for each place the process can be in: nothing was signed above
  what is on disk, or above what it is about to be while it is written. A crash that
  leaves the file empty ends it, and the theorem says so.
* `Stamping`: heights harden in an unbroken run, so a node knows who may stamp the next
  one; a turn is drawn for one height; and what counts in a pool, on the wire or in
  history was signed for that height. Stray stamps, restarts and adopted chains keep it,
  and so does a stamp of a drawn turn under another height, since the pool remembers it as
  `wrong` and no set with it in becomes history (`PoolIsSigned`).
* `CatchUp`: what a cache or a message certifies was agreed, and a transfer is of a height
  that was; whether the node's own state was adopted does not come into it. Chunks of two snapshots may meet at a node - the offer is not what is served
  (section 5) - and the invariant says they are taken only when they fold into what the
  header commits to.
* `History`: a tree is chained and earned - each block draws what its branch calls for -
  and a tree that grows, or has a block written over, keeps the branches it had. What was
  burned on a branch (`Burnt`) is all the sets of stamps its blocks ever came with, each
  within its block's draw, and the draws of a branch are disjoint; therefore a block weighs
  no more than what is burned on its branch, and exactly that where each block came with one
  set (`Weighed`, `TakenOnce`). Writing a block over adds to what is burned and takes nothing
  from what its children are said to weigh (`WeighedAsMoreIsTaken`). The tip of a running node is
  the heaviest of its rows, and its memory is its rows unless it has halted; therefore a
  restart goes nowhere a node did not stand.

### Between two nodes

* `Mesh`: `SessionsAreSpent` is what makes one hello one session: a nonce is remembered for
  as long as its epoch is believable, so that what was forgotten is refused for its age.
  `HonestFramesPass` rests on `Orderly`: a living connection is the sealer's, frames on it
  are in order, and what a thread has packed and not written is the next.
* `Gate`: a connection is counted when it opens and uncounted once, by whichever exit. The
  box of penalties is swept by a loop; `SweptOnce` is what it leaves, by induction on the
  sweep.
* `Limiter`: `WithinItsMeans` - what a source spent and what it has left are together a
  burst and what it had earned when last charged - and a bucket is forgotten only when
  it has earned more than it could hold (`ForgottenIsFull`). `TableInv` is the order of the
  table: it is charged at the back and swept from the front, so the idle are a prefix of
  it; and a source that waited as long as one is forgotten after has enough for the
  largest frame at any price.
* `Directory`: everything written into a directory is as new as what was there
  (`AsNew`), and one's own address is signed later than any record of it.
* `Activation`: each height applied was required of the node first, so it is not `Short`
  of its rules; a halted node is short of the next one.

### What a network is founded on, and its money

* `Params`: a quorum rounds up; two quorums of a committee share a third of it for every
  fraction a launch is allowed with, which is the overlap `Faults` assumes where every
  seat is an attester.
* `Founding`: a signature is over a body, a keeper signs one, and whatever was booted from
  had a quorum's signatures over that body, however often it was edited in memory or in
  its file (`Consented`). Two chains of one roster would be two quorums, which share a
  third of it, and a keeper in that. `DraftsAreFoundable` says "and nobody else": a document
  on which a stranger's signature was left over is refused by the checklist, which the
  proof found out.
* `Payment`: commitments are made once (`BookInv`), what is posted beside one is its own,
  if the mint or a wallet did it (`addressed`), and what is on its way is what was signed, or
  differs from it and then its signatures do not fit (`CarriedInv`). Supply is a sum over the
  book: `Worth` falls by what is spent and grows by what is made. The sum row speaks of the
  field, so what is conserved is so but for a multiple of `P`; two multiples of `P` nearer
  than `P` are one (`BetweenMultiples`), the ranges and `FieldIsWide` keep notes near, and
  fees are near while all that were burned together are (`NothingWrapped`).
* `Mempool`: `PoolInv` is of the pool, `QueueInv` of what waits beside it. A strike goes with
  every failure remembered, without which the cheap check would not look; no body waits
  twice, so what a verification makes of one job says nothing of another; one round of making
  room is enough, since the pool is never over its cap. Ranks are a strict order
  (`RanksOrder`), so a cut at any depth keeps at most that many, and what it keeps is served
  before what it drops; ageing and an arrival leave the order alone. The block is full because
  what may not be done with some may not be done with more (`FewerAreLegal`).
* `EraPool`: sorting by the first turn is a permutation (`ByFirstSorts`), and slices that
  abut part an interval (`EndToEnd`). So a coverage that passes parts the turns
  (`CoversParts`); and of slices that part them each next one has to begin where the last
  ended, since the turn at that place is in one of them and in no earlier one (`PartsCover`).
  A claim an honest holder signed is over its own leaves and says the tree it was signed
  under (`ClaimOK`, all the invariant there is about claims); the transcript puts those leaves
  in the tree (`HonestTurns`), so a turn that is the schemer's lies in a slice of the
  schemer's, and there are no more of them than its slices add up to (`HeldIsEnough`).
  Claims signed for a rehearsal and trees that were abandoned stay in the state, so the
  theorem covers their use.

* `Wallet`: `WalletInv` is of the light client and of the page it has asked for. Its two
  counts are the rows of the blocks it has scanned; while the chain it trusts is a prefix of
  the node's, the pages hold rows of that chain only (`PageTrusted`), and the wallet beside it
  knows what the blocks it has scanned made and spent (`Knows`). Rows are numbered by
  position and in the order of their blocks (`RowsAre`), so as many rows as there are
  positions, each at its own, are all of them (`SpansAll`): where the pages were cut, what a
  node leaves out and what is committed between two SELECTs do not come into it. A chain
  that was trusted and left by a re-tip stays left, since the notes of the next block are
  new (`TrustedBefore`). Nothing but a `Follow` lengthens what is trusted, and a first `Follow` is of two blocks at least, without which a height of 0 would stand for
  one block scanned as well as for none (`ScannedBlocks`).
  `PaymentsHold` is an exchange: the first k notes in order of value are worth no less than
  any k notes of the partition (`Outweighs`, by comparing the two totals note by note along
  all the notes), so the shortest prefix that covers the amount is the smallest set that does. Where the
  unspent notes are of one asset, nothing in `Send` refuses what was selected
  (`PaysInOneAsset`), and what `Builds` lets pass is of one asset in any case.

## 5. Known divergences

Disagreements between the code and its own documents, comments or tests that have no
run. The first table states them as definitions of a module: each is violated when it
is put as INVARIANT (or PROPERTY) of the configuration named, with the constants
changed as given.

| what the code does | definition | configuration |
|---|---|---|
| A seat that finds a slice over skips the view without recording its leader (`net/node.py:504`), then disagrees with its peers about who leads: one epoch, two blocks | `OneBlockPerEpoch` | `CrossEpoch.cfg`, `Late = {1}`, `MaxViews = 3`, `MaxEpoch = 1` |
| View changes of apprentices count against a quorum of attesters (`net/seat.py:257`), and two such quorums need not overlap | `OneBlockPerEpoch` | `CrossEpoch.cfg`, `Seats = {1, 2, 3, 4}`, `MaxEpoch = 1` |
| A restarted process joins the running epoch at once, without its lock (`net/clock.py:124`; its docstring says it waits) | `OneBlockPerEpoch` | `Faults.cfg`, `Restartable = {2}`, `Lazy = {}`, `BadBlocks = {}` |
| It joins in the view that runs, with none of the leaders that failed (`net/node.py:504`): two seats lead one view, and of two certified blocks no signature convicts anybody (`block.py`: "so equivocation leaves evidence") | `ForkLeavesEvidence` | `Faults.cfg`, `Lazy = {}`, `Blocks = {1, 2}`, `BadBlocks = {}`, `MaxViews = 3` |
| `Grid.seat` raises when no attester is untried, and the process of a networked node ends with it | `NobodyDies` | `CrossEpoch.cfg`, `Attesters = {1, 2}`, `MaxViews = 3` |
| The same in one process: a committee of two and the three views of the top tier end in the exception (`ceremony.py:101`), not in an epoch that produces nothing (`docs/supreme_tier_design.md:379`) | `FailedEpochsProduceNothing` | `Epoch.cfg` |
| The registers to write are chosen before foundings and merges move members (`tiers.py:232`): a founded grid's register is not on disk, and a crash loses or doubles a member | `NobodyIsLost` | `Store.cfg`, `Members = {a, b, c}`, `Grids = {g1, g2, g3}`, `GenesisGrids <- TwoGrids`, `MaxRollbacks = 0`, `Regrouping = TRUE`, `Adoptions = FALSE` |
| An adopted snapshot has an empty spine (`store/snapshot.py:270`), and the next block cannot be recorded: "Catching up happens by itself: blocks by range while the body window covers the gap" (`docs/deployment_guide.md:235`) is not so of a node that adopted one, which waits for the next snapshot | `SpineReachesTheTip`; PROPERTY `AdoptedGoOn` | `Store.cfg`; `Sync.cfg` |
| A rollback leaves the certificates and credits the next roll is derived from (`store/db.py:477`) | PROPERTY `RollbackRestoresEverything` | `Store.cfg` |
| A rollback moves memory before its transaction, "in memory and on disk, or neither" (`store/db.py:478`) | `LedgerSurvives` | `Store.cfg`, `SPECIFICATION SpecOnABadDisk` |
| The first boot is two transactions (`net/node.py:115`); after a crash between them the node restores no register | `RegistersAreThere`; `SeatsSurviveTheFirstBoot` | `Store.cfg`; `Founding.cfg` |
| A store of another document is opened as this one's (`net/node.py:113`; `genesis.py:711` "refuses") | `LedgersAreTheDocuments` | `Founding.cfg`, `Keepers = {"a"}`, `Others = {"b", "c", "d"}`, definitions of the test document alone for `Drafts` and of `{<<"threshold", 4>>}` for `Edits` |
| A report that suspends a member of the cohort makes `release` raise, and a merge of a grid behind in its epoch raises in `absorb`: an agreed block cannot be applied | `AgreedBlockApplies` | `Tiers.cfg` |
| A grid that misses one network block has no certificate the others accept and is out for good (`tiers.py:903`) | `NextEpochIsOpen` | `Tiers.cfg` |
| A claim on a note is checked when a transaction is queued and taken when its proof has been verified (`node.py:253`): two transactions of one note are held | `OneClaimPerNote` | `Value.cfg` |
| The sum row is compared with the fee modulo `P` and no code bounds a fee (`transaction.py:293`, `:333`; `state.py:229`), nor what a mint declares: "the sum row cannot wrap the field, so conservation over the integers follows" (`txsystem.py:35`) is of the notes alone | `SupplyIsConservedAtAnyFee` | `Value.cfg` |
| `select` does not look at assets (`wallet/store.py:195`), and `send` raises on what it mixed (`wallet/store.py:263`): a wallet with the means in one partition and one asset does not pay | `PaysWhateverItHolds` | `Value.cfg`, the third note of `Arrivals` in partition 0 |
| A page is read from the database while the world is one block ahead (`net/node.py:305`): the height scanned is beyond what was read | `SyncedIsComplete` | `Value.cfg` |
| `HighWater._write` truncates before it writes (`store/high_water.py`), and an empty file is a new holder's: a height is signed twice | `SignsOnce` | `Sync.cfg` |
| A block that is known is written over with another set of stamps and weight (`hardening/history.py:392`), and its children keep their cumulative work: "Fork choice compares cumulative weight" (`restore`) that its blocks do not carry | `WeighsWhatItCarries` | `Sync.cfg` |
| A stamp is verified under the height its sender states (`net/node.py:721`), takes the place of its turn for good, and the set with it in is refused (`history.py:337`), against "a peer sending rubbish should cost the block nothing" (`history.py`, `assemble`): an agreed block never hardens | PROPERTY `PoolsStayGood` (`RubbishCostsNothing`) | `Sync.cfg` |
| Evidence is verified with the key it carries (`block.py:281`, `:319`) and the seat it names is compared with nothing: a report a validator accepts suspends somebody who signed nothing, against "a claim a validator cannot re-check is a claim a leader could invent about anyone it disliked" (`tiered.py`, `faulted_from`) | `SuspendedDidIt` | `Epoch.cfg` |
| The ceiling divides turns held by the width (`hardening/draw.py:66`) where a block takes the threshold (`history.py:341`): a longer branch can be built | `CeilingIsABound` | `Sync.cfg` |
| The adjudicator reads one page (`client/adjudicate.py:91`), and breaks ties by the highest hash where the fork choice takes the lowest | `RivalsAreToldApart`, `ClientsChooseAsNodesDo` | `Sync.cfg` |
| Chunks are served of whatever snapshot there is now, not of the one offered (`net/node.py:1029`) | `ChunksAreOfTheOffer` | `Sync.cfg` |
| The window of bodies is shared with proposals that were never agreed (`net/catchup.py:211`) | `HelpWithinTheWindow` | `Sync.cfg`, `Views = {0, 1}` |
| A node learns only from those it dialled (`net/node.py:1383`): a joiner with one address is not found by the rest (`docs/admin_guide.md:95`) | `SeatsFindEachOther` | `Network.cfg`, a definition `<<{2}, {1}, {1}>>` for `Configured`, `Restarters = {}` |
| The deadlines of a connection are looked at only when a read times out (`net/peer.py:343`), so a slow and steady sender is never let go | `PartialFramesEnd` | `Network.cfg` |
| A write that fails on a connection already replaced drops the one that replaced it (`net/peer.py:147`) while another thread holds its socket; that thread then signs for the session after, and a frame nobody tampered with is refused, against `net/peer.py:134` | `HonestFramesAreAlwaysTaken` | `Network.cfg` |
| A leader names the version of a height whatever it implements (`tiers.py:1187`) | `ProducedAsNamed` | `Network.cfg`, `AcceptingBuilds = 1` |

Seen while modelling and not stated:

* *Tiers and ceremonies.* A grid's work may be lost for a sibling's that is not applied
  either (`SuperWorkload` merges its children, and `apply_network_block` merges those that
  are left, `tiers.py:224`). Members founded away are counted missing by their next roll.
  One grid can be left out by a group's leader while the quorum is still met;
  `NetworkBlock.dropped` is in no hash and is compared with nothing. `RootWorkload` checks
  the certificates of groups with a quorum of one. `_deal` promises "none left a
  singleton" and leaves one for groups of two and an odd number. When only one of
  several grids finalises, the epoch is abandoned. `EquivocatingLeader` is found out only
  because it relays.
* *Pool and fees.* The queue may evict a transaction that pays better than the one it
  admits. `_remember_refusal` writes `_strikes` before the bounded put, so the table is
  not bounded. A networked node never drops transactions that became invalid, and
  `_verified` is never pruned. `scan_by_tag` looks for index 0 and has no pages.
* *Clients.* After a re-tip the wallet keeps what it was shown and a light client refuses
  every later tip. `Wallet.load` loses `n_partitions`; `send` reserves nothing; `watch` does not scan again; `send(0, fee=0)` raises.
* *Hardening.* A restart between agreeing and hardening, a lost broadcast of stamps and
  an adopted snapshot each end hardening at that node. Stamp sets differ between nodes
  and so do weights. `check` does not compare the predecessor a sender states with the one
  the hash covers. `ReorgBeyondCeiling` raised while stamps are handled is
  swallowed by `_drain`. Nothing calls `next_era`. `Era(holders=dict)` makes `holder_of`
  return numbers.
* *Founding.* A running node draws from an era of its own making
  (`net/node.py:190-200`) and never looks at the attested one. `verify` does not compare
  `turn_holders` with the claims of era 0, raises on an unknown parameter, and
  `verify_mint` is not called by boot. `draft(tiers=3)` sets no partitions and cannot be
  booted, though its caveat says it starts at one.
* *Transport.* `Mesh.send` may sign for a connection that was replaced while it waited,
  and the frame is lost. A listener that restarts forgets the nonces of hellos. Strikes of
  a penalty are reset when another address's penalty sweeps an expired entry. An address
  that was abandoned is dialled for ever, though `net/directory.py:29` says it is not. A
  transfer of a snapshot that takes longer than an epoch starts again for ever. Adoption
  of a snapshot past an activation does not ask for its version.

## 6. What is only model-checked, what is not modelled

*Model-checked and not proved.* Liveness (`SilentLeadersCostNoEpoch`, `BackToTheTip`,
`StampsHarden`, `SeatsFindEachOther`) and `ENABLED` are out of the prover's reach. Of the
safety properties these have no theorem:

* `EpochsFinalise` and `EquivocationIsCaught`: how many rounds a row takes is the length of
  paths in graphs of any size.

*Not modelled.*

* Proof systems (`mq/`): linear algebra over finite fields and soundness by
  probability; no state, and no field small enough to enumerate that shows anything.
  A proof in the models verifies exactly for what it was made.
* Supervisor, command line, demos, examples, measurement: processes and formatting
  around the other parts. What becomes of a node that is restarted is in `ViewChange`,
  `Store`, `HighWater`, `Stamping`, `CatchUp` and `Directory`.
* Of the store: pruning of bodies and proofs, and queries that only read. Of transport:
  bytes of a frame, and the cryptography of a session. Of the wallet: keys, backups. Of
  the light client: the wire format and retries of RPC. Of hardening: the vector
  signature, and the handing over to a next era, which nothing calls.
* The composition of everything in one state space. The parts meet in committed state
  - a register, a ledger, a chain of heights - and each module takes what it is handed
  from a set that includes what the other makes: leaders that do anything, rolls of
  any attendance, blocks of any content. What crosses those sets is in the findings and
  in section 5.
* Service counters, which nothing decides by, are left out of registers and their roots,
  and bonds are one unit.
