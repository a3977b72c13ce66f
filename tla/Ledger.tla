------------------------------- MODULE Ledger -------------------------------
(***************************************************************************)
(* The ledger of one node as a value: chain/state.py (ChainState) over the   *)
(* two append-and-tombstone sets of chain/seal.py (SealAccumulator), the     *)
(* header spine (HeaderHistory) and the undo record of chain/store/undo.py.  *)
(*                                                                         *)
(* A ledger is a record                                                     *)
(*   utxo    every note ever created, in order of position                  *)
(*   dead    the notes among them that were spent                           *)
(*   nfs     every nullifier ever published, in order                       *)
(*   fees    what was burned                                                *)
(*   spine   the hashes of the blocks this state remembers, lowest first    *)
(*   height, tip                                                            *)
(* A note is a model value and stands for its own nullifier: nullifier_id    *)
(* binds the commitment, so the two are one to one.  Hashes do not collide,  *)
(* so the root of a set is the content of the set, and the hash of a block    *)
(* is the whole history it stands on: genesis is <<>>, and a block adds its   *)
(* own height and delta to the hash of its parent.                            *)
(***************************************************************************)
EXTENDS Integers, Sequences, FiniteSets, SequencesExt

GenesisLedger(notes) ==
    [utxo |-> notes, dead |-> {}, nfs |-> <<>>, fees |-> 0, spine |-> <<>>,
     height |-> 0, tip |-> <<>>]

Live(l) == ToSet(l.utxo) \ l.dead

\* A note has one position: add() refuses a value it ever held.
Distinct(seq) == \A i, j \in DOMAIN seq : seq[i] = seq[j] => i = j

\* What a delta does to a ledger is legal: every note it spends is live, no
\* nullifier is published twice, and no note is created twice.
CanApplyDelta(l, d) ==
    /\ ToSet(d.spent) \subseteq Live(l)
    /\ ToSet(d.nfs) \cap ToSet(l.nfs) = {}
    /\ ToSet(d.created) \cap ToSet(l.utxo) = {}
    /\ Distinct(d.spent) /\ Distinct(d.nfs) /\ Distinct(d.created)

ApplyDelta(l, d) ==
    [l EXCEPT !.dead = @ \cup ToSet(d.spent),
              !.nfs  = @ \o d.nfs,
              !.utxo = @ \o d.created,
              !.fees = @ + d.fees]

\* The two records of a spend, compared (LedgerInconsistent when they differ).
CrossCheck(l) == Cardinality(l.dead) = Len(l.nfs)

\* The spine holds every block below this one, or recording it raises.
CanRecord(l, height) == Len(l.spine) = height - 1

HashOf(l, height, d) == Append(l.tip, <<height, d>>)

RecordBlock(l, height, hash) ==
    [l EXCEPT !.spine = Append(@, hash), !.height = height, !.tip = hash]

\* What a block is about to replace, taken before anything moves.
Capture(l, d, height, hash, registers) ==
    [height     |-> height,        hash     |-> hash,
     prevHeight |-> l.height,      prevTip  |-> l.tip,
     unspend    |-> d.spent,       created  |-> d.created,
     nfs        |-> d.nfs,         fees     |-> d.fees,
     prevUtxo   |-> <<l.utxo, l.dead>>,
     prevNfs    |-> l.nfs,         registers |-> registers]

DropLast(seq, n) == SubSeq(seq, 1, Len(seq) - n)

\* A bug apply_undo could have: the fees of the block stay burned.  No root
\* commits to them, so the check below would not notice.
ApplyUndoKeepsFees(l, u) ==
    [l EXCEPT !.utxo   = DropLast(@, Len(u.created)),
              !.nfs    = DropLast(@, Len(u.nfs)),
              !.dead   = @ \ ToSet(u.unspend),
              !.spine  = SubSeq(@, 1, u.prevHeight),
              !.height = u.prevHeight,
              !.tip    = u.prevTip]

\* Created notes and nullifiers come off the tail, then the spent notes come
\* back, then the spine, the height and the tip.
ApplyUndo(l, u) ==
    [l EXCEPT !.utxo   = DropLast(@, Len(u.created)),
              !.nfs    = DropLast(@, Len(u.nfs)),
              !.dead   = @ \ ToSet(u.unspend),
              !.fees   = @ - u.fees,
              !.spine  = SubSeq(@, 1, IF u.prevHeight < Len(@)
                                      THEN u.prevHeight ELSE Len(@)),
              !.height = u.prevHeight,
              !.tip    = u.prevTip]

\* What apply_undo refuses: an undo that is not the tip's, a truncation of a
\* note that was spent since, and roots that are not the ones it recorded.
CanUndo(l, u) ==
    /\ l.height = u.height
    /\ Len(u.created) <= Len(l.utxo) /\ Len(u.nfs) <= Len(l.nfs)
    /\ \A i \in Len(l.utxo) - Len(u.created) + 1 .. Len(l.utxo) :
           l.utxo[i] \notin l.dead
    /\ ToSet(u.unspend) \subseteq l.dead

UndoProved(l, u) == <<l.utxo, l.dead>> = u.prevUtxo /\ l.nfs = u.prevNfs
=============================================================================
