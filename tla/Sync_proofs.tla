---------------------------- MODULE Sync_proofs ----------------------------
(***************************************************************************)
(* What a node does about the past, proved a part at a time for any number   *)
(* of seats, turns, helpers, blocks and heights.                             *)
(***************************************************************************)
EXTENDS CatchUp, Stamping, History, HighWater, Selection_proofs, FiniteSetTheorems, TLAPS

-----------------------------------------------------------------------------
(***************************************************************************)
(* Why the mark keeps a holder from signing twice: what has been signed is   *)
(* never above what is on disk, or about to be, until a crash empties it.    *)
(***************************************************************************)
Marks == -1 .. MaxMark

Files == [is : {"mark", "empty", "torn"}, value : Marks]

Places == {"down", "up", "writing", "claimed", "refused"}

Holders == [at : Places, value : Marks, next : Marks, then : Places]

MarkTypeOK ==
    /\ file \in Files /\ holder \in Holders
    /\ timesSigned \in [MarkHeights -> Nat]
    /\ emptied \in BOOLEAN /\ markCrashes \in Nat

\* Nothing has been signed at a height above v.
NothingAbove(v) == \A h \in MarkHeights : h > v => timesSigned[h] = 0

\* What each place the process can be in knows of what was signed.
Known ==
    /\ holder.at = "down" =>
         /\ file.is = "mark" => NothingAbove(file.value)
         /\ file.is = "empty" => NothingAbove(Unmarked)
    /\ holder.at = "refused" => file.is = "torn"
    /\ holder.at \in {"up", "claimed"} => file = Mark(holder.value)
    /\ holder.at = "up" => NothingAbove(holder.value)
    /\ holder.at = "claimed" =>
         holder.value \in MarkHeights /\ NothingAbove(holder.value - 1)
    /\ holder.at = "writing" =>
         /\ holder.then \in {"up", "claimed"}
         /\ holder.next = Unmarked => holder.then = "up" /\ NothingAbove(Unmarked)
         /\ holder.next # Unmarked => holder.next > holder.value /\ NothingAbove(holder.value)

MarkInv == MarkTypeOK /\ (~emptied => SignsOnce /\ Known)

\* Counting one more keeps a table of counts one.
LEMMA OneMore ==
    ASSUME NEW S, NEW f \in [S -> Nat], NEW x
    PROVE  [f EXCEPT ![x] = @ + 1] \in [S -> Nat]
<1>1. ASSUME NEW y \in S PROVE [f EXCEPT ![x] = @ + 1][y] \in Nat
    <2>1. CASE y = x
        BY <2>1
    <2>2. CASE y # x
        BY <2>2
    <2> QED
        BY <2>1, <2>2
<1> QED
    BY <1>1

LEMMA DownHolds == Down \in Holders /\ Down.at = "down"
BY MarkBoundsAssumption DEF Down, Holding, Holders, Places, Marks, Unmarked

LEMMA MarkInitially == HighWaterInit => MarkInv
<1> SUFFICES ASSUME HighWaterInit PROVE MarkInv
    OBVIOUS
<1> USE MarkBoundsAssumption, DownHolds DEF HighWaterInit
<1>1. file \in Files /\ file.is = "empty"
    BY DEF Files, Empty, Marks, Unmarked
<1>2. timesSigned \in [MarkHeights -> Nat] /\ \A h \in MarkHeights : timesSigned[h] = 0
    OBVIOUS
<1>3. SignsOnce
    BY <1>2 DEF SignsOnce
<1>4. Known
    BY <1>1, <1>2 DEF Known, NothingAbove
<1> QED
    BY <1>1, <1>2, <1>3, <1>4 DEF MarkInv, MarkTypeOK

LEMMA MarkStep == MarkInv /\ [HighWaterNext]_markVars => MarkInv'
<1> SUFFICES ASSUME MarkInv, [HighWaterNext]_markVars PROVE MarkInv'
    OBVIOUS
<1> USE MarkBoundsAssumption DEF MarkHeights, Unmarked, Marks, Places, Empty, Torn, Holding
<1>1. MarkTypeOK'
    <2>1. CASE Open
        BY <2>1 DEF MarkInv, MarkTypeOK, Open, BeginWrite, Files, Holders, Down
    <2>2. CASE EndWrite
        BY <2>2 DEF MarkInv, MarkTypeOK, EndWrite, Files, Holders, Mark
    <2>3. CASE Sign
        <3>1. holder' \in Holders
            BY <2>3 DEF MarkInv, MarkTypeOK, Sign, Holders
        <3>2. timesSigned' \in [MarkHeights -> Nat]
            BY <2>3, OneMore DEF MarkInv, MarkTypeOK, Sign
        <3> QED
            BY <3>1, <3>2, <2>3 DEF MarkInv, MarkTypeOK, Sign
    <2>4. CASE Crash
        <3>1. file' \in Files
            BY <2>4 DEF MarkInv, MarkTypeOK, Crash, Files, Holders, Mark
        <3>2. emptied' \in BOOLEAN
            BY <2>4 DEF Crash
        <3> QED
            BY <3>1, <3>2, <2>4, DownHolds DEF MarkInv, MarkTypeOK, Crash
    <2>5. ASSUME NEW h \in MarkHeights, Claim(h) \/ AdoptMark(h) PROVE MarkTypeOK'
        BY <2>5 DEF MarkInv, MarkTypeOK, Claim, AdoptMark, BeginWrite, Files, Holders
    <2>6. CASE UNCHANGED markVars
        BY <2>6 DEF MarkInv, MarkTypeOK, markVars
    <2> QED
        BY <2>1, <2>2, <2>3, <2>4, <2>5, <2>6 DEF HighWaterNext
<1>2. ASSUME ~emptied' PROVE SignsOnce' /\ Known'
    <2>1. ~emptied
        BY <1>2 DEF HighWaterNext, Open, EndWrite, Sign, Crash, Claim, AdoptMark, markVars
    <2>2. MarkTypeOK /\ SignsOnce /\ Known
        BY <2>1 DEF MarkInv
    <2> USE <2>2
    <2>3. CASE Open
        BY <2>3 DEF MarkTypeOK, Open, BeginWrite, Files, Holders, Down, SignsOnce, Known,
            NothingAbove, Mark
    <2>4. CASE EndWrite
        BY <2>4 DEF MarkTypeOK, EndWrite, Files, Holders, SignsOnce, Known, NothingAbove, Mark
    <2>5. CASE Sign
        <3>1. holder.value \in MarkHeights /\ timesSigned[holder.value] = 0
            BY <2>5 DEF Sign, Known, NothingAbove, MarkTypeOK, Holders
        <3>2. /\ timesSigned'[holder.value] = 1
              /\ \A h \in MarkHeights \ {holder.value} : timesSigned'[h] = timesSigned[h]
            BY <2>5, <3>1 DEF Sign, MarkTypeOK
        <3>3. SignsOnce'
            BY <3>2 DEF SignsOnce
        <3>4. NothingAbove(holder.value)'
            BY <2>5, <3>1, <3>2 DEF Sign, Known, NothingAbove
        <3>5. file' = Mark(holder.value) /\ holder'.at = "up" /\ holder'.value = holder.value
            BY <2>5 DEF Sign, Known
        <3> QED
            BY <3>3, <3>4, <3>5 DEF Known, NothingAbove
    <2>6. CASE Crash
        <3>1. holder'.at = "down" /\ timesSigned' = timesSigned /\ file'.is # "empty"
            BY <2>6, <1>2, DownHolds DEF Crash
        <3>2. CASE holder.at = "writing"
            <4>1. file' = Mark(holder.next) \/ file'.is = "torn"
                BY <2>6, <3>1, <3>2 DEF Crash
            <4>2. NothingAbove(holder.next)
                BY <3>2 DEF Known, NothingAbove, MarkTypeOK, Holders
            <4> QED
                BY <3>1, <4>1, <4>2 DEF Known, NothingAbove, SignsOnce, Mark
        <3>3. CASE holder.at # "writing"
            <4>1. file' = file
                BY <2>6, <3>3 DEF Crash
            <4>2. file.is = "mark" => NothingAbove(file.value)
                BY <2>6, <3>3 DEF Crash, Known, NothingAbove, Mark, MarkTypeOK, Holders
            <4> QED
                BY <3>1, <4>1, <4>2 DEF Known, NothingAbove, SignsOnce
        <3> QED
            BY <3>2, <3>3
    <2>7. ASSUME NEW h \in MarkHeights, Claim(h) \/ AdoptMark(h) PROVE SignsOnce' /\ Known'
        BY <2>7 DEF MarkTypeOK, Claim, AdoptMark, BeginWrite, Above, Files, Holders, SignsOnce,
            Known, NothingAbove, Mark
    <2>8. CASE UNCHANGED markVars
        BY <2>8 DEF markVars, SignsOnce, Known, NothingAbove
    <2> QED
        BY <2>3, <2>4, <2>5, <2>6, <2>7, <2>8 DEF HighWaterNext
<1> QED
    BY <1>1, <1>2 DEF MarkInv

THEOREM MarkInvariance == HighWaterSpec => []MarkInv
<1>1. HighWaterInit => MarkInv
    BY MarkInitially
<1>2. MarkInv /\ [HighWaterNext]_markVars => MarkInv'
    BY MarkStep
<1> QED
    BY <1>1, <1>2, PTL DEF HighWaterSpec

\* A holder signs once at every height, over any number of crashes, unless one of
\* them left its file empty (store/high_water.py, _write and __init__).
THEOREM MarkKeepsFromSigningTwice == HighWaterSpec => []SignsOnceUnlessEmptied
<1>1. MarkInv => SignsOnceUnlessEmptied
    BY DEF MarkInv, SignsOnceUnlessEmptied
<1> QED
    BY <1>1, MarkInvariance, PTL

-----------------------------------------------------------------------------
(***************************************************************************)
(* Why a node holds one state: what is certified was agreed, what a helper    *)
(* answers is certified, and parts are taken only when they fold.             *)
(***************************************************************************)
Bodies == [height : Nat, view : Views, cert : BOOLEAN, sound : BOOLEAN]

\* The sets below are by the height the network has agreed.
BodiesUpTo(t) == {b \in Bodies : b.height <= t}
\* Only what was agreed is certified.
Cacheable(t) == {b \in Bodies : b.cert => b.height <= t}
Caches(t) == [order : Seq(Cacheable(t)), byHeight : UNION {[S -> Bodies] : S \in SUBSET Nat}, offered : Nat]
Backed(cache) ==
    \A g \in DOMAIN cache.byHeight : \E i \in 1..Len(cache.order) : SameHash(cache.order[i], cache.byHeight[g])

Questions == [kind : {"getblocks"}, from : Nat, to : Nat] \cup [kind : {"getsnapshot"}]
             \cup [kind : {"getchunk"}, part : ToSet(Parts)]
Replies(t) == [kind : {"blocks"}, bodies : Seq(BodiesUpTo(t))] \cup [kind : {"snapshot"}, height : 0..t]
              \cup [kind : {"chunk"}, part : ToSet(Parts), payload : Nat]

Chunks == UNION {[S -> Nat] : S \in SUBSET ToSet(Parts)}
Offers(t) == [from : Helpers, height : 0..t, chunks : Chunks]
Followers(t) ==
    [height : 0..t, parts : [ToSet(Parts) -> Nat], target : Nat,
     blocks : UNION {[S -> Bodies] : S \in SUBSET (0..t)}, asked : BOOLEAN,
     inbound : {NoOffer} \cup Offers(t), adopted : BOOLEAN]

OneState(n) == \A p \in ToSet(Parts) : n.parts[p] = n.height

CatchUpInv ==
    /\ tip \in Nat
    /\ helper \in [Helpers -> Caches(tip)] /\ \A h \in Helpers : Backed(helper[h])
    /\ node \in Followers(tip) /\ OneState(node)
    /\ toHelper \in [Helpers -> Seq(Questions)]
    /\ toNode \in [Helpers -> Seq(Replies(tip))]

LEMMA MaxOfBounded ==
    ASSUME NEW T \in SUBSET Nat, NEW b \in Nat, T # {}, \A k \in T : k <= b
    PROVE  Max(T) \in T /\ \A k \in T : Max(T) >= k
BY LargestBelow DEF Max

LEMMA MinOfNumbers ==
    ASSUME NEW T \in SUBSET Nat, T # {}
    PROVE  Min(T) \in T /\ \A k \in T : Min(T) <= k
BY LeastOfSome DEF Min

LEMMA MoreIsAgreed ==
    ASSUME NEW t \in Nat, NEW u \in Nat, t <= u
    PROVE  /\ BodiesUpTo(t) \subseteq BodiesUpTo(u) /\ Cacheable(t) \subseteq Cacheable(u)
           /\ Caches(t) \subseteq Caches(u) /\ Seq(Replies(t)) \subseteq Seq(Replies(u))
           /\ Followers(t) \subseteq Followers(u)
<1>1. BodiesUpTo(t) \subseteq BodiesUpTo(u) /\ Cacheable(t) \subseteq Cacheable(u)
    BY DEF BodiesUpTo, Cacheable, Bodies
<1>2. \A S, T : S \subseteq T => Seq(S) \subseteq Seq(T)
    OBVIOUS
<1>3. Seq(Cacheable(t)) \subseteq Seq(Cacheable(u)) /\ Seq(BodiesUpTo(t)) \subseteq Seq(BodiesUpTo(u))
    BY <1>1, <1>2
<1>4. Caches(t) \subseteq Caches(u)
    BY <1>3 DEF Caches
<1>5. Replies(t) \subseteq Replies(u)
    BY <1>3 DEF Replies
<1>6. Followers(t) \subseteq Followers(u)
    <2>1. 0..t \subseteq 0..u /\ Offers(t) \subseteq Offers(u)
        BY DEF Offers
    <2>2. UNION {[S -> Bodies] : S \in SUBSET (0..t)} \subseteq UNION {[S -> Bodies] : S \in SUBSET (0..u)}
        BY <2>1
    <2> QED
        BY <2>1, <2>2 DEF Followers
<1> QED
    BY <1>1, <1>2, <1>4, <1>5, <1>6

-----------------------------------------------------------------------------
\* The bodies of a helper.

LEMMA BodyIsKept ==
    ASSUME NEW t \in Nat, NEW cache \in Caches(t), Backed(cache), NEW body \in Cacheable(t)
    PROVE  PutBody(cache, body) \in Caches(t) /\ Backed(PutBody(cache, body))
<1>1. body \in Bodies /\ body.height \in Nat
    BY DEF Cacheable, Bodies
<1>2. cache.order \in Seq(Cacheable(t)) /\ cache.byHeight \in UNION {[S -> Bodies] : S \in SUBSET Nat}
    BY DEF Caches
<1>3. PICK order : order = IF \E i \in DOMAIN cache.order : SameHash(cache.order[i], body)
                           THEN [i \in DOMAIN cache.order |-> IF SameHash(cache.order[i], body) THEN body ELSE cache.order[i]]
                           ELSE Append(cache.order, body)
    OBVIOUS
<1>4. PICK l : l = Len(cache.order) /\ l \in Nat /\ DOMAIN cache.order = 1..l
    BY <1>2
<1>5. /\ order \in Seq(Cacheable(t)) /\ Len(order) >= l
      /\ \E i \in 1..Len(order) : SameHash(order[i], body)
      /\ \A i \in 1..l : SameHash(order[i], cache.order[i])
    <2>1. CASE \E i \in DOMAIN cache.order : SameHash(cache.order[i], body)
        <3>1. order = [i \in 1..l |-> IF SameHash(cache.order[i], body) THEN body ELSE cache.order[i]]
            BY <1>3, <1>4, <2>1
        <3>2. \A i \in 1..l : cache.order[i] \in Cacheable(t)
            BY <1>2, <1>4
        <3>3. order \in Seq(Cacheable(t)) /\ Len(order) = l
            BY <1>4, <3>1, <3>2
        <3>4. PICK i \in 1..l : SameHash(cache.order[i], body)
            BY <1>4, <2>1
        <3>5. i \in 1..Len(order) /\ SameHash(order[i], body)
            BY <3>1, <3>3, <3>4 DEF SameHash
        <3>6. \A k \in 1..l : SameHash(order[k], cache.order[k])
            BY <3>1 DEF SameHash
        <3> QED
            BY <1>4, <3>3, <3>5, <3>6
    <2>2. CASE ~\E i \in DOMAIN cache.order : SameHash(cache.order[i], body)
        <3>1. order = Append(cache.order, body)
            BY <1>3, <2>2
        <3>2. order \in Seq(Cacheable(t)) /\ Len(order) = l + 1 /\ order[l + 1] = body
              /\ \A i \in 1..l : order[i] = cache.order[i]
            BY <1>2, <1>4, <3>1
        <3>3. l + 1 \in 1..Len(order)
            BY <1>4, <3>2
        <3> QED
            BY <1>4, <3>2, <3>3 DEF SameHash
    <2> QED
        BY <2>1, <2>2
<1>6. PICK byHeight : byHeight = [h \in DOMAIN cache.byHeight \cup {body.height} |->
                                     IF h = body.height THEN body ELSE cache.byHeight[h]]
    OBVIOUS
<1>7. byHeight \in UNION {[S -> Bodies] : S \in SUBSET Nat}
      /\ \A g \in DOMAIN byHeight : \E i \in 1..Len(order) : SameHash(order[i], byHeight[g])
    <2>1. DOMAIN cache.byHeight \subseteq Nat /\ \A g \in DOMAIN cache.byHeight : cache.byHeight[g] \in Bodies
        BY <1>2
    <2>2. byHeight \in [DOMAIN cache.byHeight \cup {body.height} -> Bodies]
        BY <1>1, <1>6, <2>1
    <2>3. \A g \in DOMAIN cache.byHeight : \E i \in 1..Len(order) : SameHash(order[i], cache.byHeight[g])
        <3> SUFFICES ASSUME NEW g \in DOMAIN cache.byHeight
                     PROVE  \E i \in 1..Len(order) : SameHash(order[i], cache.byHeight[g])
            OBVIOUS
        <3>1. PICK i \in 1..l : SameHash(cache.order[i], cache.byHeight[g])
            BY <1>4 DEF Backed
        <3>2. i \in 1..Len(order) /\ SameHash(order[i], cache.order[i])
            BY <1>4, <1>5
        <3> QED
            BY <3>1, <3>2 DEF SameHash
    <2> QED
        BY <1>1, <1>5, <1>6, <2>1, <2>2, <2>3
<1>8. PICK put : put = [cache EXCEPT !.order = order, !.byHeight = byHeight]
    OBVIOUS
<1>9. put \in Caches(t) /\ put.order = order /\ put.byHeight = byHeight
    BY <1>5, <1>7, <1>8 DEF Caches
<1>10. PutBareOver(cache, body) = EvictBodies(put)
    BY <1>3, <1>6, <1>8 DEF PutBareOver
<1>11. EvictBodies(put) \in Caches(t) /\ Backed(EvictBodies(put))
    <2>1. PICK n : n = Len(order) /\ n \in Nat
        BY <1>5
    <2>2. PICK over : over = Bigger(n - Window, 0) /\ over \in 0..n
        BY <2>1, CatchUpAssumption DEF Bigger
    <2>3. PICK left : /\ left = SubSeq(order, over + 1, n) /\ left \in Seq(Cacheable(t)) /\ Len(left) = n - over
                      /\ \A i \in 1..n - over : left[i] = order[over + i]
        <3>1. order \in Seq(Cacheable(t)) /\ over \in 0..Len(order)
            BY <1>5, <2>1, <2>2
        <3>2. /\ SubSeq(order, over + 1, Len(order)) \in Seq(Cacheable(t))
              /\ Len(SubSeq(order, over + 1, Len(order))) = Len(order) - over
              /\ \A i \in 1..Len(order) - over : SubSeq(order, over + 1, Len(order))[i] = order[over + i]
            BY <3>1, SuffixOf
        <3> QED
            BY <2>1, <3>2
    <2>4. PICK gone : gone = ToSet(SubSeq(order, 1, over))
        OBVIOUS
    <2>5. \A i \in 1..over : order[i] \in gone
        <3>1. SubSeq(order, 1, over) \in Seq(Cacheable(t)) /\ Len(SubSeq(order, 1, over)) = over
              /\ \A i \in 1..over : SubSeq(order, 1, over)[i] = order[i]
            BY <1>5, <2>1, <2>2
        <3>2. DOMAIN SubSeq(order, 1, over) = 1..over
            BY <3>1
        <3> QED
            BY <2>4, <3>1, <3>2 DEF ToSet
    <2>6. EvictBodies(put) = [put EXCEPT !.order = left, !.byHeight = Reindexed(byHeight, gone)]
        BY <1>9, <2>1, <2>2, <2>3, <2>4 DEF EvictBodies
    <2>7. PICK index : index = Reindexed(byHeight, gone)
        OBVIOUS
    <2>8. /\ DOMAIN index = {g \in DOMAIN byHeight : ~\E b \in gone : SameHash(byHeight[g], b)}
          /\ \A g \in DOMAIN index : index[g] = byHeight[g]
          /\ index \in UNION {[S -> Bodies] : S \in SUBSET Nat}
        <3>1. DOMAIN byHeight \subseteq Nat /\ \A g \in DOMAIN byHeight : byHeight[g] \in Bodies
            BY <1>7
        <3>2. PICK kept : kept = {g \in DOMAIN byHeight : ~\E b \in gone : SameHash(byHeight[g], b)}
            OBVIOUS
        <3>3. index = [h \in kept |-> byHeight[h]]
            BY <2>7, <3>2 DEF Reindexed
        <3>4. kept \subseteq DOMAIN byHeight
            BY <3>2
        <3>5. index \in [kept -> Bodies] /\ kept \in SUBSET Nat
            BY <3>1, <3>3, <3>4
        <3> QED
            BY <3>2, <3>3, <3>5
    <2>9. EvictBodies(put) \in Caches(t) /\ EvictBodies(put).order = left /\ EvictBodies(put).byHeight = index
        BY <1>9, <2>3, <2>6, <2>7, <2>8 DEF Caches
    <2>10. \A g \in DOMAIN index : \E i \in 1..Len(left) : SameHash(left[i], index[g])
        <3> SUFFICES ASSUME NEW g \in DOMAIN index PROVE \E i \in 1..Len(left) : SameHash(left[i], index[g])
            OBVIOUS
        <3>1. PICK i \in 1..n : SameHash(order[i], byHeight[g])
            BY <1>7, <2>1, <2>8
        <3>2. i \notin 1..over
            BY <2>5, <2>8, <3>1 DEF SameHash
        <3>3. i - over \in 1..n - over /\ over + (i - over) = i
            BY <2>1, <2>2, <3>2
        <3>4. left[i - over] = order[i]
            BY <2>3, <3>3
        <3> QED
            BY <2>3, <2>8, <3>1, <3>3, <3>4
    <2> QED
        BY <2>9, <2>10 DEF Backed
<1> QED
    BY <1>10, <1>11 DEF PutBody

\* A helper answers with what is certified, which was agreed.
LEMMA RangeIsAgreed ==
    ASSUME NEW t \in Nat, NEW cache \in Caches(t), Backed(cache), NEW start \in Nat, NEW end \in Int
    PROVE  RangeOf(cache, start, end) \in Seq(BodiesUpTo(t))
<1> DEFINE All == Cacheable(t) \cup {NoBody}
           held == {g \in start..end : At(cache, g) # NoBody /\ At(cache, g).cert}
           most == Smaller(Batch, Cardinality(held))
<1>1. \A g : At(cache, g) \in All
    <2> SUFFICES ASSUME NEW g PROVE At(cache, g) \in All
        OBVIOUS
    <2>1. CASE g \notin DOMAIN cache.byHeight
        BY <2>1 DEF At
    <2>2. CASE g \in DOMAIN cache.byHeight
        <3>1. cache.order \in Seq(Cacheable(t))
            BY DEF Caches
        <3>2. PICK i \in 1..Len(cache.order) : SameHash(cache.order[i], cache.byHeight[g])
            BY <2>2 DEF Backed
        <3>3. ToSet(cache.order) \subseteq Cacheable(t) /\ cache.order[i] \in ToSet(cache.order)
            BY <3>1, <3>2 DEF ToSet
        <3>4. At(cache, g) = CHOOSE b \in ToSet(cache.order) : SameHash(b, cache.byHeight[g])
            BY <2>2 DEF At
        <3>5. At(cache, g) \in ToSet(cache.order)
            BY <3>2, <3>3, <3>4
        <3> QED
            BY <3>3, <3>5
    <2> QED
        BY <2>1, <2>2
<1>2. \A g \in held : At(cache, g) \in BodiesUpTo(t)
    <2> SUFFICES ASSUME NEW g \in held PROVE At(cache, g) \in BodiesUpTo(t)
        OBVIOUS
    <2>1. At(cache, g) \in All /\ At(cache, g) # NoBody /\ At(cache, g).cert
        BY <1>1
    <2>2. PICK b : b = At(cache, g)
        OBVIOUS
    <2>3. b \in Cacheable(t) /\ b.cert
        BY <2>1, <2>2
    <2> QED
        BY <2>2, <2>3 DEF BodiesUpTo, Cacheable
<1>3. held \in SUBSET (start..end)
    OBVIOUS
<1>4. IsFiniteSet(held) /\ Cardinality(held) \in Nat
    <2> HIDE DEF held
    <2>1. IsFiniteSet(start..end)
        BY FS_Interval
    <2> QED
        BY <1>3, <2>1, FS_Subset, FS_CardinalityType
<1>5. RangeOf(cache, start, end) = [k \in 1..most |-> At(cache, Nth(held, k))]
    BY DEF RangeOf
<1> HIDE DEF held
<1>6. most \in Nat /\ most <= Cardinality(held)
    BY <1>4, CatchUpAssumption DEF Smaller
<1>7. \A k \in 1..Cardinality(held) : Nth(held, k) \in held
    BY <1>3, <1>4, NthCounts
<1> HIDE DEF most
<1>8. \A k \in 1..most : At(cache, Nth(held, k)) \in BodiesUpTo(t)
    BY <1>2, <1>4, <1>6, <1>7
<1> QED
    BY <1>5, <1>6, <1>8

-----------------------------------------------------------------------------
\* What the node asks for.

LEMMA LeftToAsk ==
    ASSUME NEW S, NEW ask \in Seq(S), NEW gone
    PROVE  Lacking(ask, gone) \in Seq(S) /\ Len(Lacking(ask, gone)) \in Nat
<1>1. {i \in DOMAIN ask : ask[i] \notin gone} \in SUBSET (1..Len(ask))
    OBVIOUS
<1>2. Selected(ask, {i \in DOMAIN ask : ask[i] \notin gone}) \in Seq(S)
    BY <1>1, SelectedFacts
<1> QED
    BY <1>2 DEF Lacking

LEMMA ChunksAreAskedFor ==
    ASSUME NEW inbound, NEW queue
    PROVE  AskForChunks(inbound, queue) \in Seq(Questions)
<1> DEFINE missing == Lacking(Parts, DOMAIN inbound.chunks)
           few == SubSeq(missing, 1, Smaller(AtOnce, Len(missing)))
           ask == [i \in DOMAIN few |-> [kind |-> "getchunk", part |-> few[i]]]
<1>1. missing \in Seq(ToSet(Parts)) /\ Len(missing) \in Nat
    BY LeftToAsk, CatchUpAssumption
<1> HIDE DEF missing
<1>2. Smaller(AtOnce, Len(missing)) \in 0..Len(missing)
    BY <1>1, CatchUpAssumption DEF Smaller
<1>3. few \in Seq(ToSet(Parts))
    BY <1>1, <1>2
<1> HIDE DEF few
<1>4. PICK l \in Nat : DOMAIN few = 1..l /\ \A i \in 1..l : few[i] \in ToSet(Parts)
    BY <1>3
<1>5. ask \in Seq(Questions)
    <2>1. \A i \in 1..l : [kind |-> "getchunk", part |-> few[i]] \in Questions
        BY <1>4 DEF Questions
    <2> QED
        BY <1>4, <2>1
<1> HIDE DEF ask
<1>6. Lacking(ask, ToSet(queue)) \in Seq(Questions)
    BY <1>5, LeftToAsk
<1> QED
    BY <1>6 DEF AskForChunks, NotOnItsWay, ask, few, missing

LEMMA BlocksAreAskedFor ==
    ASSUME NEW t \in Nat, NEW n \in Followers(t)
    PROVE  Wanted(n) = <<>> \/ \E from, to \in Nat : Wanted(n) = <<from, to>>
<1> DEFINE end == Smaller(n.target, n.height + Batch)
           lacking == {h \in (n.height + 1)..end : h \notin DOMAIN n.blocks}
<1>1. n.height \in Nat /\ n.target \in Nat /\ Batch \in Nat
    BY CatchUpAssumption DEF Followers
<1>2. end \in Nat /\ n.height + 1 \in Nat
    BY <1>1 DEF Smaller
<1>3. lacking \subseteq Nat
    BY <1>2
<1>4. Wanted(n) = IF Behind(n) = 0 \/ lacking = {} THEN <<>> ELSE <<Min(lacking), end>>
    BY DEF Wanted
<1> HIDE DEF lacking, end
<1>5. lacking # {} => Min(lacking) \in Nat
    BY <1>3, MinOfNumbers
<1> QED
    BY <1>2, <1>4, <1>5

-----------------------------------------------------------------------------
\* What the node makes of what it is sent.

LEMMA ForgettingKeeps ==
    ASSUME NEW t \in Nat, NEW n \in Followers(t), NEW height
    PROVE  /\ ForgetUpTo(n, height) \in Followers(t)
           /\ ForgetUpTo(n, height).height = n.height /\ ForgetUpTo(n, height).parts = n.parts
<1>1. PICK kept : kept = Without(n.blocks, {h \in DOMAIN n.blocks : h <= height})
    OBVIOUS
<1>2. kept \in UNION {[S -> Bodies] : S \in SUBSET (0..t)}
    <2>1. PICK S \in SUBSET (0..t) : n.blocks \in [S -> Bodies]
        BY DEF Followers
    <2>2. kept \in [DOMAIN kept -> Bodies] /\ DOMAIN kept \subseteq S
        BY <1>1, <2>1 DEF Without
    <2> QED
        BY <2>1, <2>2
<1>3. ForgetUpTo(n, height) = [n EXCEPT !.blocks = kept]
    BY <1>1 DEF ForgetUpTo
<1> QED
    BY <1>2, <1>3 DEF Followers

LEMMA AbsorbingKeeps ==
    ASSUME NEW t \in Nat, NEW n \in Followers(t), NEW bodies \in Seq(BodiesUpTo(t))
    PROVE  /\ AbsorbBlocks(n, bodies) \in Followers(t)
           /\ AbsorbBlocks(n, bodies).height = n.height /\ AbsorbBlocks(n, bodies).parts = n.parts
<1>1. PICK fresh, first :
        /\ fresh = {b.height : b \in ToSet(bodies)} \ DOMAIN n.blocks
        /\ first = [h \in fresh |-> bodies[Min({i \in DOMAIN bodies : bodies[i].height = h})]]
    OBVIOUS
<1>2. PICK l \in Nat : l = Len(bodies) /\ DOMAIN bodies = 1..l /\ \A i \in 1..l : bodies[i] \in BodiesUpTo(t)
    OBVIOUS
<1>3. ToSet(bodies) = {bodies[i] : i \in 1..l}
    BY <1>2 DEF ToSet
<1>4. \A h \in fresh : h \in 0..t /\ \E i \in 1..l : bodies[i].height = h
    BY <1>1, <1>2, <1>3 DEF BodiesUpTo, Bodies
<1>5. \A h \in fresh : first[h] \in Bodies
    <2> SUFFICES ASSUME NEW h \in fresh PROVE first[h] \in Bodies
        OBVIOUS
    <2> DEFINE where == {i \in DOMAIN bodies : bodies[i].height = h}
    <2>1. where \in SUBSET Nat /\ where # {} /\ where \subseteq 1..l
        BY <1>2, <1>4
    <2>2. first[h] = bodies[Min(where)]
        BY <1>1
    <2> HIDE DEF where
    <2>3. Min(where) \in 1..l
        BY <2>1, MinOfNumbers
    <2> QED
        BY <1>2, <2>2, <2>3 DEF BodiesUpTo
<1>6. PICK buffer : buffer = [h \in DOMAIN n.blocks \cup fresh |-> IF h \in fresh THEN first[h] ELSE n.blocks[h]]
    OBVIOUS
<1>7. buffer \in UNION {[S -> Bodies] : S \in SUBSET (0..t)}
    <2>1. PICK S \in SUBSET (0..t) : n.blocks \in [S -> Bodies]
        BY DEF Followers
    <2>2. S \cup fresh \in SUBSET (0..t) /\ buffer \in [S \cup fresh -> Bodies]
        BY <1>4, <1>5, <1>6, <2>1
    <2> QED
        BY <2>2
<1>8. Max({n.target} \cup fresh) \in Nat
    <2> DEFINE all == {n.target} \cup fresh
    <2>1. n.target \in Nat
        BY DEF Followers
    <2>2. all \in SUBSET Nat /\ all # {} /\ \A k \in all : k <= n.target + t
        BY <1>4, <2>1
    <2>3. n.target + t \in Nat
        BY <2>1
    <2> HIDE DEF all
    <2>4. Max(all) \in all
        BY <2>2, <2>3, MaxOfBounded
    <2>5. Max(all) \in Nat
        BY <2>2, <2>4
    <2> QED
        BY <2>5 DEF all
<1>9. AbsorbBlocks(n, bodies) = [n EXCEPT !.blocks = buffer, !.target = Max({n.target} \cup fresh)]
    <2>1. buffer = [h \in DOMAIN n.blocks \cup fresh |->
                      IF h \in fresh THEN bodies[Min({i \in DOMAIN bodies : bodies[i].height = h})] ELSE n.blocks[h]]
        BY <1>1, <1>6
    <2> QED
        BY <1>1, <2>1 DEF AbsorbBlocks
<1> QED
    BY <1>7, <1>8, <1>9 DEF Followers

LEMMA StatesAreWhole ==
    ASSUME NEW height \in Nat
    PROVE  StateAt(height) \in [ToSet(Parts) -> Nat] /\ \A p \in ToSet(Parts) : StateAt(height)[p] = height
BY DEF StateAt

LEMMA AdvancingInOrder ==
    ASSUME NEW t \in Nat, NEW n \in Followers(t), OneState(n), NEW budget \in Nat
    PROVE  Advance(n, budget) \in Followers(t) /\ OneState(Advance(n, budget))
<1> DEFINE runs == {k \in 0..Smaller(budget, Batch) :
                      \A i \in 1..k : n.height + i \in DOMAIN n.blocks /\ Applies(n, n.blocks[n.height + i])}
<1>1. PICK done : done = Max(runs) /\ done \in Nat /\ n.height + done \in 0..t
    <2>0. Smaller(budget, Batch) \in Nat /\ n.height \in 0..t /\ DOMAIN n.blocks \subseteq 0..t
        BY CatchUpAssumption DEF Smaller, Followers
    <2>1. runs \in SUBSET Nat /\ 0 \in runs /\ \A k \in runs : k <= Smaller(budget, Batch)
        BY <2>0
    <2>2. \A k \in runs : k \in Nat /\ n.height + k \in 0..t
        <3> SUFFICES ASSUME NEW k \in runs PROVE n.height + k \in 0..t
            BY <2>1
        <3>1. k \in Nat /\ (k = 0 \/ k \in 1..k)
            BY <2>1
        <3>2. CASE k = 0
            BY <2>0, <3>2
        <3>3. CASE k # 0
            BY <2>0, <3>1, <3>3
        <3> QED
            BY <3>2, <3>3
    <2> HIDE DEF runs
    <2>3. runs # {}
        BY <2>1
    <2>4. Max(runs) \in runs
        BY <2>0, <2>1, <2>3, MaxOfBounded
    <2> QED
        BY <2>2, <2>4
<1>2. PICK gone : gone = IF done < Smaller(budget, Batch) /\ n.height + done + 1 \in DOMAIN n.blocks
                         THEN {n.height + done + 1} ELSE {}
    OBVIOUS
<1>3. PICK kept, parts : /\ kept = Without(n.blocks, gone)
                         /\ parts = IF done = 0 THEN n.parts ELSE StateAt(n.height + done)
    OBVIOUS
<1>4. kept \in UNION {[S -> Bodies] : S \in SUBSET (0..t)}
    <2>1. PICK S \in SUBSET (0..t) : n.blocks \in [S -> Bodies]
        BY DEF Followers
    <2>2. kept \in [DOMAIN kept -> Bodies] /\ DOMAIN kept \subseteq S
        BY <1>3, <2>1 DEF Without
    <2> QED
        BY <2>1, <2>2
<1>5. parts \in [ToSet(Parts) -> Nat] /\ \A p \in ToSet(Parts) : parts[p] = n.height + done
    <2>1. CASE done = 0
        <3>1. n.height + done = n.height /\ parts = n.parts /\ n.parts \in [ToSet(Parts) -> Nat]
            BY <1>3, <2>1 DEF Followers
        <3> QED
            BY <3>1 DEF OneState
    <2>2. CASE done # 0
        <3>0. n.height + done \in Nat
            BY <1>1
        <3>1. PICK height \in Nat : height = n.height + done
            BY <3>0
        <3>2. parts = StateAt(height)
            BY <1>3, <2>2, <3>1
        <3> QED
            BY <3>1, <3>2, StatesAreWhole
    <2> QED
        BY <2>1, <2>2
<1>6. PICK moved : moved = [n EXCEPT !.height = n.height + done, !.parts = parts, !.blocks = kept]
    OBVIOUS
<1>7. moved \in Followers(t) /\ moved.height = n.height + done /\ moved.parts = parts
    BY <1>1, <1>4, <1>5, <1>6 DEF Followers
<1>8. Advance(n, budget) = ForgetUpTo(moved, n.height + done)
    BY <1>1, <1>2, <1>3, <1>6 DEF Advance
<1> QED
    BY <1>5, <1>7, <1>8, ForgettingKeeps DEF OneState

LEMMA FinishingIsWhole ==
    ASSUME NEW t \in Nat, NEW n \in Followers(t), OneState(n), NEW inbound \in Offers(t),
           DOMAIN inbound.chunks = ToSet(Parts)
    PROVE  Finish(n, inbound) \in Followers(t) /\ OneState(Finish(n, inbound))
<1>1. inbound.height \in 0..t /\ inbound.chunks \in [ToSet(Parts) -> Nat]
    BY DEF Offers, Chunks
<1>2. CASE ~Folds(inbound) \/ inbound.height <= n.height
    BY <1>2 DEF Finish, Followers, OneState
<1>3. CASE Folds(inbound) /\ ~(inbound.height <= n.height)
    <2>1. PICK moved : moved = [n EXCEPT !.inbound = NoOffer, !.height = inbound.height,
                                         !.parts = inbound.chunks, !.adopted = TRUE]
        OBVIOUS
    <2>2. moved \in Followers(t) /\ moved.height = inbound.height /\ moved.parts = inbound.chunks
        BY <1>1, <2>1 DEF Followers
    <2>3. \A p \in ToSet(Parts) : inbound.chunks[p] = inbound.height
        BY <1>3 DEF Folds
    <2>4. Finish(n, inbound) = ForgetUpTo(moved, inbound.height)
        BY <1>3, <2>1 DEF Finish
    <2> QED
        BY <2>2, <2>3, <2>4, ForgettingKeeps DEF OneState
<1> QED
    BY <1>2, <1>3

-----------------------------------------------------------------------------
\* The steps.

LEMMA TheNetworkMovesOn ==
    ASSUME CatchUpInv, NEW view \in Views, NEW present \in BOOLEAN, AgreeBlock(view, present)
    PROVE  CatchUpInv'
<1>1. PICK u : u = tip + 1 /\ u \in Nat /\ tip <= u /\ tip \in Nat /\ tip' = u
    BY <1>1 DEF CatchUpInv, AgreeBlock
<1>2. Body(tip + 1, view, TRUE) \in Cacheable(u)
    BY <1>1 DEF Body, Cacheable, Bodies
<1>3. ASSUME NEW h \in Helpers PROVE helper'[h] \in Caches(u) /\ Backed(helper'[h])
    <2>1. helper[h] \in Caches(u) /\ Backed(helper[h])
        BY <1>1, MoreIsAgreed DEF CatchUpInv
    <2>2. helper'[h] = PutBody(helper[h], Body(tip + 1, view, TRUE))
        BY DEF AgreeBlock
    <2> QED
        BY <1>1, <1>2, <2>1, <2>2, BodyIsKept
<1>4. helper' \in [Helpers -> Caches(u)]
    <2>1. helper' = [h \in Helpers |-> helper'[h]]
        BY DEF AgreeBlock
    <2> QED
        BY <1>3, <2>1
<1>5. node' \in Followers(u) /\ OneState(node')
    <2>1. node \in Followers(u) /\ OneState(node)
        BY <1>1, MoreIsAgreed DEF CatchUpInv
    <2>2. CASE present
        <3>1. PICK parts : parts = StateAt(u)
            OBVIOUS
        <3>2. parts \in [ToSet(Parts) -> Nat] /\ \A p \in ToSet(Parts) : parts[p] = u
            BY <1>1, <3>1, StatesAreWhole
        <3>3. node' = [node EXCEPT !.height = u, !.parts = parts] /\ u \in 0..u
            BY <1>1, <2>2, <3>1 DEF AgreeBlock
        <3>4. node' \in Followers(u) /\ node'.height = u /\ node'.parts = parts
            BY <2>1, <3>2, <3>3 DEF Followers
        <3> QED
            BY <3>2, <3>4 DEF OneState
    <2>3. CASE ~present
        BY <2>1, <2>3 DEF AgreeBlock
    <2> QED
        BY <2>2, <2>3
<1>6. toNode' \in [Helpers -> Seq(Replies(u))] /\ toHelper' = toHelper
    BY <1>1, MoreIsAgreed DEF AgreeBlock, CatchUpInv
<1> QED
    BY <1>1, <1>3, <1>4, <1>5, <1>6 DEF CatchUpInv

LEMMA OfferIsKept ==
    ASSUME CatchUpInv, NEW h \in Helpers, NEW view \in Views, OfferBody(h, view)
    PROVE  CatchUpInv'
<1>1. PICK height \in {tip, tip + 1} :
        /\ helper' = [helper EXCEPT ![h] = PutBody(helper[h], Body(height, view, FALSE))]
        /\ UNCHANGED <<tip, node, toHelper, toNode>>
    BY DEF OfferBody
<1>2. tip \in Nat /\ helper[h] \in Caches(tip) /\ Backed(helper[h])
    BY DEF CatchUpInv
<1>3. Body(height, view, FALSE) \in Cacheable(tip)
    BY <1>2 DEF Body, Cacheable, Bodies
<1>4. PICK put : put = PutBody(helper[h], Body(height, view, FALSE)) /\ put \in Caches(tip) /\ Backed(put)
    BY <1>2, <1>3, BodyIsKept
<1>5. helper' \in [Helpers -> Caches(tip)] /\ \A k \in Helpers : Backed(helper'[k])
    BY <1>1, <1>4 DEF CatchUpInv
<1> QED
    BY <1>1, <1>5 DEF CatchUpInv

\* What is put on a connection, and what is taken off it.
LEMMA AnsweredInTurn ==
    ASSUME CatchUpInv, NEW h \in Helpers, toHelper[h] # <<>>, NEW messages \in Seq(Replies(tip)),
           Answered(h, messages)
    PROVE  toHelper' \in [Helpers -> Seq(Questions)] /\ toNode' \in [Helpers -> Seq(Replies(tip))]
<1>1. Tail(toHelper[h]) \in Seq(Questions) /\ toNode[h] \o messages \in Seq(Replies(tip))
    <2>1. toHelper[h] \in Seq(Questions) /\ toNode[h] \in Seq(Replies(tip))
        BY DEF CatchUpInv
    <2> QED
        BY <2>1
<1> QED
    BY <1>1 DEF CatchUpInv, Answered

LEMMA HelperAnswers ==
    ASSUME CatchUpInv, NEW h \in Helpers, ServeBlocks(h) \/ ServeSnapshot(h) \/ ServeChunk(h)
    PROVE  CatchUpInv'
<1>0. tip \in Nat /\ helper[h] \in Caches(tip) /\ Backed(helper[h]) /\ toHelper[h] \in Seq(Questions)
    BY DEF CatchUpInv
<1>1. CASE ServeBlocks(h)
    <2>1. PICK asked, bodies :
            /\ asked = Head(toHelper[h])
            /\ bodies = RangeOf(helper[h], asked.from, Smaller(asked.to, asked.from + Batch - 1))
            /\ \/ Answered(h, IF bodies = <<>> THEN <<>> ELSE <<[kind |-> "blocks", bodies |-> bodies]>>)
               \/ /\ bodies # <<>>
                  /\ Answered(h, <<[kind |-> "blocks", bodies |-> [bodies EXCEPT ![1].sound = FALSE]]>>)
            /\ UNCHANGED <<tip, helper, node>>
        BY <1>1 DEF ServeBlocks
    <2>2. toHelper[h] # <<>> /\ asked.kind = "getblocks"
        BY <1>1, <2>1 DEF ServeBlocks, Waiting
    <2>3. asked.from \in Nat /\ asked.to \in Nat
        <3>1. asked \in Questions
            BY <1>0, <2>1, <2>2
        <3> QED
            BY <2>2, <3>1 DEF Questions
    <2>4. Smaller(asked.to, asked.from + Batch - 1) \in Int
        BY <2>3, CatchUpAssumption DEF Smaller
    <2>5. bodies \in Seq(BodiesUpTo(tip))
        BY <1>0, <2>1, <2>3, <2>4, RangeIsAgreed
    <2>6. ASSUME bodies # <<>> PROVE [bodies EXCEPT ![1].sound = FALSE] \in Seq(BodiesUpTo(tip))
        <3>1. bodies[1] \in BodiesUpTo(tip)
            BY <2>5, <2>6
        <3>2. [bodies[1] EXCEPT !.sound = FALSE] \in BodiesUpTo(tip)
            BY <3>1 DEF BodiesUpTo, Bodies
        <3>3. [bodies EXCEPT ![1].sound = FALSE] = [bodies EXCEPT ![1] = [bodies[1] EXCEPT !.sound = FALSE]]
            OBVIOUS
        <3>4. PICK b \in BodiesUpTo(tip) : b = [bodies[1] EXCEPT !.sound = FALSE]
            BY <3>2
        <3>5. [bodies EXCEPT ![1] = b] \in Seq(BodiesUpTo(tip))
            <4>1. PICK l \in Nat : bodies \in [1..l -> BodiesUpTo(tip)]
                BY <2>5
            <4>2. PICK other : other = [bodies EXCEPT ![1] = b]
                OBVIOUS
            <4>3. other \in [1..l -> BodiesUpTo(tip)]
                BY <4>1, <4>2
            <4>4. other \in Seq(BodiesUpTo(tip))
                BY <4>3
            <4> QED
                BY <4>2, <4>4
        <3> QED
            BY <3>3, <3>4, <3>5
    <2>7. \A some \in Seq(BodiesUpTo(tip)) : <<[kind |-> "blocks", bodies |-> some]>> \in Seq(Replies(tip))
        BY DEF Replies
    <2>8. PICK messages \in Seq(Replies(tip)) : Answered(h, messages)
        <3>1. CASE Answered(h, IF bodies = <<>> THEN <<>> ELSE <<[kind |-> "blocks", bodies |-> bodies]>>)
            <4>1. CASE bodies = <<>>
                <5>1. <<>> \in Seq(Replies(tip))
                    OBVIOUS
                <5> QED
                    BY <3>1, <4>1, <5>1
            <4>2. CASE bodies # <<>>
                <5>1. Answered(h, <<[kind |-> "blocks", bodies |-> bodies]>>)
                    BY <3>1, <4>2
                <5> QED
                    BY <2>5, <2>7, <5>1
            <4> QED
                BY <4>1, <4>2
        <3>2. CASE /\ bodies # <<>>
                   /\ Answered(h, <<[kind |-> "blocks", bodies |-> [bodies EXCEPT ![1].sound = FALSE]]>>)
            <4>1. PICK some \in Seq(BodiesUpTo(tip)) : some = [bodies EXCEPT ![1].sound = FALSE]
                BY <2>6, <3>2
            <4>2. Answered(h, <<[kind |-> "blocks", bodies |-> some]>>)
                BY <3>2, <4>1
            <4> QED
                BY <2>7, <4>2
        <3> QED
            BY <2>1, <3>1, <3>2
    <2> QED
        BY <2>1, <2>2, <2>8, AnsweredInTurn DEF CatchUpInv
<1>2. CASE ServeSnapshot(h)
    <2>1. <<[kind |-> "snapshot", height |-> tip]>> \in Seq(Replies(tip))
        BY <1>0 DEF Replies
    <2>2. /\ toHelper' \in [Helpers -> Seq(Questions)] /\ toNode' \in [Helpers -> Seq(Replies(tip))]
          /\ UNCHANGED <<tip, node>> /\ helper' = [helper EXCEPT ![h].offered = tip]
        BY <1>2, <2>1, AnsweredInTurn DEF ServeSnapshot, Waiting
    <2>3. PICK cache : cache = [helper[h] EXCEPT !.offered = tip]
        OBVIOUS
    <2>4. cache \in Caches(tip) /\ cache.order = helper[h].order /\ cache.byHeight = helper[h].byHeight
        BY <1>0, <2>3 DEF Caches
    <2>5. Backed(cache)
        BY <1>0, <2>4 DEF Backed
    <2>6. helper' = [helper EXCEPT ![h] = cache]
        BY <2>2, <2>3
    <2>7. helper' \in [Helpers -> Caches(tip)] /\ \A k \in Helpers : Backed(helper'[k])
        BY <2>4, <2>5, <2>6 DEF CatchUpInv
    <2> QED
        BY <2>2, <2>7 DEF CatchUpInv
<1>3. CASE ServeChunk(h)
    <2>1. toHelper[h] # <<>> /\ Head(toHelper[h]).kind = "getchunk"
        BY <1>3 DEF ServeChunk, Waiting
    <2>2. Head(toHelper[h]).part \in ToSet(Parts)
        <3>1. Head(toHelper[h]) \in Questions
            BY <1>0, <2>1
        <3> QED
            BY <2>1, <3>1 DEF Questions
    <2>3. <<[kind |-> "chunk", part |-> Head(toHelper[h]).part, payload |-> tip]>> \in Seq(Replies(tip))
        BY <1>0, <2>2 DEF Replies
    <2> QED
        BY <1>3, <2>1, <2>3, AnsweredInTurn DEF ServeChunk, CatchUpInv
<1> QED
    BY <1>1, <1>2, <1>3

LEMMA NodeAsks ==
    ASSUME CatchUpInv, NEW budget \in 0..Batch, CatchUpStep(budget)
    PROVE  CatchUpInv'
<1>1. PICK state : state = (Behind(node) > Window /\ ~node.asked) /\ state \in BOOLEAN
    OBVIOUS
<1>2. PICK n : n = [node EXCEPT !.asked = node.asked \/ state]
    OBVIOUS
<1>3. PICK moved : /\ moved = Advance(n, budget) /\ node' = moved
                   /\ \E want \in {Wanted(moved)} :
                         Asks((IF state THEN <<[kind |-> "getsnapshot"]>> ELSE <<>>)
                              \o (IF want = <<>> THEN <<>>
                                  ELSE <<[kind |-> "getblocks", from |-> want[1], to |-> want[2]]>>))
                   /\ UNCHANGED <<tip, helper, toNode>>
    BY <1>1, <1>2 DEF CatchUpStep
<1>4. tip \in Nat /\ n \in Followers(tip) /\ OneState(n) /\ budget \in Nat
    <2>1. tip \in Nat /\ node \in Followers(tip) /\ OneState(node)
        BY DEF CatchUpInv
    <2>2. node.asked \/ state \in BOOLEAN
        BY <1>1, <2>1 DEF Followers
    <2>3. n \in Followers(tip) /\ n.height = node.height /\ n.parts = node.parts
        BY <1>2, <2>1, <2>2 DEF Followers
    <2>4. budget \in Nat
        BY CatchUpAssumption
    <2> QED
        BY <2>1, <2>3, <2>4 DEF OneState
<1>5. moved \in Followers(tip) /\ OneState(moved)
    BY <1>3, <1>4, AdvancingInOrder
<1>6. PICK want : want = Wanted(moved) /\ (want = <<>> \/ \E from, to \in Nat : want = <<from, to>>)
    BY <1>4, <1>5, BlocksAreAskedFor
<1>7. PICK ask : /\ ask = (IF state THEN <<[kind |-> "getsnapshot"]>> ELSE <<>>)
                          \o (IF want = <<>> THEN <<>>
                              ELSE <<[kind |-> "getblocks", from |-> want[1], to |-> want[2]]>>)
                 /\ ask \in Seq(Questions)
    <2>1. (IF state THEN <<[kind |-> "getsnapshot"]>> ELSE <<>>) \in Seq(Questions)
        <3>1. [kind |-> "getsnapshot"] \in Questions
            BY DEF Questions
        <3> QED
            BY <3>1
    <2>2. (IF want = <<>> THEN <<>> ELSE <<[kind |-> "getblocks", from |-> want[1], to |-> want[2]]>>) \in Seq(Questions)
        <3>1. CASE want = <<>>
            BY <3>1
        <3>2. CASE want # <<>>
            <4>1. PICK from, to \in Nat : want = <<from, to>>
                BY <1>6, <3>2
            <4>2. want[1] = from /\ want[2] = to
                BY <4>1
            <4>3. PICK q : q = [kind |-> "getblocks", from |-> want[1], to |-> want[2]] /\ q \in Questions
                <5>1. [kind |-> "getblocks", from |-> from, to |-> to] \in Questions
                    BY DEF Questions
                <5> QED
                    BY <4>2, <5>1
            <4>4. <<q>> \in Seq(Questions)
                BY <4>3
            <4> QED
                BY <3>2, <4>3, <4>4
        <3> QED
            BY <3>1, <3>2
    <2>3. \A a, b \in Seq(Questions) : a \o b \in Seq(Questions)
        OBVIOUS
    <2>4. PICK a \in Seq(Questions) : a = IF state THEN <<[kind |-> "getsnapshot"]>> ELSE <<>>
        BY <2>1
    <2>5. PICK b \in Seq(Questions) :
            b = IF want = <<>> THEN <<>> ELSE <<[kind |-> "getblocks", from |-> want[1], to |-> want[2]]>>
        BY <2>2
    <2> QED
        BY <2>3, <2>4, <2>5
<1>8. toHelper' = [h \in Helpers |-> toHelper[h] \o Lacking(ask, ToSet(toHelper[h]))]
    BY <1>3, <1>6, <1>7 DEF Asks, NotOnItsWay
<1>9. toHelper' \in [Helpers -> Seq(Questions)]
    <2>1. \A h \in Helpers : toHelper[h] \o Lacking(ask, ToSet(toHelper[h])) \in Seq(Questions)
        <3> SUFFICES ASSUME NEW h \in Helpers
                     PROVE  toHelper[h] \o Lacking(ask, ToSet(toHelper[h])) \in Seq(Questions)
            OBVIOUS
        <3>1. toHelper[h] \in Seq(Questions) /\ Lacking(ask, ToSet(toHelper[h])) \in Seq(Questions)
            BY <1>7, LeftToAsk DEF CatchUpInv
        <3> QED
            BY <3>1
    <2> QED
        BY <1>8, <2>1
<1> QED
    BY <1>3, <1>5, <1>9 DEF CatchUpInv

LEMMA TakenInTurn ==
    ASSUME CatchUpInv, NEW h \in Helpers, toNode[h] # <<>>, Took(h)
    PROVE  toNode' \in [Helpers -> Seq(Replies(tip))] /\ Head(toNode[h]) \in Replies(tip)
<1>1. toNode[h] \in Seq(Replies(tip))
    BY DEF CatchUpInv
<1>2. Head(toNode[h]) \in Replies(tip) /\ Tail(toNode[h]) \in Seq(Replies(tip))
    BY <1>1
<1> QED
    BY <1>2 DEF CatchUpInv, Took

\* A helper is asked for more chunks.
LEMMA ChunksAreAsked ==
    ASSUME CatchUpInv, NEW h \in Helpers, NEW inbound, NEW queue,
           toHelper' = [toHelper EXCEPT ![h] = toHelper[h] \o AskForChunks(inbound, queue)]
    PROVE  toHelper' \in [Helpers -> Seq(Questions)]
<1>1. toHelper[h] \in Seq(Questions) /\ AskForChunks(inbound, queue) \in Seq(Questions)
    BY ChunksAreAskedFor DEF CatchUpInv
<1>2. toHelper[h] \o AskForChunks(inbound, queue) \in Seq(Questions)
    BY <1>1
<1> QED
    BY <1>2 DEF CatchUpInv

LEMMA NodeTakes ==
    ASSUME CatchUpInv, NEW h \in Helpers, TakeBlocks(h) \/ BeginSnapshot(h) \/ TakeChunk(h)
    PROVE  CatchUpInv'
<1>0. tip \in Nat /\ node \in Followers(tip) /\ OneState(node)
    BY DEF CatchUpInv
<1>1. PICK m : m = Head(toNode[h]) /\ m \in Replies(tip) /\ toNode' \in [Helpers -> Seq(Replies(tip))]
    BY TakenInTurn DEF TakeBlocks, BeginSnapshot, TakeChunk, Arrived
<1>2. CASE TakeBlocks(h)
    <2>1. m.bodies \in Seq(BodiesUpTo(tip))
        BY <1>1, <1>2 DEF TakeBlocks, Arrived, Replies
    <2>2. node' = AbsorbBlocks(node, m.bodies) /\ UNCHANGED <<tip, helper, toHelper>>
        BY <1>1, <1>2 DEF TakeBlocks
    <2>3. node' \in Followers(tip) /\ OneState(node')
        BY <1>0, <2>1, <2>2, AbsorbingKeeps DEF OneState
    <2> QED
        BY <1>1, <2>2, <2>3 DEF CatchUpInv
<1>3. CASE BeginSnapshot(h)
    <2>1. PICK offer : offer = [from |-> h, height |-> m.height, chunks |-> <<>>]
        OBVIOUS
    <2>2. /\ UNCHANGED <<tip, helper>>
          /\ IF offer.height <= node.height THEN UNCHANGED <<node, toHelper>>
             ELSE /\ node' = [node EXCEPT !.inbound = offer]
                  /\ toHelper' = [toHelper EXCEPT ![h] = toHelper[h] \o AskForChunks(offer, toHelper[h])]
        BY <1>1, <1>3, <2>1 DEF BeginSnapshot
    <2>3. m.height \in 0..tip
        BY <1>1, <1>3 DEF BeginSnapshot, Arrived, Replies
    <2>4. offer \in Offers(tip)
        <3>1. <<>> \in [{} -> Nat] /\ {} \in SUBSET ToSet(Parts)
            OBVIOUS
        <3>2. <<>> \in Chunks
            BY <3>1 DEF Chunks
        <3> QED
            BY <2>1, <2>3, <3>2 DEF Offers
    <2>5. node' \in Followers(tip) /\ OneState(node')
        BY <1>0, <2>2, <2>4 DEF Followers, OneState
    <2>6. toHelper' \in [Helpers -> Seq(Questions)]
        <3>1. CASE offer.height <= node.height
            BY <2>2, <3>1 DEF CatchUpInv
        <3>2. CASE ~(offer.height <= node.height)
            BY <2>2, <3>2, ChunksAreAsked
        <3> QED
            BY <3>1, <3>2
    <2> QED
        BY <1>1, <2>2, <2>5, <2>6 DEF CatchUpInv
<1>4. CASE TakeChunk(h)
    <2>1. PICK in : in = node.inbound
        OBVIOUS
    <2>2. PICK chunks : chunks = [p \in DOMAIN in.chunks \cup {m.part} |-> IF p = m.part THEN m.payload ELSE in.chunks[p]]
        OBVIOUS
    <2>3. PICK offer : offer = [in EXCEPT !.chunks = chunks]
        OBVIOUS
    <2>4. /\ UNCHANGED <<tip, helper>>
          /\ IF in = NoOffer \/ in.from # h THEN UNCHANGED <<node, toHelper>>
             ELSE IF DOMAIN chunks # ToSet(Parts)
             THEN /\ node' = [node EXCEPT !.inbound = offer]
                  /\ toHelper' = [toHelper EXCEPT ![h] = toHelper[h] \o AskForChunks(offer, toHelper[h])]
             ELSE node' = Finish(node, offer) /\ UNCHANGED toHelper
        BY <1>1, <1>4, <2>1, <2>2, <2>3 DEF TakeChunk
    <2>5. CASE in = NoOffer \/ in.from # h
        BY <1>0, <1>1, <2>4, <2>5 DEF CatchUpInv
    <2>6. CASE ~(in = NoOffer \/ in.from # h)
        <3>1. m.part \in ToSet(Parts) /\ m.payload \in Nat
            BY <1>1, <1>4 DEF TakeChunk, Arrived, Replies
        <3>2. in \in Offers(tip)
            BY <1>0, <2>1, <2>6 DEF Followers
        <3>3. chunks \in Chunks
            <4>1. PICK S \in SUBSET ToSet(Parts) : in.chunks \in [S -> Nat]
                BY <3>2 DEF Offers, Chunks
            <4>2. S \cup {m.part} \in SUBSET ToSet(Parts) /\ chunks \in [S \cup {m.part} -> Nat]
                BY <2>2, <3>1, <4>1
            <4> QED
                BY <4>2 DEF Chunks
        <3>4. offer \in Offers(tip) /\ offer.chunks = chunks
            BY <2>3, <3>2, <3>3 DEF Offers
        <3>5. CASE DOMAIN chunks # ToSet(Parts)
            <4>1. node' = [node EXCEPT !.inbound = offer]
                  /\ toHelper' = [toHelper EXCEPT ![h] = toHelper[h] \o AskForChunks(offer, toHelper[h])]
                BY <2>4, <2>6, <3>5
            <4>2. node' \in Followers(tip) /\ OneState(node')
                BY <1>0, <3>4, <4>1 DEF Followers, OneState
            <4>3. toHelper' \in [Helpers -> Seq(Questions)]
                BY <4>1, ChunksAreAsked
            <4> QED
                BY <1>1, <2>4, <4>2, <4>3 DEF CatchUpInv
        <3>6. CASE DOMAIN chunks = ToSet(Parts)
            <4>1. node' = Finish(node, offer) /\ UNCHANGED toHelper
                BY <2>4, <2>6, <3>6
            <4>2. node' \in Followers(tip) /\ OneState(node')
                BY <1>0, <3>4, <3>6, <4>1, FinishingIsWhole
            <4> QED
                BY <1>1, <2>4, <4>1, <4>2 DEF CatchUpInv
        <3> QED
            BY <3>5, <3>6
    <2> QED
        BY <2>5, <2>6
<1> QED
    BY <1>2, <1>3, <1>4

LEMMA CatchUpStepKeeps == CatchUpInv /\ [CatchUpNext]_catchUpVars => CatchUpInv'
<1> SUFFICES ASSUME CatchUpInv, [CatchUpNext]_catchUpVars PROVE CatchUpInv'
    OBVIOUS
<1>0. tip \in Nat /\ node \in Followers(tip) /\ OneState(node)
    BY DEF CatchUpInv
<1>1. ASSUME NoteHeight(tip) \/ NoteHeight(tip + 1) \/ NewEpoch PROVE CatchUpInv'
    <2>1. UNCHANGED <<tip, helper, toHelper, toNode>>
        BY <1>1 DEF NoteHeight, NewEpoch
    <2>2. node' \in Followers(tip) /\ node'.height = node.height /\ node'.parts = node.parts
        <3>1. CASE NewEpoch
            BY <1>0, <3>1 DEF NewEpoch, Followers
        <3>2. CASE NoteHeight(tip) \/ NoteHeight(tip + 1)
            <4>1. PICK height \in Nat : node' = [node EXCEPT !.target = height]
                <5>1. tip \in Nat /\ tip + 1 \in Nat
                    BY <1>0
                <5> QED
                    BY <3>2, <5>1 DEF NoteHeight
            <4> QED
                BY <1>0, <4>1 DEF Followers
        <3> QED
            BY <1>1, <3>1, <3>2
    <2>3. OneState(node')
        BY <1>0, <2>2 DEF OneState
    <2> QED
        BY <2>1, <2>2, <2>3 DEF CatchUpInv
<1>2. ASSUME NEW h \in Helpers, LoseConnection(h) PROVE CatchUpInv'
    <2>1. <<>> \in Seq(Questions) /\ <<>> \in Seq(Replies(tip))
        OBVIOUS
    <2>2. toHelper' \in [Helpers -> Seq(Questions)] /\ toNode' \in [Helpers -> Seq(Replies(tip))]
        BY <1>2, <2>1 DEF LoseConnection, CatchUpInv
    <2> QED
        BY <1>2, <2>2 DEF LoseConnection, CatchUpInv
<1>3. CASE Restart
    <2>1. <<>> \in UNION {[S -> Bodies] : S \in SUBSET (0..tip)}
        <3>1. <<>> \in [{} -> Bodies] /\ {} \in SUBSET (0..tip)
            OBVIOUS
        <3> QED
            BY <3>1
    <2>2. node' \in Followers(tip) /\ OneState(node')
        BY <1>0, <1>3, <2>1 DEF Restart, Fresh, Followers, OneState
    <2>3. toHelper' \in [Helpers -> Seq(Questions)] /\ toNode' \in [Helpers -> Seq(Replies(tip))]
        BY <1>3 DEF Restart
    <2> QED
        BY <1>3, <2>2, <2>3 DEF Restart, CatchUpInv
<1>4. CASE UNCHANGED catchUpVars
    BY <1>4 DEF catchUpVars, CatchUpInv
<1> QED
    BY <1>1, <1>2, <1>3, <1>4, TheNetworkMovesOn, OfferIsKept, HelperAnswers, NodeAsks, NodeTakes DEF CatchUpNext

\* Type correctness of CatchUp, and its inductive invariant: what is on disk, in caches
\* and on the wire was agreed, as far as it is certified.
THEOREM CatchUpInvariance == CatchUpSpec => []CatchUpInv
<1>1. CatchUpInit => CatchUpInv
    <2> SUFFICES ASSUME CatchUpInit PROVE CatchUpInv
        OBVIOUS
    <2>1. <<>> \in UNION {[S -> Bodies] : S \in SUBSET (0..0)} /\ <<>> \in UNION {[S -> Bodies] : S \in SUBSET Nat}
        <3>1. <<>> \in [{} -> Bodies] /\ {} \in SUBSET (0..0) /\ {} \in SUBSET Nat
            OBVIOUS
        <3> QED
            BY <3>1
    <2>2. node \in Followers(0) /\ OneState(node) /\ tip = 0
        <3>1. PICK parts : parts = StateAt(0)
            OBVIOUS
        <3>2. parts \in [ToSet(Parts) -> Nat] /\ \A p \in ToSet(Parts) : parts[p] = 0
            BY <3>1, StatesAreWhole
        <3>3. node = [height |-> 0, parts |-> parts, adopted |-> FALSE, target |-> 0,
                      blocks |-> <<>>, asked |-> FALSE, inbound |-> NoOffer] /\ tip = 0
            BY <3>1 DEF CatchUpInit, Fresh
        <3>4. node \in Followers(0) /\ node.height = 0 /\ node.parts = parts
            <4>1. 0 \in 0..0 /\ FALSE \in BOOLEAN /\ NoOffer \in {NoOffer} \cup Offers(0)
                OBVIOUS
            <4>2. PICK offer \in {NoOffer} \cup Offers(0) : offer = NoOffer
                OBVIOUS
            <4>3. PICK buffer \in UNION {[S -> Bodies] : S \in SUBSET (0..0)} : buffer = <<>>
                BY <2>1
            <4>4. node = [height |-> 0, parts |-> parts, adopted |-> FALSE, target |-> 0,
                          blocks |-> buffer, asked |-> FALSE, inbound |-> offer]
                BY <3>3, <4>2, <4>3
            <4> QED
                BY <3>2, <4>1, <4>4 DEF Followers
        <3> QED
            BY <3>2, <3>3, <3>4 DEF OneState
    <2>3. \A h \in Helpers : helper[h] \in Caches(0) /\ Backed(helper[h])
        <3> SUFFICES ASSUME NEW h \in Helpers PROVE helper[h] \in Caches(0) /\ Backed(helper[h])
            OBVIOUS
        <3>1. helper[h] = [order |-> <<>>, byHeight |-> <<>>, offered |-> 0]
            BY DEF CatchUpInit
        <3>2. PICK index \in UNION {[S -> Bodies] : S \in SUBSET Nat} : index = <<>>
            BY <2>1
        <3>3. <<>> \in Seq(Cacheable(0))
            OBVIOUS
        <3>4. helper[h] \in Caches(0)
            BY <3>1, <3>2, <3>3 DEF Caches
        <3>5. DOMAIN helper[h].byHeight = {}
            BY <3>1
        <3> QED
            BY <3>4, <3>5 DEF Backed
    <2>4. helper \in [Helpers -> Caches(0)]
        BY <2>3 DEF CatchUpInit
    <2>5. toHelper \in [Helpers -> Seq(Questions)] /\ toNode \in [Helpers -> Seq(Replies(0))]
        BY DEF CatchUpInit
    <2> QED
        BY <2>2, <2>3, <2>4, <2>5 DEF CatchUpInv
<1> QED
    BY <1>1, CatchUpStepKeeps, PTL DEF CatchUpSpec

\* For any number of helpers, views and parts, any window, batch and tip: over lost
\* connections, restarts, answers that do not hold and snapshots that change while they
\* are sent, a node holds the state of one agreed height and never of one ahead of the
\* network (net/catchup.py, Catchup.advance; net/node.py, _finish_snapshot and
\* _adopt_snapshot).
THEOREM FollowersHoldOneState == CatchUpSpec => []HoldsOneState
<1>1. CatchUpInv => HoldsOneState
    BY DEF CatchUpInv, HoldsOneState, Followers, OneState
<1> QED
    BY <1>1, CatchUpInvariance, PTL

-----------------------------------------------------------------------------
(***************************************************************************)
(* Why stamps witness: heights harden in an unbroken run, a turn is drawn    *)
(* for one height, and what counts in a pool was signed for that height.     *)
(***************************************************************************)
Stampers == [height : Nat, pending : SUBSET Heights, stamped : SUBSET Heights,
             pool : [Heights -> SUBSET Turns], wrong : [Heights -> SUBSET Turns],
             history : Seq(SUBSET Turns)]
Broadcasts == [to : Seats, height : Heights, turns : SUBSET Turns]

\* What is drawn and stands in the pool under its height was signed; the rest is stray.
PoolIsSigned(keeper) ==
    \A h \in Heights : \A t \in (keeper.pool[h] \cap draws[h]) \ keeper.wrong[h] : h \in signed[t]
Witnessed(history) ==
    \A h \in 1..Len(history) :
        /\ h \in Heights /\ history[h] \subseteq draws[h] /\ Cardinality(history[h]) >= Threshold
        /\ \A t \in history[h] : h \in signed[t]
WireIsSigned(wire) == \A m \in wire : \A t \in m.turns : m.height \in signed[t]

StampInv ==
    /\ draws \in Schedules
    /\ stamper \in [Seats -> Stampers] /\ stamps \subseteq Broadcasts
    /\ signed \in [Turns -> SUBSET Heights]
    /\ \A t \in Turns : \A h \in signed[t] : t \in draws[h]
    /\ \A seat \in Seats : PoolIsSigned(stamper[seat]) /\ Witnessed(stamper[seat].history)
    /\ WireIsSigned(stamps)

\* A turn is drawn once.
LEMMA DrawnOnce ==
    ASSUME draws \in Schedules
    PROVE  /\ \A h \in Heights : draws[h] \subseteq Turns
           /\ \A g, h \in Heights : g # h => draws[g] \cap draws[h] = {}
<1>1. \A h \in Heights : draws[h] \subseteq Turns \ ConsumedBefore(draws, h)
    <2>1. \A h \in Heights : draws[h] \in Drawable(ConsumedBefore(draws, h))
        BY DEF Schedules
    <2>2. \A spent : \A s \in Drawable(spent) : s \subseteq Turns \ spent
        BY DEF Drawable, Exhausted, kSubset
    <2> QED
        BY <2>1, <2>2
<1>2. \A g, h \in Heights : g < h => draws[g] \subseteq ConsumedBefore(draws, h)
    <2> SUFFICES ASSUME NEW g \in Heights, NEW h \in Heights, g < h
                 PROVE  draws[g] \subseteq ConsumedBefore(draws, h)
        OBVIOUS
    <2>1. g \in 1..(h - 1)
        BY DEF Heights
    <2> QED
        BY <2>1 DEF ConsumedBefore
<1>3. \A g, h \in Heights : g < h => draws[g] \cap draws[h] = {}
    BY <1>1, <1>2
<1>4. \A g, h \in Heights : g # h => g < h \/ h < g
    BY DEF Heights
<1> QED
    BY <1>1, <1>3, <1>4

\* What hardens at once is a run of heights, from the first that is not history.
LEMMA HardensInOrder ==
    ASSUME NEW keeper \in Stampers, NEW seat
    PROVE  LET n == Cardinality(Hardens(keeper, seat))
           IN /\ n \in Nat /\ Hardens(keeper, seat) = NextHeight(keeper) .. NextHeight(keeper) + n - 1
              /\ \A h \in Hardens(keeper, seat) :
                   h \in Heights /\ h \in keeper.pending /\ CanHarden(Pooled(keeper, seat, h), keeper.wrong[h], draws[h])
<1> DEFINE hardens == Hardens(keeper, seat)
           Good(g) == g \in keeper.pending /\ CanHarden(Pooled(keeper, seat, g), keeper.wrong[g], draws[g])
<1>1. PICK next : next = NextHeight(keeper) /\ next \in Nat
    BY DEF NextHeight, Stampers
<1>2. hardens = {h \in keeper.pending : \A g \in next..h : Good(g)} \cap {h \in Heights : h >= next}
    BY <1>1 DEF Hardens
<1>3. \A h \in hardens : h \in Heights /\ h >= next /\ h \in Nat /\ h <= MaxHeight /\ \A g \in next..h : Good(g)
    BY <1>2, HeightsAreBounded DEF Heights
<1> HIDE DEF Good
<1>4. \A h \in hardens : Good(h)
    BY <1>1, <1>3
<1>5. PICK stop \in Nat : stop >= next /\ stop \notin hardens
                          /\ \A g \in Nat : g >= next /\ g < stop => g \in hardens
    <2> DEFINE T == {k \in Nat : k >= next /\ k \notin hardens}
    <2>1. next + MaxHeight + 1 \in T
        <3>1. next + MaxHeight + 1 \in Nat /\ next + MaxHeight + 1 >= next /\ ~(next + MaxHeight + 1 <= MaxHeight)
            BY <1>1, HeightsAreBounded
        <3> QED
            BY <1>3, <3>1
    <2>2. T \in SUBSET Nat /\ T # {}
        BY <2>1
    <2>3. PICK m \in T : \A k \in T : m <= k
        BY <2>2, LeastOfSome
    <2>4. \A g \in Nat : g >= next /\ g < m => g \notin T
        BY <2>3
    <2> QED
        BY <2>3, <2>4
<1>6. hardens = next .. stop - 1
    <2>1. \A h \in hardens : h < stop
        <3> SUFFICES ASSUME NEW h \in hardens, h >= stop PROVE FALSE
            BY <1>3
        <3>1. stop \in next..h /\ \A g \in next..stop : g \in next..h
            BY <1>1, <1>3, <1>5
        <3>2. Good(stop) /\ \A g \in next..stop : Good(g)
            BY <1>3, <3>1
        <3>3. stop \in Heights
            BY <1>3, <1>5, <1>1, <3>1, HeightsAreBounded DEF Heights, NextHeight, Stampers
        <3>4. stop \in hardens
            BY <1>2, <1>5, <3>2, <3>3 DEF Good
        <3> QED
            BY <1>5, <3>4
    <2>2. \A h \in hardens : h \in next .. stop - 1
        BY <1>1, <1>3, <1>5, <2>1
    <2>3. \A h \in next .. stop - 1 : h \in hardens
        BY <1>1, <1>5
    <2> QED
        BY <2>2, <2>3
<1> HIDE DEF hardens
<1>7. Cardinality(hardens) = stop - next
    <2>1. next \in Int /\ stop - 1 \in Int
        BY <1>1, <1>5
    <2>2. Cardinality(next .. stop - 1) = IF next > stop - 1 THEN 0 ELSE (stop - 1) - next + 1
        BY <2>1, FS_Interval
    <2> QED
        BY <1>1, <1>5, <1>6, <2>2
<1>8. stop - next \in Nat /\ next + (stop - next) - 1 = stop - 1
    BY <1>1, <1>5
<1> QED
    BY <1>1, <1>3, <1>4, <1>6, <1>7, <1>8 DEF hardens, Good

\* What a node knows is signed stays so, and what it mines becomes so.
LEMMA AdvancingKeeps ==
    ASSUME StampInv, UNCHANGED draws, NEW keeper \in Stampers, NEW seat \in Seats,
           NEW wire \in SUBSET Broadcasts, WireIsSigned(wire),
           PoolIsSigned(keeper), Witnessed(keeper.history),
           AdvanceHardening(keeper, seat, wire)
    PROVE  StampInv'
<1> DEFINE Assemble(h) == Assembled(Pooled(keeper, seat, h), draws[h])
<1>a. PICK hardens \in {Hardens(keeper, seat)} :
      \E visited \in {hardens \cup (keeper.pending \cap {NextHeight(keeper) + Cardinality(hardens)})} :
      \E sent \in {Answers(keeper, seat, visited)} :
        /\ stamper' = [stamper EXCEPT ![seat] = Advanced(keeper, seat, hardens, visited)]
        /\ stamps' = wire \cup ToEach(Seats \ {seat}, sent)
        /\ signed' = [t \in Turns |-> signed[t] \cup {m.height : m \in {s \in sent : t \in s.turns}}]
    BY DEF AdvanceHardening
<1>b. PICK visited \in {hardens \cup (keeper.pending \cap {NextHeight(keeper) + Cardinality(hardens)})} :
      \E sent \in {Answers(keeper, seat, visited)} :
        /\ stamper' = [stamper EXCEPT ![seat] = Advanced(keeper, seat, hardens, visited)]
        /\ stamps' = wire \cup ToEach(Seats \ {seat}, sent)
        /\ signed' = [t \in Turns |-> signed[t] \cup {m.height : m \in {s \in sent : t \in s.turns}}]
    BY <1>a
<1>c. PICK sent \in {Answers(keeper, seat, visited)} :
        /\ stamper' = [stamper EXCEPT ![seat] = Advanced(keeper, seat, hardens, visited)]
        /\ stamps' = wire \cup ToEach(Seats \ {seat}, sent)
        /\ signed' = [t \in Turns |-> signed[t] \cup {m.height : m \in {s \in sent : t \in s.turns}}]
    BY <1>b
<1> DEFINE n == Cardinality(hardens)
           l == Len(keeper.history)
<1>0. /\ hardens = Hardens(keeper, seat) /\ n = Cardinality(hardens) /\ l = Len(keeper.history)
      /\ visited = hardens \cup (keeper.pending \cap {NextHeight(keeper) + n})
      /\ sent = {[height |-> h, turns |-> Mined(keeper, seat, h)] : h \in visited} \ [height : visited, turns : {{}}]
      /\ stamps' = wire \cup {[to |-> to, height |-> m.height, turns |-> m.turns] :
                                 to \in Seats \ {seat}, m \in sent}
      /\ signed' = [t \in Turns |-> signed[t] \cup {m.height : m \in {s \in sent : t \in s.turns}}]
    BY <1>c DEF Answers, ToEach
<1>1. /\ n \in Nat /\ l \in Nat /\ hardens = l + 1 .. l + n
      /\ \A h \in hardens : h \in Heights /\ h \in keeper.pending /\ CanHarden(Pooled(keeper, seat, h), keeper.wrong[h], draws[h])
    <2>1. l \in Nat /\ NextHeight(keeper) = l + 1
        BY <1>0 DEF NextHeight, Stampers
    <2>2. /\ n \in Nat /\ hardens = NextHeight(keeper) .. NextHeight(keeper) + n - 1
          /\ \A h \in hardens : h \in Heights /\ h \in keeper.pending /\ CanHarden(Pooled(keeper, seat, h), keeper.wrong[h], draws[h])
        BY <1>0, HardensInOrder
    <2>3. (l + 1) + n - 1 = l + n
        BY <2>1, <2>2
    <2> QED
        BY <2>1, <2>2, <2>3
<1>2. draws \in Schedules /\ \A h \in Heights : draws[h] \subseteq Turns
    BY DrawnOnce DEF StampInv
<1>3. visited \subseteq Heights
    BY <1>0, <1>1 DEF Stampers
<1>4. \A h \in Heights : Mined(keeper, seat, h) \subseteq draws[h] /\ Pooled(keeper, seat, h) \subseteq Turns
                         /\ Mined(keeper, seat, h) \subseteq Turns
    BY <1>2 DEF Mined, Pooled, Stampers
<1>5. \A t \in Turns : signed'[t] = signed[t] \cup {h \in visited : t \in Mined(keeper, seat, h)}
    <2> SUFFICES ASSUME NEW t \in Turns
                 PROVE  {m.height : m \in {s \in sent : t \in s.turns}} = {h \in visited : t \in Mined(keeper, seat, h)}
        BY <1>0
    <2>1. ASSUME NEW m \in sent, t \in m.turns PROVE m.height \in visited /\ t \in Mined(keeper, seat, m.height)
        BY <1>0, <2>1
    <2>2. ASSUME NEW h \in visited, t \in Mined(keeper, seat, h)
          PROVE  \E m \in sent : t \in m.turns /\ m.height = h
        <3> DEFINE m == [height |-> h, turns |-> Mined(keeper, seat, h)]
        <3>1. m.turns # {} /\ m.height = h /\ t \in m.turns
            BY <2>2
        <3>2. m \in {[height |-> g, turns |-> Mined(keeper, seat, g)] : g \in visited}
            OBVIOUS
        <3>3. m \notin [height : visited, turns : {{}}]
            BY <3>1
        <3> HIDE DEF m
        <3> QED
            BY <1>0, <3>1, <3>2, <3>3
    <2> QED
        BY <2>1, <2>2
<1>6. \A m \in sent : /\ m.height \in visited /\ m.turns = Mined(keeper, seat, m.height)
    BY <1>0
<1>7. signed' \in [Turns -> SUBSET Heights] /\ (\A t \in Turns : signed[t] \subseteq signed'[t])
      /\ \A t \in Turns : \A h \in signed'[t] : t \in draws'[h]
    <2>1. \A t \in Turns : signed'[t] \subseteq Heights
        BY <1>3, <1>5 DEF StampInv
    <2>2. signed' = [t \in Turns |-> signed'[t]]
        BY <1>0
    <2>3. \A t \in Turns : \A h \in signed'[t] : t \in draws[h]
        BY <1>3, <1>4, <1>5 DEF StampInv
    <2> QED
        BY <1>5, <2>1, <2>2, <2>3
<1>8. stamps' \subseteq Broadcasts /\ WireIsSigned(stamps)'
    <2>1. \A m \in stamps' : m \in Broadcasts /\ \A t \in m.turns : m.height \in signed'[t]
        <3> SUFFICES ASSUME NEW m \in stamps' PROVE m \in Broadcasts /\ \A t \in m.turns : m.height \in signed'[t]
            OBVIOUS
        <3>1. CASE m \in wire
            <4>1. m \in Broadcasts /\ m.turns \subseteq Turns
                BY <3>1 DEF Broadcasts
            <4> QED
                BY <1>7, <3>1, <4>1 DEF WireIsSigned
        <3>2. CASE m \notin wire
            <4>1. PICK to \in Seats \ {seat}, s \in sent : m = [to |-> to, height |-> s.height, turns |-> s.turns]
                BY <1>0, <3>2
            <4>2. s.height \in visited /\ s.height \in Heights /\ s.turns = Mined(keeper, seat, s.height) /\ s.turns \subseteq Turns
                BY <1>3, <1>4, <1>6
            <4>3. m \in Broadcasts
                BY <4>1, <4>2 DEF Broadcasts
            <4>4. \A t \in s.turns : s.height \in signed'[t]
                BY <1>5, <4>2
            <4> QED
                BY <4>1, <4>3, <4>4
        <3> QED
            BY <3>1, <3>2
    <2> QED
        BY <2>1 DEF WireIsSigned
<1> DEFINE pool == [h \in Heights |-> IF h \in visited THEN Pooled(keeper, seat, h) ELSE keeper.pool[h]]
           fresh == [i \in 1..n |-> Assemble(l + i)]
           kept == keeper.history \o fresh
           moved == [keeper EXCEPT !.pending = @ \ hardens, !.stamped = @ \cup visited,
                                 !.pool = pool, !.history = kept]
<1>9. stamper' = [stamper EXCEPT ![seat] = moved]
    BY <1>c DEF Advanced
<1>10. pool \in [Heights -> SUBSET Turns]
       /\ \A h \in Heights : \A t \in (pool[h] \cap draws[h]) \ keeper.wrong[h] : h \in signed'[t]
    <2>1. \A h \in Heights : pool[h] \subseteq Turns
        BY <1>4 DEF Stampers
    <2>2. ASSUME NEW h \in Heights, NEW t \in (pool[h] \cap draws[h]) \ keeper.wrong[h]
          PROVE  h \in signed'[t]
        <3>1. t \in Turns
            BY <2>1
        <3>2. CASE t \in keeper.pool[h]
            BY <1>7, <2>2, <3>1, <3>2 DEF PoolIsSigned
        <3>3. CASE t \notin keeper.pool[h]
            <4>1. h \in visited /\ t \in Mined(keeper, seat, h)
                BY <2>2, <3>3 DEF Pooled
            <4> QED
                BY <1>5, <3>1, <4>1
        <3> QED
            BY <3>2, <3>3
    <2> HIDE DEF pool
    <2> QED
        <3>1. pool = [h \in Heights |-> pool[h]]
            BY DEF pool
        <3> QED
            BY <2>1, <2>2, <3>1
<1>11. \A i \in 1..n : /\ l + i \in Heights /\ fresh[i] \subseteq draws[l + i] /\ fresh[i] \subseteq Turns
                       /\ Cardinality(fresh[i]) >= Threshold
                       /\ \A t \in fresh[i] : l + i \in signed'[t]
    <2> SUFFICES ASSUME NEW i \in 1..n
                 PROVE  /\ l + i \in Heights /\ Assemble(l + i) \subseteq draws[l + i] /\ Assemble(l + i) \subseteq Turns
                        /\ Cardinality(Assemble(l + i)) >= Threshold
                        /\ \A t \in Assemble(l + i) : l + i \in signed'[t]
        OBVIOUS
    <2>1. PICK h : h = l + i /\ h \in hardens
        BY <1>1
    <2>2. h \in Heights /\ h \in visited /\ CanHarden(Pooled(keeper, seat, h), keeper.wrong[h], draws[h])
        BY <1>0, <1>1, <2>1
    <2>3. Assemble(h) = Pooled(keeper, seat, h) \cap draws[h]
        BY DEF Assembled
    <2>4. Assemble(h) \subseteq Turns /\ Assemble(h) \subseteq draws[h]
        BY <1>2, <2>2, <2>3
    <2>5. Cardinality(Assemble(h)) >= Threshold
        BY <2>2 DEF CanHarden
    <2>6. ASSUME NEW t \in Assemble(h) PROVE h \in signed'[t]
        <3>1. t \in pool[h] /\ t \in draws[h] /\ t \notin keeper.wrong[h]
            BY <2>2, <2>3, <2>6 DEF CanHarden, Assembled
        <3> HIDE DEF pool, Assemble
        <3> QED
            BY <1>10, <2>2, <3>1
    <2> HIDE DEF Assemble
    <2> QED
        BY <2>1, <2>2, <2>4, <2>5, <2>6
<1>12. kept \in Seq(SUBSET Turns)
       /\ \A h \in 1..Len(kept) :
            /\ h \in Heights /\ kept[h] \subseteq draws[h] /\ Cardinality(kept[h]) >= Threshold
            /\ \A t \in kept[h] : h \in signed'[t]
    <2>1. keeper.history \in Seq(SUBSET Turns) /\ fresh \in Seq(SUBSET Turns) /\ Len(fresh) = n
        <3>1. \A i \in 1..n : fresh[i] \in SUBSET Turns
            BY <1>11
        <3>2. fresh = [i \in 1..n |-> fresh[i]]
            OBVIOUS
        <3>3. keeper.history \in Seq(SUBSET Turns)
            BY DEF Stampers
        <3> HIDE DEF fresh, n
        <3> QED
            BY <1>1, <3>1, <3>2, <3>3
    <2> HIDE DEF fresh, n, l
    <2>2. kept \in Seq(SUBSET Turns) /\ Len(kept) = l + n
        BY <1>0, <2>1
    <2>3. \A h \in 1..l : kept[h] = keeper.history[h]
        BY <1>0, <2>1
    <2>4. \A h \in l + 1 .. l + n : kept[h] = fresh[h - l]
        BY <1>0, <1>1, <2>1
    <2> HIDE DEF kept
    <2>5. ASSUME NEW h \in 1..l + n
          PROVE  /\ h \in Heights /\ kept[h] \subseteq draws[h] /\ Cardinality(kept[h]) >= Threshold
                 /\ \A t \in kept[h] : h \in signed'[t]
        <3>1. CASE h \in 1..l
            <4>1. /\ h \in Heights /\ kept[h] \subseteq draws[h] /\ Cardinality(kept[h]) >= Threshold
                  /\ \A t \in kept[h] : h \in signed[t]
                BY <1>0, <2>3, <3>1 DEF Witnessed
            <4> QED
                BY <1>2, <1>7, <4>1
        <3>2. CASE h \notin 1..l
            <4>1. h \in l + 1 .. l + n
                BY <1>1, <3>2
            <4>2. PICK i \in 1..n : h = l + i /\ kept[h] = fresh[i]
                <5>1. h - l \in 1..n /\ h = l + (h - l)
                    BY <1>1, <4>1
                <5> QED
                    BY <2>4, <4>1, <5>1
            <4> QED
                BY <1>11, <4>2
        <3> QED
            BY <3>1, <3>2
    <2> QED
        BY <2>2, <2>5
<1> HIDE DEF pool, kept, fresh
<1>13. moved \in Stampers /\ moved.pool = pool /\ moved.wrong = keeper.wrong /\ moved.history = kept
    BY <1>3, <1>10, <1>12 DEF Stampers
<1> HIDE DEF moved
<1>14. stamper' \in [Seats -> Stampers] /\ stamper'[seat] = moved
       /\ \A other \in Seats \ {seat} : stamper'[other] = stamper[other]
    BY <1>9, <1>13 DEF StampInv
<1>15. ASSUME NEW other \in Seats
       PROVE  PoolIsSigned(stamper[other])' /\ Witnessed(stamper[other].history)'
    <2>1. CASE other = seat
        <3>1. /\ stamper'[other].pool = pool /\ stamper'[other].wrong = keeper.wrong
              /\ stamper'[other].history = kept
            BY <1>13, <1>14, <2>1
        <3> QED
            BY <1>10, <1>12, <3>1 DEF PoolIsSigned, Witnessed
    <2>2. CASE other # seat
        <3>1. /\ stamper'[other] = stamper[other] /\ stamper[other] \in Stampers
              /\ PoolIsSigned(stamper[other]) /\ Witnessed(stamper[other].history)
            BY <1>14, <2>2 DEF StampInv
        <3>2. \A h \in Heights :
                 \A t \in (stamper[other].pool[h] \cap draws[h]) \ stamper[other].wrong[h] : h \in signed'[t]
            BY <1>2, <1>7, <3>1 DEF PoolIsSigned
        <3>3. \A h \in 1..Len(stamper[other].history) :
                  h \in Heights /\ \A t \in stamper[other].history[h] : t \in Turns /\ h \in signed'[t]
            BY <1>2, <1>7, <3>1 DEF Witnessed
        <3> QED
            BY <3>1, <3>2, <3>3 DEF PoolIsSigned, Witnessed
    <2> QED
        BY <2>1, <2>2
<1> QED
    BY <1>2, <1>7, <1>8, <1>14, <1>15 DEF StampInv

LEMMA StampStep == StampInv /\ [StampingNext]_stampingVars => StampInv'
<1> SUFFICES ASSUME StampInv, [StampingNext]_stampingVars PROVE StampInv'
    OBVIOUS
<1>0. \A seat \in Seats : stamper[seat] \in Stampers
    BY DEF StampInv
<1>1. ASSUME NEW seat \in Seats, Stamp(seat) PROVE StampInv'
    <2>1. PICK height : /\ height = stamper[seat].height + 1 /\ height \in Heights
                        /\ AdvanceHardening([stamper[seat] EXCEPT !.height = height, !.pending = @ \cup {height}],
                                            seat, stamps)
                        /\ UNCHANGED draws
        BY <1>1 DEF Stamp
    <2> DEFINE keeper == [stamper[seat] EXCEPT !.height = height, !.pending = @ \cup {height}]
    <2>2. /\ keeper \in Stampers /\ keeper.history = stamper[seat].history
          /\ keeper.pool = stamper[seat].pool /\ keeper.wrong = stamper[seat].wrong
        <3>1. height \in Nat /\ stamper[seat] \in Stampers
            BY <1>0, <2>1, HeightsAreBounded DEF Heights
        <3> QED
            BY <2>1, <3>1 DEF Stampers
    <2> HIDE DEF keeper
    <2>3. PoolIsSigned(keeper) /\ Witnessed(keeper.history) /\ WireIsSigned(stamps) /\ stamps \in SUBSET Broadcasts
        BY <2>2 DEF StampInv, PoolIsSigned
    <2>4. AdvanceHardening(keeper, seat, stamps)
        BY <2>1 DEF keeper
    <2> QED
        BY <2>1, <2>2, <2>3, <2>4, AdvancingKeeps
<1>2. ASSUME NEW m \in stamps, AbsorbStamps(m) PROVE StampInv'
    <2> DEFINE seat == m.to
               keeper == [stamper[seat] EXCEPT !.pool[m.height] = @ \cup m.turns]
               wire == stamps \ {m}
    <2>1. m \in Broadcasts /\ seat \in Seats /\ m.height \in Heights /\ m.turns \subseteq Turns
          /\ \A t \in m.turns : m.height \in signed[t]
        BY DEF StampInv, Broadcasts, WireIsSigned
    <2>2. AdvanceHardening(keeper, seat, wire) /\ UNCHANGED draws
        BY <1>2 DEF AbsorbStamps
    <2>3. stamper[seat] \in Stampers
        BY <1>0, <2>1
    <2> HIDE DEF seat
    <2>4. /\ keeper \in Stampers /\ keeper.history = stamper[seat].history
          /\ keeper.pool = [stamper[seat].pool EXCEPT ![m.height] = @ \cup m.turns]
          /\ keeper.wrong = stamper[seat].wrong
        BY <2>1, <2>3 DEF Stampers
    <2> HIDE DEF keeper
    <2>5. PoolIsSigned(stamper[seat]) /\ Witnessed(keeper.history)
        BY <2>1, <2>4 DEF StampInv
    <2>6. PoolIsSigned(keeper)
        BY <2>1, <2>3, <2>4, <2>5 DEF PoolIsSigned, Stampers
    <2>7. WireIsSigned(wire) /\ wire \in SUBSET Broadcasts
        BY DEF StampInv, WireIsSigned
    <2> HIDE DEF wire
    <2> QED
        BY <2>1, <2>2, <2>4, <2>5, <2>6, <2>7, AdvancingKeeps
<1>3. ASSUME NEW m \in stamps, LoseStamps(m) PROVE StampInv'
    <2>1. stamps' = stamps \ {m} /\ UNCHANGED <<draws, stamper, signed>>
        BY <1>3 DEF LoseStamps
    <2> QED
        BY <2>1 DEF StampInv, PoolIsSigned, Witnessed, WireIsSigned, Schedules
<1>4. ASSUME NEW seat \in Seats, NEW height \in Heights, NEW turn \in Turns, AbsorbStray(seat, height, turn)
      PROVE  StampInv'
    <2> DEFINE keeper == [stamper[seat] EXCEPT !.pool[height] = @ \cup {turn},
                                               !.wrong[height] = @ \cup ({turn} \cap draws[height])]
    <2>1. AdvanceHardening(keeper, seat, stamps) /\ UNCHANGED draws
        BY <1>4 DEF AbsorbStray
    <2>2. stamper[seat] \in Stampers
        BY <1>0
    <2>3. /\ keeper \in Stampers /\ keeper.history = stamper[seat].history
          /\ keeper.pool = [stamper[seat].pool EXCEPT ![height] = @ \cup {turn}]
          /\ keeper.wrong = [stamper[seat].wrong EXCEPT ![height] = @ \cup ({turn} \cap draws[height])]
        BY <2>2 DEF Stampers
    <2> HIDE DEF keeper
    <2>4. PoolIsSigned(stamper[seat]) /\ Witnessed(keeper.history) /\ WireIsSigned(stamps) /\ stamps \in SUBSET Broadcasts
        BY <2>3 DEF StampInv
    <2>5. PoolIsSigned(keeper)
        BY <2>1, <2>2, <2>3, <2>4 DEF PoolIsSigned, Stampers
    <2> QED
        BY <2>1, <2>3, <2>4, <2>5, AdvancingKeeps
<1>5. ASSUME NEW seat \in Seats, RestartStamper(seat) PROVE StampInv'
    <2> DEFINE keeper == Unstamped(stamper[seat].height, stamper[seat].history)
    <2>1. /\ stamper' = [stamper EXCEPT ![seat] = keeper] /\ stamps' \subseteq stamps
          /\ draws' = draws /\ signed' = signed
        BY <1>5 DEF RestartStamper
    <2>2. /\ keeper \in Stampers /\ keeper.history = stamper[seat].history
          /\ \A h \in Heights : keeper.pool[h] = {}
        BY <1>0 DEF Unstamped, Stampers
    <2> HIDE DEF keeper
    <2>3. stamper' \in [Seats -> Stampers] /\ stamper'[seat] = keeper
          /\ \A other \in Seats \ {seat} : stamper'[other] = stamper[other]
        BY <2>1, <2>2 DEF StampInv
    <2>4. \A other \in Seats : PoolIsSigned(stamper'[other]) /\ Witnessed(stamper'[other].history)
        BY <2>2, <2>3 DEF StampInv, PoolIsSigned
    <2>5. \A other \in Seats : PoolIsSigned(stamper[other])' /\ Witnessed(stamper[other].history)'
        BY <2>1, <2>4 DEF PoolIsSigned, Witnessed
    <2>6. WireIsSigned(stamps)'
        BY <2>1 DEF StampInv, WireIsSigned
    <2> QED
        BY <2>1, <2>3, <2>5, <2>6 DEF StampInv
<1>6. ASSUME NEW seat \in Seats, NEW height \in Heights, AdoptChain(seat, height) PROVE StampInv'
    <2> DEFINE keeper == [stamper[seat] EXCEPT !.height = height, !.history = <<>>]
    <2>1. /\ stamper' = [stamper EXCEPT ![seat] = keeper] /\ stamps' = stamps
          /\ draws' = draws /\ signed' = signed
        BY <1>0, <1>6 DEF AdoptChain, StampInv
    <2>2. /\ keeper \in Stampers /\ keeper.history = <<>>
          /\ keeper.pool = stamper[seat].pool /\ keeper.wrong = stamper[seat].wrong
        <3>1. height \in Nat /\ stamper[seat] \in Stampers /\ <<>> \in Seq(SUBSET Turns)
            BY <1>0 DEF Heights
        <3> QED
            BY <3>1 DEF Stampers
    <2> HIDE DEF keeper
    <2>3. stamper' \in [Seats -> Stampers] /\ stamper'[seat] = keeper
          /\ \A other \in Seats \ {seat} : stamper'[other] = stamper[other]
        BY <2>1, <2>2 DEF StampInv
    <2>4. \A other \in Seats : PoolIsSigned(stamper'[other]) /\ Witnessed(stamper'[other].history)
        <3>1. Witnessed(<<>>)
            BY DEF Witnessed
        <3> QED
            BY <2>2, <2>3, <3>1 DEF StampInv, PoolIsSigned
    <2>5. \A other \in Seats : PoolIsSigned(stamper[other])' /\ Witnessed(stamper[other].history)'
        BY <2>1, <2>4 DEF PoolIsSigned, Witnessed
    <2>6. WireIsSigned(stamps)'
        BY <2>1 DEF StampInv, WireIsSigned
    <2> QED
        BY <2>1, <2>3, <2>5, <2>6 DEF StampInv
<1>7. CASE UNCHANGED stampingVars
    BY <1>7 DEF stampingVars, StampInv, PoolIsSigned, Witnessed, WireIsSigned
<1> QED
    BY <1>1, <1>2, <1>3, <1>4, <1>5, <1>6, <1>7 DEF StampingNext

\* Type correctness of Stamping, and its inductive invariant: what each node holds of
\* the stamps for a height, drawn and signed.
THEOREM StampInvariance == StampingSpec => []StampInv
<1>1. StampingInit => StampInv
    <2> SUFFICES ASSUME StampingInit PROVE StampInv
        OBVIOUS
    <2>1. \A seat \in Seats : stamper[seat] \in Stampers /\ stamper[seat].history = <<>>
                              /\ \A h \in Heights : stamper[seat].pool[h] = {}
        BY DEF StampingInit, Unstamped, Stampers
    <2> QED
        BY <2>1 DEF StampingInit, StampInv, PoolIsSigned, Witnessed, WireIsSigned
<1> QED
    BY <1>1, StampStep, PTL DEF StampingSpec

\* For every pool, draw, threshold and number of seats, over lost broadcasts, restarts,
\* adopted chains, stray stamps and stamps under other heights: what is history was signed
\* by enough of the turns drawn for it, and no turn signs two blocks (hardening/stamp.py;
\* net/node.py, _advance_hardening, _absorb_stamps).
THEOREM HistoryHasWitnesses == StampingSpec => []StampsAreWitness
<1>1. StampInv => HardenedIsWitnessed
    <2> SUFFICES ASSUME StampInv, NEW seat \in Seats, NEW h \in DOMAIN stamper[seat].history
                 PROVE  /\ stamper[seat].history[h] \subseteq draws[h]
                        /\ Cardinality(stamper[seat].history[h]) >= Threshold
                        /\ \A t \in stamper[seat].history[h] : h \in signed[t]
        BY DEF HardenedIsWitnessed
    <2>1. DOMAIN stamper[seat].history = 1..Len(stamper[seat].history)
        BY DEF StampInv, Stampers
    <2> QED
        BY <2>1 DEF StampInv, Witnessed
<1>2. StampInv => NoTurnSignsTwice
    <2> SUFFICES ASSUME StampInv, NEW t \in Turns PROVE Cardinality(signed[t]) <= 1
        BY DEF NoTurnSignsTwice
    <2>1. \A g, h \in signed[t] : g = h
        BY DrawnOnce DEF StampInv
    <2>2. CASE signed[t] = {}
        BY <2>2, FS_EmptySet
    <2>3. CASE signed[t] # {}
        <3>1. PICK h : signed[t] = {h}
            BY <2>1, <2>3
        <3> QED
            BY <3>1, FS_Singleton
    <2> QED
        BY <2>2, <2>3
<1> QED
    BY <1>1, <1>2, StampInvariance, PTL DEF StampsAreWitness

-----------------------------------------------------------------------------
(***************************************************************************)
(* Why history is earned: every tree is read by its branches, a branch is     *)
(* what it was when it is extended, and a block that is taken draws nothing   *)
(* its branch has spent.                                                      *)
(***************************************************************************)
Reached(t) == DOMAIN t \cup {GenesisHash}

\* A tree whose branches end at genesis, no higher than some block.
Chained(t) ==
    /\ DOMAIN t \subseteq Hashes
    /\ \A h \in DOMAIN t : /\ t[h].prev \in Reached(t) /\ t[h].height \in Nat
                           /\ t[h].height = HeightAt(t, t[h].prev) + 1
    /\ \E m \in Nat : \A h \in DOMAIN t : t[h].height <= m

Path(t, h) == ToSet(Branch(t, h))

\* A block whose draw is the committee its branch calls for.
Burned(t, drawn, h) ==
    /\ t[h].prev \in DOMAIN drawn /\ t[h].drawn = drawn[t[h].prev]
    /\ t[h].drawn \subseteq Turns /\ t[h].drawn \cap SpentUpto(t, t[h].prev) = {}
    /\ t[h].stamps \subseteq t[h].drawn /\ Cardinality(t[h].stamps) >= Threshold
Earned(t, drawn) == \A h \in DOMAIN t : Burned(t, drawn, h)

\* What was burned on a branch, and what a block is said to weigh of it.
Burnt(t, won, h) == UNION {UNION won[g] : g \in Path(t, h)}
TakenOnce(t, won, h) == \A g \in Path(t, h) : won[g] = {t[g].stamps}
Weighed(t, won) ==
    \A h \in DOMAIN t :
       /\ h \in DOMAIN won /\ t[h].stamps \in won[h] /\ UNION won[h] \subseteq t[h].drawn
       /\ t[h].cumulative \in Nat /\ t[h].cumulative <= Cardinality(Burnt(t, won, h))
       /\ (TakenOnce(t, won, h) => t[h].cumulative = Cardinality(Burnt(t, won, h)))

HistoryInv ==
    /\ Chained(blocks) /\ Chained(rows) /\ Earned(blocks, committee) /\ Earned(rows, committee)
    /\ Weighed(blocks, taken) /\ Weighed(rows, taken) /\ DOMAIN taken = DOMAIN blocks
    /\ \A h \in DOMAIN committee : committee[h] \subseteq Turns
    /\ tipHash \in Reached(blocks) /\ tipHash \in Reached(rows) /\ tipHash = Heaviest(rows)
    /\ halted \in BOOLEAN /\ (~halted => rows = blocks)

LEMMA HeightsOfATree ==
    ASSUME NEW t, Chained(t)
    PROVE  /\ GenesisHash \notin DOMAIN t /\ Reached(t) \subseteq Nat
           /\ \A h \in Reached(t) : HeightAt(t, h) \in Nat
           /\ \A h \in DOMAIN t : /\ HeightAt(t, h) = HeightAt(t, t[h].prev) + 1
                                  /\ t[h].prev \in Reached(t)
           /\ HeightAt(t, GenesisHash) = 0
<1>1. GenesisHash \notin DOMAIN t /\ Reached(t) \subseteq Nat
    <2>1. DOMAIN t \subseteq Hashes
        BY DEF Chained
    <2>2. \A h \in Hashes : h \in Nat /\ h # 0
        BY HistoryAssumption
    <2> QED
        BY <2>1, <2>2 DEF Reached, GenesisHash
<1>2. \A h \in DOMAIN t : h # GenesisHash /\ HeightAt(t, h) = t[h].height
    BY <1>1 DEF HeightAt
<1>3. HeightAt(t, GenesisHash) = 0
    BY DEF HeightAt
<1>4. \A h \in DOMAIN t : /\ t[h].prev \in Reached(t) /\ t[h].height \in Nat
                         /\ t[h].height = HeightAt(t, t[h].prev) + 1
    BY DEF Chained
<1>5. \A h \in Reached(t) : HeightAt(t, h) \in Nat
    BY <1>2, <1>3, <1>4 DEF Reached
<1> QED
    BY <1>1, <1>2, <1>3, <1>4, <1>5

\* What is true of genesis, and of a block when it is of the one before, is true of all.
LEMMA FromGenesisOn ==
    ASSUME NEW t, Chained(t), NEW Good, GenesisHash \in Good,
           \A h \in DOMAIN t : t[h].prev \in Good => h \in Good
    PROVE  Reached(t) \subseteq Good
<1> SUFFICES ASSUME NEW g \in Reached(t), g \notin Good PROVE FALSE
    OBVIOUS
<1> DEFINE heights == {n \in Nat : \E h \in Reached(t) \ Good : HeightAt(t, h) = n}
<1>1. heights \in SUBSET Nat /\ heights # {}
    BY HeightsOfATree
<1>2. PICK n \in heights : \A k \in heights : n <= k
    BY <1>1, LeastOfSome
<1>3. PICK h \in Reached(t) \ Good : HeightAt(t, h) = n
    BY <1>2
<1>4. h \in DOMAIN t /\ t[h].prev \notin Good
    BY <1>3 DEF Reached
<1>5. t[h].prev \in Reached(t) /\ HeightAt(t, t[h].prev) \in Nat /\ HeightAt(t, t[h].prev) < n
    BY <1>3, <1>4, HeightsOfATree
<1>6. HeightAt(t, t[h].prev) \in heights
    BY <1>4, <1>5
<1> QED
    BY <1>1, <1>2, <1>5, <1>6

\* A branch is a block and the branch of the one before.
LEMMA BranchesExist ==
    ASSUME NEW t, Chained(t)
    PROVE  /\ Branch(t, GenesisHash) = <<>>
           /\ \A h \in DOMAIN t : Branch(t, h) = <<h>> \o Branch(t, t[h].prev)
           /\ \A h \in Reached(t) : Branch(t, h) \in Seq(Nat)
<1> DEFINE D == DOMAIN t \cup {GenesisHash}
           Prolonged(b, h) == IF h = GenesisHash THEN <<>> ELSE <<h>> \o b[t[h].prev]
           Reaches(b, n) == \A h \in D : HeightAt(t, h) <= n => b[h] = Prolonged(b, h)
           Fails == {n \in Nat : ~\E b \in [D -> Seq(Nat)] : Reaches(b, n)}
<1>0. /\ GenesisHash \notin DOMAIN t /\ D \subseteq Nat
      /\ \A h \in D : HeightAt(t, h) \in Nat
      /\ \A h \in DOMAIN t : HeightAt(t, h) = HeightAt(t, t[h].prev) + 1 /\ t[h].prev \in D
      /\ HeightAt(t, GenesisHash) = 0
    BY HeightsOfATree DEF Reached
<1>1. \A b \in [D -> Seq(Nat)] : \A h \in D : Prolonged(b, h) \in Seq(Nat)
    <2> SUFFICES ASSUME NEW b \in [D -> Seq(Nat)], NEW h \in D PROVE Prolonged(b, h) \in Seq(Nat)
        OBVIOUS
    <2>1. CASE h = GenesisHash
        BY <2>1
    <2>2. CASE h # GenesisHash
        <3>1. h \in Nat /\ t[h].prev \in D
            BY <1>0, <2>2
        <3>2. <<h>> \in Seq(Nat) /\ b[t[h].prev] \in Seq(Nat)
            BY <3>1
        <3>3. <<h>> \o b[t[h].prev] \in Seq(Nat)
            BY <3>2
        <3> QED
            BY <2>2, <3>3
    <2> QED
        BY <2>1, <2>2
<1>2. 0 \notin Fails
    <2>1. PICK b : b = [h \in D |-> <<>>]
        OBVIOUS
    <2>2. b \in [D -> Seq(Nat)]
        BY <2>1
    <2>3. ASSUME NEW h \in D, HeightAt(t, h) <= 0 PROVE b[h] = Prolonged(b, h)
        <3>1. h = GenesisHash
            <4>1. ASSUME h \in DOMAIN t PROVE FALSE
                <5>1. HeightAt(t, h) = HeightAt(t, t[h].prev) + 1 /\ HeightAt(t, t[h].prev) \in Nat
                    BY <1>0, <4>1
                <5> QED
                    BY <2>3, <5>1
            <4> QED
                BY <4>1
        <3> QED
            BY <2>1, <3>1
    <2> QED
        BY <2>2, <2>3
<1>3. \A n \in Nat : n \notin Fails => n + 1 \notin Fails
    <2> SUFFICES ASSUME NEW n \in Nat, n \notin Fails PROVE n + 1 \notin Fails
        OBVIOUS
    <2>1. PICK b \in [D -> Seq(Nat)] : Reaches(b, n)
        OBVIOUS
    <2>2. PICK c : c = [h \in D |-> Prolonged(b, h)]
        OBVIOUS
    <2>3. c \in [D -> Seq(Nat)]
        BY <1>1, <2>1, <2>2
    <2>4. ASSUME NEW h \in D, HeightAt(t, h) <= n + 1 PROVE c[h] = Prolonged(c, h)
        <3>1. CASE h = GenesisHash
            BY <2>2, <3>1
        <3>2. CASE h # GenesisHash
            <4>1. t[h].prev \in D /\ HeightAt(t, t[h].prev) <= n
                BY <1>0, <2>4, <3>2
            <4>2. c[t[h].prev] = b[t[h].prev]
                BY <2>1, <2>2, <4>1
            <4>3. c[h] = <<h>> \o b[t[h].prev]
                BY <2>2, <3>2
            <4> QED
                BY <3>2, <4>2, <4>3
        <3> QED
            BY <3>1, <3>2
    <2> QED
        BY <2>3, <2>4
<1>4. Fails = {}
    <2> SUFFICES ASSUME Fails # {} PROVE FALSE
        OBVIOUS
    <2>0. Fails \in SUBSET Nat
        OBVIOUS
    <2> HIDE DEF Fails
    <2>1. PICK n \in Fails : \A k \in Fails : n <= k
        BY <2>0, LeastOfSome
    <2>2. n - 1 \in Nat /\ n - 1 \notin Fails
        BY <1>2, <2>0, <2>1
    <2>3. (n - 1) + 1 \notin Fails
        BY <1>3, <2>2
    <2> QED
        BY <2>0, <2>1, <2>3
<1>5. PICK m \in Nat : \A h \in D : HeightAt(t, h) <= m
    BY <1>0 DEF Chained, HeightAt
<1>6. PICK b \in [D -> Seq(Nat)] : Reaches(b, m)
    BY <1>4
<1>7. b = [h \in D |-> Prolonged(b, h)]
    BY <1>5, <1>6
<1> DEFINE back == CHOOSE c : c = [h \in D |-> Prolonged(c, h)]
<1>8. back = [h \in D |-> Prolonged(back, h)]
    BY <1>7
<1>9. \A hash : Branch(t, hash) = back[hash]
    BY DEF Branch
<1> HIDE DEF back
<1>10. \A h \in D : Branch(t, h) = IF h = GenesisHash THEN <<>> ELSE <<h>> \o Branch(t, t[h].prev)
    <2> SUFFICES ASSUME NEW h \in D
                 PROVE  Branch(t, h) = IF h = GenesisHash THEN <<>> ELSE <<h>> \o Branch(t, t[h].prev)
        OBVIOUS
    <2>1. back[h] = Prolonged(back, h)
        BY <1>8
    <2>2. Branch(t, h) = back[h] /\ Branch(t, t[h].prev) = back[t[h].prev]
        BY <1>9
    <2> HIDE DEF D
    <2> QED
        BY <2>1, <2>2
<1>11. \A h \in Reached(t) : Branch(t, h) \in Seq(Nat)
    <2> DEFINE Good == {h \in Reached(t) : Branch(t, h) \in Seq(Nat)}
    <2>1. GenesisHash \in Good
        <3>1. Branch(t, GenesisHash) = <<>>
            BY <1>10
        <3>2. <<>> \in Seq(Nat)
            OBVIOUS
        <3> QED
            BY <3>1, <3>2 DEF Reached
    <2>2. ASSUME NEW h \in DOMAIN t, t[h].prev \in Good PROVE h \in Good
        <3>1. h \in Nat /\ h # GenesisHash /\ h \in D
            BY <1>0
        <3>2. Branch(t, h) = <<h>> \o Branch(t, t[h].prev)
            BY <1>10, <3>1
        <3>3. <<h>> \in Seq(Nat) /\ Branch(t, t[h].prev) \in Seq(Nat)
            BY <2>2, <3>1
        <3>4. \A q, r \in Seq(Nat) : q \o r \in Seq(Nat)
            OBVIOUS
        <3>5. Branch(t, h) \in Seq(Nat)
            BY <3>2, <3>3, <3>4
        <3> QED
            BY <3>1, <3>5 DEF Reached
    <2> HIDE DEF Good
    <2>3. Reached(t) \subseteq Good
        BY <2>1, <2>2, FromGenesisOn
    <2> QED
        BY <2>3 DEF Good
<1> QED
    BY <1>0, <1>10, <1>11 DEF Reached

LEMMA PathsOfATree ==
    ASSUME NEW t, Chained(t)
    PROVE  /\ Path(t, GenesisHash) = {}
           /\ \A h \in DOMAIN t : Path(t, h) = {h} \cup Path(t, t[h].prev)
           /\ \A h \in Reached(t) : Path(t, h) \subseteq DOMAIN t
           /\ \A h \in Reached(t) : \A g \in Path(t, h) : HeightAt(t, g) <= HeightAt(t, h)
<1>1. Path(t, GenesisHash) = {}
    BY BranchesExist DEF Path, ToSet
<1>2. ASSUME NEW h \in DOMAIN t PROVE Path(t, h) = {h} \cup Path(t, t[h].prev)
    <2>1. PICK s \in Seq(Nat) : s = Branch(t, t[h].prev)
        BY BranchesExist, HeightsOfATree
    <2>2. Branch(t, h) = <<h>> \o s /\ h \in Nat
        BY <2>1, BranchesExist, HeightsOfATree DEF Reached
    <2>3. PICK whole \in Seq(Nat) : /\ whole = <<h>> \o s /\ Len(whole) = Len(s) + 1 /\ whole[1] = h
                                    /\ \A i \in 1..Len(s) : whole[i + 1] = s[i]
        <3>0. <<h>> \in Seq(Nat) /\ Len(<<h>>) = 1 /\ <<h>>[1] = h
            BY <2>2
        <3>1. PICK one \in Seq(Nat) : one = <<h>> /\ Len(one) = 1 /\ one[1] = h
            BY <3>0
        <3>2. /\ one \o s \in Seq(Nat) /\ Len(one \o s) = 1 + Len(s) /\ (one \o s)[1] = h
              /\ \A i \in 1..Len(s) : (one \o s)[1 + i] = s[i]
            BY <3>1
        <3>3. one \o s = <<h>> \o s
            BY <3>1
        <3>4. PICK whole : whole = one \o s
            OBVIOUS
        <3>5. /\ whole \in Seq(Nat) /\ Len(whole) = Len(s) + 1 /\ whole[1] = h /\ Len(s) \in Nat
              /\ \A i \in 1..Len(s) : whole[1 + i] = s[i]
            BY <3>2, <3>4, SMTT(30)
        <3>6. \A i \in 1..Len(s) : whole[i + 1] = s[i]
            <4>1. \A i \in 1..Len(s) : i + 1 = 1 + i
                BY <3>5
            <4> QED
                BY <3>5, <4>1
        <3> QED
            BY <3>3, <3>4, <3>5, <3>6
    <2>4. PICK n \in Nat : n = Len(s) /\ DOMAIN s = 1..n /\ DOMAIN whole = 1..n + 1
        BY <2>1, <2>3
    <2>5. ToSet(s) = {s[i] : i \in 1..n} /\ ToSet(whole) = {whole[i] : i \in 1..n + 1}
        BY <2>4 DEF ToSet
    <2>6. \A i \in 1..n + 1 : i = 1 \/ \E k \in 1..n : i = k + 1
        <3> SUFFICES ASSUME NEW i \in 1..n + 1, i # 1 PROVE \E k \in 1..n : i = k + 1
            OBVIOUS
        <3>1. i - 1 \in 1..n /\ i = (i - 1) + 1
            OBVIOUS
        <3> QED
            BY <3>1
    <2>7. 1 \in 1..n + 1 /\ \A k \in 1..n : k + 1 \in 1..n + 1
        OBVIOUS
    <2>8. ToSet(whole) = {h} \cup ToSet(s)
        <3>1. \A i \in 1..n + 1 : whole[i] \in {h} \cup ToSet(s)
            <4> SUFFICES ASSUME NEW i \in 1..n + 1 PROVE whole[i] \in {h} \cup ToSet(s)
                OBVIOUS
            <4>1. CASE i = 1
                BY <2>3, <4>1
            <4>2. CASE \E k \in 1..n : i = k + 1
                BY <2>3, <2>4, <2>5, <4>2
            <4> QED
                BY <2>6, <4>1, <4>2
        <3>2. h \in ToSet(whole) /\ \A k \in 1..n : s[k] \in ToSet(whole)
            BY <2>3, <2>4, <2>5, <2>7
        <3> QED
            BY <2>5, <3>1, <3>2
    <2> QED
        BY <2>1, <2>2, <2>3, <2>8 DEF Path
<1>3. Reached(t) \subseteq {h \in Reached(t) : /\ Path(t, h) \subseteq DOMAIN t
                                           /\ \A g \in Path(t, h) : HeightAt(t, g) <= HeightAt(t, h)}
    <2> DEFINE Good == {h \in Reached(t) : /\ Path(t, h) \subseteq DOMAIN t
                                         /\ \A g \in Path(t, h) : HeightAt(t, g) <= HeightAt(t, h)}
    <2>1. GenesisHash \in Good
        BY <1>1 DEF Reached
    <2>2. ASSUME NEW h \in DOMAIN t, t[h].prev \in Good PROVE h \in Good
        <3>1. HeightAt(t, h) \in Nat /\ HeightAt(t, t[h].prev) \in Nat /\ HeightAt(t, h) = HeightAt(t, t[h].prev) + 1
            BY HeightsOfATree DEF Reached
        <3>2. \A g \in Path(t, t[h].prev) : g \in Reached(t) /\ HeightAt(t, g) \in Nat /\ HeightAt(t, g) <= HeightAt(t, h)
            BY <2>2, <3>1, HeightsOfATree DEF Reached
        <3> QED
            BY <1>2, <2>2, <3>1, <3>2 DEF Reached
    <2> HIDE DEF Good
    <2>3. Reached(t) \subseteq Good
        BY <2>1, <2>2, FromGenesisOn
    <2> QED
        BY <2>3 DEF Good
<1> QED
    BY <1>1, <1>2, <1>3

-----------------------------------------------------------------------------
\* What a branch has spent, and what it weighs.

LEMMA SpentIsThePath ==
    ASSUME NEW t, NEW h
    PROVE  SpentUpto(t, h) = UNION {t[g].drawn : g \in Path(t, h)}
BY DEF SpentUpto, Path

LEMMA TurnsAreSpentOnce ==
    ASSUME NEW t, NEW drawn, Chained(t), Earned(t, drawn), NEW h \in Reached(t), NEW a \in Path(t, h), NEW b \in Path(t, h), a # b
    PROVE  t[a].drawn \cap t[b].drawn = {}
<1> DEFINE Good == {k \in Reached(t) : \A c, d \in Path(t, k) : c # d => t[c].drawn \cap t[d].drawn = {}}
<1>1. GenesisHash \in Good
    BY PathsOfATree DEF Reached
<1>2. ASSUME NEW k \in DOMAIN t, t[k].prev \in Good PROVE k \in Good
    <2>1. Path(t, k) = {k} \cup Path(t, t[k].prev)
        BY PathsOfATree
    <2>2. \A c \in Path(t, t[k].prev) : t[c].drawn \subseteq SpentUpto(t, t[k].prev)
        BY SpentIsThePath
    <2>3. t[k].drawn \cap SpentUpto(t, t[k].prev) = {}
        BY DEF Earned, Burned
    <2>4. \A c \in Path(t, t[k].prev) : t[c].drawn \cap t[k].drawn = {}
        BY <2>2, <2>3
    <2> QED
        BY <1>2, <2>1, <2>4 DEF Reached
<1> HIDE DEF Good
<1>3. Reached(t) \subseteq Good
    BY <1>1, <1>2, FromGenesisOn
<1> QED
    BY <1>3 DEF Good

LEMMA BurntIsFinite ==
    ASSUME NEW t, NEW drawn, NEW won, Chained(t), Earned(t, drawn),
           \A g \in DOMAIN t : UNION won[g] \subseteq t[g].drawn, NEW h \in Reached(t),
           NEW S, S = Burnt(t, won, h)
    PROVE  /\ S \subseteq Turns /\ S \subseteq SpentUpto(t, h) /\ IsFiniteSet(S)
           /\ Cardinality(S) \in Nat /\ Cardinality(S) <= Cardinality(Turns)
<1>1. \A g \in Path(t, h) : UNION won[g] \subseteq t[g].drawn /\ t[g].drawn \subseteq Turns
    BY PathsOfATree DEF Earned, Burned
<1>2. S \subseteq Turns /\ S \subseteq SpentUpto(t, h)
    BY <1>1, SpentIsThePath DEF Burnt
<1> QED
    BY <1>2, HistoryAssumption, FS_Subset, FS_CardinalityType

LEMMA WeightIsTurnsBurned ==
    ASSUME NEW t, NEW drawn, NEW won, Chained(t), Earned(t, drawn), Weighed(t, won),
           NEW h \in Reached(t)
    PROVE  /\ CumulativeAt(t, h) \in Nat /\ CumulativeAt(t, h) <= Cardinality(Burnt(t, won, h))
           /\ CumulativeAt(t, h) <= Cardinality(Turns)
           /\ (TakenOnce(t, won, h) => CumulativeAt(t, h) = Cardinality(Burnt(t, won, h)))
<1> PICK S : S = Burnt(t, won, h)
    OBVIOUS
<1>1. Cardinality(S) \in Nat /\ Cardinality(S) <= Cardinality(Turns) /\ Cardinality(Turns) \in Nat
    <2>1. \A g \in DOMAIN t : UNION won[g] \subseteq t[g].drawn
        BY DEF Weighed
    <2> QED
        BY <2>1, BurntIsFinite, HistoryAssumption, FS_CardinalityType
<1>2. CASE h = GenesisHash
    <2>1. Path(t, h) = {}
        BY <1>2, PathsOfATree
    <2>2. S = {}
        BY <2>1 DEF Burnt
    <2>3. CumulativeAt(t, h) = 0 /\ Cardinality(S) = 0
        BY <1>2, <2>2, FS_EmptySet DEF CumulativeAt
    <2> QED
        BY <1>1, <2>3
<1>3. CASE h # GenesisHash
    <2>1. h \in DOMAIN t /\ CumulativeAt(t, h) = t[h].cumulative
        BY <1>3 DEF Reached, CumulativeAt
    <2>2. /\ t[h].cumulative \in Nat /\ t[h].cumulative <= Cardinality(S)
          /\ (TakenOnce(t, won, h) => t[h].cumulative = Cardinality(S))
        BY <2>1 DEF Weighed
    <2> QED
        BY <1>1, <2>1, <2>2
<1> QED
    BY <1>2, <1>3

LEMMA SomethingIsHeaviest ==
    ASSUME NEW t, NEW drawn, NEW won, Chained(t), Earned(t, drawn), Weighed(t, won)
    PROVE  Heaviest(t) \in Reached(t)
<1> DEFINE weights == {n \in Nat : \E h \in Reached(t) : CumulativeAt(t, h) = n}
           Beats(h, g) == \/ CumulativeAt(t, g) < CumulativeAt(t, h)
                          \/ CumulativeAt(t, g) = CumulativeAt(t, h) /\ h <= g
<1>1. weights \in SUBSET Nat /\ weights # {} /\ \A k \in weights : k <= Cardinality(Turns)
    <2>1. CumulativeAt(t, GenesisHash) \in Nat /\ GenesisHash \in Reached(t)
        BY WeightIsTurnsBurned DEF Reached
    <2> QED
        BY <2>1, WeightIsTurnsBurned
<1>2. Cardinality(Turns) \in Nat
    BY HistoryAssumption, FS_CardinalityType
<1>3. PICK w \in weights : \A k \in weights : w >= k
    BY <1>1, <1>2, LargestBelow
<1> DEFINE best == {h \in Reached(t) : CumulativeAt(t, h) = w}
<1>4. best \in SUBSET Nat /\ best # {}
    BY <1>3, HeightsOfATree
<1>5. PICK h \in best : \A g \in best : h <= g
    BY <1>4, LeastOfSome
<1>6. h \in Reached(t) /\ \A g \in Reached(t) : Beats(h, g)
    <2> SUFFICES ASSUME NEW g \in Reached(t) PROVE Beats(h, g)
        BY <1>5
    <2>1. CumulativeAt(t, g) \in Nat /\ CumulativeAt(t, g) \in weights
        BY WeightIsTurnsBurned
    <2>2. CumulativeAt(t, h) = w /\ w \in Nat /\ CumulativeAt(t, g) <= w
        BY <1>1, <1>3, <1>5, <2>1
    <2>3. CASE CumulativeAt(t, g) = w
        BY <1>5, <2>2, <2>3
    <2>4. CASE CumulativeAt(t, g) # w
        BY <2>1, <2>2, <2>4
    <2> QED
        BY <2>3, <2>4
<1> HIDE DEF Beats
<1>7. Heaviest(t) = CHOOSE k \in Reached(t) : \A g \in Reached(t) : Beats(k, g)
    BY DEF Heaviest, Reached, Beats
<1> QED
    BY <1>6, <1>7

\* Blocks to undo are counted, and none are to stay where one is.
LEMMA DepthsAreNumbers ==
    ASSUME NEW t, Chained(t), NEW a \in Reached(t), NEW b \in Reached(t)
    PROVE  ReorgDepth(t, a, b) \in Int /\ ReorgDepth(t, a, a) <= 0
<1> DEFINE common(c) == Ancestors(t, a) \cap Ancestors(t, c)
           Highest(c, h) == \A g \in common(c) : HeightAt(t, g) <= HeightAt(t, h)
<1>1. \A c \in Reached(t) : common(c) \subseteq Reached(t) /\ GenesisHash \in common(c)
    BY PathsOfATree DEF Ancestors, Path, Reached
<1>2. \A c \in Reached(t) : CommonAncestor(t, a, c) \in common(c) /\ Highest(c, CommonAncestor(t, a, c))
    <2> SUFFICES ASSUME NEW c \in Reached(t)
                 PROVE  CommonAncestor(t, a, c) \in common(c) /\ Highest(c, CommonAncestor(t, a, c))
        OBVIOUS
    <2> DEFINE heights == {n \in Nat : \E h \in common(c) : HeightAt(t, h) = n}
    <2>1. PICK m \in Nat : \A h \in DOMAIN t : t[h].height <= m
        BY DEF Chained
    <2>2. heights \in SUBSET Nat /\ heights # {} /\ \A k \in heights : k <= m
        <3>1. \A h \in Reached(t) : HeightAt(t, h) \in Nat /\ HeightAt(t, h) <= m
            BY <2>1, HeightsOfATree DEF HeightAt, Reached
        <3> QED
            BY <1>1, <3>1
    <2> HIDE DEF common
    <2>3. PICK n \in heights : \A k \in heights : n >= k
        BY <2>2, LargestBelow
    <2>4. PICK h \in common(c) : HeightAt(t, h) = n
        BY <2>3
    <2>5. Highest(c, h)
        <3>1. \A g \in common(c) : HeightAt(t, g) \in Nat
            BY <1>1, HeightsOfATree
        <3> QED
            BY <2>2, <2>3, <2>4, <3>1
    <2> HIDE DEF Highest
    <2>6. CommonAncestor(t, a, c) = CHOOSE k \in common(c) : Highest(c, k)
        BY DEF CommonAncestor, common, Highest
    <2> QED
        BY <2>4, <2>5, <2>6
<1>3. a \in common(a)
    <2>1. CASE a = GenesisHash
        BY <1>1, <2>1
    <2>2. CASE a # GenesisHash
        BY <2>2, PathsOfATree DEF Ancestors, Path, Reached
    <2> QED
        BY <2>1, <2>2
<1>4. ReorgDepth(t, a, b) = HeightAt(t, a) - HeightAt(t, CommonAncestor(t, a, b))
      /\ ReorgDepth(t, a, a) = HeightAt(t, a) - HeightAt(t, CommonAncestor(t, a, a))
    BY DEF ReorgDepth
<1>5. HeightAt(t, a) <= HeightAt(t, CommonAncestor(t, a, a))
    BY <1>2, <1>3
<1>6. \A c \in Reached(t) : HeightAt(t, CommonAncestor(t, a, c)) \in Nat
    <2>1. \A c \in Reached(t) : CommonAncestor(t, a, c) \in Reached(t)
        BY <1>1, <1>2
    <2> QED
        BY <2>1, HeightsOfATree
<1>7. HeightAt(t, a) \in Nat
    BY HeightsOfATree
<1> QED
    BY <1>4, <1>5, <1>6, <1>7

-----------------------------------------------------------------------------
\* A tree that takes a block, a known one again or another, has the branches it had.

Extended(t, hash, hb) == [h \in DOMAIN t \cup {hash} |-> IF h = hash THEN hb ELSE t[h]]

LEMMA ExtendedTree ==
    ASSUME NEW t, Chained(t), NEW hash \in Hashes, NEW hb,
           hb.prev \in Reached(t), hb.height = HeightAt(t, hb.prev) + 1,
           hash \in DOMAIN t => hb.prev = t[hash].prev /\ hb.drawn = t[hash].drawn,
           NEW u, u = Extended(t, hash, hb)
    PROVE  /\ Chained(u) /\ Reached(u) = Reached(t) \cup {hash}
           /\ u[hash] = hb /\ \A h \in DOMAIN t : h # hash => u[h] = t[h]
           /\ \A h \in Reached(t) : /\ Path(u, h) = Path(t, h) /\ SpentUpto(u, h) = SpentUpto(t, h)
                                    /\ (h # hash => CumulativeAt(u, h) = CumulativeAt(t, h))
           /\ hash \notin Path(t, hb.prev)
<1>1. /\ DOMAIN u = DOMAIN t \cup {hash} /\ u[hash] = hb /\ \A h \in DOMAIN t : h # hash => u[h] = t[h]
    BY DEF Extended
<1>7. \A h \in DOMAIN t : /\ u[h].prev = t[h].prev /\ u[h].height = t[h].height
                          /\ (h # hash => u[h].cumulative = t[h].cumulative)
    <2> SUFFICES ASSUME NEW h \in DOMAIN t
                 PROVE  /\ u[h].prev = t[h].prev /\ u[h].height = t[h].height
                        /\ (h # hash => u[h].cumulative = t[h].cumulative)
        OBVIOUS
    <2>1. CASE h = hash
        BY <1>1, <2>1 DEF Chained
    <2>2. CASE h # hash
        BY <1>1, <2>2
    <2> QED
        BY <2>1, <2>2
<1>2. \A h \in Reached(t) : /\ HeightAt(u, h) = HeightAt(t, h)
                            /\ (h # hash => CumulativeAt(u, h) = CumulativeAt(t, h))
    BY <1>7 DEF Reached, HeightAt, CumulativeAt
<1>3. Reached(u) = Reached(t) \cup {hash}
    BY <1>1 DEF Reached
<1>4. Chained(u)
    <2>1. DOMAIN u \subseteq Hashes
        BY <1>1 DEF Chained
    <2>2. ASSUME NEW h \in DOMAIN u
          PROVE  /\ u[h].prev \in Reached(u) /\ u[h].height \in Nat
                 /\ u[h].height = HeightAt(u, u[h].prev) + 1
        <3>1. CASE h = hash
            <4>1. HeightAt(t, hb.prev) \in Nat /\ HeightAt(u, hb.prev) = HeightAt(t, hb.prev)
                BY <1>2, HeightsOfATree
            <4> QED
                BY <1>1, <1>3, <3>1, <4>1
        <3>2. CASE h # hash
            <4>1. h \in DOMAIN t /\ u[h] = t[h]
                BY <1>1, <3>2
            <4>2. t[h].prev \in Reached(t) /\ t[h].height \in Nat /\ t[h].height = HeightAt(t, t[h].prev) + 1
                BY <4>1 DEF Chained
            <4> QED
                BY <1>2, <1>3, <4>1, <4>2
        <3> QED
            BY <3>1, <3>2
    <2>3. \E m \in Nat : \A h \in DOMAIN u : u[h].height <= m
        <3>1. PICK m \in Nat : \A h \in DOMAIN t : t[h].height <= m
            BY DEF Chained
        <3>2. \A h \in DOMAIN u : u[h].height \in Nat
            BY <2>2
        <3>3. hash \in DOMAIN u /\ hb.height \in Nat
            BY <1>1, <3>2
        <3>4. m + hb.height \in Nat
            BY <3>3
        <3>5. \A h \in DOMAIN u : u[h].height <= m + hb.height
            <4> SUFFICES ASSUME NEW h \in DOMAIN u PROVE u[h].height <= m + hb.height
                OBVIOUS
            <4>1. CASE h = hash
                BY <1>1, <3>3, <4>1
            <4>2. CASE h # hash
                <5>1. u[h] = t[h] /\ t[h].height <= m /\ t[h].height \in Nat
                    BY <1>1, <3>1, <3>2, <4>2
                <5> QED
                    BY <3>3, <5>1
            <4> QED
                BY <4>1, <4>2
        <3> QED
            BY <3>4, <3>5
    <2> QED
        BY <2>1, <2>2, <2>3 DEF Chained
<1>5. \A h \in Reached(t) : Path(u, h) = Path(t, h)
    <2> DEFINE Good == {h \in Reached(t) : Path(u, h) = Path(t, h)}
    <2>1. GenesisHash \in Good
        BY <1>4, PathsOfATree DEF Reached
    <2>2. ASSUME NEW h \in DOMAIN t, t[h].prev \in Good PROVE h \in Good
        <3>1. Path(t, h) = {h} \cup Path(t, t[h].prev)
            BY PathsOfATree
        <3>2. Path(u, h) = {h} \cup Path(u, u[h].prev)
            BY <1>1, <1>4, PathsOfATree
        <3> QED
            BY <1>7, <2>2, <3>1, <3>2 DEF Reached
    <2> HIDE DEF Good
    <2>3. Reached(t) \subseteq Good
        BY <2>1, <2>2, FromGenesisOn
    <2> QED
        BY <2>3 DEF Good
<1>6. \A h \in Reached(t) : SpentUpto(u, h) = SpentUpto(t, h)
    <2> SUFFICES ASSUME NEW h \in Reached(t) PROVE SpentUpto(u, h) = SpentUpto(t, h)
        OBVIOUS
    <2>1. Path(u, h) = Path(t, h) /\ \A g \in Path(t, h) : u[g].drawn = t[g].drawn
        BY <1>1, <1>5, PathsOfATree
    <2> QED
        BY <2>1, SpentIsThePath
<1>8. hash \notin Path(t, hb.prev)
    <2> SUFFICES ASSUME hash \in Path(t, hb.prev) PROVE FALSE
        OBVIOUS
    <2>1. hash \in DOMAIN t /\ HeightAt(t, hash) <= HeightAt(t, hb.prev)
        BY PathsOfATree
    <2>2. HeightAt(t, hash) = HeightAt(t, hb.prev) + 1 /\ HeightAt(t, hb.prev) \in Nat
        BY <2>1, HeightsOfATree
    <2> QED
        BY <2>1, <2>2
<1> QED
    BY <1>1, <1>2, <1>3, <1>4, <1>5, <1>6, <1>8

\* A committee that is drawn is kept.
LEMMA CommitteesAreKept ==
    ASSUME \A h \in DOMAIN committee : committee[h] \subseteq Turns, NEW prev, Drawn(prev)
    PROVE  /\ prev \in DOMAIN committee' /\ \A h \in DOMAIN committee' : committee'[h] \subseteq Turns
           /\ \A h \in DOMAIN committee : h \in DOMAIN committee' /\ committee'[h] = committee[h]
<1>1. CASE prev \in DOMAIN committee
    BY <1>1 DEF Drawn
<1>2. CASE prev \notin DOMAIN committee
    <2>1. PICK drawn \in Drawable(SpentUpto(blocks, prev)) :
            committee' = [h \in DOMAIN committee \cup {prev} |-> IF h = prev THEN drawn ELSE committee[h]]
        BY <1>2 DEF Drawn
    <2>2. drawn \subseteq Turns
        BY <2>1 DEF Drawable, Exhausted, kSubset
    <2> QED
        BY <1>2, <2>1, <2>2
<1> QED
    BY <1>1, <1>2

LEMMA EarnedAsMoreIsDrawn ==
    ASSUME NEW t, NEW drawn, NEW more, Earned(t, drawn),
           \A h \in DOMAIN drawn : h \in DOMAIN more /\ more[h] = drawn[h]
    PROVE  Earned(t, more)
BY DEF Earned, Burned

\* Taking a block again makes no block weigh more than was burned on it.
LEMMA WeighedAsMoreIsTaken ==
    ASSUME NEW t, NEW drawn, NEW won, Chained(t), Earned(t, drawn), Weighed(t, won), NEW more,
           \A h \in DOMAIN t : /\ h \in DOMAIN more /\ won[h] \subseteq more[h]
                               /\ UNION more[h] \subseteq t[h].drawn
    PROVE  Weighed(t, more)
<1> SUFFICES ASSUME NEW h \in DOMAIN t
             PROVE  /\ t[h].stamps \in more[h] /\ t[h].cumulative \in Nat
                    /\ t[h].cumulative <= Cardinality(Burnt(t, more, h))
                    /\ (TakenOnce(t, more, h) => t[h].cumulative = Cardinality(Burnt(t, more, h)))
    BY DEF Weighed
<1> PICK old, new : old = Burnt(t, won, h) /\ new = Burnt(t, more, h)
    OBVIOUS
<1>1. h \in Reached(t) /\ Path(t, h) \subseteq DOMAIN t
    BY PathsOfATree DEF Reached
<1>2. /\ t[h].stamps \in won[h] /\ t[h].cumulative \in Nat /\ t[h].cumulative <= Cardinality(old)
      /\ (TakenOnce(t, won, h) => t[h].cumulative = Cardinality(old))
    BY DEF Weighed
<1>3. old \subseteq new
    BY <1>1 DEF Burnt
<1>4. IsFiniteSet(new) /\ Cardinality(new) \in Nat
    BY <1>1, BurntIsFinite
<1>5. Cardinality(old) <= Cardinality(new) /\ Cardinality(old) \in Nat
    BY <1>3, <1>4, FS_Subset, FS_CardinalityType
<1>6. ASSUME TakenOnce(t, more, h) PROVE t[h].cumulative = Cardinality(new)
    <2>1. \A g \in Path(t, h) : won[g] = more[g] /\ won[g] = {t[g].stamps}
        <3> SUFFICES ASSUME NEW g \in Path(t, h) PROVE won[g] = more[g] /\ won[g] = {t[g].stamps}
            OBVIOUS
        <3>1. more[g] = {t[g].stamps} /\ won[g] \subseteq more[g] /\ t[g].stamps \in won[g]
            BY <1>1, <1>6 DEF TakenOnce, Weighed
        <3> QED
            BY <3>1
    <2>2. old = new
        BY <2>1 DEF Burnt
    <2>3. TakenOnce(t, won, h)
        BY <2>1 DEF TakenOnce
    <2> QED
        BY <1>2, <2>2, <2>3
<1> QED
    BY <1>2, <1>4, <1>5, <1>6

LEMMA WeighedWhenTaken ==
    ASSUME NEW t, NEW drawn, NEW won, Chained(t), Earned(t, drawn), Weighed(t, won),
           NEW hash \in Hashes, NEW hb,
           hb.prev \in Reached(t), hb.height = HeightAt(t, hb.prev) + 1,
           hash \in DOMAIN t => hb.prev = t[hash].prev /\ hb.drawn = t[hash].drawn,
           hb.drawn \subseteq Turns, hb.drawn \cap SpentUpto(t, hb.prev) = {},
           hash \in DOMAIN won, hb.stamps \in won[hash], UNION won[hash] \subseteq hb.drawn,
           hb.cumulative = CumulativeAt(t, hb.prev) + Cardinality(hb.stamps),
           NEW u, u = Extended(t, hash, hb)
    PROVE  Weighed(u, won)
<1>1. /\ Chained(u) /\ u[hash] = hb /\ \A h \in DOMAIN t : h # hash => u[h] = t[h]
      /\ \A h \in Reached(t) : Path(u, h) = Path(t, h)
      /\ hash \notin Path(t, hb.prev) /\ DOMAIN u = DOMAIN t \cup {hash}
    BY ExtendedTree DEF Extended
<1> SUFFICES ASSUME NEW h \in DOMAIN u
             PROVE  /\ h \in DOMAIN won /\ u[h].stamps \in won[h] /\ UNION won[h] \subseteq u[h].drawn
                    /\ u[h].cumulative \in Nat /\ u[h].cumulative <= Cardinality(Burnt(u, won, h))
                    /\ (TakenOnce(u, won, h) => u[h].cumulative = Cardinality(Burnt(u, won, h)))
    BY DEF Weighed
<1>2. CASE h = hash
    <2> PICK below, here, mine, under :
            /\ below = Burnt(t, won, hb.prev) /\ here = UNION won[hash] /\ mine = hb.stamps
            /\ under = CumulativeAt(t, hb.prev)
        OBVIOUS
    <2>1. Burnt(u, won, h) = here \cup below
        <3>1. Path(u, hash) = {hash} \cup Path(t, hb.prev)
            BY <1>1, PathsOfATree
        <3> QED
            BY <1>2, <3>1 DEF Burnt
    <2>2. /\ IsFiniteSet(below) /\ Cardinality(below) \in Nat /\ below \subseteq SpentUpto(t, hb.prev)
        <3>1. \A g \in DOMAIN t : UNION won[g] \subseteq t[g].drawn
            BY DEF Weighed
        <3> QED
            BY <3>1, BurntIsFinite
    <2>3. IsFiniteSet(here) /\ here \cap below = {} /\ mine \subseteq here
        BY <2>2, HistoryAssumption, FS_Subset
    <2>4. /\ Cardinality(here) \in Nat /\ Cardinality(mine) \in Nat /\ Cardinality(mine) <= Cardinality(here)
        BY ONLY <2>3, FS_Subset, FS_CardinalityType
    <2>5. Cardinality(here \cup below) = Cardinality(here) + Cardinality(below)
        <3>1. Cardinality(here \cup below)
                = Cardinality(here) + Cardinality(below) - Cardinality(here \cap below)
            BY ONLY <2>2, <2>3, FS_Union
        <3>2. Cardinality(here \cap below) = 0
            BY ONLY <2>3, FS_EmptySet
        <3> QED
            BY ONLY <2>2, <2>4, <3>1, <3>2
    <2>6. /\ under \in Nat /\ under <= Cardinality(below)
          /\ (TakenOnce(t, won, hb.prev) => under = Cardinality(below))
        BY WeightIsTurnsBurned
    <2>7. ASSUME TakenOnce(u, won, h) PROVE mine = here /\ under = Cardinality(below)
        <3>1. Path(u, hash) = {hash} \cup Path(t, hb.prev) /\ Path(t, hb.prev) \subseteq DOMAIN t
            BY <1>1, PathsOfATree
        <3>2. won[hash] = {mine} /\ \A g \in Path(t, hb.prev) : won[g] = {u[g].stamps} /\ u[g] = t[g]
            BY <1>1, <1>2, <2>7, <3>1 DEF TakenOnce
        <3>3. TakenOnce(t, won, hb.prev)
            BY <3>2 DEF TakenOnce
        <3> QED
            BY <2>6, <3>2, <3>3
    <2>8. u[h].cumulative = under + Cardinality(mine)
        BY <1>1, <1>2
    <2>9. /\ u[h].cumulative \in Nat /\ u[h].cumulative <= Cardinality(here \cup below)
          /\ (TakenOnce(u, won, h) => u[h].cumulative = Cardinality(here \cup below))
        <3> PICK cum, a, b, c, all : /\ cum = u[h].cumulative /\ a = Cardinality(here) /\ b = Cardinality(below)
                                     /\ c = Cardinality(mine) /\ all = Cardinality(here \cup below)
            OBVIOUS
        <3>1. /\ a \in Nat /\ b \in Nat /\ c \in Nat /\ c <= a /\ all = a + b
              /\ under \in Nat /\ under <= b /\ cum = under + c
            BY <2>2, <2>4, <2>5, <2>6, <2>8
        <3>2. cum \in Nat /\ cum <= all
            BY ONLY <3>1
        <3>3. ASSUME TakenOnce(u, won, h) PROVE cum = all
            <4>1. c = a /\ under = b
                BY <2>7, <3>3
            <4> QED
                BY ONLY <3>1, <4>1
        <3> QED
            BY <3>2, <3>3
    <2> QED
        BY <1>1, <1>2, <2>1, <2>9
<1>3. CASE h # hash
    <2>1. h \in DOMAIN t /\ h \in Reached(t) /\ u[h] = t[h] /\ Path(t, h) \subseteq DOMAIN t
        BY <1>1, <1>3, PathsOfATree DEF Reached
    <2>2. Path(u, h) = Path(t, h) /\ Burnt(u, won, h) = Burnt(t, won, h)
        BY <1>1, <2>1 DEF Burnt
    <2>3. ASSUME TakenOnce(u, won, h) PROVE TakenOnce(t, won, h)
        <3> SUFFICES ASSUME NEW g \in Path(t, h) PROVE won[g] = {t[g].stamps}
            BY DEF TakenOnce
        <3>1. won[g] = {u[g].stamps} /\ g \in DOMAIN t
            BY <2>1, <2>2, <2>3 DEF TakenOnce
        <3>2. t[g].stamps \in won[g]
            BY <3>1 DEF Weighed
        <3> QED
            BY <3>1, <3>2
    <2> QED
        BY <2>1, <2>2, <2>3 DEF Weighed
<1> QED
    BY <1>2, <1>3

-----------------------------------------------------------------------------
\* The steps.

LEMMA AcceptIsEarned ==
    ASSUME HistoryInv, NEW hash \in Hashes, NEW prev, NEW burning, NEW claimed,
           Accept(hash, prev, burning, claimed)
    PROVE  HistoryInv' /\ ReorgDepth(blocks', tipHash, tipHash') <= ReorgLimit
<1> DEFINE base == Hardened(blocks, prev, committee'[prev], burning)
<1>1. PICK hb : hb = [base EXCEPT !.weight = claimed, !.cumulative = CumulativeAt(blocks, prev) + claimed]
    OBVIOUS
<1>2. /\ hb.prev = prev /\ hb.height = HeightAt(blocks, prev) + 1 /\ hb.drawn = committee'[prev]
      /\ hb.stamps = burning /\ hb.weight = claimed /\ hb.cumulative = CumulativeAt(blocks, prev) + claimed
    BY <1>1 DEF Hardened
<1> HIDE DEF base
<1>3. PICK u : u = Extended(blocks, hash, hb)
    OBVIOUS
<1>0. ~halted
    BY DEF Accept
<1>5. /\ Chained(blocks) /\ Earned(blocks, committee) /\ rows = blocks
      /\ tipHash \in Reached(blocks) /\ tipHash = Heaviest(rows) /\ halted \in BOOLEAN
      /\ \A h \in DOMAIN committee : committee[h] \subseteq Turns
      /\ Weighed(blocks, taken) /\ DOMAIN taken = DOMAIN blocks
    BY <1>0 DEF HistoryInv
<1>4. /\ ~halted /\ prev \in Reached(blocks) /\ (hash \in DOMAIN blocks => prev = blocks[hash].prev)
      /\ Drawn(prev) /\ Checks(blocks, hb, committee'[prev])
      /\ blocks' = u /\ Retip(u) /\ rows' = IF halted' THEN rows ELSE u
    <2>1. u = [h \in DOMAIN blocks \cup {hash} |-> IF h = hash THEN hb ELSE blocks[h]]
        BY <1>3 DEF Extended
    <2>2. \E w \in {[h \in DOMAIN blocks \cup {hash} |->
                        IF h = hash
                        THEN [base EXCEPT !.weight = claimed, !.cumulative = CumulativeAt(blocks, prev) + claimed]
                        ELSE blocks[h]]} :
            /\ ~halted /\ prev \in Reached(blocks) /\ (hash \in DOMAIN blocks => prev = blocks[hash].prev)
            /\ Drawn(prev)
            /\ Checks(blocks, [base EXCEPT !.weight = claimed, !.cumulative = CumulativeAt(blocks, prev) + claimed],
                      committee'[prev])
            /\ blocks' = w /\ Retip(w) /\ rows' = IF halted' THEN rows ELSE w
        BY <1>5 DEF Accept, base, Reached
    <2> QED
        BY <1>1, <2>1, <2>2
<1>7. PICK more : /\ more = committee' /\ prev \in DOMAIN more /\ \A h \in DOMAIN more : more[h] \subseteq Turns
                  /\ \A h \in DOMAIN committee : h \in DOMAIN more /\ more[h] = committee[h]
    BY <1>4, <1>5, CommitteesAreKept
<1>8. Earned(blocks, more)
    BY <1>5, <1>7, EarnedAsMoreIsDrawn
<1>13. /\ hb.drawn \cap SpentUpto(blocks, prev) = {} /\ hb.stamps \subseteq hb.drawn
       /\ Cardinality(hb.stamps) >= Threshold /\ hb.weight = Cardinality(hb.stamps)
       /\ hb.drawn = more[prev] /\ hb.drawn \subseteq Turns
       /\ (hash \in DOMAIN blocks => hb.prev = blocks[hash].prev /\ hb.drawn = blocks[hash].drawn)
    <2>1. /\ hb.drawn \cap SpentUpto(blocks, prev) = {} /\ hb.stamps \subseteq hb.drawn
          /\ Cardinality(hb.stamps) >= Threshold /\ hb.weight = Cardinality(hb.stamps)
        BY <1>2, <1>4 DEF Checks
    <2>2. hb.drawn = more[prev] /\ hb.drawn \subseteq Turns
        BY <1>2, <1>7
    <2>3. hash \in DOMAIN blocks => hb.prev = blocks[hash].prev /\ hb.drawn = blocks[hash].drawn
        BY <1>2, <1>4, <1>8, <2>2 DEF Earned, Burned
    <2> QED
        BY <2>1, <2>2, <2>3
<1>6. /\ Chained(u) /\ Reached(u) = Reached(blocks) \cup {hash}
      /\ u[hash] = hb /\ \A h \in DOMAIN blocks : h # hash => u[h] = blocks[h]
      /\ \A h \in Reached(blocks) : Path(u, h) = Path(blocks, h) /\ SpentUpto(u, h) = SpentUpto(blocks, h)
    BY <1>2, <1>3, <1>4, <1>5, <1>13, ExtendedTree
<1>9. Earned(u, more)
    <2> SUFFICES ASSUME NEW h \in DOMAIN u PROVE Burned(u, more, h)
        BY DEF Earned
    <2>1. CASE h = hash
        <3>1. SpentUpto(u, prev) = SpentUpto(blocks, prev)
            BY <1>4, <1>6
        <3> QED
            BY <1>2, <1>6, <1>7, <1>13, <2>1, <3>1 DEF Burned
    <2>2. CASE h # hash
        <3>1. h \in DOMAIN blocks /\ u[h] = blocks[h]
            BY <1>3, <1>6, <2>2 DEF Extended
        <3>2. Burned(blocks, more, h) /\ blocks[h].prev \in Reached(blocks)
            BY <1>5, <1>8, <3>1 DEF Earned, Chained
        <3> QED
            BY <1>6, <3>1, <3>2 DEF Burned
    <2> QED
        BY <2>1, <2>2
<1>14. PICK won : /\ won = taken' /\ DOMAIN won = DOMAIN blocks \cup {hash}
                  /\ \A h \in DOMAIN blocks : taken[h] \subseteq won[h]
                  /\ \A h \in DOMAIN blocks : h # hash => won[h] = taken[h]
                  /\ won[hash] = (IF hash \in DOMAIN blocks THEN taken[hash] ELSE {}) \cup {burning}
    <2>1. taken' = [h \in DOMAIN taken \cup {hash} |->
                       (IF h \in DOMAIN taken THEN taken[h] ELSE {})
                           \cup (IF h = hash THEN {burning} ELSE {})]
        BY DEF Accept
    <2>2. PICK won : won = taken'
        OBVIOUS
    <2>3. DOMAIN won = DOMAIN blocks \cup {hash}
        BY <1>5, <2>1, <2>2
    <2>4. ASSUME NEW h \in DOMAIN blocks, h # hash PROVE won[h] = taken[h]
        BY <1>5, <2>1, <2>2, <2>4
    <2>5. won[hash] = (IF hash \in DOMAIN blocks THEN taken[hash] ELSE {}) \cup {burning}
        BY <1>5, <2>1, <2>2
    <2>6. \A h \in DOMAIN blocks : taken[h] \subseteq won[h]
        BY <2>4, <2>5
    <2> QED
        BY <2>2, <2>3, <2>4, <2>5, <2>6
<1>15. UNION won[hash] \subseteq hb.drawn
    BY <1>2, <1>5, <1>13, <1>14 DEF Weighed
<1>16. Weighed(blocks, won)
    <2>1. \A h \in DOMAIN blocks : /\ h \in DOMAIN won /\ taken[h] \subseteq won[h]
                                   /\ UNION won[h] \subseteq blocks[h].drawn
        <3> SUFFICES ASSUME NEW h \in DOMAIN blocks PROVE UNION won[h] \subseteq blocks[h].drawn
            BY <1>14
        <3>1. CASE h = hash
            BY <1>13, <1>15, <3>1
        <3>2. CASE h # hash
            BY <1>5, <1>14, <3>2 DEF Weighed
        <3> QED
            BY <3>1, <3>2
    <2> QED
        BY <1>5, <1>8, <2>1, WeighedAsMoreIsTaken
<1>17. Weighed(u, won)
    <2>1. hb.cumulative = CumulativeAt(blocks, hb.prev) + Cardinality(hb.stamps)
        BY <1>2, <1>13
    <2>2. hash \in DOMAIN won /\ hb.stamps \in won[hash]
        BY <1>2, <1>14
    <2> QED
        BY <1>2, <1>3, <1>4, <1>5, <1>8, <1>13, <1>15, <1>16, <2>1, <2>2, WeighedWhenTaken
<1>18. DOMAIN taken' = DOMAIN blocks'
    BY <1>3, <1>4, <1>14 DEF Extended
<1>10. Heaviest(u) \in Reached(u)
    BY <1>6, <1>9, <1>17, SomethingIsHeaviest
<1>11. CASE TooDeep(u, tipHash, Heaviest(u))
    <2>1. halted' = TRUE /\ tipHash' = tipHash /\ rows' = rows
        BY <1>4, <1>11 DEF Retip
    <2>2. tipHash \in Reached(u) /\ ReorgDepth(u, tipHash, tipHash) <= 0
        BY <1>5, <1>6, DepthsAreNumbers
    <2>3. ReorgDepth(u, tipHash, tipHash) \in Int
        BY <1>6, <2>2, DepthsAreNumbers
    <2>4. ReorgDepth(blocks', tipHash, tipHash') <= ReorgLimit
        <3>1. ReorgLimit \in Nat
            BY HistoryAssumption
        <3>2. ReorgDepth(u, tipHash, tipHash) <= ReorgLimit
            BY <2>2, <2>3, <3>1
        <3> QED
            BY <1>4, <2>1, <3>2
    <2>5. HistoryInv'
        BY <1>4, <1>5, <1>6, <1>7, <1>8, <1>9, <1>14, <1>16, <1>17, <1>18, <2>1, <2>2 DEF HistoryInv
    <2> QED
        BY <2>4, <2>5
<1>12. CASE ~TooDeep(u, tipHash, Heaviest(u))
    <2>1. tipHash' = Heaviest(u) /\ halted' = halted /\ rows' = u
        BY <1>4, <1>12 DEF Retip
    <2>2. ReorgDepth(u, tipHash, Heaviest(u)) \in Int
        BY <1>5, <1>6, <1>10, DepthsAreNumbers
    <2>3. ReorgDepth(blocks', tipHash, tipHash') <= ReorgLimit
        <3>1. ReorgLimit \in Nat
            BY HistoryAssumption
        <3>2. ReorgDepth(u, tipHash, Heaviest(u)) <= ReorgLimit
            BY <1>12, <2>2, <3>1 DEF TooDeep
        <3> QED
            BY <1>4, <2>1, <3>2
    <2>4. HistoryInv'
        BY <1>4, <1>5, <1>6, <1>7, <1>9, <1>10, <1>14, <1>17, <1>18, <2>1 DEF HistoryInv
    <2> QED
        BY <2>3, <2>4
<1> QED
    BY <1>11, <1>12

LEMMA RestoreIsEarned ==
    ASSUME HistoryInv, Restore
    PROVE  HistoryInv' /\ ReorgDepth(blocks', tipHash, tipHash') <= ReorgLimit
<1>1. /\ blocks' = rows /\ tipHash' = tipHash /\ halted' = FALSE /\ UNCHANGED <<rows, committee>>
      /\ Chained(rows) /\ tipHash \in Reached(rows)
    BY DEF HistoryInv, Restore
<1>2. ReorgDepth(rows, tipHash, tipHash) \in Int /\ ReorgDepth(rows, tipHash, tipHash) <= 0
    BY <1>1, DepthsAreNumbers
<1>3. ReorgDepth(rows, tipHash, tipHash) <= ReorgLimit
    <2>1. ReorgLimit \in Nat
        BY HistoryAssumption
    <2> QED
        BY <1>2, <2>1
<1>4. ReorgDepth(blocks', tipHash, tipHash') <= ReorgLimit
    BY <1>1, <1>3
<1>5. Weighed(rows, taken')
    <2>1. \A h \in DOMAIN rows : h \in DOMAIN taken' /\ taken'[h] = taken[h]
        BY DEF Restore
    <2>2. \A h \in DOMAIN rows : taken[h] \subseteq taken'[h] /\ UNION taken'[h] \subseteq rows[h].drawn
        BY <2>1 DEF HistoryInv, Weighed
    <2> QED
        BY <2>1, <2>2, WeighedAsMoreIsTaken DEF HistoryInv
<1>6. DOMAIN taken' = DOMAIN rows
    BY DEF Restore
<1>7. HistoryInv'
    BY <1>1, <1>5, <1>6 DEF HistoryInv
<1> QED
    BY <1>4, <1>7

LEMMA HistoryInitially == HistoryInit => HistoryInv
<1> SUFFICES ASSUME HistoryInit PROVE HistoryInv
    OBVIOUS
<1>1. PICK t : t = <<>> /\ DOMAIN t = {}
    OBVIOUS
<1>2. blocks = t /\ rows = t /\ taken = t /\ tipHash = GenesisHash /\ halted = FALSE
    BY <1>1 DEF HistoryInit
<1>3. Chained(t) /\ Earned(t, committee) /\ Weighed(t, t)
    BY <1>1 DEF Chained, Earned, Weighed
<1>4. PICK drawn \in Drawable({}) : committee = [h \in {GenesisHash} |-> drawn]
    BY DEF HistoryInit
<1>5. drawn \subseteq Turns
    BY <1>4 DEF Drawable, Exhausted, kSubset
<1>6. \A h \in DOMAIN committee : committee[h] \subseteq Turns
    BY <1>4, <1>5
<1>7. Reached(t) = {GenesisHash}
    BY <1>1 DEF Reached
<1>8. Heaviest(t) = GenesisHash
    <2>1. Heaviest(t) \in Reached(t)
        BY <1>3, SomethingIsHeaviest
    <2> QED
        BY <1>7, <2>1
<1> QED
    BY <1>2, <1>3, <1>6, <1>7, <1>8 DEF HistoryInv

LEMMA HistorySteps ==
    ASSUME HistoryInv, HistoryNext
    PROVE  HistoryInv' /\ ReorgDepth(blocks', tipHash, tipHash') <= ReorgLimit
BY AcceptIsEarned, RestoreIsEarned DEF HistoryNext

\* The inductive invariant of History: every tree there is, in memory and in the rows, is of
\* blocks whose draw their own branch calls for and whose work was burned on it, and a node
\* that starts again stands where it stood.
THEOREM HistoryInvariance == HistorySpec => []HistoryInv
<1>1. HistoryInv /\ [HistoryNext]_historyVars => HistoryInv'
    <2>1. HistoryInv /\ UNCHANGED historyVars => HistoryInv'
        BY DEF HistoryInv, historyVars
    <2> QED
        BY <2>1, HistorySteps
<1> QED
    BY <1>1, HistoryInitially, PTL DEF HistorySpec

\* Whatever branches there are and whoever built them, on any number of blocks: no turn is
\* drawn twice on one, and a chain is said to weigh no more than the turns burned on it, and
\* exactly as many unless a block of it was taken again with other stamps
\* (hardening/history.py, check and accept).
THEOREM HistoryWeighsWhatWasBurned == HistorySpec => []HistoryIsEarned
<1>1. HistoryInv => HistoryIsEarned
    <2> SUFFICES ASSUME HistoryInv PROVE HistoryIsEarned
        OBVIOUS
    <2>1. Chained(blocks) /\ Earned(blocks, committee) /\ tipHash \in Reached(blocks)
        BY DEF HistoryInv
    <2>2. SpentOncePerBranch
        <3>1. \A hash \in DOMAIN blocks : hash \in Reached(blocks) /\ ToSet(Branch(blocks, hash)) = Path(blocks, hash)
            BY DEF Reached, Path
        <3> QED
            BY <2>1, <3>1, TurnsAreSpentOnce DEF SpentOncePerBranch
    <2>3. WeightWasBurned
        <3>1. PICK chain : chain = ToSet(Branch(blocks, tipHash)) /\ chain = Path(blocks, tipHash)
            BY DEF Path
        <3>2. /\ CumulativeAt(blocks, tipHash) <= Cardinality(BurnedOn(chain))
              /\ ((\A h \in chain : taken[h] = {blocks[h].stamps}) =>
                    CumulativeAt(blocks, tipHash) = Cardinality(BurnedOn(chain)))
            <4>1. BurnedOn(chain) = Burnt(blocks, taken, tipHash)
                BY <3>1 DEF BurnedOn, Burnt
            <4>2. (\A h \in chain : taken[h] = {blocks[h].stamps}) <=> TakenOnce(blocks, taken, tipHash)
                BY <3>1 DEF TakenOnce
            <4>3. Weighed(blocks, taken)
                BY DEF HistoryInv
            <4> QED
                BY <2>1, <4>1, <4>2, <4>3, WeightIsTurnsBurned
        <3>3. ASSUME NEW h \in chain
              PROVE  Cardinality(blocks[h].stamps \cap committee[blocks[h].prev]) >= Threshold
            <4>1. Burned(blocks, committee, h)
                BY <2>1, <3>1, PathsOfATree DEF Earned
            <4>2. blocks[h].stamps \cap committee[blocks[h].prev] = blocks[h].stamps
                BY <4>1 DEF Burned
            <4> QED
                BY <4>1, <4>2 DEF Burned
        <3> QED
            BY <3>1, <3>2, <3>3 DEF WeightWasBurned
    <2> QED
        BY <2>2, <2>3 DEF HistoryIsEarned
<1> QED
    BY <1>1, HistoryInvariance, PTL

\* A node never undoes more blocks than it keeps records for, by choosing a branch or by
\* starting again, however deep the branches there are (hardening/history.py, _retip;
\* net/node.py, _restore_history).
THEOREM NobodyUndoesTooMuch == HistorySpec => ReorgsAreReversible
<1>1. HistoryInv /\ [HistoryNext]_historyVars
        => [ReorgDepth(blocks', tipHash, tipHash') <= ReorgLimit]_historyVars
    BY HistorySteps
<1> QED
    BY <1>1, HistoryInvariance, PTL DEF HistorySpec, ReorgsAreReversible
=============================================================================
