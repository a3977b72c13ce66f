---------------------------- MODULE Tiers_proofs ----------------------------
(***************************************************************************)
(* Proofs about Tiers and about Wallet.                                      *)
(*                                                                         *)
(* Tiers: TiersInv is inductive, and with it whoever is seated is in one     *)
(* register, every nullifier has one grid, nothing waits where it cannot be  *)
(* included, and moving a member earns it nothing.                           *)
(*                                                                         *)
(* Wallet: WalletInv is inductive, and with it a light client that counts    *)
(* what it scans misses no note and no spend.  Coin selection pays when it   *)
(* can, from one partition and with as few notes as any set would take.      *)
(***************************************************************************)
EXTENDS Tiers, Wallet, Selection_proofs, FiniteSetTheorems, TLAPS

-----------------------------------------------------------------------------
(* Ranks and indices.                                                       *)

\* Some number is free that is no greater than the grids are many.
LEMMA ANumberIsFree ==
    ASSUME NEW G, IsFiniteSet(G), NEW region
    PROVE  \E i \in 0..Cardinality(G) : /\ <<region, i>> \notin G
                                        /\ \A j \in 0..(i - 1) : <<region, j>> \in G
<1> DEFINE n == Cardinality(G)
           free == {i \in 0..n : <<region, i>> \notin G}
<1>1. n \in Nat
    BY FS_CardinalityType
<1>2. free # {}
    <2> SUFFICES ASSUME free = {} PROVE FALSE
        OBVIOUS
    <2> DEFINE f == [i \in 0..n |-> <<region, i>>]
    <2>1. f \in [0..n -> G] /\ \A i, j \in 0..n : f[i] = f[j] => i = j
        OBVIOUS
    <2> HIDE DEF f
    <2>2. IsFiniteSet(0..n) /\ Cardinality(0..n) = n + 1
        <3> HIDE DEF n
        <3>1. 0 \in Int /\ n \in Int
            BY <1>1
        <3>2. IsFiniteSet(0..n) /\ Cardinality(0..n) = IF 0 > n THEN 0 ELSE n - 0 + 1
            BY <3>1, FS_Interval
        <3> QED
            BY <1>1, <3>2
    <2>3. Cardinality(G) < Cardinality(0..n)
        BY <1>1, <2>2
    <2>4. \E i, j \in 0..n : i # j /\ f[i] = f[j]
        BY ONLY <2>1, <2>2, <2>3, FS_PigeonHole, IsFiniteSet(G)
    <2> QED
        BY <2>1, <2>4
<1>3. free \in SUBSET Nat
    BY <1>1
<1>4. PICK i \in free : \A j \in free : i <= j
    BY <1>2, <1>3, LeastOfSome
<1>5. \A j \in 0..(i - 1) : <<region, j>> \in G
    BY <1>1, <1>4
<1> QED
    BY <1>4, <1>5

LEMMA FirstIsThere ==
    ASSUME NEW S \in SUBSET GridNames, S # {}
    PROVE  FirstGrid(S) \in S
<1>1. PICK r \in {g[1] : g \in S} : \A q \in {g[1] : g \in S} : r <= q
    <2>1. {g[1] : g \in S} \in SUBSET Nat /\ {g[1] : g \in S} # {}
        BY DEF GridNames
    <2> QED
        BY <2>1, LeastOfSome
<1> DEFINE N == {g[2] : g \in {h \in S : h[1] = r}}
<1>2. PICK i \in N : \A j \in N : i <= j
    <2>1. N \in SUBSET Nat /\ N # {}
        BY DEF GridNames
    <2> QED
        BY <2>1, LeastOfSome
<1>3. PICK g \in S : g[1] = r /\ g[2] = i
    OBVIOUS
<1>4. ASSUME NEW h \in S \ {g} PROVE Precedes(g, h)
    <2>1. g = <<g[1], g[2]>> /\ h = <<h[1], h[2]>> /\ {g[1], g[2], h[1], h[2]} \subseteq Nat
        BY DEF GridNames
    <2>2. r <= h[1]
        BY <1>1
    <2>3. h[1] = r => i <= h[2]
        BY <1>2
    <2> QED
        BY <1>3, <2>1, <2>2, <2>3 DEF Precedes
<1> QED
    BY <1>4 DEF FirstGrid

-----------------------------------------------------------------------------
(* What a plan may be.                                                      *)

\* A plan names grids there are, a new one that is of its donor's region and not there yet,
\* a target in the region of the grid that is merged away.
PlanOK(plan) ==
    \/ plan = NoPlan
    \/ \E donor \in GridIds, grid \in GridNames, cohort \in SUBSET TierNodes :
          /\ plan = [kind |-> "found", donor |-> donor, grid |-> grid, cohort |-> cohort]
          /\ grid \notin GridIds /\ grid[1] = donor[1] /\ cohort \subseteq Residents(donor)
    \/ \E from, into \in GridIds :
          /\ plan = [kind |-> "merge", from |-> from, into |-> into]
          /\ from # into /\ from[1] = into[1]

LEMMA PlansAreOK ==
    ASSUME GridIds \subseteq GridNames, IsFiniteSet(GridIds), NEW plan \in Plans
    PROVE  PlanOK(plan)
<1>1. CASE plan = NoPlan
    BY <1>1 DEF PlanOK
<1>2. CASE plan \in PlanFoundings /\ plan # NoPlan
    <2> DEFINE over == {g \in GridIds : NeedsSplit(g)}
               donor == FirstGrid(over)
    <2>1. over # {}
        BY <1>2 DEF PlanFoundings
    <2>2. PICK cohort \in SUBSET Eligible(donor) :
              plan = [kind |-> "found", donor |-> donor, grid |-> NextGridId(donor[1]), cohort |-> cohort]
        BY <1>2, <2>1 DEF PlanFoundings
    <2>3. donor \in GridIds
        <3>1. over \in SUBSET GridNames
            OBVIOUS
        <3> HIDE DEF over
        <3>2. FirstGrid(over) \in over
            BY <2>1, <3>1, FirstIsThere
        <3> QED
            BY <3>2 DEF over
    <2>4. cohort \in SUBSET TierNodes /\ cohort \subseteq Residents(donor)
        BY DEF Eligible, Residents
    <2> HIDE DEF donor
    <2>5. PICK i \in 0..K : NextGridId(donor[1]) = <<donor[1], i>> /\ <<donor[1], i>> \notin GridIds
        <3>1. \E i \in 0..K : /\ <<donor[1], i>> \notin GridIds
                              /\ \A j \in 0..(i - 1) : <<donor[1], j>> \in GridIds
            BY ANumberIsFree DEF K
        <3> QED
            BY <3>1 DEF NextGridId
    <2>6. K \in Nat
        BY FS_CardinalityType DEF K
    <2>7. <<donor[1], i>> \in GridNames
        <3>1. donor \in GridNames /\ i \in Nat
            BY <2>3, <2>6
        <3> QED
            BY <3>1 DEF GridNames
    <2> QED
        BY <2>2, <2>3, <2>4, <2>5, <2>7 DEF PlanOK
<1>3. CASE plan \in PlanMerges /\ plan # NoPlan
    <2> DEFINE small == {g \in GridIds : NeedsMerge(g) /\ RoomFor(g) # {}}
               from == FirstGrid(small)
    <2>1. small # {}
        BY <1>3 DEF PlanMerges
    <2>2. PICK into \in Smallest(RoomFor(from)) : plan = [kind |-> "merge", from |-> from, into |-> into]
        BY <1>3, <2>1 DEF PlanMerges
    <2>3. from \in GridIds
        <3>1. small \in SUBSET GridNames
            OBVIOUS
        <3> HIDE DEF small
        <3>2. FirstGrid(small) \in small
            BY <2>1, <3>1, FirstIsThere
        <3> QED
            BY <3>2 DEF small
    <2> HIDE DEF from
    <2>4. into \in GridIds \ {from} /\ into[1] = from[1]
        BY DEF Smallest, RoomFor, GridsIn
    <2> QED
        BY <2>2, <2>3, <2>4 DEF PlanOK
<1> QED
    BY <1>1, <1>2, <1>3 DEF Plans, PlanFoundings

\* A block carries grids that finalised.
LEMMA BundledAreFinal ==
    ASSUME NEW S \in SUBSET GridIds, IsFiniteSet(GridIds), NEW children \in Bundles(S)
    PROVE  children \subseteq S
<1>1. CASE K = 1
    BY <1>1 DEF Bundles
<1>2. CASE K # 1
    <2>1. PICK o \in SetToSeqs(S) : \E ok \in SUBSET Deal(o) : children = UNION ok
        BY <1>2 DEF Bundles
    <2>2. IsFiniteSet(S) /\ Cardinality(S) \in Nat
        BY FS_Subset, FS_CardinalityType
    <2>3. o \in [1..Cardinality(S) -> S]
        BY <2>1 DEF SetToSeqs
    <2>4. \A i \in 1..Len(o) : o[i] \in S
        BY <2>2, <2>3
    <2>5. \A group \in Deal(o) : group \subseteq S
        BY <2>4 DEF Deal
    <2> QED
        BY <2>1, <2>5
<1> QED
    BY <1>1, <1>2

-----------------------------------------------------------------------------
(* What the operations of a register keep.                                  *)

\* A ceremony changes a streak by no more than one, and only for those whom the roll names.
LEMMA AdvancedOK ==
    ASSUME NEW rec \in Records, NEW e \in Nat, NEW H \in Nat, e <= H,
           Served([epoch |-> e], rec),
           NEW n, NEW roll, NEW faulted, n \in roll.attended => rec.joined < H
    PROVE  /\ Advanced(rec, n, roll, faulted) \in Records
           /\ Served([epoch |-> H + 1], Advanced(rec, n, roll, faulted))
           /\ Advanced(rec, n, roll, faulted).joined = rec.joined
           /\ rec.standing = "suspended" => Advanced(rec, n, roll, faulted).standing = "suspended"
<1> USE RegisterAssumption
<1>1. CASE n \in faulted
    <2>1. Advanced(rec, n, roll, faulted) = Faulted(rec)
        BY <1>1 DEF Advanced
    <2>2. "suspended" \in Standings \ {"observer"} /\ 0 \in 0..Threshold /\ rec.faults + 1 \in Nat
        BY DEF Records, Standings
    <2>3. /\ Faulted(rec) \in Records /\ Faulted(rec).joined = rec.joined
          /\ Faulted(rec).standing = "suspended" /\ Faulted(rec).streak = 0
        BY <2>2 DEF Faulted, Records
    <2>4. rec.joined >= 0 => rec.joined <= H + 1
        BY DEF Served, Records
    <2> QED
        BY <2>1, <2>3, <2>4 DEF Served
<1>2. CASE n \notin faulted /\ rec.standing = "suspended"
    <2>1. Advanced(rec, n, roll, faulted) = rec
        BY <1>2 DEF Advanced
    <2> QED
        BY <1>2, <2>1 DEF Served, Records
<1>3. CASE n \notin faulted /\ rec.standing # "suspended" /\ n \in roll.attended
    <2> DEFINE more == [rec EXCEPT !.streak = UpTo(Threshold, @ + 1), !.misses = 0]
    <2>1. Advanced(rec, n, roll, faulted) = Promoted(more)
        BY <1>3 DEF Advanced, Attended
    <2>2. /\ more \in Records /\ more.joined = rec.joined /\ more.standing = rec.standing
          /\ more.streak <= rec.streak + 1 /\ more.streak \in 0..Threshold
        <3> PICK k, m : k = UpTo(Threshold, rec.streak + 1) /\ m = 0
            OBVIOUS
        <3>1. k \in 0..Threshold /\ k <= rec.streak + 1 /\ m \in Nat
            BY DEF Records, UpTo
        <3>2. more = [rec EXCEPT !.streak = k, !.misses = m]
            OBVIOUS
        <3> HIDE DEF more
        <3> QED
            BY <3>1, <3>2 DEF Records
    <2>3. rec.joined >= 0 => more.joined + more.streak < H + 1
        <3>1. rec.joined < H /\ rec.joined \in Int /\ rec.streak \in Nat
            BY <1>3 DEF Records
        <3>2. rec.joined >= 0 => rec.streak = 0 \/ rec.joined + rec.streak < e
            BY DEF Served
        <3> QED
            BY <2>2, <3>1, <3>2
    <2> HIDE DEF more
    <2>4. CASE more.standing = "apprentice" /\ more.streak >= Threshold
        <3>1. Promoted(more) = [more EXCEPT !.standing = "attester"]
            BY <2>4 DEF Promoted
        <3>2. rec.joined >= 0 => more.joined + Threshold < H + 1 /\ more.joined <= H + 1
            BY <2>2, <2>3, <2>4 DEF Records
        <3> QED
            BY <1>3, <2>1, <2>2, <2>3, <3>1, <3>2 DEF Records, Standings, Served
    <2>5. CASE ~(more.standing = "apprentice" /\ more.streak >= Threshold)
        <3>1. Promoted(more) = more
            BY <2>5 DEF Promoted
        <3>2. rec.joined >= 0 /\ rec.standing = "attester" => rec.joined + Threshold < H + 1
            BY DEF Served, Records
        <3>3. rec.joined >= 0 => rec.joined <= H + 1
            BY DEF Served, Records
        <3> QED
            BY <1>3, <2>1, <2>2, <2>3, <3>1, <3>2, <3>3 DEF Served
    <2> QED
        BY <2>4, <2>5
<1>4. CASE n \notin faulted /\ rec.standing # "suspended" /\ n \notin roll.attended
    <2>1. Advanced(rec, n, roll, faulted) = Missed(rec)
        BY <1>4 DEF Advanced
    <2>2. /\ Missed(rec) \in Records /\ Missed(rec).joined = rec.joined
          /\ Missed(rec).standing = rec.standing /\ Missed(rec).streak \in {0, rec.streak}
        <3> PICK k, m : /\ k = (IF rec.misses + 1 > Forgiveness THEN 0 ELSE rec.streak)
                        /\ m = UpTo(Forgiveness + 1, rec.misses + 1)
            OBVIOUS
        <3>1. k \in 0..Threshold /\ k \in {0, rec.streak} /\ m \in Nat
            BY DEF Records, UpTo
        <3>2. Missed(rec) = [rec EXCEPT !.misses = m, !.streak = k]
            BY DEF Missed, Records
        <3> QED
            BY <3>1, <3>2 DEF Records
    <2>3. Served([epoch |-> H + 1], Missed(rec))
        <3>1. /\ rec.joined \in Int /\ rec.streak \in Nat
              /\ rec.joined >= 0 =>
                   /\ rec.joined <= e
                   /\ rec.streak = 0 \/ rec.joined + rec.streak < e
                   /\ rec.standing = "attester" => rec.joined + Threshold < e
            BY DEF Served, Records
        <3> QED
            BY <2>2, <3>1 DEF Served
    <2> QED
        BY <1>4, <2>1, <2>2, <2>3
<1> QED
    BY <1>1, <1>2, <1>3, <1>4

\* All of the register: a roll that names no stranger.
LEMMA RollOK ==
    ASSUME NEW reg, RegisterOK(reg), \A n \in Enrolled(reg) : Served(reg, reg.members[n]),
           NEW roll, roll.epoch \in Nat, reg.epoch <= roll.epoch,
           NEW faulted, roll.seated \cup faulted \subseteq Enrolled(reg),
           \A n \in roll.attended \cap Enrolled(reg) : reg.members[n].joined < roll.epoch
    PROVE  LET new == ApplyRoll(reg, roll, faulted) IN
           /\ RegisterOK(new) /\ Enrolled(new) = Enrolled(reg) /\ new.epoch = roll.epoch + 1
           /\ \A n \in Enrolled(reg) :
                 /\ Served(new, new.members[n]) /\ new.members[n].joined = reg.members[n].joined
                 /\ reg.members[n].standing = "suspended" => new.members[n].standing = "suspended"
<1> PICK S \in SUBSET TierNodes : reg \in [epoch : Nat, members : [S -> Records]]
    BY DEF RegisterOK
<1> DEFINE new == ApplyRoll(reg, roll, faulted)
           named == roll.seated \cup faulted
<1>1. Enrolled(reg) = S /\ reg.epoch \in Nat
    BY DEF Enrolled
<1>2. /\ new.epoch = roll.epoch + 1 /\ DOMAIN new.members = S
      /\ new = [epoch |-> new.epoch, members |-> new.members]
      /\ new.members = [n \in S |-> new.members[n]]
      /\ \A n \in S : new.members[n] = IF n \in named THEN Advanced(reg.members[n], n, roll, faulted)
                                                     ELSE reg.members[n]
    BY <1>1 DEF ApplyRoll
<1> HIDE DEF new, named
<1>3. ASSUME NEW n \in S
      PROVE  /\ new.members[n] \in Records /\ Served(new, new.members[n])
             /\ new.members[n].joined = reg.members[n].joined
             /\ reg.members[n].standing = "suspended" => new.members[n].standing = "suspended"
    <2>1. /\ reg.members[n] \in Records /\ Served([epoch |-> reg.epoch], reg.members[n])
          /\ n \in roll.attended => reg.members[n].joined < roll.epoch
        BY <1>1 DEF Served
    <2>2. CASE n \in named
        <3>1. new.members[n] = Advanced(reg.members[n], n, roll, faulted)
            BY <1>2, <2>2
        <3>2. Served([epoch |-> roll.epoch + 1], new.members[n])
            BY <1>1, <2>1, <3>1, AdvancedOK
        <3> QED
            BY <1>1, <1>2, <2>1, <3>1, <3>2, AdvancedOK DEF Served
    <2>3. CASE n \notin named
        <3>1. new.members[n] = reg.members[n]
            BY <1>2, <2>3
        <3>2. Served(new, reg.members[n])
            <4> USE RegisterAssumption
            <4> QED
                BY <1>1, <1>2, <2>1 DEF Served, Records
        <3> QED
            BY <2>1, <3>1, <3>2
    <2> QED
        BY <2>2, <2>3
<1>4. RegisterOK(new)
    <2>1. new.members \in [S -> Records]
        BY <1>2, <1>3
    <2>2. new.epoch \in Nat
        BY <1>2
    <2> QED
        BY <1>2, <2>1, <2>2 DEF RegisterOK
<1> QED
    BY <1>1, <1>2, <1>3, <1>4 DEF Enrolled, new

AllServed(reg) == \A n \in Enrolled(reg) : Served(reg, reg.members[n])

LEMMA ReleaseOK ==
    ASSUME NEW reg, RegisterOK(reg), AllServed(reg), NEW movers
    PROVE  LET new == Release(reg, movers) IN
           /\ RegisterOK(new) /\ AllServed(new) /\ new.epoch = reg.epoch
           /\ Enrolled(new) = Enrolled(reg) \ movers
           /\ \A n \in Enrolled(new) : new.members[n] = reg.members[n]
<1> PICK S \in SUBSET TierNodes : reg \in [epoch : Nat, members : [S -> Records]]
    BY DEF RegisterOK
<1> DEFINE new == Release(reg, movers)
<1>1. Enrolled(reg) = S /\ reg.epoch \in Nat
    BY DEF Enrolled
<1>2. /\ new = [epoch |-> reg.epoch, members |-> [n \in S \ movers |-> reg.members[n]]]
      /\ S \ movers \in SUBSET TierNodes
    BY DEF Release
<1> HIDE DEF new
<1>3. RegisterOK(new)
    BY <1>2 DEF RegisterOK
<1>4. Enrolled(new) = S \ movers /\ new.epoch = reg.epoch /\ \A n \in S \ movers : new.members[n] = reg.members[n]
    BY <1>2 DEF Enrolled
<1>5. AllServed(new)
    BY <1>1, <1>4 DEF AllServed, Served
<1> QED
    BY <1>1, <1>3, <1>4, <1>5 DEF new

\* A record that moves says where it is from, and keeps what it has served.
Same(new, old) == new.joined = old.joined /\ new.standing = old.standing /\ new.streak = old.streak

LEMMA MovedOK ==
    ASSUME NEW rec \in Records, NEW name \in GridNames, NEW new,
           new \in {[rec EXCEPT !.from = name], [rec EXCEPT !.from = name, !.misses = 0]}
    PROVE  new \in Records /\ Same(new, rec)
<1>1. name \in {OwnGrid} \cup GridNames /\ 0 \in Nat
    OBVIOUS
<1> QED
    BY <1>1 DEF Records, Same

LEMMA FoundOK ==
    ASSUME NEW reg, RegisterOK(reg), AllServed(reg), NEW movers \in SUBSET Enrolled(reg), NEW donor \in GridNames
    PROVE  LET new == FoundRegister(reg, movers, donor) IN
           /\ RegisterOK(new) /\ AllServed(new) /\ new.epoch = reg.epoch /\ Enrolled(new) = movers
           /\ \A n \in movers : /\ new.members[n].joined = reg.members[n].joined
                                /\ new.members[n].standing = reg.members[n].standing
<1> PICK S \in SUBSET TierNodes : reg \in [epoch : Nat, members : [S -> Records]]
    BY DEF RegisterOK
<1> DEFINE new == FoundRegister(reg, movers, donor)
<1>1. Enrolled(reg) = S /\ reg.epoch \in Nat /\ movers \in SUBSET TierNodes
    BY DEF Enrolled
<1>2. /\ new.epoch = reg.epoch /\ DOMAIN new.members = movers
      /\ new = [epoch |-> new.epoch, members |-> new.members]
      /\ new.members = [n \in movers |-> new.members[n]]
      /\ \A n \in movers : new.members[n] = [reg.members[n] EXCEPT !.from = donor, !.misses = 0]
    BY DEF FoundRegister
<1> HIDE DEF new
<1>3. ASSUME NEW n \in movers
      PROVE  /\ new.members[n] \in Records /\ new.members[n].joined = reg.members[n].joined
             /\ new.members[n].standing = reg.members[n].standing
             /\ new.members[n].streak = reg.members[n].streak
    <2>1. reg.members[n] \in Records
        BY <1>1
    <2> QED
        <3> PICK old, now : old = reg.members[n] /\ now = new.members[n]
            OBVIOUS
        <3>1. old \in Records /\ now = [old EXCEPT !.from = donor, !.misses = 0]
            BY <1>2, <2>1
        <3>2. now \in Records /\ Same(now, old)
            BY ONLY <3>1, MovedOK, donor \in GridNames
        <3> QED
            BY <3>2 DEF Same
<1>4. RegisterOK(new)
    <2>1. new.members \in [movers -> Records]
        BY <1>2, <1>3
    <2> QED
        BY <1>1, <1>2, <2>1 DEF RegisterOK
<1>5. AllServed(new)
    BY <1>1, <1>2, <1>3 DEF AllServed, Served, Enrolled
<1> QED
    BY <1>2, <1>3, <1>4, <1>5 DEF new, Enrolled

LEMMA AbsorbOK ==
    ASSUME NEW reg, RegisterOK(reg), AllServed(reg), NEW other, RegisterOK(other), AllServed(other),
           NEW name \in GridNames, CanAbsorb(reg, other)
    PROVE  LET new == Absorb(reg, other, name) IN
           /\ RegisterOK(new) /\ AllServed(new) /\ new.epoch = reg.epoch
           /\ Enrolled(new) = Enrolled(reg) \cup Enrolled(other)
           /\ \A n \in Enrolled(reg) : new.members[n] = reg.members[n]
           /\ \A n \in Enrolled(other) : /\ new.members[n].joined = other.members[n].joined
                                         /\ new.members[n].standing = other.members[n].standing
<1> PICK S \in SUBSET TierNodes : reg \in [epoch : Nat, members : [S -> Records]]
    BY DEF RegisterOK
<1> PICK T \in SUBSET TierNodes : other \in [epoch : Nat, members : [T -> Records]]
    BY DEF RegisterOK
<1> DEFINE new == Absorb(reg, other, name)
<1>1. Enrolled(reg) = S /\ Enrolled(other) = T /\ S \cap T = {} /\ reg.epoch = other.epoch /\ reg.epoch \in Nat
    BY DEF Enrolled, CanAbsorb
<1>2. /\ new.epoch = reg.epoch /\ DOMAIN new.members = S \cup T
      /\ new = [epoch |-> new.epoch, members |-> new.members]
      /\ new.members = [n \in S \cup T |-> new.members[n]]
      /\ \A n \in S : new.members[n] = reg.members[n]
      /\ \A n \in T : new.members[n] = [other.members[n] EXCEPT !.from = name]
    BY <1>1 DEF Absorb
<1> HIDE DEF new
<1>3. ASSUME NEW n \in S PROVE new.members[n] \in Records /\ Served(new, new.members[n])
    <2>1. reg.members[n] \in Records /\ Served(reg, reg.members[n])
        BY <1>1 DEF AllServed
    <2> QED
        BY <1>2, <2>1 DEF Served
<1>4. ASSUME NEW n \in T
      PROVE  /\ new.members[n] \in Records /\ Served(new, new.members[n])
             /\ new.members[n].joined = other.members[n].joined
             /\ new.members[n].standing = other.members[n].standing
    <2>1. other.members[n] \in Records /\ Served(other, other.members[n])
        BY <1>1 DEF AllServed
    <2>2. /\ new.members[n] \in Records /\ new.members[n].joined = other.members[n].joined
          /\ new.members[n].standing = other.members[n].standing
          /\ new.members[n].streak = other.members[n].streak
        <3> PICK old, now : old = other.members[n] /\ now = new.members[n]
            OBVIOUS
        <3>1. old \in Records /\ now = [old EXCEPT !.from = name]
            BY <1>2, <2>1
        <3>2. now \in Records /\ Same(now, old)
            BY ONLY <3>1, MovedOK, name \in GridNames
        <3> QED
            BY <3>2 DEF Same
    <2> QED
        BY <1>1, <1>2, <2>1, <2>2 DEF Served
<1>5. RegisterOK(new)
    <2>1. new.members \in [S \cup T -> Records] /\ S \cup T \in SUBSET TierNodes
        BY <1>2, <1>3, <1>4
    <2> QED
        BY <1>1, <1>2, <2>1 DEF RegisterOK
<1>6. AllServed(new)
    BY <1>2, <1>3, <1>4 DEF AllServed, Enrolled
<1>7. Enrolled(new) = S \cup T
    BY <1>2 DEF Enrolled
<1> QED
    BY <1>1, <1>2, <1>4, <1>5, <1>6, <1>7 DEF new

-----------------------------------------------------------------------------
(* What a plan makes of the registers, the homes and the partitions.        *)

RegistersOK(regs, top) ==
    \A g \in DOMAIN regs : RegisterOK(regs[g]) /\ AllServed(regs[g]) /\ regs[g].epoch <= top

\* n is in the register of grid g with the record it had at home.
Brought(n, reg, g, regs) ==
    /\ home[n] \in GridIds /\ g[1] = home[n][1] /\ n \in Enrolled(regs[home[n]])
    /\ reg.members[n].joined = regs[home[n]].members[n].joined
    /\ reg.members[n].standing = regs[home[n]].members[n].standing

PlannedOK(new, hm, regs, top) ==
    /\ DOMAIN new \subseteq GridNames /\ RegistersOK(new, top)
    /\ hm \in [TierNodes -> DOMAIN new \cup {NoGrid}]
    /\ \A n \in TierNodes : hm[n] = NoGrid <=> home[n] = NoGrid
    /\ \A g \in DOMAIN new : /\ Enrolled(new[g]) = {n \in TierNodes : hm[n] = g}
                             /\ \A n \in Enrolled(new[g]) : Brought(n, new[g], g, regs)

LEMMA NoGridIsNone == NoGrid \notin GridNames
BY DEF NoGrid, GridNames

LEMMA PlanIsCarriedOut ==
    ASSUME GridIds \subseteq GridNames, home \in [TierNodes -> GridIds \cup {NoGrid}],
           NEW plan, PlanOK(plan), NEW regs, DOMAIN regs = GridIds, NEW top, RegistersOK(regs, top),
           \A g \in GridIds : Enrolled(regs[g]) = Residents(g), CanCarryOut(plan, regs)
    PROVE  PlannedOK(CarriedOut(plan, regs), HomesAfter(plan), regs, top)
<1> DEFINE new == CarriedOut(plan, regs)
           hm == HomesAfter(plan)
<1>1. CASE plan = NoPlan
    <2>1. new = regs /\ hm = home
        BY <1>1 DEF NoPlan, CarriedOut, HomesAfter
    <2> QED
        BY <2>1, NoGridIsNone DEF PlannedOK, RegistersOK, Brought, Residents
<1>2. ASSUME NEW donor \in GridIds, NEW grid \in GridNames, NEW cohort \in SUBSET TierNodes,
             plan = [kind |-> "found", donor |-> donor, grid |-> grid, cohort |-> cohort],
             grid \notin GridIds, grid[1] = donor[1], cohort \subseteq Residents(donor)
      PROVE  PlannedOK(new, hm, regs, top)
    <2>1. /\ DOMAIN new = GridIds \cup {grid}
          /\ new[grid] = FoundRegister(regs[donor], cohort, donor)
          /\ new[donor] = Release(regs[donor], cohort)
          /\ \A g \in GridIds \ {donor} : new[g] = regs[g]
        BY <1>2 DEF CarriedOut
    <2>2. hm = [n \in TierNodes |-> IF n \in cohort THEN grid ELSE home[n]]
        BY <1>2 DEF HomesAfter
    <2>3. RegisterOK(regs[donor]) /\ AllServed(regs[donor]) /\ regs[donor].epoch <= top
          /\ Enrolled(regs[donor]) = Residents(donor) /\ donor \in GridNames
        BY DEF RegistersOK
    <2> HIDE DEF new, hm
    <2>4. /\ RegisterOK(new[grid]) /\ AllServed(new[grid]) /\ new[grid].epoch <= top
          /\ Enrolled(new[grid]) = cohort
          /\ \A n \in cohort : /\ new[grid].members[n].joined = regs[donor].members[n].joined
                               /\ new[grid].members[n].standing = regs[donor].members[n].standing
        <3>1. cohort \in SUBSET Enrolled(regs[donor])
            BY <1>2, <2>3
        <3> QED
            <4> PICK reg : reg = regs[donor]
                OBVIOUS
            <4> PICK made : made = FoundRegister(reg, cohort, donor)
                OBVIOUS
            <4>1. /\ RegisterOK(reg) /\ AllServed(reg) /\ cohort \in SUBSET Enrolled(reg) /\ donor \in GridNames
                  /\ made = new[grid] /\ reg.epoch <= top
                BY <2>1, <2>3, <3>1
            <4>2. /\ RegisterOK(made) /\ AllServed(made) /\ made.epoch = reg.epoch /\ Enrolled(made) = cohort
                  /\ \A n \in cohort : /\ made.members[n].joined = reg.members[n].joined
                                       /\ made.members[n].standing = reg.members[n].standing
                BY ONLY <4>1, FoundOK, made = FoundRegister(reg, cohort, donor)
            <4> QED
                BY <4>1, <4>2
    <2>5. /\ RegisterOK(new[donor]) /\ AllServed(new[donor]) /\ new[donor].epoch <= top
          /\ Enrolled(new[donor]) = Residents(donor) \ cohort
          /\ \A n \in Enrolled(new[donor]) : new[donor].members[n] = regs[donor].members[n]
        BY <2>1, <2>3, ReleaseOK
    <2>6. RegistersOK(new, top)
        BY <2>1, <2>4, <2>5 DEF RegistersOK
    <2>7. \A n \in cohort : home[n] = donor
        BY <1>2 DEF Residents
    <2>8. ASSUME NEW g \in DOMAIN new
          PROVE  /\ Enrolled(new[g]) = {n \in TierNodes : hm[n] = g}
                 /\ \A n \in Enrolled(new[g]) : Brought(n, new[g], g, regs)
        <3>1. CASE g = grid
            <4>1. {n \in TierNodes : hm[n] = g} = cohort
                BY <1>2, <2>2, <3>1, NoGridIsNone
            <4> QED
                BY <1>2, <2>3, <2>4, <2>7, <3>1, <4>1 DEF Brought
        <3>2. CASE g = donor
            <4>1. {n \in TierNodes : hm[n] = g} = Residents(donor) \ cohort
                BY <1>2, <2>2, <3>2 DEF Residents
            <4> QED
                BY <2>3, <2>5, <3>2, <4>1 DEF Brought, Residents
        <3>3. CASE g \in GridIds \ {donor}
            <4>1. {n \in TierNodes : hm[n] = g} = Residents(g)
                BY <1>2, <2>2, <2>7, <3>3 DEF Residents
            <4> QED
                BY <2>1, <3>3, <4>1 DEF Brought, Residents
        <3> QED
            BY <2>1, <3>1, <3>2, <3>3
    <2>9. hm \in [TierNodes -> DOMAIN new \cup {NoGrid}] /\ \A n \in TierNodes : hm[n] = NoGrid <=> home[n] = NoGrid
        BY <2>1, <2>2, <2>3, <2>7, NoGridIsNone
    <2> QED
        BY <2>1, <2>6, <2>8, <2>9 DEF PlannedOK
<1>3. ASSUME NEW from \in GridIds, NEW into \in GridIds, from # into, from[1] = into[1],
             plan = [kind |-> "merge", from |-> from, into |-> into]
      PROVE  PlannedOK(new, hm, regs, top)
    <2>1. /\ DOMAIN new = GridIds \ {from}
          /\ new[into] = Absorb(regs[into], regs[from], from)
          /\ \A g \in GridIds \ {from, into} : new[g] = regs[g]
        BY <1>3 DEF CarriedOut
    <2>2. hm = [n \in TierNodes |-> IF home[n] = from THEN into ELSE home[n]]
        BY <1>3 DEF HomesAfter
    <2>3. CanAbsorb(regs[into], regs[from])
        BY <1>3 DEF CanCarryOut
    <2> HIDE DEF new, hm
    <2>4. \A g \in {from, into} : /\ RegisterOK(regs[g]) /\ AllServed(regs[g]) /\ regs[g].epoch <= top
                                  /\ Enrolled(regs[g]) = Residents(g) /\ g \in GridNames
        BY DEF RegistersOK
    <2>5. /\ RegisterOK(new[into]) /\ AllServed(new[into]) /\ new[into].epoch <= top
          /\ Enrolled(new[into]) = Residents(into) \cup Residents(from)
          /\ \A n \in Residents(into) : new[into].members[n] = regs[into].members[n]
          /\ \A n \in Residents(from) : /\ new[into].members[n].joined = regs[from].members[n].joined
                                        /\ new[into].members[n].standing = regs[from].members[n].standing
        BY <2>1, <2>3, <2>4, AbsorbOK
    <2>6. RegistersOK(new, top)
        BY <2>1, <2>5 DEF RegistersOK
    <2>8. ASSUME NEW g \in DOMAIN new
          PROVE  /\ Enrolled(new[g]) = {n \in TierNodes : hm[n] = g}
                 /\ \A n \in Enrolled(new[g]) : Brought(n, new[g], g, regs)
        <3>1. CASE g = into
            <4>1. {n \in TierNodes : hm[n] = g} = Residents(into) \cup Residents(from)
                BY <1>3, <2>2, <3>1 DEF Residents
            <4> QED
                BY <1>3, <2>4, <2>5, <3>1, <4>1 DEF Brought, Residents
        <3>2. CASE g \in GridIds \ {from, into}
            <4>1. {n \in TierNodes : hm[n] = g} = Residents(g)
                BY <2>2, <3>2 DEF Residents
            <4> QED
                BY <2>1, <3>2, <4>1 DEF Brought, Residents
        <3> QED
            BY <2>1, <3>1, <3>2
    <2>9. hm \in [TierNodes -> DOMAIN new \cup {NoGrid}] /\ \A n \in TierNodes : hm[n] = NoGrid <=> home[n] = NoGrid
        BY <1>3, <2>1, <2>2, <2>4, NoGridIsNone
    <2> QED
        BY <2>1, <2>6, <2>8, <2>9 DEF PlannedOK
<1> QED
    BY <1>1, <1>2, <1>3 DEF PlanOK

\* The grids G have the indices 0 .. |G| - 1, one each.
Indexed(part, G) ==
    /\ part \in [G -> 0..(Cardinality(G) - 1)] /\ {part[g] : g \in G} = 0..(Cardinality(G) - 1)
    /\ \A g, h \in G : part[g] = part[h] => g = h

LEMMA PlannedIndices ==
    ASSUME IsFiniteSet(GridIds), Indexed(partition, GridIds), NEW plan, PlanOK(plan)
    PROVE  LET part == PartitionsAfter(plan) IN
           IsFiniteSet(DOMAIN part) /\ Indexed(part, DOMAIN part)
<1> DEFINE part == PartitionsAfter(plan)
<1>0. K \in Nat /\ K = Cardinality(GridIds)
    BY FS_CardinalityType DEF K
<1>1. CASE plan = NoPlan
    <2>1. part = partition /\ DOMAIN part = GridIds
        BY <1>1 DEF PartitionsAfter, NoPlan, Indexed
    <2> QED
        BY <2>1
<1>2. ASSUME NEW donor, NEW grid, NEW cohort, grid \notin GridIds,
             plan = [kind |-> "found", donor |-> donor, grid |-> grid, cohort |-> cohort]
      PROVE  IsFiniteSet(DOMAIN part) /\ Indexed(part, DOMAIN part)
    <2>1. part = [g \in GridIds \cup {grid} |-> IF g = grid THEN K ELSE partition[g]]
        BY <1>2 DEF PartitionsAfter
    <2> HIDE DEF part
    <2>2. IsFiniteSet(GridIds \cup {grid}) /\ Cardinality(GridIds \cup {grid}) = K + 1
        BY <1>0, <1>2, FS_AddElement
    <2>3. /\ DOMAIN part = GridIds \cup {grid} /\ part[grid] = K
          /\ \A g \in GridIds : part[g] = partition[g] /\ part[g] \in 0..(K - 1)
        BY <1>0, <1>2, <2>1 DEF Indexed
    <2>4. part \in [DOMAIN part -> 0..K]
        BY <1>0, <2>1, <2>3
    <2>5. \A g, h \in DOMAIN part : part[g] = part[h] => g = h
        BY <1>0, <2>3 DEF Indexed
    <2>6. \A i \in 0..K : \E g \in DOMAIN part : part[g] = i
        <3> SUFFICES ASSUME NEW i \in 0..K PROVE \E g \in DOMAIN part : part[g] = i
            OBVIOUS
        <3>1. CASE i = K
            BY <2>3, <3>1
        <3>2. CASE i # K
            <4>1. i \in {partition[g] : g \in GridIds}
                <5>1. i \in 0..(K - 1)
                    BY <1>0, <3>2
                <5>2. {partition[g] : g \in GridIds} = 0..(K - 1)
                    BY <1>0 DEF Indexed
                <5> QED
                    BY ONLY <5>1, <5>2
            <4> QED
                BY <2>3, <4>1
        <3> QED
            BY <3>1, <3>2
    <2>7. {part[g] : g \in DOMAIN part} = 0..K
        <3>1. \A g \in DOMAIN part : part[g] \in 0..K
            BY <2>4
        <3> QED
            BY ONLY <2>6, <3>1
    <2>8. Cardinality(DOMAIN part) - 1 = K /\ IsFiniteSet(DOMAIN part)
        BY <1>0, <2>2, <2>3
    <2> QED
        BY <2>4, <2>5, <2>7, <2>8 DEF Indexed
<1>3. ASSUME NEW from, NEW into, plan = [kind |-> "merge", from |-> from, into |-> into]
      PROVE  IsFiniteSet(DOMAIN part) /\ Indexed(part, DOMAIN part)
    <2> DEFINE G == GridIds \ {from}
               R == {e \in G \X G : partition[e[1]] < partition[e[2]]}
    <2>1. part = [g \in G |-> Cardinality({h \in G : partition[h] < partition[g]})]
        BY <1>3 DEF PartitionsAfter
    <2>2. IsFiniteSet(G)
        BY FS_RemoveElement
    <2>3. \A g \in G : partition[g] \in Int
        BY <1>0 DEF Indexed
    <2>4. \A g, h \in G : <<g, h>> \in R <=> partition[g] < partition[h]
        OBVIOUS
    <2>5. R \in SUBSET (G \X G)
        OBVIOUS
    <2>6. part = Ranks(G, R)
        <3>1. \A g \in G : {h \in G : partition[h] < partition[g]} = {h \in G : <<h, g>> \in R}
            BY <2>4
        <3> HIDE DEF R
        <3> QED
            BY <2>1, <3>1 DEF Ranks
    <2>7. /\ \A g \in G : <<g, g>> \notin R
          /\ \A g, h, i \in G : <<g, h>> \in R /\ <<h, i>> \in R => <<g, i>> \in R
        BY <2>3, <2>4
    <2>8. \A g, h \in G : g # h => <<g, h>> \in R \/ <<h, g>> \in R
        BY <2>3, <2>4 DEF Indexed
    <2>9. DOMAIN part = G
        BY <2>1
    <2> HIDE DEF part, G, R
    <2>10. /\ part \in [G -> 0..(Cardinality(G) - 1)]
           /\ \A g, h \in G : part[g] = part[h] => g = h
           /\ {part[g] : g \in G} = 0..(Cardinality(G) - 1)
        BY <2>2, <2>5, <2>6, <2>7, <2>8, RanksFill
    <2> QED
        BY <2>2, <2>9, <2>10 DEF Indexed
<1> QED
    BY <1>1, <1>2, <1>3 DEF PlanOK

\* The registers and the indices are of the same grids.
LEMMA SameGridsAfter ==
    ASSUME NEW plan, PlanOK(plan), NEW regs, DOMAIN regs = GridIds, DOMAIN partition = GridIds
    PROVE  DOMAIN CarriedOut(plan, regs) = DOMAIN PartitionsAfter(plan)
<1>1. CASE plan = NoPlan
    BY <1>1 DEF NoPlan, CarriedOut, PartitionsAfter
<1>2. ASSUME NEW donor, NEW grid, NEW cohort,
             plan = [kind |-> "found", donor |-> donor, grid |-> grid, cohort |-> cohort]
      PROVE  DOMAIN CarriedOut(plan, regs) = DOMAIN PartitionsAfter(plan)
    BY <1>2 DEF CarriedOut, PartitionsAfter
<1>3. ASSUME NEW from, NEW into, plan = [kind |-> "merge", from |-> from, into |-> into]
      PROVE  DOMAIN CarriedOut(plan, regs) = DOMAIN PartitionsAfter(plan)
    BY <1>3 DEF CarriedOut, PartitionsAfter
<1> QED
    BY <1>1, <1>2, <1>3 DEF PlanOK

-----------------------------------------------------------------------------
(* The invariant, at the start and in an epoch.                             *)

LEMMA StartOK ==
    ASSUME NEW members \in SUBSET TierNodes, NEW out
    PROVE  LET new == StartRegister(members, out) IN
           RegisterOK(new) /\ AllServed(new) /\ new.epoch = 0 /\ Enrolled(new) = members
<1> DEFINE new == StartRegister(members, out)
           rec(n) == IF n \in out THEN [Founder EXCEPT !.standing = "suspended", !.faults = 1] ELSE Founder
<1> USE RegisterAssumption
<1>1. Founder \in Records /\ Founder.joined = -1
    BY DEF Founder, Records, Standings
<1>2. /\ [Founder EXCEPT !.standing = "suspended", !.faults = 1] \in Records
      /\ [Founder EXCEPT !.standing = "suspended", !.faults = 1].joined = -1
    <2>1. "suspended" \in Standings \ {"observer"} /\ 1 \in Nat
        BY DEF Standings
    <2> PICK old : old = Founder
        OBVIOUS
    <2>2. old \in Records /\ old.joined = -1
        BY <1>1
    <2>3. [old EXCEPT !.standing = "suspended", !.faults = 1] \in Records
        BY ONLY <2>1, <2>2 DEF Records
    <2> QED
        BY ONLY <2>2, <2>3, old = Founder DEF Records
<1>3. \A n \in members : rec(n) \in Records /\ rec(n).joined = -1
    BY <1>1, <1>2
<1>4. new = [epoch |-> 0, members |-> [n \in members |-> rec(n)]]
    BY DEF StartRegister, GenesisRegister
<1> HIDE DEF new, rec
<1>5. RegisterOK(new)
    BY <1>3, <1>4 DEF RegisterOK
<1>6. AllServed(new)
    BY <1>3, <1>4 DEF AllServed, Served, Enrolled
<1> QED
    BY <1>4, <1>5, <1>6 DEF Enrolled, new

LEMMA TiersStart == ASSUME TiersInit PROVE TiersInv
<1> PICK s \in Starts :
         LET grids == {s.home[n] : n \in TierNodes} \ {NoGrid} IN
         /\ gridSize = s.size /\ home = s.home
         /\ register = [g \in grids |-> StartRegister({n \in TierNodes : s.home[n] = g}, s.suspended)]
         /\ partition = [g \in grids |-> Cardinality({h \in grids : Precedes(h, g)})]
         /\ prevCerts = [g \in grids |-> NoTierCert]
    BY DEF TiersInit
<1> DEFINE G == {home[n] : n \in TierNodes} \ {NoGrid}
           R == {e \in G \X G : Precedes(e[1], e[2])}
<1>1. /\ gridSize \in Nat /\ tierHeight = 0 /\ tierHeight \in 0..MaxTierHeight /\ world = "up"
      /\ pendingFaults = {} /\ waiting = [n \in TierNodes |-> {}]
      /\ home \in [TierNodes -> GridNames \cup {NoGrid}]
    BY TiersAssumption DEF TiersInit
<1>2. /\ DOMAIN register = G /\ GridIds = G /\ K = Cardinality(G)
      /\ \A g \in G : register[g] = StartRegister(Residents(g), s.suspended) /\ prevCerts[g] = NoTierCert
    BY DEF GridIds, K, Residents
<1>3. G \subseteq GridNames /\ home \in [TierNodes -> G \cup {NoGrid}]
    BY <1>1
<1>4. IsFiniteSet(G)
    <2> DEFINE f == [n \in TierNodes |-> home[n]]
               H == {home[n] : n \in TierNodes}
    <2>1. f \in Surjection(TierNodes, H)
        BY DEF Surjection
    <2> HIDE DEF f, H
    <2>2. IsFiniteSet(H)
        BY <2>1, TiersAssumption, FS_Surjection
    <2>3. G \in SUBSET H
        BY DEF H
    <2> QED
        BY <2>2, <2>3, FS_Subset
<1>5. \A g \in G : /\ RegisterOK(register[g]) /\ AllServed(register[g]) /\ register[g].epoch = 0
                   /\ Enrolled(register[g]) = Residents(g)
    <2> SUFFICES ASSUME NEW g \in G
                 PROVE  /\ RegisterOK(register[g]) /\ AllServed(register[g]) /\ register[g].epoch = 0
                        /\ Enrolled(register[g]) = Residents(g)
        OBVIOUS
    <2>1. Residents(g) \in SUBSET TierNodes
        BY DEF Residents
    <2> HIDE DEF G
    <2> QED
        BY <1>2, <2>1, StartOK
<1>6. Indexed(partition, G)
    <2>1. partition = [g \in G |-> Cardinality({h \in G : Precedes(h, g)})]
        OBVIOUS
    <2> HIDE DEF G
    <2>2. \A g, h \in G : <<g, h>> \in R <=> Precedes(g, h)
        OBVIOUS
    <2>3. R \in SUBSET (G \X G)
        OBVIOUS
    <2> HIDE DEF R
    <2>4. partition = Ranks(G, R)
        <3>1. \A g \in G : {h \in G : Precedes(h, g)} = {h \in G : <<h, g>> \in R}
            BY <2>2
        <3> QED
            BY <2>1, <3>1 DEF Ranks
    <2>5. \A g \in G : g = <<g[1], g[2]>> /\ g[1] \in Nat /\ g[2] \in Nat
        BY <1>3 DEF GridNames
    <2>6. /\ \A g \in G : <<g, g>> \notin R
          /\ \A g, h, i \in G : <<g, h>> \in R /\ <<h, i>> \in R => <<g, i>> \in R
        BY <2>2, <2>5 DEF Precedes
    <2>7. \A g, h \in G : g # h => <<g, h>> \in R \/ <<h, g>> \in R
        <3> SUFFICES ASSUME NEW g \in G, NEW h \in G, g # h PROVE Precedes(g, h) \/ Precedes(h, g)
            BY <2>2
        <3>1. g[1] # h[1] \/ g[2] # h[2]
            BY <2>5
        <3> QED
            BY <2>5, <3>1 DEF Precedes
    <2>8. /\ partition \in [G -> 0..(Cardinality(G) - 1)]
          /\ \A g, h \in G : partition[g] = partition[h] => g = h
          /\ {partition[g] : g \in G} = 0..(Cardinality(G) - 1)
        BY ONLY <1>4, <2>3, <2>4, <2>6, <2>7, RanksFill
    <2> QED
        BY <2>8 DEF Indexed
<1> HIDE DEF G
<1>7. RegistersAreServed
    BY <1>2, <1>5, ZenonT(40) DEF RegistersAreServed, AllServed
<1>8. WaitingIsReachable
    BY <1>1 DEF WaitingIsReachable
<1>9. TopologyOK
    <2>1. \A g \in GridIds : Enrolled(register[g]) = Residents(g) /\ register[g].epoch <= tierHeight
        <3> SUFFICES ASSUME NEW g \in GridIds
                     PROVE  Enrolled(register[g]) = Residents(g) /\ register[g].epoch <= tierHeight
            OBVIOUS
        <3>1. Enrolled(register[g]) = Residents(g) /\ register[g].epoch = 0
            BY <1>2, <1>5
        <3> QED
            BY ONLY <1>1, <3>1
    <2>2. \A g \in GridIds : CertOK(prevCerts[g])
        BY <1>2 DEF CertOK
    <2> QED
        BY <1>1, <1>2, <1>3, <1>4, <1>6, <1>8, <2>1, <2>2, ZenonT(40) DEF TopologyOK, Indexed
<1> QED
    BY <1>1, <1>7, <1>9 DEF TiersInv

\* The rolls of an epoch name nobody who is not in the register, and nobody loses or gains
\* by them but what a ceremony gives.
LEMMA RollsOK ==
    ASSUME TiersInv, world = "up", NEW children \in SUBSET {g \in GridIds : FollowsItsCert(g)}
    PROVE  LET regs == RollsTaken(children) IN
           /\ DOMAIN regs = GridIds /\ RegistersOK(regs, tierHeight + 1)
           /\ \A g \in GridIds :
                 /\ Enrolled(regs[g]) = Residents(g)
                 /\ \A n \in Enrolled(regs[g]) :
                       /\ regs[g].members[n].joined = register[g].members[n].joined
                       /\ register[g].members[n].standing = "suspended"
                             => regs[g].members[n].standing = "suspended"
<1> DEFINE regs == RollsTaken(children)
<1>1. tierHeight \in Nat /\ TopologyOK
    BY DEF TiersInv
<1>2. DOMAIN regs = GridIds
    BY DEF RollsTaken
<1>3. ASSUME NEW g \in GridIds
      PROVE  /\ RegisterOK(regs[g]) /\ AllServed(regs[g]) /\ regs[g].epoch <= tierHeight + 1
             /\ Enrolled(regs[g]) = Residents(g)
             /\ \A n \in Enrolled(regs[g]) :
                   /\ regs[g].members[n].joined = register[g].members[n].joined
                   /\ register[g].members[n].standing = "suspended"
                         => regs[g].members[n].standing = "suspended"
    <2> PICK reg, cert : reg = register[g] /\ cert = prevCerts[g]
        OBVIOUS
    <2>1. /\ RegisterOK(reg) /\ AllServed(reg) /\ Enrolled(reg) = Residents(g) /\ reg.epoch <= tierHeight
          /\ CertOK(cert)
        BY <1>1 DEF TiersInv, RegistersAreServed, TopologyOK, AllServed
    <2>2. CASE g \in children /\ cert # NoTierCert
        <3>1. cert.height = tierHeight
            BY <1>1, <2>1, <2>2 DEF FollowsItsCert, CertOK
        <3> PICK roll : roll = RollOf(g)
            OBVIOUS
        <3>2. roll.epoch = tierHeight /\ roll.seated = GridMembers(g) /\ roll.attended = cert.signers
            BY <3>1 DEF RollOf, RollFrom
        <3>3. regs[g] = ApplyRoll(reg, roll, pendingFaults)
            BY <2>2 DEF RollsTaken
        <3>4. roll.seated \cup pendingFaults \subseteq Enrolled(reg)
            BY <1>1, <2>1, <3>2 DEF GridMembers, TopologyOK
        <3>5. \A n \in roll.attended \cap Enrolled(reg) : reg.members[n].joined < roll.epoch
            BY <2>1, <2>2, <3>1, <3>2 DEF CertOK
        <3>6. \A n \in Enrolled(reg) : Served(reg, reg.members[n])
            BY <2>1 DEF AllServed
        <3> PICK new : new = ApplyRoll(reg, roll, pendingFaults)
            OBVIOUS
        <3>7. /\ RegisterOK(new) /\ Enrolled(new) = Enrolled(reg) /\ new.epoch = roll.epoch + 1
              /\ \A n \in Enrolled(reg) :
                    /\ Served(new, new.members[n]) /\ new.members[n].joined = reg.members[n].joined
                    /\ reg.members[n].standing = "suspended" => new.members[n].standing = "suspended"
            <4>1. roll.epoch \in Nat /\ reg.epoch <= roll.epoch
                BY <1>1, <2>1, <3>2
            <4> QED
                BY ONLY <2>1, <3>4, <3>5, <3>6, <4>1, RollOK, new = ApplyRoll(reg, roll, pendingFaults)
        <3> QED
            BY <1>1, <2>1, <3>2, <3>3, <3>7 DEF AllServed
    <2>3. CASE ~(g \in children /\ cert # NoTierCert)
        <3>1. regs[g] = reg
            BY <2>3 DEF RollsTaken
        <3>2. reg.epoch \in Nat
            BY <2>1 DEF RegisterOK
        <3> QED
            BY <1>1, <2>1, <3>1, <3>2
    <2> QED
        BY <2>2, <2>3
<1> QED
    BY <1>2, <1>3 DEF RegistersOK

\* What a member keeps wherever a step takes it.
Kept(n) ==
    home[n] # NoGrid =>
        /\ home'[n] # NoGrid /\ home'[n][1] = home[n][1]
        /\ register[home[n]].members[n].standing = "suspended"
              => register'[home'[n]].members[n].standing = "suspended"

\* After a plan, a mempool that was given out again holds what its grid may include.
LEMMA GivenOutAgain ==
    ASSUME WaitingIsReachable, waiting \in [TierNodes -> SUBSET Payments], NEW plan, PlanOK(plan), NEW left,
           DOMAIN partition = GridIds
    PROVE  LET new == RerouteMempools(plan, left)
               part == PartitionsAfter(plan) IN
           /\ new \in [TierNodes -> SUBSET Payments]
           /\ world = "up" =>
                 \A n \in TierNodes : \A tx \in new[n] :
                     /\ HomesAfter(plan)[n] # NoGrid
                     /\ part[HomesAfter(plan)[n]] \in TxPartition(tx, Cardinality(DOMAIN part))
<1> DEFINE new == RerouteMempools(plan, left)
           part == PartitionsAfter(plan)
           hm == HomesAfter(plan)
<1>1. CASE plan = NoPlan
    <2>1. part = partition /\ hm = home /\ new = [n \in TierNodes |-> waiting[n] \ left]
        BY <1>1 DEF NoPlan, PartitionsAfter, HomesAfter, RerouteMempools
    <2> HIDE DEF part, hm, new
    <2>2. \A n \in TierNodes : new[n] \subseteq waiting[n]
        BY <2>1
    <2>3. new \in [TierNodes -> SUBSET Payments]
        BY <2>1
    <2>4. world = "up" => \A n \in TierNodes : \A tx \in new[n] :
              hm[n] # NoGrid /\ part[hm[n]] \in TxPartition(tx, Cardinality(DOMAIN part))
        BY <2>1, <2>2 DEF WaitingIsReachable, K
    <2> QED
        BY <2>3, <2>4 DEF part, hm, new
<1>2. CASE plan.kind # "none"
    <2> DEFINE pending == UNION {waiting[n] : n \in TierNodes} \ left
               k == Cardinality(DOMAIN part)
    <2>1. new = [n \in TierNodes |-> {tx \in pending : n \in Takes(tx, part, hm, k)}]
        BY <1>2 DEF RerouteMempools, Rerouted
    <2>2. pending \subseteq Payments
        OBVIOUS
    <2> HIDE DEF part, hm, new, pending, k
    <2>3. new \in [TierNodes -> SUBSET Payments]
        BY <2>1, <2>2
    <2>4. \A n \in TierNodes : \A tx \in new[n] : n \in Takes(tx, part, hm, k)
        BY <2>1
    <2>5. \A n \in TierNodes : \A tx \in new[n] : hm[n] # NoGrid /\ part[hm[n]] \in TxPartition(tx, k)
        BY <2>4 DEF Takes
    <2> QED
        BY <2>3, <2>5 DEF part, hm, new, k
<1> QED
    BY <1>1, <1>2 DEF PlanOK, NoPlan

\* A block of these grids, with some signers, payments and plan, is applied.
BlockOf(children) ==
    \E signers \in {f \in [children -> SUBSET TierNodes] :
                      \A g \in children : /\ f[g] \subseteq GridMembers(g) /\ Certifies(g, f[g])
                                  /\ Cardinality(GridMembers(g) \ f[g]) <= MaxAbsent} :
    \E in \in SUBSET UNION {Included(g, n) : g \in children, n \in TierNodes} :
    \E plan \in Plans :
       ApplyTierBlock(children, signers, in, plan)

LEMMA EpochStep ==
    ASSUME TiersInv, Epoch
    PROVE  /\ TiersInv' /\ \A n \in TierNodes : home[n] # NoGrid => home'[n][1] = home[n][1]
           /\ world' = "up" => \A n \in TierNodes : Kept(n)
<1>1. /\ world = "up" /\ tierHeight \in 0..MaxTierHeight /\ tierHeight \in Nat /\ tierHeight < MaxTierHeight
      /\ gridSize' = gridSize /\ TopologyOK /\ RegistersAreServed /\ MaxTierHeight \in Nat
    BY TiersAssumption DEF Epoch, TiersInv
<1>a. PICK fin \in SUBSET {g \in GridIds : CanSeat(g) /\ FollowsItsCert(g)} :
          \E children \in Bundles(fin) : BlockOf(children)
    BY ONLY Epoch DEF Epoch, BlockOf
<1>b. PICK children \in Bundles(fin) : BlockOf(children)
    BY ONLY <1>a
<1>c. PICK signers \in {f \in [children -> SUBSET TierNodes] :
                            \A g \in children : /\ f[g] \subseteq GridMembers(g) /\ Certifies(g, f[g])
                                        /\ Cardinality(GridMembers(g) \ f[g]) <= MaxAbsent} :
          \E in \in SUBSET UNION {Included(g, n) : g \in children, n \in TierNodes} :
          \E plan \in Plans :
              ApplyTierBlock(children, signers, in, plan)
    BY ONLY <1>b DEF BlockOf
<1>2. PICK in, plan : plan \in Plans /\ ApplyTierBlock(children, signers, in, plan)
    BY ONLY <1>c
<1>d. signers \in [children -> SUBSET TierNodes] /\ \A g \in children : signers[g] \subseteq GridMembers(g)
    OBVIOUS
<1>3. /\ GridIds \subseteq GridNames /\ IsFiniteSet(GridIds) /\ home \in [TierNodes -> GridIds \cup {NoGrid}]
      /\ Indexed(partition, GridIds) /\ DOMAIN partition = GridIds /\ WaitingIsReachable
    BY <1>1 DEF TopologyOK, Indexed, K
<1>4. PlanOK(plan)
    BY <1>2, <1>3, PlansAreOK
<1>5. children \in SUBSET {g \in GridIds : FollowsItsCert(g)}
    <2>1. fin \in SUBSET GridIds
        OBVIOUS
    <2>2. children \subseteq fin
        BY <1>3, <2>1, BundledAreFinal
    <2> QED
        BY <2>2
<1> PICK regs : regs = RollsTaken(children)
    OBVIOUS
<1> PICK top : top = tierHeight + 1
    OBVIOUS
<1>6. /\ DOMAIN regs = GridIds /\ RegistersOK(regs, top)
      /\ \A g \in GridIds :
            /\ Enrolled(regs[g]) = Residents(g)
            /\ \A n \in Enrolled(regs[g]) :
                  /\ regs[g].members[n].joined = register[g].members[n].joined
                  /\ register[g].members[n].standing = "suspended"
                        => regs[g].members[n].standing = "suspended"
    BY <1>1, <1>5, RollsOK
<1>7. CASE CanCarryOut(plan, regs)
    <2>1. /\ register' = CarriedOut(plan, regs) /\ partition' = PartitionsAfter(plan)
          /\ home' = HomesAfter(plan) /\ tierHeight' = top /\ world' = world /\ pendingFaults' = {}
          /\ prevCerts' = CertsAfter(DOMAIN PartitionsAfter(plan), children, signers)
          /\ waiting' = RerouteMempools(plan, in)
        BY <1>2, <1>7 DEF ApplyTierBlock
    <2>2. PlannedOK(register', home', regs, top)
        BY <1>3, <1>4, <1>6, <1>7, <2>1, PlanIsCarriedOut
    <2>3. IsFiniteSet(DOMAIN partition') /\ Indexed(partition', DOMAIN partition')
        BY <1>3, <1>4, <2>1, PlannedIndices
    <2>4. DOMAIN partition' = DOMAIN register' /\ GridIds' = DOMAIN register'
        BY <1>3, <1>4, <1>6, <2>1, SameGridsAfter DEF GridIds
    <2>5. ASSUME NEW n \in TierNodes, home'[n] # NoGrid
          PROVE  /\ home[n] \in GridIds /\ home'[n] \in GridIds' /\ home'[n][1] = home[n][1]
                 /\ n \in Enrolled(register'[home'[n]]) /\ n \in Enrolled(register[home[n]])
                 /\ register'[home'[n]].members[n].joined = register[home[n]].members[n].joined
                 /\ register[home[n]].members[n].standing = "suspended"
                       => register'[home'[n]].members[n].standing = "suspended"
        <3> PICK g : g = home'[n]
            OBVIOUS
        <3>1. g \in DOMAIN register'
            BY <2>2, <2>5 DEF PlannedOK
        <3>2. n \in Enrolled(register'[g]) /\ Brought(n, register'[g], g, regs)
            BY <2>2, <3>1 DEF PlannedOK
        <3>3. /\ home[n] \in GridIds /\ g[1] = home[n][1] /\ n \in Enrolled(regs[home[n]])
              /\ register'[g].members[n].joined = regs[home[n]].members[n].joined
              /\ register'[g].members[n].standing = regs[home[n]].members[n].standing
            BY <3>2 DEF Brought
        <3>4. n \in Enrolled(register[home[n]])
            BY <1>1, <1>6, <3>3 DEF TopologyOK
        <3> QED
            BY <1>6, <2>4, <3>1, <3>2, <3>3, <3>4
    <2>6. \A n \in TierNodes : home'[n] = NoGrid <=> home[n] = NoGrid
        BY <2>2 DEF PlannedOK
    <2>7. \A n \in TierNodes : Kept(n)
        BY <2>5, <2>6 DEF Kept
    <2>8. ASSUME NEW g \in GridIds' PROVE CertOK(prevCerts[g])'
        <3>1. ASSUME NEW n \in TierNodes, home[n] # NoGrid, NEW h \in GridIds', n \in Enrolled(register'[h])
              PROVE  /\ home[n] \in GridIds /\ n \in Enrolled(register[home[n]])
                     /\ register'[h].members[n].joined = register[home[n]].members[n].joined
            <4>1. home'[n] = h
                BY <2>2, <2>4, <3>1 DEF PlannedOK
            <4>2. home'[n] # NoGrid
                BY <2>6, <3>1
            <4> QED
                BY <2>5, <4>1, <4>2
        <3>2. CASE g \in children
            <4>1. prevCerts'[g] = [height |-> top, signers |-> signers[g]]
                BY <2>1, <2>4, <3>2 DEF CertsAfter
            <4>2. \A n \in signers[g] : n \in TierNodes /\ home[n] # NoGrid
                BY <1>3, <1>5, <1>d, <3>2, NoGridIsNone DEF GridMembers, Residents
            <4>3. ASSUME NEW n \in TierNodes, home[n] # NoGrid, NEW h \in GridIds', n \in Enrolled(register'[h])
                  PROVE  register'[h].members[n].joined < top
                <5> PICK old, reg : reg = register[home[n]] /\ old = reg.members[n]
                    OBVIOUS
                <5>1. home[n] \in GridIds /\ n \in Enrolled(reg) /\ register'[h].members[n].joined = old.joined
                    BY <3>1, <4>3
                <5>2. Served(reg, old) /\ RegisterOK(reg) /\ reg.epoch <= tierHeight
                    BY <1>1, <5>1 DEF RegistersAreServed, TopologyOK
                <5>3. reg.epoch \in Nat /\ old.joined \in Int
                    <6>1. PICK S \in SUBSET TierNodes : reg \in [epoch : Nat, members : [S -> Records]]
                        BY <5>2 DEF RegisterOK
                    <6>2. old \in Records
                        BY <5>1, <6>1 DEF Enrolled
                    <6> QED
                        BY <6>1, <6>2 DEF Records
                <5>4. old.joined >= 0 => old.joined <= reg.epoch
                    BY <5>2 DEF Served
                <5> QED
                    BY ONLY <1>1, <5>1, <5>2, <5>3, <5>4, top = tierHeight + 1
            <4>4. top \in 1..tierHeight' /\ signers[g] \subseteq TierNodes
                BY <1>1, <2>1, <4>2
            <4> QED
                BY <2>6, <4>1, <4>2, <4>3, <4>4 DEF CertOK
        <3>3. CASE g \notin children /\ g \in GridIds
            <4> PICK cert : cert = prevCerts[g]
                OBVIOUS
            <4>1. prevCerts'[g] = cert
                BY <2>1, <2>4, <3>3 DEF CertsAfter
            <4>2. CertOK(cert)
                BY <1>1, <3>3 DEF TopologyOK
            <4>3. CASE cert # NoTierCert
                <5>1. cert.height \in 1..tierHeight' /\ cert.signers \subseteq TierNodes
                    BY <1>1, <2>1, <4>2, <4>3 DEF CertOK
                <5>2. ASSUME NEW n \in cert.signers
                      PROVE  /\ home'[n] # NoGrid
                             /\ \A h \in GridIds' : n \in Enrolled(register'[h]) =>
                                     register'[h].members[n].joined < cert.height
                    <6>1. /\ n \in TierNodes /\ home[n] # NoGrid
                          /\ \A h \in GridIds : n \in Enrolled(register[h]) =>
                                  register[h].members[n].joined < cert.height
                        BY <4>2, <4>3, <5>1 DEF CertOK
                    <6> QED
                        BY <2>6, <3>1, <6>1
                <5> QED
                    BY <4>1, <5>1, <5>2 DEF CertOK
            <4>4. CASE cert = NoTierCert
                BY <4>1, <4>4 DEF CertOK, NoTierCert
            <4> QED
                BY <4>3, <4>4
        <3>4. CASE g \notin children /\ g \notin GridIds
            <4>1. prevCerts'[g] = NoTierCert
                BY <2>1, <2>4, <3>4 DEF CertsAfter
            <4> QED
                BY <4>1 DEF CertOK, NoTierCert
        <3> QED
            BY <3>2, <3>3, <3>4
    <2>9. waiting' \in [TierNodes -> SUBSET Payments] /\ WaitingIsReachable'
        <3> PICK new, part, hm : new = RerouteMempools(plan, in) /\ part = PartitionsAfter(plan)
                                 /\ hm = HomesAfter(plan)
            OBVIOUS
        <3>1. /\ new \in [TierNodes -> SUBSET Payments]
              /\ \A n \in TierNodes : \A tx \in new[n] :
                     hm[n] # NoGrid /\ part[hm[n]] \in TxPartition(tx, Cardinality(DOMAIN part))
            BY <1>1, <1>3, <1>4, GivenOutAgain DEF TiersInv
        <3>2. new = waiting' /\ part = partition' /\ hm = home' /\ K' = Cardinality(DOMAIN part)
            BY <2>1, <2>4 DEF K
        <3> QED
            BY <3>1, <3>2 DEF WaitingIsReachable
    <2>10. RegistersAreServed'
        BY <2>2, <2>4 DEF RegistersAreServed, PlannedOK, RegistersOK, AllServed
    <2>11. TopologyOK'
        <3>1. /\ GridIds' \subseteq GridNames /\ IsFiniteSet(GridIds') /\ home' \in [TierNodes -> GridIds' \cup {NoGrid}]
            BY <2>2, <2>3, <2>4 DEF PlannedOK
        <3>2. \A g \in GridIds' : Enrolled(register'[g]) = Residents(g)' /\ register'[g].epoch <= tierHeight'
            BY <2>1, <2>2, <2>4 DEF PlannedOK, RegistersOK, Residents
        <3>3. /\ partition' \in [GridIds' -> 0..(K' - 1)] /\ {partition'[g] : g \in GridIds'} = 0..(K' - 1)
              /\ \A g, h \in GridIds' : partition'[g] = partition'[h] => g = h
            <4>1. K' = Cardinality(DOMAIN partition') /\ GridIds' = DOMAIN partition'
                BY <2>4 DEF K
            <4> QED
                BY ONLY <2>3, <4>1 DEF Indexed
        <3> QED
            BY <2>1, <2>8, <2>9, <3>1, <3>2, <3>3 DEF TopologyOK
    <2>12. tierHeight' \in 0..MaxTierHeight
        BY <1>1, <2>1
    <2>13. gridSize' \in Nat /\ world' \in {"up", "raised"}
        BY <1>1, <2>1 DEF TiersInv
    <2>14. \A n \in TierNodes : home[n] # NoGrid => home'[n][1] = home[n][1]
        BY <2>5, <2>6
    <2> QED
        BY <2>7, <2>9, <2>10, <2>11, <2>12, <2>13, <2>14 DEF TiersInv
<1>8. CASE ~CanCarryOut(plan, regs)
    <2>1. /\ world' = "raised" /\ home' = home /\ tierHeight' = tierHeight
          /\ waiting' = [n \in TierNodes |-> waiting[n] \ in]
          /\ \/ register' = regs
             \/ \E from : register' = [g \in GridIds \ {from} |-> regs[g]]
        BY <1>2, <1>8 DEF ApplyTierBlock
    <2>2. \A g \in GridIds' : g \in GridIds /\ register'[g] = regs[g]
        BY <1>6, <2>1 DEF GridIds
    <2>3. RegistersAreServed'
        BY <1>6, <2>2 DEF RegistersAreServed, RegistersOK, AllServed
    <2>4. waiting' \in [TierNodes -> SUBSET Payments]
        BY <2>1 DEF TiersInv
    <2> QED
        BY <1>1, <2>1, <2>3, <2>4 DEF TiersInv
<1> QED
    BY <1>7, <1>8

LEMMA FaultStep ==
    ASSUME TiersInv, NEW n \in TierNodes, ReportFault(n)
    PROVE  TiersInv' /\ UNCHANGED <<register, home, world>>
<1>1. /\ UNCHANGED <<gridSize, register, partition, home, prevCerts, tierHeight, waiting, spent, world>>
      /\ world = "up" /\ K = 1 /\ pendingFaults' = {n}
    BY DEF ReportFault
<1>2. PICK g \in GridIds : n \in GridMembers(g)
    BY DEF ReportFault
<1>3. TopologyOK
    BY <1>1 DEF TiersInv
<1>4. \A h \in GridIds : h = g
    <2>1. \A h, i \in GridIds : h = i
        <3>1. IsFiniteSet(GridIds) /\ Cardinality(GridIds) = 1
            BY <1>1, <1>3 DEF TopologyOK, K
        <3>2. \E h : GridIds = {h}
            BY ONLY <3>1, FS_Singleton
        <3> QED
            BY ONLY <3>2
    <2> QED
        BY <1>2, <2>1
<1>5. \A h \in GridIds : n \in Residents(h)
    BY <1>2, <1>4 DEF GridMembers
<1>6. \A h \in GridIds : CertOK(prevCerts[h])'
    BY <1>1, <1>3 DEF TopologyOK, CertOK, GridIds
<1>7. TopologyOK'
    <2>1. GridIds' = GridIds /\ K' = K /\ (WaitingIsReachable <=> WaitingIsReachable')
          /\ \A h \in GridIds : Residents(h)' = Residents(h)
        BY <1>1 DEF GridIds, K, WaitingIsReachable, Residents
    <2> QED
        BY <1>1, <1>3, <1>5, <1>6, <2>1 DEF TopologyOK
<1>8. RegistersAreServed'
    BY <1>1 DEF TiersInv, RegistersAreServed, GridIds
<1> QED
    BY <1>1, <1>7, <1>8 DEF TiersInv

\* A newcomer has served nothing, and its absence from every certificate is right.
LEMMA AdmitOK ==
    ASSUME NEW reg, RegisterOK(reg), AllServed(reg), NEW n \in TierNodes, n \notin Enrolled(reg)
    PROVE  LET new == Admit(reg, n) IN
           /\ RegisterOK(new) /\ AllServed(new) /\ new.epoch = reg.epoch
           /\ Enrolled(new) = Enrolled(reg) \cup {n}
           /\ \A m \in Enrolled(reg) : new.members[m] = reg.members[m]
<1> PICK S \in SUBSET TierNodes : reg \in [epoch : Nat, members : [S -> Records]]
    BY DEF RegisterOK
<1> DEFINE new == Admit(reg, n)
<1> USE RegisterAssumption
<1> PICK rec : rec = Newcomer(reg.epoch)
    OBVIOUS
<1>1. Enrolled(reg) = S /\ reg.epoch \in Nat /\ n \notin S
    BY DEF Enrolled
<1>2. rec \in Records /\ rec.joined = reg.epoch /\ rec.streak = 0 /\ rec.standing = "apprentice"
    BY <1>1 DEF Newcomer, Records, Standings
<1>3. /\ new.epoch = reg.epoch /\ DOMAIN new.members = S \cup {n}
      /\ new = [epoch |-> new.epoch, members |-> new.members]
      /\ new.members = [m \in S \cup {n} |-> new.members[m]]
      /\ new.members[n] = rec /\ \A m \in S : new.members[m] = reg.members[m]
    BY <1>1 DEF Admit
<1> HIDE DEF new
<1>4. new.members \in [S \cup {n} -> Records] /\ S \cup {n} \in SUBSET TierNodes
    BY <1>2, <1>3
<1>5. RegisterOK(new)
    BY <1>1, <1>3, <1>4 DEF RegisterOK
<1>6. AllServed(new)
    <2>1. Served(new, rec)
        BY <1>1, <1>2, <1>3 DEF Served
    <2>2. \A m \in S : Served(new, reg.members[m])
        BY <1>1, <1>3 DEF AllServed, Served
    <2> QED
        BY <1>3, <2>1, <2>2 DEF AllServed, Enrolled
<1> QED
    BY <1>1, <1>3, <1>5, <1>6 DEF Enrolled, new

LEMMA AdmitStep ==
    ASSUME TiersInv, NEW n \in TierNodes, NEW r, AdmitNode(n, r)
    PROVE  /\ TiersInv' /\ world' = world
           /\ \A m \in TierNodes : home[m] # NoGrid => home'[m] = home[m]
           /\ \A m \in TierNodes : Kept(m)
<1>1. /\ UNCHANGED <<gridSize, partition, prevCerts, tierHeight, pendingFaults, waiting, spent, world>>
      /\ world = "up" /\ home[n] = NoGrid
    BY DEF AdmitNode
<1>2. PICK g \in GridIds : register' = [register EXCEPT ![g] = Admit(@, n)] /\ home' = [home EXCEPT ![n] = g]
    BY DEF AdmitNode, RoomyGrids, GridsIn
<1>3. TopologyOK /\ GridIds \subseteq GridNames /\ home \in [TierNodes -> GridIds \cup {NoGrid}] /\ g # NoGrid
    BY <1>1, <1>2, NoGridIsNone DEF TiersInv, TopologyOK
<1> PICK reg, new : reg = register[g] /\ new = Admit(reg, n)
    OBVIOUS
<1>4. /\ RegisterOK(reg) /\ AllServed(reg) /\ Enrolled(reg) = Residents(g) /\ reg.epoch <= tierHeight
    BY <1>2, <1>3 DEF TiersInv, RegistersAreServed, TopologyOK, AllServed
<1>5. n \notin Enrolled(reg)
    BY <1>1, <1>3, <1>4 DEF Residents
<1>6. /\ RegisterOK(new) /\ AllServed(new) /\ new.epoch = reg.epoch
      /\ Enrolled(new) = Enrolled(reg) \cup {n}
      /\ \A m \in Enrolled(reg) : new.members[m] = reg.members[m]
    BY ONLY <1>4, <1>5, AdmitOK, n \in TierNodes, new = Admit(reg, n)
<1>7. /\ GridIds' = GridIds /\ K' = K /\ register'[g] = new /\ \A h \in GridIds \ {g} : register'[h] = register[h]
    BY <1>2 DEF GridIds, K
<1>8. /\ home' \in [TierNodes -> GridIds \cup {NoGrid}] /\ home'[n] = g
      /\ \A m \in TierNodes \ {n} : home'[m] = home[m]
    BY <1>2, <1>3
<1>9. \A h \in GridIds : Residents(h)' = IF h = g THEN Residents(h) \cup {n} ELSE Residents(h)
    <2> SUFFICES ASSUME NEW h \in GridIds
                 PROVE  Residents(h)' = IF h = g THEN Residents(h) \cup {n} ELSE Residents(h)
        OBVIOUS
    <2>1. home[n] # h
        BY <1>1, <1>3, NoGridIsNone
    <2>2. ASSUME NEW m \in TierNodes PROVE home'[m] = h <=> home[m] = h \/ (h = g /\ m = n)
        BY <1>8, <2>1
    <2>3. Residents(h)' = {m \in TierNodes : home'[m] = h} /\ Residents(h) = {m \in TierNodes : home[m] = h}
        BY DEF Residents
    <2>4. CASE h = g
        BY <2>2, <2>3, <2>4
    <2>5. CASE h # g
        BY <2>2, <2>3, <2>5
    <2> QED
        BY <2>4, <2>5
<1>10. RegistersAreServed'
    BY <1>6, <1>7 DEF TiersInv, RegistersAreServed, AllServed
<1>11. ASSUME NEW h \in GridIds PROVE CertOK(prevCerts[h])'
    <2> PICK cert : cert = prevCerts[h]
        OBVIOUS
    <2>1. CertOK(cert) /\ prevCerts'[h] = cert
        BY <1>1, <1>3 DEF TopologyOK
    <2>2. ASSUME cert # NoTierCert, NEW m \in cert.signers
          PROVE  /\ home'[m] # NoGrid
                 /\ \A i \in GridIds : m \in Enrolled(register'[i]) =>
                        register'[i].members[m].joined < cert.height
        <3>1. /\ m \in TierNodes /\ home[m] # NoGrid
              /\ \A i \in GridIds : m \in Enrolled(register[i]) => register[i].members[m].joined < cert.height
            BY <2>1, <2>2 DEF CertOK
        <3>2. m # n
            BY <1>1, <3>1
        <3> QED
            BY <1>6, <1>7, <1>8, <3>1, <3>2
    <2> QED
        BY <1>1, <1>7, <2>1, <2>2 DEF CertOK
<1>12. WaitingIsReachable'
    <2>1. \A tx \in waiting[n] : FALSE
        BY <1>1, <1>3 DEF TopologyOK, WaitingIsReachable
    <2>2. \A m \in TierNodes \ {n} : \A tx \in waiting[m] : home[m] # NoGrid /\ partition[home[m]] \in TxPartition(tx, K)
        BY <1>1, <1>3 DEF TopologyOK, WaitingIsReachable
    <2> QED
        BY <1>1, <1>7, <1>8, <2>1, <2>2 DEF WaitingIsReachable
<1>13. TopologyOK'
    <2>1. \A h \in GridIds : Enrolled(register'[h]) = Residents(h)' /\ register'[h].epoch <= tierHeight'
        BY <1>1, <1>3, <1>4, <1>6, <1>7, <1>9 DEF TopologyOK
    <2>2. pendingFaults' # {} => \A h \in GridIds : pendingFaults' \subseteq Residents(h)'
        BY <1>1, <1>3, <1>9 DEF TopologyOK
    <2>3. IsFiniteSet(GridIds) /\ partition \in [GridIds -> 0..(K - 1)] /\ {partition[h] : h \in GridIds} = 0..(K - 1)
          /\ \A h, i \in GridIds : partition[h] = partition[i] => h = i
        BY <1>3 DEF TopologyOK
    <2> QED
        BY <1>1, <1>3, <1>7, <1>8, <1>11, <1>12, <2>1, <2>2, <2>3 DEF TopologyOK
<1>14. TiersInv'
    BY <1>1, <1>10, <1>13 DEF TiersInv
<1>15. ASSUME NEW m \in TierNodes, home[m] # NoGrid
       PROVE  home'[m] = home[m] /\ Kept(m)
    <2>1. m # n /\ home[m] \in GridIds /\ home'[m] = home[m] /\ m \in Residents(home[m])
        BY <1>1, <1>3, <1>8, <1>15 DEF Residents
    <2>2. register'[home[m]].members[m] = register[home[m]].members[m]
        BY <1>4, <1>6, <1>7, <2>1
    <2> QED
        BY <2>1, <2>2 DEF Kept
<1> QED
    BY <1>1, <1>14, <1>15 DEF Kept

LEMMA SubmitStep ==
    ASSUME TiersInv, NEW tx \in Payments, Submit(tx)
    PROVE  TiersInv' /\ UNCHANGED <<register, home, world>>
<1>1. /\ UNCHANGED <<gridSize, register, partition, home, prevCerts, tierHeight, pendingFaults, spent, world>>
      /\ world = "up"
      /\ waiting' = [n \in TierNodes |->
                        IF n \in Takes(tx, partition, home, K) THEN waiting[n] \cup {tx} ELSE waiting[n]]
    BY DEF Submit
<1>2. TopologyOK
    BY <1>1 DEF TiersInv
<1>3. WaitingIsReachable'
    <2>1. K' = K
        BY <1>1 DEF K, GridIds
    <2>2. ASSUME NEW n \in TierNodes, NEW t \in waiting'[n]
          PROVE  home[n] # NoGrid /\ partition[home[n]] \in TxPartition(t, K)
        <3>1. t \in waiting[n] \/ (t = tx /\ n \in Takes(tx, partition, home, K))
            BY <1>1
        <3> QED
            BY <1>1, <1>2, <3>1 DEF TopologyOK, WaitingIsReachable, Takes
    <2> QED
        BY <1>1, <2>1, <2>2 DEF WaitingIsReachable
<1>4. \A g \in GridIds : CertOK(prevCerts[g])'
    BY <1>1, <1>2 DEF TopologyOK, CertOK, GridIds
<1>5. TopologyOK'
    <2>1. GridIds' = GridIds /\ K' = K /\ \A h \in GridIds : Residents(h)' = Residents(h)
        BY <1>1 DEF GridIds, K, Residents
    <2> QED
        BY <1>1, <1>2, <1>3, <1>4, <2>1 DEF TopologyOK
<1>6. RegistersAreServed'
    BY <1>1 DEF TiersInv, RegistersAreServed, GridIds
<1>7. waiting' \in [TierNodes -> SUBSET Payments]
    BY <1>1 DEF TiersInv
<1> QED
    BY <1>1, <1>5, <1>6, <1>7 DEF TiersInv

LEMMA QuietStep == ASSUME TiersInv, UNCHANGED tierVars PROVE TiersInv'
<1>1. UNCHANGED <<gridSize, register, partition, home, prevCerts, tierHeight, pendingFaults, waiting, world>>
    BY DEF tierVars
<1>2. GridIds' = GridIds /\ K' = K /\ \A h \in GridIds : Residents(h)' = Residents(h)
    BY <1>1 DEF GridIds, K, Residents
<1>3. RegistersAreServed'
    BY <1>1, <1>2 DEF TiersInv, RegistersAreServed
<1>4. world = "up" => WaitingIsReachable'
    BY <1>1, <1>2 DEF TiersInv, TopologyOK, WaitingIsReachable
<1>5. world = "up" => \A g \in GridIds : CertOK(prevCerts[g])'
    BY <1>1, <1>2 DEF TiersInv, TopologyOK, CertOK
<1>6. world' = "up" => TopologyOK'
    BY <1>1, <1>2, <1>4, <1>5 DEF TiersInv, TopologyOK
<1> QED
    BY <1>1, <1>3, <1>6 DEF TiersInv

-----------------------------------------------------------------------------
(* The theorems.                                                            *)

\* The registers, the topology, the certificates and the mempools of the tiered network are
\* of the same grids and members, in every state that foundings, merges, admissions, faults
\* and payments lead to.
THEOREM TiersInvariance == TiersSpec => []TiersInv
<1>1. TiersInit => TiersInv
    BY TiersStart
<1>2. TiersInv /\ [TiersNext]_tierVars => TiersInv'
    <2> SUFFICES ASSUME TiersInv, [TiersNext]_tierVars PROVE TiersInv'
        OBVIOUS
    <2>1. CASE Epoch
        BY <2>1, EpochStep
    <2>2. CASE \E n \in TierNodes : ReportFault(n)
        BY <2>2, FaultStep
    <2>3. CASE \E n \in TierNodes, r \in {g[1] : g \in GridIds} : AdmitNode(n, r)
        BY <2>3, AdmitStep
    <2>4. CASE \E tx \in Payments : Submit(tx)
        BY <2>4, SubmitStep
    <2>5. CASE UNCHANGED tierVars
        BY <2>5, QuietStep
    <2> QED
        BY <2>1, <2>2, <2>3, <2>4, <2>5 DEF TiersNext
<1> QED
    BY <1>1, <1>2, PTL DEF TiersSpec

\* Whoever the topology seats is in the register of that grid and in no other, whatever was
\* founded, merged, rolled or admitted.
THEOREM SeatingHolds == TiersSpec => []SeatingIsSound
<1>1. TiersInv => SeatingIsSound
    <2> SUFFICES ASSUME TiersInv PROVE SeatingIsSound
        OBVIOUS
    <2>1. ASSUME NEW g \in GridIds, NEW n \in Enrolled(register[g])
          PROVE  n \in TierNodes /\ register[g].members[n] \in Records
        <3>1. PICK S \in SUBSET TierNodes : register[g] \in [epoch : Nat, members : [S -> Records]]
            BY DEF TiersInv, RegistersAreServed, RegisterOK
        <3> QED
            BY <3>1 DEF Enrolled
    <2>2. TiersTypeOK
        <3>1. \A g \in GridIds : \A n \in Enrolled(register[g]) :
                 /\ n \in TierNodes
                 /\ register[g].members[n].standing \in Standings \ {"observer"}
                 /\ register[g].members[n].streak \in 0..Threshold
            BY <2>1 DEF Records
        <3> QED
            BY <3>1 DEF TiersInv, TiersTypeOK
    <2>3. OneRegisterEach
        <3> SUFFICES ASSUME world = "up", NEW n \in TierNodes
                     PROVE  {g \in GridIds : n \in Enrolled(register[g])} = {home[n]} \ {NoGrid}
            BY DEF OneRegisterEach
        <3>1. \A g \in GridIds : n \in Enrolled(register[g]) <=> home[n] = g
            BY DEF TiersInv, TopologyOK, Residents
        <3>2. home[n] \in GridIds \cup {NoGrid} /\ NoGrid \notin GridIds
            BY NoGridIsNone DEF TiersInv, TopologyOK
        <3> QED
            BY <3>1, <3>2
    <2> QED
        BY <2>2, <2>3 DEF SeatingIsSound
<1> QED
    BY <1>1, TiersInvariance, PTL

\* Every nullifier has one grid that may include it, and every transaction that waits does so
\* where it can be included.
THEOREM PaymentsFind == TiersSpec => []PaymentsFindTheirGrid
<1>1. TiersInv => PaymentsFindTheirGrid
    BY DEF TiersInv, TopologyOK, PaymentsFindTheirGrid, EveryNullifierHasAHome, WaitingIsReachable
<1> QED
    BY <1>1, TiersInvariance, PTL

\* Where a member's standing is to be found.
LEMMA OneStanding ==
    ASSUME TiersInv, world = "up", NEW n \in TierNodes
    PROVE  /\ home[n] = NoGrid => StandingAnywhere(n) = {}
           /\ home[n] # NoGrid => StandingAnywhere(n) = {register[home[n]].members[n].standing}
<1>1. \A g \in GridIds : n \in Enrolled(register[g]) <=> home[n] = g
    BY DEF TiersInv, TopologyOK, Residents
<1>2. home[n] \in GridIds \cup {NoGrid} /\ NoGrid \notin GridIds
    BY NoGridIsNone DEF TiersInv, TopologyOK
<1>3. \A g \in GridIds : home[n] # g => StandingOf(register[g], n) = "observer"
    BY <1>1 DEF StandingOf
<1>4. CASE home[n] = NoGrid
    BY <1>2, <1>3, <1>4 DEF StandingAnywhere
<1>5. CASE home[n] # NoGrid
    <2> PICK g : g = home[n]
        OBVIOUS
    <2>1. g \in GridIds /\ n \in Enrolled(register[g])
        BY <1>1, <1>2, <1>5
    <2>2. StandingOf(register[g], n) = register[g].members[n].standing
        BY <2>1 DEF StandingOf
    <2>3. register[g].members[n].standing # "observer"
        <3>1. PICK S \in SUBSET TierNodes : register[g] \in [epoch : Nat, members : [S -> Records]]
            BY <2>1 DEF TiersInv, RegistersAreServed, RegisterOK
        <3> PICK rec : rec = register[g].members[n]
            OBVIOUS
        <3>2. rec \in Records
            BY <2>1, <3>1 DEF Enrolled
        <3> QED
            BY <3>2 DEF Records
    <2>4. StandingAnywhere(n) = {register[g].members[n].standing}
        BY <1>3, <2>1, <2>2, <2>3 DEF StandingAnywhere
    <2> QED
        BY <1>5, <2>4
<1> QED
    BY <1>4, <1>5

LEMMA NoStepEarns ==
    ASSUME TiersInv, TiersInv', [TiersNext]_tierVars
    PROVE  /\ \A n \in TierNodes : home[n] # NoGrid => home'[n][1] = home[n][1]
           /\ world' = "up" => world = "up" /\ \A n \in TierNodes : Kept(n)
<1>1. CASE Epoch
    <2>1. world = "up"
        BY <1>1 DEF Epoch
    <2> QED
        BY <1>1, <2>1, EpochStep
<1>2. CASE \E n \in TierNodes : ReportFault(n)
    <2>1. UNCHANGED <<register, home, world>> /\ world = "up"
        BY <1>2, FaultStep DEF ReportFault
    <2> QED
        BY <2>1 DEF Kept
<1>3. CASE \E n \in TierNodes, r \in {g[1] : g \in GridIds} : AdmitNode(n, r)
    BY <1>3, AdmitStep DEF AdmitNode
<1>4. CASE \E tx \in Payments : Submit(tx)
    <2>1. UNCHANGED <<register, home, world>> /\ world = "up"
        BY <1>4, SubmitStep DEF Submit
    <2> QED
        BY <2>1 DEF Kept
<1>5. CASE UNCHANGED tierVars
    <2>1. UNCHANGED <<register, home, world>>
        BY <1>5 DEF tierVars
    <2> QED
        BY <2>1 DEF Kept
<1> QED
    BY <1>1, <1>2, <1>3, <1>4, <1>5 DEF TiersNext

\* No founding, merge, roll or admission shortens the gate, brings back who was suspended or
\* takes a member out of its region.
THEOREM MovingHolds == TiersSpec => MovingEarnsNothing
<1>1. TiersInv => GateIsServed
    <2> SUFFICES ASSUME TiersInv, NEW g \in GridIds, NEW n \in Enrolled(register[g]),
                        register[g].members[n].standing = "attester", register[g].members[n].joined >= 0
                 PROVE  register[g].epoch > register[g].members[n].joined + Threshold
        BY DEF GateIsServed
    <2>1. /\ register[g].members[n].joined + Threshold < register[g].epoch
        BY DEF TiersInv, RegistersAreServed, Served
    <2> QED
        BY <2>1
<1>2. TiersInv /\ TiersInv' /\ [TiersNext]_tierVars =>
          [world' = "up" => \A n \in TierNodes :
              "suspended" \in StandingAnywhere(n) => StandingAnywhere(n)' = {"suspended"}]_tierVars
    <2> SUFFICES ASSUME TiersInv, TiersInv', [TiersNext]_tierVars, world' = "up", NEW n \in TierNodes,
                        "suspended" \in StandingAnywhere(n)
                 PROVE  StandingAnywhere(n)' = {"suspended"}
        OBVIOUS
    <2>1. world = "up" /\ Kept(n)
        BY NoStepEarns
    <2>2. home[n] # NoGrid /\ register[home[n]].members[n].standing = "suspended"
        BY <2>1, OneStanding
    <2>3. home'[n] # NoGrid /\ register'[home'[n]].members[n].standing = "suspended"
        BY <2>1, <2>2 DEF Kept
    <2>4. (TiersInv /\ world = "up" /\ home[n] # NoGrid
             => StandingAnywhere(n) = {register[home[n]].members[n].standing})'
        BY ONLY OneStanding, n \in TierNodes, PTL
    <2> QED
        BY <2>3, <2>4
<1>3. TiersInv /\ TiersInv' /\ [TiersNext]_tierVars =>
          [\A n \in TierNodes : home[n] # NoGrid => home'[n][1] = home[n][1]]_tierVars
    BY NoStepEarns
<1> QED
    BY <1>1, <1>2, <1>3, TiersInvariance, PTL DEF TiersSpec, MovingEarnsNothing, SuspensionIsForGood, RegionsAreKept

-----------------------------------------------------------------------------
(* Wallet: the rows of a chain.                                             *)

Row == Nat \X Nat \X Nat
Fields == {"made", "gone"}
Block == [made : Seq(Nat), gone : Seq(Nat)]

\* The rows of the first h blocks.
RowsBelow(chain, field, h) == ChainRows(chain, field)[h]

\* What one block adds to the rows below it.
BlockRows(h, list, base) == [i \in 1..Len(list) |-> <<h - 1, list[i], base + i>>]

LEMMA BlockRowsAre ==
    ASSUME NEW h \in Nat \ {0}, NEW list \in Seq(Nat), NEW base \in Nat
    PROVE  /\ BlockRows(h, list, base) \in Seq(Row)
           /\ Len(BlockRows(h, list, base)) = Len(list)
           /\ \A i \in 1..Len(list) : BlockRows(h, list, base)[i] = <<h - 1, list[i], base + i>>
<1>1. \A i \in 1..Len(list) : <<h - 1, list[i], base + i>> \in Row
    BY DEF Row
<1>2. Len(list) \in Nat
    OBVIOUS
<1> QED
    BY <1>1, <1>2 DEF BlockRows

\* The rows of a chain are those of the chain without its tip and the tip's own.
LEMMA RowsGrow ==
    ASSUME NEW chain \in Seq(Block), NEW field \in Fields
    PROVE  /\ ChainRows(chain, field) \in [0..Len(chain) -> Seq(Row)]
           /\ ChainRows(chain, field)[0] = <<>>
           /\ \A h \in 1..Len(chain) :
                /\ chain[h][field] \in Seq(Nat)
                /\ ChainRows(chain, field)[h] =
                     ChainRows(chain, field)[h - 1]
                        \o BlockRows(h, chain[h][field], Len(ChainRows(chain, field)[h - 1]))
<1> PICK n : n = Len(chain)
    OBVIOUS
<1> DEFINE X == Seq(Row)
           body(f, h) == IF h = 0 THEN <<>>
                         ELSE f[h - 1] \o BlockRows(h, chain[h][field], Len(f[h - 1]))
           rows == CHOOSE f : f = [h \in 0..n |-> body(f, h)]
<1>1. n \in Nat /\ \A h \in 1..n : chain[h][field] \in Seq(Nat)
    <2>1. n \in Nat /\ \A h \in 1..n : chain[h] \in Block
        BY ONLY chain \in Seq(Block), n = Len(chain)
    <2>2. \A block \in Block : block.made \in Seq(Nat) /\ block.gone \in Seq(Nat)
        BY DEF Block
    <2>3. field = "made" \/ field = "gone"
        BY ONLY field \in Fields DEF Fields
    <2>4. \A block \in Block : block[field] \in Seq(Nat)
        BY ONLY <2>2, <2>3
    <2> QED
        BY ONLY <2>1, <2>4
<1>2. ChainRows(chain, field) = rows
    <2>1. \A h \in 1..n : DOMAIN chain[h][field] = 1..Len(chain[h][field])
        BY <1>1
    <2>2. \A f : [h \in 0..n |-> IF h = 0 THEN <<>>
                    ELSE f[h - 1] \o [i \in DOMAIN chain[h][field] |->
                                        <<h - 1, chain[h][field][i], Len(f[h - 1]) + i>>]]
               = [h \in 0..n |-> body(f, h)]
        <3> SUFFICES ASSUME NEW f, NEW h \in 0..n
                     PROVE  (IF h = 0 THEN <<>>
                             ELSE f[h - 1] \o [i \in DOMAIN chain[h][field] |->
                                        <<h - 1, chain[h][field][i], Len(f[h - 1]) + i>>])
                            = body(f, h)
            OBVIOUS
        <3>1. CASE h = 0
            BY <3>1
        <3>2. CASE h # 0
            <4>1. h \in 1..n
                BY <3>2, <1>1
            <4>2. DOMAIN chain[h][field] = 1..Len(chain[h][field])
                BY <2>1, <4>1
            <4> QED
                BY <3>2, <4>2 DEF BlockRows
        <3> QED
            BY <3>1, <3>2
    <2> HIDE DEF body
    <2> QED
        BY <2>2 DEF ChainRows
<1>3. PICK step : step = [h \in 1..n |-> [x \in X |-> x \o BlockRows(h, chain[h][field], Len(x))]]
    OBVIOUS
<1>4. step \in [1..n -> [X -> X]]
    <2> SUFFICES ASSUME NEW h \in 1..n, NEW x \in X
                 PROVE  x \o BlockRows(h, chain[h][field], Len(x)) \in X
        BY <1>3
    <2>1. h \in Nat \ {0} /\ chain[h][field] \in Seq(Nat) /\ Len(x) \in Nat
        BY <1>1
    <2>2. BlockRows(h, chain[h][field], Len(x)) \in X
        BY <2>1, BlockRowsAre
    <2> QED
        BY <2>2
<1>5. PICK f \in [0..n -> X] : InTurn(f, n, <<>>, step)
    <2>1. <<>> \in X
        OBVIOUS
    <2> HIDE DEF X
    <2> QED
        BY <1>1, <1>4, <2>1, StepsInTurn
<1>6. \A h \in 0..n : f[h] = body(f, h)
    <2> SUFFICES ASSUME NEW h \in 0..n PROVE f[h] = body(f, h)
        OBVIOUS
    <2>1. f[h] = IF h = 0 THEN <<>> ELSE step[h][f[h - 1]]
        BY <1>5 DEF InTurn
    <2>2. CASE h = 0
        BY <2>1, <2>2
    <2>3. CASE h # 0
        <3>1. h \in 1..n /\ h - 1 \in 0..n
            BY <1>1, <2>3
        <3>2. f[h - 1] \in X
            BY <1>5, <3>1
        <3>3. step[h][f[h - 1]] = f[h - 1] \o BlockRows(h, chain[h][field], Len(f[h - 1]))
            BY <1>3, <3>1, <3>2
        <3> QED
            BY <2>1, <2>3, <3>3
    <2> QED
        BY <2>2, <2>3
<1>7. f = [h \in 0..n |-> body(f, h)]
    <2> HIDE DEF body
    <2> QED
        BY <1>5, <1>6
<1>8. rows = [h \in 0..n |-> body(rows, h)]
    <2> HIDE DEF body
    <2> QED
        BY <1>7
<1> HIDE DEF rows
<1>9. ASSUME NEW g, NEW k, g = [h \in 0..n |-> body(g, h)], k = [h \in 0..n |-> body(k, h)]
      PROVE  g = k
    <2> DEFINE S == {h \in 0..n : g[h] = k[h]}
    <2>1. g[0] = <<>> /\ k[0] = <<>> /\ 0 \in 0..n
        <3>1. 0 \in 0..n
            BY <1>1
        <3>2. body(g, 0) = <<>> /\ body(k, 0) = <<>>
            OBVIOUS
        <3> HIDE DEF body
        <3> QED
            BY ONLY <3>1, <3>2, <1>9
    <2>2. \A h \in 1..n : h - 1 \in S => h \in S
        <3> SUFFICES ASSUME NEW h \in 1..n, g[h - 1] = k[h - 1] PROVE g[h] = k[h] /\ h \in 0..n
            OBVIOUS
        <3>1. h \in 0..n /\ h # 0
            OBVIOUS
        <3>2. g[h] = body(g, h) /\ k[h] = body(k, h)
            <4> HIDE DEF body
            <4> QED
                BY ONLY <1>9, <3>1
        <3> QED
            BY <3>1, <3>2
    <2>3. S = 0..n
        <3>1. 0 \in S /\ S \in SUBSET (0..n)
            BY <2>1
        <3> HIDE DEF S
        <3> QED
            BY <1>1, <2>2, <3>1, CarriedAlong
    <2>4. \A x \in 0..n : g[x] = k[x]
        BY <2>3
    <2> HIDE DEF body
    <2> QED
        BY ONLY <1>9, <2>4
<1>10. rows = f
    <2> HIDE DEF body
    <2> QED
        BY <1>7, <1>8, <1>9
<1>11. f[0] = <<>> /\ \A h \in 1..n : f[h] = f[h - 1] \o BlockRows(h, chain[h][field], Len(f[h - 1]))
    <2>1. 0 \in 0..n /\ \A h \in 1..n : h \in 0..n /\ h # 0
        BY <1>1
    <2> QED
        BY <1>6, <2>1
<1> QED
    BY <1>1, <1>2, <1>5, <1>10, <1>11

\* One list behind another.
LEMMA JoinFacts ==
    ASSUME NEW X, NEW s \in Seq(X), NEW t \in Seq(X)
    PROVE  /\ s \o t \in Seq(X) /\ Len(s \o t) = Len(s) + Len(t)
           /\ Len(s) \in Nat /\ Len(t) \in Nat
           /\ \A k \in 1..Len(s) : k \in 1..Len(s \o t) /\ (s \o t)[k] = s[k]
           /\ \A k \in 1..Len(t) : Len(s) + k \in 1..Len(s \o t) /\ (s \o t)[Len(s) + k] = t[k]
           /\ \A i \in 1..Len(s \o t) : i \in 1..Len(s) \/ \E k \in 1..Len(t) : i = Len(s) + k
           /\ ToSet(s \o t) = ToSet(s) \cup ToSet(t)
<1> PICK u, m, n : u = s \o t /\ m = Len(s) /\ n = Len(t)
    OBVIOUS
<1>1. m \in Nat /\ n \in Nat
    OBVIOUS
<1>2. /\ u \in Seq(X) /\ Len(u) = m + n
      /\ \A k \in 1..m + n : u[k] = IF k <= m THEN s[k] ELSE t[k - m]
    OBVIOUS
<1>3. \A k \in 1..m : k \in 1..m + n /\ u[k] = s[k]
    <2>1. \A k \in 1..m : k \in 1..m + n /\ k <= m
        BY ONLY <1>1
    <2> QED
        BY ONLY <1>2, <2>1
<1>4. \A k \in 1..n : m + k \in 1..m + n /\ u[m + k] = t[k]
    <2>1. \A k \in 1..n : m + k \in 1..m + n /\ ~(m + k <= m) /\ (m + k) - m = k
        BY ONLY <1>1
    <2> QED
        BY ONLY <1>2, <2>1
<1>5. \A i \in 1..m + n : i \in 1..m \/ \E k \in 1..n : i = m + k
    <2> SUFFICES ASSUME NEW i \in 1..m + n, i \notin 1..m PROVE \E k \in 1..n : i = m + k
        OBVIOUS
    <2>1. i - m \in 1..n /\ i = m + (i - m)
        BY ONLY <1>1, i \in 1..m + n, i \notin 1..m
    <2> QED
        BY <2>1
<1>6. ToSet(u) = ToSet(s) \cup ToSet(t)
    <2>1. DOMAIN u = 1..m + n /\ DOMAIN s = 1..m /\ DOMAIN t = 1..n
        BY <1>2
    <2>2. /\ ToSet(u) = {u[k] : k \in 1..m + n} /\ ToSet(s) = {s[k] : k \in 1..m}
          /\ ToSet(t) = {t[k] : k \in 1..n}
        BY ONLY <2>1 DEF ToSet
    <2> QED
        BY ONLY <1>3, <1>4, <1>5, <2>2
<1> QED
    BY <1>1, <1>2, <1>3, <1>4, <1>5, <1>6

\* Rows are numbered, each has the height it was written at, and a block's are after
\* those of the blocks below it.
LEMMA RowsAre ==
    ASSUME NEW chain \in Seq(Block), NEW field \in Fields, NEW h \in 0..Len(chain)
    PROVE  /\ RowsBelow(chain, field, h) \in Seq(Row)
           /\ \A i \in 1..Len(RowsBelow(chain, field, h)) :
                /\ RowsBelow(chain, field, h)[i][3] = i
                /\ RowsBelow(chain, field, h)[i][1] \in 0..(h - 1)
                /\ RowsBelow(chain, field, h)[i][2]
                      \in ToSet(chain[RowsBelow(chain, field, h)[i][1] + 1][field])
           /\ \A k \in 1..h : \A x \in ToSet(chain[k][field]) :
                \E i \in 1..Len(RowsBelow(chain, field, h)) :
                    /\ RowsBelow(chain, field, h)[i][1] = k - 1
                    /\ RowsBelow(chain, field, h)[i][2] = x
<1> PICK f : f = ChainRows(chain, field)
    OBVIOUS
<1> PICK n : n = Len(chain)
    OBVIOUS
<1> DEFINE Fine(g) == /\ \A i \in 1..Len(f[g]) :
                           /\ f[g][i][3] = i /\ f[g][i][1] \in 0..(g - 1)
                           /\ f[g][i][2] \in ToSet(chain[f[g][i][1] + 1][field])
                      /\ \A k \in 1..g : \A x \in ToSet(chain[k][field]) :
                           \E i \in 1..Len(f[g]) : f[g][i][1] = k - 1 /\ f[g][i][2] = x
           S == {g \in 0..n : Fine(g)}
<1>1. /\ n \in Nat /\ f \in [0..n -> Seq(Row)] /\ f[0] = <<>>
      /\ \A g \in 1..n : /\ chain[g][field] \in Seq(Nat)
                         /\ f[g] = f[g - 1] \o BlockRows(g, chain[g][field], Len(f[g - 1]))
    <2>1. /\ ChainRows(chain, field) \in [0..Len(chain) -> Seq(Row)]
          /\ ChainRows(chain, field)[0] = <<>>
          /\ \A g \in 1..Len(chain) :
                /\ chain[g][field] \in Seq(Nat)
                /\ ChainRows(chain, field)[g] =
                     ChainRows(chain, field)[g - 1]
                        \o BlockRows(g, chain[g][field], Len(ChainRows(chain, field)[g - 1]))
        BY ONLY chain \in Seq(Block), field \in Fields, RowsGrow
    <2>2. n \in Nat
        OBVIOUS
    <2> QED
        BY ONLY <2>1, <2>2, f = ChainRows(chain, field), n = Len(chain)
<1>2. 0 \in S
    <2>1. 0 \in 0..n /\ 1..0 = {} /\ Len(<<>>) = 0
        BY <1>1
    <2> QED
        BY <1>1, <2>1
<1>3. ASSUME NEW g \in 1..n, g - 1 \in S PROVE g \in S
    <2> PICK x, y, z, c : x = f[g - 1] /\ c = chain[g][field] /\ y = BlockRows(g, c, Len(x)) /\ z = f[g]
        OBVIOUS
    <2> HIDE DEF Fine, S
    <2>0. g \in Nat \ {0} /\ g - 1 \in 0..n /\ g \in 0..n
        BY <1>1
    <2>1. x \in Seq(Row) /\ c \in Seq(Nat) /\ z = x \o y
        BY <1>1, <2>0
    <2>2. /\ y \in Seq(Row) /\ Len(y) = Len(c)
          /\ \A i \in 1..Len(c) : y[i] = <<g - 1, c[i], Len(x) + i>>
        <3>1. Len(x) \in Nat
            BY <2>1
        <3> QED
            <4>1. /\ BlockRows(g, c, Len(x)) \in Seq(Row)
                  /\ Len(BlockRows(g, c, Len(x))) = Len(c)
                  /\ \A i \in 1..Len(c) : BlockRows(g, c, Len(x))[i] = <<g - 1, c[i], Len(x) + i>>
                BY ONLY <2>0, <2>1, <3>1, BlockRowsAre
            <4> QED
                BY ONLY <4>1, y = BlockRows(g, c, Len(x))
    <2>3. /\ Len(x) \in Nat /\ Len(c) \in Nat /\ Len(z) = Len(x) + Len(c)
          /\ \A i \in 1..Len(x) : z[i] = x[i]
          /\ \A i \in 1..Len(x) : i \in 1..Len(z)
          /\ \A i \in 1..Len(c) : Len(x) + i \in 1..Len(z) /\ z[Len(x) + i] = y[i]
          /\ \A i \in 1..Len(z) : i \in 1..Len(x) \/ \E k \in 1..Len(c) : i = Len(x) + k
        <3>1. /\ Len(x \o y) = Len(x) + Len(y) /\ Len(x) \in Nat /\ Len(y) \in Nat
              /\ \A k \in 1..Len(x) : k \in 1..Len(x \o y) /\ (x \o y)[k] = x[k]
              /\ \A k \in 1..Len(y) : Len(x) + k \in 1..Len(x \o y) /\ (x \o y)[Len(x) + k] = y[k]
              /\ \A i \in 1..Len(x \o y) : i \in 1..Len(x) \/ \E k \in 1..Len(y) : i = Len(x) + k
            <4>1. x \in Seq(Row) /\ y \in Seq(Row)
                BY <2>1, <2>2
            <4> HIDE DEF S
            <4> QED
                BY ONLY <4>1, JoinFacts
        <3> QED
            BY ONLY <2>1, <2>2, <3>1
    <2>4. Fine(g - 1)
        BY <1>3 DEF S
    <2>5. /\ \A i \in 1..Len(x) : /\ x[i][3] = i /\ x[i][1] \in 0..(g - 2)
                                  /\ x[i][2] \in ToSet(chain[x[i][1] + 1][field])
          /\ \A k \in 1..(g - 1) : \A v \in ToSet(chain[k][field]) :
               \E i \in 1..Len(x) : x[i][1] = k - 1 /\ x[i][2] = v
        <3>1. (g - 1) - 1 = g - 2
            BY <2>1
        <3> QED
            BY <2>4, <3>1 DEF Fine
    <2>6. ASSUME NEW i \in 1..Len(z)
          PROVE  /\ z[i][3] = i /\ z[i][1] \in 0..(g - 1)
                 /\ z[i][2] \in ToSet(chain[z[i][1] + 1][field])
        <3>1. CASE i \in 1..Len(x)
            <4>1. z[i] = x[i] /\ x[i][1] \in 0..(g - 2)
                BY <2>3, <2>5, <3>1
            <4>2. x[i][1] \in 0..(g - 1)
                BY ONLY <2>0, <4>1
            <4> QED
                BY <2>5, <3>1, <4>1, <4>2
        <3>2. CASE i \notin 1..Len(x)
            <4>1. PICK j \in 1..Len(c) : i = Len(x) + j
                BY <2>3, <3>2
            <4>2. z[i] = <<g - 1, c[j], Len(x) + j>>
                BY ONLY <2>2, <2>3, <4>1
            <4>3. z[i][1] = g - 1 /\ z[i][2] = c[j] /\ z[i][3] = i
                BY <4>1, <4>2
            <4>4. (g - 1) + 1 = g /\ g - 1 \in 0..(g - 1)
                BY ONLY <2>0
            <4>5. c[j] \in ToSet(c)
                BY <2>1 DEF ToSet
            <4> QED
                BY <4>3, <4>4, <4>5
        <3> QED
            BY <3>1, <3>2
    <2>7. ASSUME NEW k \in 1..g, NEW v \in ToSet(chain[k][field])
          PROVE  \E i \in 1..Len(z) : z[i][1] = k - 1 /\ z[i][2] = v
        <3>1. CASE k \in 1..(g - 1)
            <4>1. PICK i \in 1..Len(x) : x[i][1] = k - 1 /\ x[i][2] = v
                BY <2>5, <3>1
            <4> QED
                BY ONLY <2>3, <4>1
        <3>2. CASE k \notin 1..(g - 1)
            <4>1. k = g
                BY <2>0, <3>2
            <4>2. PICK j \in 1..Len(c) : v = c[j]
                BY <2>1, <4>1 DEF ToSet
            <4>3. z[Len(x) + j] = <<g - 1, v, Len(x) + j>> /\ Len(x) + j \in 1..Len(z)
                BY ONLY <2>2, <2>3, <4>2
            <4>4. z[Len(x) + j][1] = k - 1 /\ z[Len(x) + j][2] = v
                BY <4>1, <4>3
            <4> QED
                BY <4>3, <4>4
        <3> QED
            BY <3>1, <3>2
    <2> QED
        <3>1. Fine(g)
            <4>1. /\ \A i \in 1..Len(f[g]) :
                        /\ f[g][i][3] = i /\ f[g][i][1] \in 0..(g - 1)
                        /\ f[g][i][2] \in ToSet(chain[f[g][i][1] + 1][field])
                  /\ \A k \in 1..g : \A v \in ToSet(chain[k][field]) :
                        \E i \in 1..Len(f[g]) : f[g][i][1] = k - 1 /\ f[g][i][2] = v
                BY ONLY <2>6, <2>7, z = f[g]
            <4> QED
                BY ONLY <4>1 DEF Fine
        <3> QED
            BY <2>0, <3>1 DEF S
<1>4. S = 0..n
    <2>1. S \in SUBSET (0..n)
        OBVIOUS
    <2> HIDE DEF S
    <2> QED
        BY <1>1, <1>2, <1>3, <2>1, CarriedAlong
<1>5. h \in 0..n
    OBVIOUS
<1> QED
    <2>1. Fine(h)
        <3> HIDE DEF Fine
        <3> QED
            BY <1>4, <1>5
    <2>2. f[h] \in Seq(Row)
        BY ONLY <1>1, <1>5
    <2>3. RowsBelow(chain, field, h) = f[h]
        BY DEF RowsBelow
    <2> QED
        BY ONLY <2>1, <2>2, <2>3 DEF Fine

\* A block's rows come after those of the blocks below it, which stay as they were.
LEMMA RowsStay ==
    ASSUME NEW chain \in Seq(Block), NEW field \in Fields,
           NEW g \in 0..Len(chain), NEW h \in g..Len(chain),
           NEW low, low = RowsBelow(chain, field, g), NEW all, all = RowsBelow(chain, field, h)
    PROVE  /\ Len(low) \in Nat /\ Len(all) \in Nat /\ Len(low) <= Len(all)
           /\ \A i \in 1..Len(low) : all[i] = low[i]
           /\ \A i \in (Len(low) + 1)..Len(all) : all[i][1] >= g
<1> PICK f : f = ChainRows(chain, field)
    OBVIOUS
<1> PICK n : n = Len(chain)
    OBVIOUS
<1>1. /\ n \in Nat /\ f \in [0..n -> Seq(Row)]
      /\ \A k \in 1..n : /\ chain[k][field] \in Seq(Nat)
                         /\ f[k] = f[k - 1] \o BlockRows(k, chain[k][field], Len(f[k - 1]))
    <2>1. /\ ChainRows(chain, field) \in [0..Len(chain) -> Seq(Row)]
          /\ \A k \in 1..Len(chain) :
                /\ chain[k][field] \in Seq(Nat)
                /\ ChainRows(chain, field)[k] =
                     ChainRows(chain, field)[k - 1]
                        \o BlockRows(k, chain[k][field], Len(ChainRows(chain, field)[k - 1]))
        BY ONLY chain \in Seq(Block), field \in Fields, RowsGrow
    <2>2. n \in Nat
        OBVIOUS
    <2> QED
        BY ONLY <2>1, <2>2, f = ChainRows(chain, field), n = Len(chain)
<1>2. g \in 0..n /\ h \in g..n /\ g \in Nat /\ g <= n
    BY <1>1
<1> DEFINE Stays(k) == /\ Len(f[g]) <= Len(f[k])
                       /\ \A i \in 1..Len(f[g]) : f[k][i] = f[g][i]
                       /\ \A i \in (Len(f[g]) + 1)..Len(f[k]) : f[k][i][1] >= g
           S == {k \in 0..n : k >= g => Stays(k)}
<1>3. \A k \in 0..n : f[k] \in Seq(Row) /\ Len(f[k]) \in Nat
    <2>1. \A k \in 0..n : f[k] \in Seq(Row)
        BY ONLY <1>1
    <2> QED
        BY ONLY <2>1
<1>4. Stays(g)
    <2>1. Len(f[g]) \in Nat
        BY <1>2, <1>3
    <2>2. (Len(f[g]) + 1)..Len(f[g]) = {} /\ Len(f[g]) <= Len(f[g])
        BY ONLY <2>1
    <2> QED
        BY ONLY <2>2 DEF Stays
<1>5. ASSUME NEW k \in 1..n, k - 1 \in S PROVE k \in S
    <2> HIDE DEF Stays
    <2>0. k \in Nat \ {0} /\ k - 1 \in 0..n /\ k \in 0..n
        BY <1>1
    <2>1. CASE k < g
        BY <1>2, <2>0, <2>1
    <2>2. CASE k = g
        BY <1>4, <2>0, <2>2
    <2>3. CASE k > g
        <3>1. k - 1 >= g
            BY ONLY <1>2, <2>0, <2>3
        <3>2. Stays(k - 1)
            BY <1>5, <3>1 DEF S
        <3> PICK x, c, y, z, w : /\ x = f[k - 1] /\ c = chain[k][field] /\ y = BlockRows(k, c, Len(x))
                                 /\ z = f[k] /\ w = f[g]
            OBVIOUS
        <3>3. x \in Seq(Row) /\ c \in Seq(Nat) /\ z = x \o y
            BY <1>1, <1>3, <2>0
        <3>4. /\ y \in Seq(Row) /\ Len(y) = Len(c)
              /\ \A i \in 1..Len(c) : y[i] = <<k - 1, c[i], Len(x) + i>>
            <4>1. Len(x) \in Nat
                BY <3>3
            <4>2. /\ BlockRows(k, c, Len(x)) \in Seq(Row)
                  /\ Len(BlockRows(k, c, Len(x))) = Len(c)
                  /\ \A i \in 1..Len(c) : BlockRows(k, c, Len(x))[i] = <<k - 1, c[i], Len(x) + i>>
                BY ONLY <2>0, <3>3, <4>1, BlockRowsAre
            <4> QED
                BY ONLY <4>2, y = BlockRows(k, c, Len(x))
        <3>5. /\ Len(x \o y) = Len(x) + Len(y) /\ Len(x) \in Nat /\ Len(y) \in Nat
              /\ \A i \in 1..Len(x) : i \in 1..Len(x \o y) /\ (x \o y)[i] = x[i]
              /\ \A i \in 1..Len(y) : Len(x) + i \in 1..Len(x \o y) /\ (x \o y)[Len(x) + i] = y[i]
              /\ \A i \in 1..Len(x \o y) : i \in 1..Len(x) \/ \E j \in 1..Len(y) : i = Len(x) + j
            <4>1. x \in Seq(Row) /\ y \in Seq(Row)
                BY <3>3, <3>4
            <4> QED
                BY ONLY <4>1, JoinFacts
        <3>6. /\ Len(w) \in Nat /\ Len(w) <= Len(x) /\ \A i \in 1..Len(w) : x[i] = w[i]
              /\ \A i \in (Len(w) + 1)..Len(x) : x[i][1] >= g
            <4>1. Len(f[g]) \in Nat
                BY <1>2, <1>3
            <4> QED
                BY ONLY <3>2, <4>1, x = f[k - 1], w = f[g] DEF Stays
        <3>7. Len(w) <= Len(z)
            BY ONLY <3>3, <3>5, <3>6
        <3>8. \A i \in 1..Len(w) : z[i] = w[i]
            <4>1. \A i \in 1..Len(w) : i \in 1..Len(x)
                BY ONLY <3>5, <3>6
            <4> QED
                BY ONLY <3>3, <3>5, <3>6, <4>1
        <3>9. ASSUME NEW i \in (Len(w) + 1)..Len(z) PROVE z[i][1] >= g
            <4>1. i \in 1..Len(z)
                <5>1. Len(z) \in Nat
                    BY ONLY <3>3, <3>5
                <5> QED
                    BY ONLY <3>6, <5>1, i \in (Len(w) + 1)..Len(z)
            <4>2. CASE i \in 1..Len(x)
                <5>1. i \in (Len(w) + 1)..Len(x)
                    BY ONLY <3>5, <3>6, <4>2, i \in (Len(w) + 1)..Len(z)
                <5> QED
                    BY ONLY <3>3, <3>5, <3>6, <4>2, <5>1
            <4>3. CASE i \notin 1..Len(x)
                <5>1. PICK j \in 1..Len(y) : i = Len(x) + j
                    BY ONLY <3>3, <3>5, <4>1, <4>3
                <5>2. z[i] = <<k - 1, c[j], Len(x) + j>>
                    BY ONLY <3>3, <3>4, <3>5, <5>1
                <5>3. z[i][1] = k - 1
                    BY ONLY <5>2
                <5> QED
                    BY ONLY <3>1, <5>3
            <4> QED
                BY <4>2, <4>3
        <3>10. Stays(k)
            BY ONLY <3>7, <3>8, <3>9, z = f[k], w = f[g] DEF Stays
        <3> QED
            BY <2>0, <3>10 DEF S
    <2> QED
        BY <1>2, <2>0, <2>1, <2>2, <2>3
<1>6. 0 \in S
    <2> HIDE DEF Stays
    <2>1. 0 \in 0..n /\ (0 >= g => g = 0)
        BY <1>1, <1>2
    <2> QED
        BY <1>4, <2>1
<1>7. S = 0..n
    <2>1. S \in SUBSET (0..n)
        OBVIOUS
    <2> HIDE DEF S
    <2> QED
        BY ONLY <1>1, <1>5, <1>6, <2>1, CarriedAlong
<1>8. Stays(h) /\ h \in 0..n
    <2>1. h \in 0..n /\ h >= g
        BY <1>1, <1>2
    <2> HIDE DEF Stays
    <2> QED
        BY <1>7, <2>1
<1>9. low = f[g] /\ all = f[h]
    BY DEF RowsBelow
<1> QED
    BY ONLY <1>2, <1>3, <1>8, <1>9 DEF Stays

\* One that goes on from another has the rows of the other.
LEMMA RowsOfPrefix ==
    ASSUME NEW t \in Seq(Block), NEW b \in Seq(Block), NEW field \in Fields,
           Len(t) <= Len(b), \A k \in 1..Len(t) : t[k] = b[k]
    PROVE  \A k \in 0..Len(t) : ChainRows(t, field)[k] = ChainRows(b, field)[k]
<1> PICK n, m, f, e : n = Len(t) /\ m = Len(b) /\ f = ChainRows(t, field) /\ e = ChainRows(b, field)
    OBVIOUS
<1>0. n \in Nat /\ m \in Nat /\ n <= m
    OBVIOUS
<1>1. /\ f[0] = <<>>
      /\ \A k \in 1..n : f[k] = f[k - 1] \o BlockRows(k, t[k][field], Len(f[k - 1]))
    <2>1. /\ ChainRows(t, field)[0] = <<>>
          /\ \A k \in 1..Len(t) :
                ChainRows(t, field)[k] =
                     ChainRows(t, field)[k - 1]
                        \o BlockRows(k, t[k][field], Len(ChainRows(t, field)[k - 1]))
        BY ONLY t \in Seq(Block), field \in Fields, RowsGrow
    <2> QED
        BY ONLY <2>1, f = ChainRows(t, field), n = Len(t)
<1>2. /\ e[0] = <<>>
      /\ \A k \in 1..m : e[k] = e[k - 1] \o BlockRows(k, b[k][field], Len(e[k - 1]))
    <2>1. /\ ChainRows(b, field)[0] = <<>>
          /\ \A k \in 1..Len(b) :
                ChainRows(b, field)[k] =
                     ChainRows(b, field)[k - 1]
                        \o BlockRows(k, b[k][field], Len(ChainRows(b, field)[k - 1]))
        BY ONLY b \in Seq(Block), field \in Fields, RowsGrow
    <2> QED
        BY ONLY <2>1, e = ChainRows(b, field), m = Len(b)
<1> DEFINE S == {k \in 0..n : f[k] = e[k]}
<1>3. 0 \in S
    BY <1>0, <1>1, <1>2
<1>4. ASSUME NEW k \in 1..n, k - 1 \in S PROVE k \in S
    <2>1. k \in 1..m /\ k \in 0..n
        BY ONLY <1>0, k \in 1..n
    <2>2. f[k - 1] = e[k - 1]
        BY <1>4
    <2>3. t[k] = b[k]
        BY n = Len(t)
    <2>4. f[k] = f[k - 1] \o BlockRows(k, t[k][field], Len(f[k - 1]))
        BY ONLY <1>1, k \in 1..n
    <2>5. e[k] = e[k - 1] \o BlockRows(k, b[k][field], Len(e[k - 1]))
        BY ONLY <1>2, <2>1
    <2>6. f[k] = e[k]
        BY ONLY <2>2, <2>3, <2>4, <2>5
    <2> QED
        BY <2>1, <2>6
<1>5. S = 0..n
    <2>1. S \in SUBSET (0..n)
        OBVIOUS
    <2> HIDE DEF S
    <2> QED
        BY ONLY <1>0, <1>3, <1>4, <2>1, CarriedAlong
<1> QED
    BY <1>5

\* What IsPrefix says of two sequences.
LEMMA PrefixIs ==
    ASSUME NEW X, NEW s \in Seq(X), NEW t \in Seq(X)
    PROVE  IsPrefix(s, t) <=> Len(s) <= Len(t) /\ \A i \in 1..Len(s) : s[i] = t[i]
<1> PICK m, n : m = Len(s) /\ n = Len(t)
    OBVIOUS
<1>1. m \in Nat /\ n \in Nat
    OBVIOUS
<1>2. CASE m <= n
    <2> PICK u, v : u = SubSeq(s, 1, m) /\ v = SubSeq(t, 1, m)
        OBVIOUS
    <2>1. /\ u \in Seq(X) /\ Len(u) = m /\ \A i \in 1..m : u[i] = s[i]
        BY <1>1
    <2>2. /\ v \in Seq(X) /\ Len(v) = m /\ \A i \in 1..m : v[i] = t[i]
        BY <1>1, <1>2
    <2>3. u = v <=> \A i \in 1..m : u[i] = v[i]
        <3>1. u = [i \in 1..m |-> u[i]] /\ v = [i \in 1..m |-> v[i]]
            BY <2>1, <2>2
        <3> QED
            BY ONLY <3>1
    <2>4. IsPrefix(s, t) <=> u = v
        BY <1>2 DEF IsPrefix
    <2> QED
        BY ONLY <1>2, <2>1, <2>2, <2>3, <2>4, m = Len(s), n = Len(t)
<1>3. CASE ~(m <= n)
    BY <1>3 DEF IsPrefix
<1> QED
    BY <1>2, <1>3

\* All the rows there are.
LEMMA AllRowsAre ==
    ASSUME NEW chain \in Seq(Block), NEW field \in Fields
    PROVE  /\ AllRows(chain, field) \in Seq(Row)
           /\ \A r \in ToSet(AllRows(chain, field)) :
                /\ r \in Row /\ r[1] \in 0..(Len(chain) - 1)
                /\ r[2] \in ToSet(chain[r[1] + 1][field])
           /\ ToSet(AllRows(chain, field)) =
                {AllRows(chain, field)[i] : i \in 1..Len(AllRows(chain, field))}
<1> PICK n, all : n = Len(chain) /\ all = RowsBelow(chain, field, n)
    OBVIOUS
<1>1. n \in 0..Len(chain) /\ n \in Nat
    OBVIOUS
<1>2. AllRows(chain, field) = all
    BY DEF AllRows, RowsBelow
<1>3. all \in Seq(Row)
    BY <1>1, RowsAre
<1>4. \A i \in 1..Len(all) : /\ all[i][1] \in 0..(n - 1)
                             /\ all[i][2] \in ToSet(chain[all[i][1] + 1][field])
    BY <1>1, RowsAre
<1>5. ToSet(all) = {all[i] : i \in 1..Len(all)} /\ \A i \in 1..Len(all) : all[i] \in Row
    BY <1>3 DEF ToSet
<1> QED
    BY ONLY <1>2, <1>3, <1>4, <1>5, n = Len(chain)

\* The rows of what a chain goes on from are the chain's own up to there.
LEMMA RowsBelowPrefix ==
    ASSUME NEW t \in Seq(Block), NEW b \in Seq(Block), NEW field \in Fields, IsPrefix(t, b)
    PROVE  /\ \A k \in 0..Len(t) : RowsBelow(t, field, k) = RowsBelow(b, field, k)
           /\ ToSet(AllRows(t, field)) \subseteq ToSet(AllRows(b, field))
           /\ \A r \in ToSet(AllRows(b, field)) : r[1] < Len(t) => r \in ToSet(AllRows(t, field))
<1> PICK n, m, low, all : /\ n = Len(t) /\ m = Len(b)
                          /\ low = RowsBelow(b, field, n) /\ all = RowsBelow(b, field, m)
    OBVIOUS
<1>1. n \in Nat /\ m \in Nat /\ n <= m /\ \A k \in 1..n : t[k] = b[k]
    BY PrefixIs
<1>2. \A k \in 0..Len(t) : RowsBelow(t, field, k) = RowsBelow(b, field, k)
    BY <1>1, RowsOfPrefix DEF RowsBelow
<1>3. AllRows(t, field) = low /\ AllRows(b, field) = all
    <2>1. n \in 0..Len(t)
        BY <1>1
    <2> QED
        BY <1>2, <2>1 DEF AllRows, RowsBelow
<1>4. /\ Len(low) \in Nat /\ Len(all) \in Nat /\ Len(low) <= Len(all)
      /\ \A i \in 1..Len(low) : all[i] = low[i]
      /\ \A i \in (Len(low) + 1)..Len(all) : all[i][1] >= n
    <2>1. n \in 0..Len(b) /\ m \in n..Len(b)
        BY <1>1
    <2> QED
        BY ONLY <2>1, b \in Seq(Block), field \in Fields, low = RowsBelow(b, field, n),
                all = RowsBelow(b, field, m), RowsStay
<1>5. /\ ToSet(low) = {low[i] : i \in 1..Len(low)} /\ ToSet(all) = {all[i] : i \in 1..Len(all)}
    <2>1. /\ ToSet(AllRows(t, field)) = {AllRows(t, field)[i] : i \in 1..Len(AllRows(t, field))}
          /\ ToSet(AllRows(b, field)) = {AllRows(b, field)[i] : i \in 1..Len(AllRows(b, field))}
        BY AllRowsAre
    <2> QED
        BY ONLY <1>3, <2>1
<1>6. ToSet(low) \subseteq ToSet(all)
    <2>1. \A i \in 1..Len(low) : i \in 1..Len(all)
        BY ONLY <1>4
    <2> QED
        BY ONLY <1>4, <1>5, <2>1
<1>7. ASSUME NEW r \in ToSet(all), r[1] < n PROVE r \in ToSet(low)
    <2>1. PICK i \in 1..Len(all) : r = all[i]
        BY ONLY <1>5, <1>7
    <2>2. CASE i \in 1..Len(low)
        BY ONLY <1>4, <1>5, <2>1, <2>2
    <2>3. CASE i \notin 1..Len(low)
        <3>1. i \in (Len(low) + 1)..Len(all)
            BY ONLY <1>4, <2>1, <2>3
        <3>2. r[1] \in Nat
            <4>1. r \in ToSet(AllRows(b, field))
                BY <1>3
            <4>2. r[1] \in 0..(Len(b) - 1)
                BY <4>1, AllRowsAre
            <4> QED
                BY <4>2
        <3> QED
            BY ONLY <1>1, <1>4, <1>7, <2>1, <3>1, <3>2
    <2> QED
        BY <2>2, <2>3
<1> QED
    BY <1>2, <1>3, <1>6, <1>7

\* The rows have everything in the blocks of the chain after the first s.
Covered(rows, chain, field, s) ==
    \A k \in (s + 1)..Len(chain) : \A x \in ToSet(chain[k][field]) : \E r \in ToSet(rows) : r[2] = x

\* Rows of a chain that follow on from those of its first s blocks, and are as many as
\* there are, have everything in the blocks after.
LEMMA SpansAll ==
    ASSUME NEW t \in Seq(Block), NEW field \in Fields, NEW s \in 0..Len(t),
           NEW rows \in Seq(Row), ToSet(rows) \subseteq ToSet(AllRows(t, field)),
           Spans(rows, Len(RowsBelow(t, field, s)), Len(AllRows(t, field)))
    PROVE  Covered(rows, t, field, s)
<1> PICK n, low, all : n = Len(t) /\ low = RowsBelow(t, field, s) /\ all = RowsBelow(t, field, n)
    OBVIOUS
<1>1. n \in Nat /\ s \in 0..n /\ s \in Nat /\ s <= n /\ n \in s..Len(t) /\ n \in 0..Len(t)
    OBVIOUS
<1>2. AllRows(t, field) = all
    BY DEF AllRows, RowsBelow
<1>3. /\ all \in Seq(Row)
      /\ \A i \in 1..Len(all) : all[i][3] = i
    BY <1>1, RowsAre
<1>a. \A k \in 1..n : \A x \in ToSet(t[k][field]) :
            \E i \in 1..Len(all) : all[i][1] = k - 1 /\ all[i][2] = x
    <2>1. \A k \in 1..n : \A x \in ToSet(t[k][field]) :
             \E i \in 1..Len(RowsBelow(t, field, n)) :
                 RowsBelow(t, field, n)[i][1] = k - 1 /\ RowsBelow(t, field, n)[i][2] = x
        BY ONLY n \in 0..Len(t), t \in Seq(Block), field \in Fields, <1>1, RowsAre
    <2> QED
        BY ONLY <2>1, all = RowsBelow(t, field, n)
<1>4. /\ Len(low) \in Nat /\ Len(all) \in Nat /\ Len(low) <= Len(all)
      /\ \A i \in 1..Len(low) : all[i] = low[i]
    BY ONLY <1>1, t \in Seq(Block), field \in Fields, s \in 0..Len(t), low = RowsBelow(t, field, s),
            all = RowsBelow(t, field, n), RowsStay
<1>5. \A i \in 1..Len(low) : low[i][1] \in 0..(s - 1)
    BY RowsAre
<1>6. /\ Len(rows) = Len(all) - Len(low)
      /\ \A i \in 1..Len(rows) : rows[i][3] = Len(low) + i
    BY <1>2 DEF Spans
<1>b. ToSet(all) = {all[m] : m \in 1..Len(all)} /\ ToSet(rows) \subseteq ToSet(all)
    BY <1>2, AllRowsAre
<1> SUFFICES ASSUME NEW k \in (s + 1)..n, NEW x \in ToSet(t[k][field])
             PROVE  \E r \in ToSet(rows) : r[2] = x
    BY DEF Covered
<1>7. PICK i \in 1..Len(all) : all[i][1] = k - 1 /\ all[i][2] = x
    <2>1. k \in 1..n
        BY ONLY <1>1, k \in (s + 1)..n
    <2> QED
        BY <1>a, <2>1
<1>8. i \notin 1..Len(low)
    <2> SUFFICES ASSUME i \in 1..Len(low) PROVE FALSE
        OBVIOUS
    <2>1. k - 1 \in 0..(s - 1)
        BY ONLY <1>4, <1>5, <1>7, i \in 1..Len(low)
    <2> QED
        BY ONLY <1>1, <2>1, k \in (s + 1)..n
<1>9. PICK j \in 1..Len(rows) : i = Len(low) + j
    <2>1. i - Len(low) \in 1..Len(rows) /\ i = Len(low) + (i - Len(low))
        BY ONLY <1>4, <1>6, <1>7, <1>8
    <2> QED
        BY ONLY <2>1
<1>10. rows[j] \in ToSet(rows)
    BY DEF ToSet
<1>11. PICK m \in 1..Len(all) : rows[j] = all[m]
    BY ONLY <1>b, <1>10
<1>12. rows[j][3] = i /\ all[m][3] = m
    BY ONLY <1>3, <1>6, <1>9, <1>11
<1>13. rows[j] = all[i]
    BY ONLY <1>11, <1>12
<1> QED
    BY ONLY <1>7, <1>10, <1>13

-----------------------------------------------------------------------------
(* Wallet: the invariant.                                                   *)

Note == [value : 0..(NoteLimit - 1), part : Grids, to : Addresses \cup {Other}, asset : Currencies]

\* What is spent was made in one of the first h blocks.
Spends(gone, chain, h) == \A n \in ToSet(gone) : \E j \in 1..h : n \in ToSet(chain[j].made)

\* A chain makes notes of its own in every block, and spends what it has made.
ChainOK(chain, top) ==
    /\ chain \in Seq(Block)
    /\ \A k \in 1..Len(chain) :
         /\ chain[k].made # <<>> /\ ToSet(chain[k].made) \subseteq 1..top
         /\ Spends(chain[k].gone, chain, k - 1)

\* What is sent names notes there are, of the partition and the asset of its change.
PaymentOK(tx, ns) ==
    /\ tx.ins \in Seq(Nat) /\ ToSet(tx.ins) \subseteq 1..Len(ns)
    /\ tx.outs \in Seq(Note) /\ tx.outs # <<>> /\ Len(tx.ins) <= MaxInputs
    /\ \A n \in ToSet(tx.ins) : ns[n].part = Last(tx.outs).part /\ ns[n].asset = Last(tx.outs).asset

RowsOK(rows, top) == rows \in Seq(Row) /\ \A r \in ToSet(rows) : r[2] \in 1..top

PageFields == {"by", "since", "to", "limit", "at", "outs", "nfs", "rows", "spent", "height", "next"}

PageOK(p, top) ==
    /\ PageFields \subseteq DOMAIN p
    /\ p.to \in Nat /\ p.limit \in Nat /\ p.height \in Nat
    /\ p.next \in Nat \cup {-1} /\ p.next # 0
    /\ RowsOK(p.outs, top) /\ RowsOK(p.nfs, top) /\ RowsOK(p.rows, top) /\ RowsOK(p.spent, top)

\* The rows are rows of the chain.
RowsIn(rows, chain, field) == ToSet(rows) \subseteq ToSet(AllRows(chain, field))

\* What a scan has read so far is what the chain it trusts has.
PageTrusted(p, chain) ==
    /\ RowsIn(p.outs, chain, "made") /\ RowsIn(p.rows, chain, "made")
    /\ RowsIn(p.nfs, chain, "gone") /\ RowsIn(p.spent, chain, "gone")

\* Who holds this knows what the first h blocks of the chain paid them, and what of it
\* they saw spent.
Knows(chain, h, ns, held) ==
    \A k \in 1..h : \A n \in ToSet(chain[k].made) :
        ns[n].to \in Addresses =>
           /\ n \in DOMAIN held
           /\ \A j \in 1..h : n \in ToSet(chain[j].gone) => held[n] # Unspent

\* How many blocks a light client that reached this height has scanned.
ScannedBlocks(height) == IF height = 0 THEN 0 ELSE height + 1

WalletTypes ==
    /\ notes \in Seq(Note) /\ committed \in Nat
    /\ ChainOK(blocks, Len(notes)) /\ blocks # <<>>
    /\ {"held", "scanned", "sent"} \subseteq DOMAIN wallet /\ Held \subseteq 1..Len(notes)
    /\ \A tx \in wallet.sent : PaymentOK(tx, notes)
    /\ page # Idle => PageOK(page, Len(notes))

LightTypes ==
    /\ {"trusted", "scanned", "outs", "nfs"} \subseteq DOMAIN light
    /\ ChainOK(light.trusted, Len(notes)) /\ Len(light.trusted) # 1 /\ light.scanned \in Nat
    /\ ScannedBlocks(light.scanned) <= Len(light.trusted)
    /\ light.outs = Len(RowsBelow(light.trusted, "made", ScannedBlocks(light.scanned)))
    /\ light.nfs = Len(RowsBelow(light.trusted, "gone", ScannedBlocks(light.scanned)))

ScanInv ==
    /\ page # Idle /\ page.by = "scan" =>
         /\ page.to < Len(light.trusted)
         /\ IsPrefix(light.trusted, blocks) => PageTrusted(page, light.trusted)
    /\ IsPrefix(light.trusted, blocks) =>
         Knows(light.trusted, ScannedBlocks(light.scanned), notes, wallet.held)

WalletInv == WalletTypes /\ LightTypes /\ ScanInv

-----------------------------------------------------------------------------

\* There are no fewer notes later.
LEMMA ChainStays ==
    ASSUME NEW chain, NEW top \in Nat, NEW more \in Nat, top <= more, ChainOK(chain, top)
    PROVE  ChainOK(chain, more)
<1>1. 1..top \subseteq 1..more
    OBVIOUS
<1> QED
    BY <1>1 DEF ChainOK

LEMMA RowsStayOK ==
    ASSUME NEW rows, NEW top \in Nat, NEW more \in Nat, top <= more, RowsOK(rows, top)
    PROVE  RowsOK(rows, more)
<1>1. 1..top \subseteq 1..more
    OBVIOUS
<1> QED
    BY <1>1 DEF RowsOK

LEMMA PageStaysOK ==
    ASSUME NEW p, NEW top \in Nat, NEW more \in Nat, top <= more, PageOK(p, top)
    PROVE  PageOK(p, more)
BY RowsStayOK DEF PageOK

LEMMA PaymentStaysOK ==
    ASSUME NEW tx, NEW ns \in Seq(Note), NEW ms \in Seq(Note), PaymentOK(tx, ns),
           Len(ns) <= Len(ms), \A n \in 1..Len(ns) : ms[n] = ns[n]
    PROVE  PaymentOK(tx, ms)
<1>1. 1..Len(ns) \subseteq 1..Len(ms)
    OBVIOUS
<1>2. \A n \in ToSet(tx.ins) : n \in 1..Len(ns) /\ ms[n] = ns[n]
    BY DEF PaymentOK
<1> QED
    BY <1>1, <1>2 DEF PaymentOK

\* One block more than the chain.
Adds(more, chain, block) ==
    /\ more # <<>> /\ Len(more) = Len(chain) + 1
    /\ \A k \in 1..Len(chain) : more[k] = chain[k]
    /\ more[Len(chain) + 1] = block

LEMMA BlockAdded ==
    ASSUME NEW chain, NEW top \in Nat, ChainOK(chain, top), NEW made \in Seq(Nat), made # <<>>,
           ToSet(made) \subseteq 1..top, NEW gone \in Seq(Nat),
           Spends(gone, chain, Len(chain)),
           NEW block, block = [made |-> made, gone |-> gone]
    PROVE  ChainOK(Append(chain, block), top) /\ Adds(Append(chain, block), chain, block)
<1> PICK n, more : n = Len(chain) /\ more = Append(chain, block)
    OBVIOUS
<1>1. chain \in Seq(Block) /\ n \in Nat /\ block \in Block
    BY DEF ChainOK, Block
<1>2. /\ more \in Seq(Block) /\ Len(more) = n + 1 /\ more # <<>>
      /\ \A k \in 1..n : more[k] = chain[k]
      /\ more[n + 1] = block
    <2>1. more \in Seq(Block) /\ Len(more) = n + 1
        BY ONLY <1>1, n = Len(chain), more = Append(chain, block)
    <2>2. \A k \in 1..n : more[k] = chain[k]
        BY ONLY <1>1, n = Len(chain), more = Append(chain, block)
    <2>3. more[n + 1] = block
        BY ONLY <1>1, n = Len(chain), more = Append(chain, block)
    <2>4. more # <<>>
        BY ONLY <1>1, <2>1
    <2> QED
        BY ONLY <2>1, <2>2, <2>3, <2>4
<1>3. ASSUME NEW k \in 1..(n + 1)
      PROVE  /\ more[k].made # <<>> /\ ToSet(more[k].made) \subseteq 1..top
             /\ Spends(more[k].gone, more, k - 1)
    <2>1. CASE k \in 1..n
        <3>1. more[k] = chain[k] /\ \A j \in 1..(k - 1) : j \in 1..n /\ more[j] = chain[j]
            BY <1>1, <1>2, <2>1
        <3>2. /\ chain[k].made # <<>> /\ ToSet(chain[k].made) \subseteq 1..top
              /\ Spends(chain[k].gone, chain, k - 1)
            BY ONLY ChainOK(chain, top), n = Len(chain), <2>1 DEF ChainOK
        <3>3. Spends(more[k].gone, more, k - 1)
            BY ONLY <3>1, <3>2 DEF Spends
        <3> QED
            BY ONLY <3>1, <3>2, <3>3
    <2>2. CASE k \notin 1..n
        <3>1. k = n + 1 /\ k - 1 = n
            BY <1>1, <2>2
        <3>2. more[k].made = made /\ more[k].gone = gone
            BY <1>2, <3>1
        <3> QED
            BY <1>2, <3>1, <3>2 DEF Spends
    <2> QED
        BY <2>1, <2>2
<1>4. ChainOK(more, top)
    BY <1>2, <1>3 DEF ChainOK
<1> QED
    BY <1>2, <1>4 DEF Adds

\* A block less.
LEMMA BlockRemoved ==
    ASSUME NEW chain, NEW top \in Nat, ChainOK(chain, top), Len(chain) > 1
    PROVE  /\ ChainOK(Front(chain), top) /\ Front(chain) # <<>>
           /\ Len(Front(chain)) = Len(chain) - 1
           /\ \A k \in 1..(Len(chain) - 1) : Front(chain)[k] = chain[k]
<1> PICK n, less : n = Len(chain) /\ less = Front(chain)
    OBVIOUS
<1>1. chain \in Seq(Block) /\ n \in Nat /\ n > 1
    BY DEF ChainOK
<1>2. /\ less \in Seq(Block) /\ Len(less) = n - 1 /\ less # <<>>
      /\ \A k \in 1..(n - 1) : less[k] = chain[k]
    <2> PICK m : m = n - 1
        OBVIOUS
    <2>1. m \in Nat \ {0} /\ m <= n
        BY <1>1
    <2>2. less = SubSeq(chain, 1, m)
        BY DEF Front
    <2>3. /\ SubSeq(chain, 1, m) \in Seq(Block) /\ Len(SubSeq(chain, 1, m)) = m
          /\ \A k \in 1..m : SubSeq(chain, 1, m)[k] = chain[k]
        BY <1>1, <2>1
    <2>4. less # <<>>
        <3>1. Len(less) # 0 /\ Len(<<>>) = 0
            BY ONLY <2>1, <2>2, <2>3
        <3> QED
            BY <3>1
    <2> QED
        BY ONLY <2>2, <2>3, <2>4, m = n - 1
<1>3. ASSUME NEW k \in 1..(n - 1)
      PROVE  /\ less[k].made # <<>> /\ ToSet(less[k].made) \subseteq 1..top
             /\ Spends(less[k].gone, less, k - 1)
    <2>1. k \in 1..n /\ less[k] = chain[k] /\ \A j \in 1..(k - 1) : less[j] = chain[j]
        BY <1>1, <1>2
    <2> QED
        BY <2>1 DEF ChainOK, Spends
<1>4. ChainOK(less, top)
    BY <1>2, <1>3 DEF ChainOK
<1> QED
    BY <1>2, <1>4

\* A chain that is trusted cannot be caught up with by a new block: its notes are new.
LEMMA TrustedBefore ==
    ASSUME NEW t, NEW chain, NEW top \in Nat, NEW more, ChainOK(t, top), ChainOK(chain, top),
           more \in Seq(Block), Len(more) = Len(chain) + 1,
           \A k \in 1..Len(chain) : more[k] = chain[k],
           \E n \in ToSet(more[Len(chain) + 1].made) : n \notin 1..top,
           IsPrefix(t, more)
    PROVE  IsPrefix(t, chain)
<1>1. t \in Seq(Block) /\ chain \in Seq(Block)
    BY DEF ChainOK
<1>2. Len(t) <= Len(more) /\ \A i \in 1..Len(t) : t[i] = more[i]
    BY <1>1, PrefixIs
<1>3. Len(t) \in Nat /\ Len(chain) \in Nat
    BY <1>1
<1>4. Len(t) # Len(chain) + 1
    <2> SUFFICES ASSUME Len(t) = Len(chain) + 1 PROVE FALSE
        OBVIOUS
    <2>1. Len(t) \in 1..Len(t)
        BY <1>3
    <2>2. t[Len(t)] = more[Len(chain) + 1]
        BY <1>2, <2>1
    <2>3. ToSet(t[Len(t)].made) \subseteq 1..top
        BY <2>1 DEF ChainOK
    <2> QED
        BY <2>2, <2>3
<1>5. Len(t) <= Len(chain)
    BY <1>2, <1>3, <1>4
<1>6. \A i \in 1..Len(t) : t[i] = chain[i]
    <2>1. \A i \in 1..Len(t) : i \in 1..Len(chain)
        BY <1>3, <1>5
    <2> QED
        BY <1>2, <2>1
<1> QED
    BY <1>1, <1>5, <1>6, PrefixIs

\* Nor by taking one back.
LEMMA TrustedStill ==
    ASSUME NEW t \in Seq(Block), NEW chain \in Seq(Block), NEW less \in Seq(Block),
           Len(less) = Len(chain) - 1, \A k \in 1..(Len(chain) - 1) : less[k] = chain[k],
           IsPrefix(t, less)
    PROVE  IsPrefix(t, chain)
<1>1. Len(t) <= Len(less) /\ \A i \in 1..Len(t) : t[i] = less[i]
    BY PrefixIs
<1>2. Len(t) \in Nat /\ Len(chain) \in Nat
    OBVIOUS
<1>3. Len(t) <= Len(chain) /\ \A i \in 1..Len(t) : i \in 1..(Len(chain) - 1)
    BY <1>1, <1>2
<1>4. \A i \in 1..Len(t) : t[i] = chain[i]
    BY <1>1, <1>3
<1> QED
    BY <1>3, <1>4, PrefixIs

\* What is known stays known as long as nothing is forgotten.
LEMMA KnownStays ==
    ASSUME NEW chain, NEW ns \in Seq(Note), NEW ms, NEW h \in Nat, NEW held, NEW after,
           ChainOK(chain, Len(ns)), h <= Len(chain),
           \A n \in 1..Len(ns) : ms[n] = ns[n],
           DOMAIN held \subseteq DOMAIN after,
           \A n \in DOMAIN held : held[n] # Unspent => after[n] # Unspent,
           Knows(chain, h, ns, held)
    PROVE  Knows(chain, h, ms, after)
<1> SUFFICES ASSUME NEW k \in 1..h, NEW n \in ToSet(chain[k].made), ms[n].to \in Addresses
             PROVE  /\ n \in DOMAIN after
                    /\ \A j \in 1..h : n \in ToSet(chain[j].gone) => after[n] # Unspent
    BY DEF Knows
<1>1. k \in 1..Len(chain)
    <2>1. Len(chain) \in Nat
        BY DEF ChainOK
    <2> QED
        BY <2>1
<1>2. n \in 1..Len(ns)
    BY <1>1 DEF ChainOK
<1>3. ns[n].to \in Addresses
    BY <1>2
<1>4. /\ n \in DOMAIN held
      /\ \A j \in 1..h : n \in ToSet(chain[j].gone) => held[n] # Unspent
    BY <1>3 DEF Knows
<1> QED
    BY <1>4

-----------------------------------------------------------------------------
(* Wallet: what a page and a scan are.                                      *)

\* Some of the rows.
LEMMA ChosenRows ==
    ASSUME NEW rows \in Seq(Row), NEW where \in SUBSET (1..Len(rows))
    PROVE  /\ Selected(rows, where) \in Seq(Row)
           /\ \A r \in ToSet(Selected(rows, where)) : \E i \in where : r = rows[i]
<1> PICK s, n : s = Selected(rows, where) /\ n = Cardinality(where)
    OBVIOUS
<1>1. /\ n \in 0..Len(rows) /\ s \in Seq(Row) /\ Len(s) = n
      /\ \A k \in 1..n : Nth(where, k) \in where /\ s[k] = rows[Nth(where, k)]
    BY SelectedFacts
<1>2. \A r \in ToSet(s) : \E k \in 1..n : r = s[k]
    BY <1>1 DEF ToSet
<1> QED
    BY <1>1, <1>2

LEMMA AmongRows ==
    ASSUME NEW rows \in Seq(Row), NEW from, NEW to
    PROVE  /\ Among(rows, from, to) \in Seq(Row)
           /\ \A r \in ToSet(Among(rows, from, to)) : r \in ToSet(rows) /\ r[1] <= to
<1> PICK where : where = {i \in DOMAIN rows : from <= rows[i][1] /\ rows[i][1] <= to}
    OBVIOUS
<1>1. where \in SUBSET (1..Len(rows)) /\ Among(rows, from, to) = Selected(rows, where)
    BY DEF Among
<1>2. \A i \in where : rows[i] \in ToSet(rows) /\ rows[i][1] <= to
    BY DEF ToSet
<1> QED
    BY <1>1, <1>2, ChosenRows

LEMMA WholeRows ==
    ASSUME NEW rows \in Seq(Row), NEW cut
    PROVE  Whole(rows, cut) \in Seq(Row) /\ ToSet(Whole(rows, cut)) \subseteq ToSet(rows)
<1> PICK where : where = {i \in DOMAIN rows : rows[i][1] <= cut}
    OBVIOUS
<1>1. where \in SUBSET (1..Len(rows)) /\ Whole(rows, cut) = Selected(rows, where)
    BY DEF Whole
<1>2. \A i \in where : rows[i] \in ToSet(rows)
    BY DEF ToSet
<1> QED
    BY <1>1, <1>2, ChosenRows

\* What ToSet is of a sequence.
LEMMA MembersAre ==
    ASSUME NEW X, NEW s \in Seq(X)
    PROVE  /\ ToSet(s) = {s[i] : i \in 1..Len(s)} /\ \A x \in ToSet(s) : x \in X
           /\ (ToSet(s) = {} => Len(s) = 0)
<1>1. DOMAIN s = 1..Len(s) /\ Len(s) \in Nat /\ \A i \in 1..Len(s) : s[i] \in X
    OBVIOUS
<1>2. ToSet(s) = {s[i] : i \in 1..Len(s)}
    BY <1>1 DEF ToSet
<1>3. ASSUME ToSet(s) = {} PROVE Len(s) = 0
    <2> SUFFICES ASSUME Len(s) # 0 PROVE FALSE
        OBVIOUS
    <2>1. 1 \in 1..Len(s)
        BY <1>1
    <2> QED
        BY <1>2, <1>3, <2>1
<1> QED
    BY <1>1, <1>2, <1>3

\* A page cut on a height has rows of what was read, and goes on above it if at all.
LEMMA CutKeeps ==
    ASSUME NEW outs \in Seq(Row), NEW nfs \in Seq(Row), NEW limit \in Nat,
           NEW b \in Nat, \A r \in ToSet(outs) \cup ToSet(nfs) : r[1] <= b,
           NEW cut, cut = CutOnHeight(outs, nfs, limit)
    PROVE  /\ cut.outs \in Seq(Row) /\ ToSet(cut.outs) \subseteq ToSet(outs)
           /\ cut.nfs \in Seq(Row) /\ ToSet(cut.nfs) \subseteq ToSet(nfs)
           /\ cut.next \in Nat \cup {-1} /\ cut.next # 0
<1>1. CASE Len(outs) <= limit /\ Len(nfs) <= limit
    <2>1. cut = [outs |-> outs, nfs |-> nfs, next |-> -1]
        BY <1>1 DEF CutOnHeight
    <2> QED
        BY <2>1
<1>2. CASE ~(Len(outs) <= limit /\ Len(nfs) <= limit)
    <2> DEFINE heights == {r[1] : r \in ToSet(outs \o nfs)}
               first == CHOOSE h \in heights : \A g \in heights : h <= g
               fits(h) == Len(Whole(outs, h)) <= limit /\ Len(Whole(nfs, h)) <= limit
               taken == {h \in heights : \A g \in heights : g <= h => fits(g) \/ g = first}
               at == CHOOSE h \in taken : \A g \in taken : g <= h
    <2>1. cut = [outs |-> Whole(outs, at), nfs |-> Whole(nfs, at), next |-> at + 1]
        BY <1>2 DEF CutOnHeight
    <2> PICK all : all = outs \o nfs
        OBVIOUS
    <2>2. all \in Seq(Row) /\ Len(all) = Len(outs) + Len(nfs)
        BY JoinFacts
    <2>3. \A r \in ToSet(all) : r[1] \in Nat
        <3>1. \A r \in ToSet(all) : r \in Row
            BY <2>2, MembersAre
        <3> QED
            BY <3>1 DEF Row
    <2>4. heights \in SUBSET Nat /\ heights # {}
        <3>1. ToSet(all) # {}
            <4>1. Len(all) # 0
                BY <1>2, <2>2
            <4> QED
                BY <2>2, <4>1, MembersAre
        <3> QED
            BY <2>3, <3>1
    <2>5. \A h \in heights : h <= b
        <3>1. ToSet(all) = ToSet(outs) \cup ToSet(nfs)
            BY JoinFacts
        <3> QED
            BY <3>1
    <2>6. first \in heights /\ \A g \in heights : first <= g
        <3> HIDE DEF heights
        <3>1. \E h \in heights : \A g \in heights : h <= g
            BY <2>4, LeastOfSome
        <3> QED
            BY <3>1
    <2>7. first \in taken
        <3> HIDE DEF heights, first
        <3>1. \A g \in heights : g <= first => g = first
            <4>1. \A g \in heights : g \in Nat /\ first \in Nat /\ first <= g
                BY <2>4, <2>6
            <4> QED
                BY ONLY <4>1
        <3> QED
            BY <2>6, <3>1
    <2>8. at \in taken
        <3>1. taken \in SUBSET Nat /\ taken # {} /\ \A h \in taken : h <= b
            BY <2>4, <2>5, <2>7
        <3> HIDE DEF taken
        <3>2. \E h \in taken : \A g \in taken : h >= g
            BY <3>1, LargestBelow
        <3>3. \E h \in taken : \A g \in taken : g <= h
            BY <3>1, <3>2
        <3> QED
            BY <3>3
    <2>9. at \in Nat
        BY <2>4, <2>8
    <2> HIDE DEF at
    <2>10. /\ Whole(outs, at) \in Seq(Row) /\ ToSet(Whole(outs, at)) \subseteq ToSet(outs)
           /\ Whole(nfs, at) \in Seq(Row) /\ ToSet(Whole(nfs, at)) \subseteq ToSet(nfs)
        BY WholeRows
    <2>11. at + 1 \in Nat /\ at + 1 # 0
        BY <2>9
    <2> QED
        BY <2>1, <2>10, <2>11
<1> QED
    BY <1>1, <1>2

\* What a wallet has taken in: what was paid to it is held, and what is gone is not unspent.
LEMMA TakenIn ==
    ASSUME NEW w, {"held", "scanned", "sent"} \subseteq DOMAIN w, NEW rows, NEW gone,
           NEW height, height # Unspent, NEW high,
           NEW after, after = [ReconcileRows(ScanRows(w, rows), gone, height) EXCEPT !.scanned = high]
    PROVE  /\ {"held", "scanned", "sent"} \subseteq DOMAIN after /\ after.sent = w.sent
           /\ DOMAIN after.held = DOMAIN w.held
                 \cup {r[2] : r \in {s \in ToSet(rows) : notes[s[2]].to \in Addresses}}
           /\ \A n \in DOMAIN w.held : w.held[n] # Unspent => after.held[n] # Unspent
           /\ \A n \in DOMAIN after.held :
                 n \in {r[2] : r \in ToSet(gone)} => after.held[n] # Unspent
<1> DEFINE paid == {r[2] : r \in {s \in ToSet(rows) : notes[s[2]].to \in Addresses}}
           found == paid \ DOMAIN w.held
           lost == {r[2] : r \in ToSet(gone)}
<1> PICK v, u : v = ScanRows(w, rows) /\ u = ReconcileRows(v, gone, height)
    OBVIOUS
<1>1. /\ DOMAIN v = DOMAIN w /\ v.sent = w.sent
      /\ v.held = [n \in DOMAIN w.held \cup found |-> IF n \in found THEN Unspent ELSE w.held[n]]
    <2> HIDE DEF found
    <2>1. \E top : v = [w EXCEPT !.held = [n \in DOMAIN @ \cup found |-> IF n \in found THEN Unspent ELSE @[n]],
                                 !.scanned = top]
        BY DEF ScanRows, found
    <2> QED
        BY <2>1
<1>2. /\ DOMAIN u = DOMAIN v /\ u.sent = v.sent
      /\ u.held = [n \in DOMAIN v.held |->
                      IF n \in lost /\ v.held[n] = Unspent THEN height ELSE v.held[n]]
    <2> HIDE DEF lost
    <2>1. u = [v EXCEPT !.held = [n \in DOMAIN @ |->
                                    IF (n \in lost /\ @[n] = Unspent) THEN height ELSE @[n]]]
        BY DEF ReconcileRows, lost
    <2> QED
        BY <1>1, <2>1
<1>3. DOMAIN after = DOMAIN w /\ after.sent = w.sent /\ after.held = u.held
    BY <1>1, <1>2
<1> HIDE DEF paid, lost
<1>4. DOMAIN after.held = DOMAIN w.held \cup paid
    BY <1>1, <1>2, <1>3
<1>5. \A n \in DOMAIN w.held : v.held[n] = w.held[n]
    BY <1>1
<1>6. \A n \in DOMAIN after.held :
         after.held[n] = IF n \in lost /\ v.held[n] = Unspent THEN height ELSE v.held[n]
    BY <1>2, <1>3
<1>7. \A n \in DOMAIN w.held : w.held[n] # Unspent => after.held[n] # Unspent
    BY <1>4, <1>5, <1>6
<1>8. \A n \in DOMAIN after.held : n \in lost => after.held[n] # Unspent
    BY <1>6
<1> QED
    BY <1>3, <1>4, <1>7, <1>8 DEF paid, lost

\* Pages that hold every row between what was known and the tip leave nothing unknown.
LEMMA ScanCompletes ==
    ASSUME NEW t, NEW top \in Nat, ChainOK(t, top), NEW s \in 0..Len(t), NEW ns, NEW held, NEW after,
           Knows(t, s, ns, held), NEW outs \in Seq(Row), NEW nfs \in Seq(Row),
           RowsIn(outs, t, "made"), RowsIn(nfs, t, "gone"),
           Spans(outs, Len(RowsBelow(t, "made", s)), Len(AllRows(t, "made"))),
           Spans(nfs, Len(RowsBelow(t, "gone", s)), Len(AllRows(t, "gone"))),
           DOMAIN after = DOMAIN held \cup {r[2] : r \in {q \in ToSet(outs) : ns[q[2]].to \in Addresses}},
           \A n \in DOMAIN held : held[n] # Unspent => after[n] # Unspent,
           \A n \in DOMAIN after : n \in {r[2] : r \in ToSet(nfs)} => after[n] # Unspent
    PROVE  Knows(t, Len(t), ns, after)
<1> PICK m : m = Len(t)
    OBVIOUS
<1>1. t \in Seq(Block) /\ m \in Nat /\ s \in 0..m /\ s \in Nat
    BY DEF ChainOK
<1>2. \A k \in (s + 1)..m : \A x \in ToSet(t[k].made) : \E r \in ToSet(outs) : r[2] = x
    <2> PICK field : field = "made"
        OBVIOUS
    <2>1. field \in Fields
        BY DEF Fields
    <2>2. /\ ToSet(outs) \subseteq ToSet(AllRows(t, field))
          /\ Spans(outs, Len(RowsBelow(t, field, s)), Len(AllRows(t, field)))
        BY DEF RowsIn
    <2>3. Covered(outs, t, field, s)
        <3>1. t \in Seq(Block)
            BY <1>1
        <3> QED
            BY ONLY s \in 0..Len(t), outs \in Seq(Row), <2>1, <2>2, <3>1, SpansAll
    <2> QED
        BY ONLY <2>3, field = "made", m = Len(t) DEF Covered
<1>3. \A k \in (s + 1)..m : \A x \in ToSet(t[k].gone) : \E r \in ToSet(nfs) : r[2] = x
    <2> PICK field : field = "gone"
        OBVIOUS
    <2>1. field \in Fields
        BY DEF Fields
    <2>2. /\ ToSet(nfs) \subseteq ToSet(AllRows(t, field))
          /\ Spans(nfs, Len(RowsBelow(t, field, s)), Len(AllRows(t, field)))
        BY DEF RowsIn
    <2>3. Covered(nfs, t, field, s)
        <3>1. t \in Seq(Block)
            BY <1>1
        <3> QED
            BY ONLY s \in 0..Len(t), nfs \in Seq(Row), <2>1, <2>2, <3>1, SpansAll
    <2> QED
        BY ONLY <2>3, field = "gone", m = Len(t) DEF Covered
<1>4. \A k \in 1..m : k \in 1..s \/ k \in (s + 1)..m
    BY ONLY <1>1
<1> SUFFICES ASSUME NEW k \in 1..m, NEW n \in ToSet(t[k].made), ns[n].to \in Addresses
             PROVE  /\ n \in DOMAIN after
                    /\ \A j \in 1..m : n \in ToSet(t[j].gone) => after[n] # Unspent
    BY DEF Knows
<1>5. n \in DOMAIN after
    <2>1. CASE k \in 1..s
        BY <2>1 DEF Knows
    <2>2. CASE k \in (s + 1)..m
        <3>1. PICK r \in ToSet(outs) : r[2] = n
            BY <1>2, <2>2
        <3> QED
            BY <3>1
    <2> QED
        BY <1>4, <2>1, <2>2
<1>6. ASSUME NEW j \in 1..m, n \in ToSet(t[j].gone) PROVE after[n] # Unspent
    <2>1. CASE j \in (s + 1)..m
        <3>1. PICK r \in ToSet(nfs) : r[2] = n
            BY <1>3, <1>6, <2>1
        <3> QED
            BY <1>5, <3>1
    <2>2. CASE j \in 1..s
        <3>1. PICK i \in 1..(j - 1) : n \in ToSet(t[i].made)
            BY <1>6 DEF ChainOK, Spends
        <3>2. i \in 1..s
            BY <1>1, <2>2, <3>1
        <3>3. n \in DOMAIN held /\ held[n] # Unspent
            BY <1>6, <2>2, <3>1, <3>2 DEF Knows
        <3> QED
            BY <3>3
    <2> QED
        BY <1>4, <2>1, <2>2
<1> QED
    BY <1>5, <1>6

-----------------------------------------------------------------------------
(* Wallet: the steps.                                                       *)

\* What a page may become without anything else having changed.
PageFits(p) ==
    p # Idle =>
       /\ PageOK(p, Len(notes))
       /\ p.by = "scan" =>
            /\ p.to < Len(light.trusted)
            /\ IsPrefix(light.trusted, blocks) => PageTrusted(p, light.trusted)

LEMMA PageFitsNow == WalletInv => PageFits(page)
BY DEF WalletInv, WalletTypes, ScanInv, PageFits

\* What a wallet may become: it forgets no note and no spend.
WalletFits(w) ==
    /\ {"held", "scanned", "sent"} \subseteq DOMAIN w /\ DOMAIN w.held \subseteq 1..Len(notes)
    /\ Held \subseteq DOMAIN w.held
    /\ \A n \in Held : wallet.held[n] # Unspent => w.held[n] # Unspent
    /\ \A tx \in w.sent : PaymentOK(tx, notes)

LEMMA WalletFitsNow == ASSUME WalletInv, wallet' = wallet PROVE WalletFits(wallet')
<1>1. /\ {"held", "scanned", "sent"} \subseteq DOMAIN wallet /\ Held \subseteq 1..Len(notes)
      /\ \A tx \in wallet.sent : PaymentOK(tx, notes)
    BY DEF WalletInv, WalletTypes
<1>2. WalletFits(wallet)
    BY <1>1 DEF WalletFits, Held
<1> QED
    BY <1>2 DEF WalletFits

\* A step of the wallet or of a page, in which no block comes or goes.
LEMMA HoldingStep ==
    ASSUME WalletInv, UNCHANGED <<notes, blocks, light>>, committed' \in Nat, PageFits(page'),
           WalletFits(wallet')
    PROVE  WalletInv'
<1> USE DEF WalletInv
<1>0. /\ {"held", "scanned", "sent"} \subseteq DOMAIN wallet' /\ DOMAIN wallet'.held \subseteq 1..Len(notes)
      /\ Held \subseteq DOMAIN wallet'.held
      /\ \A n \in Held : wallet.held[n] # Unspent => wallet'.held[n] # Unspent
      /\ \A tx \in wallet'.sent : PaymentOK(tx, notes)
    BY DEF WalletFits
<1>1. WalletTypes'
    BY <1>0 DEF WalletTypes, PageFits, Held, Idle
<1>2. LightTypes'
    BY DEF LightTypes
<1>3. ScanInv'
    <2>1. ASSUME page' # Idle, page'.by = "scan"
          PROVE  /\ page'.to < Len(light.trusted)
                 /\ IsPrefix(light.trusted, blocks) => PageTrusted(page', light.trusted)
        BY <2>1 DEF PageFits
    <2>2. ASSUME IsPrefix(light.trusted, blocks)
          PROVE  Knows(light.trusted, ScannedBlocks(light.scanned), notes, wallet'.held)
        <3>1. Knows(light.trusted, ScannedBlocks(light.scanned), notes, wallet.held)
            BY <2>2 DEF ScanInv
        <3>2. ScannedBlocks(light.scanned) \in Nat /\ ScannedBlocks(light.scanned) <= Len(light.trusted)
            BY DEF LightTypes, ScannedBlocks
        <3>3. ChainOK(light.trusted, Len(notes)) /\ notes \in Seq(Note)
            BY DEF LightTypes, WalletTypes
        <3> QED
            BY <1>0, <3>1, <3>2, <3>3, KnownStays DEF Held
    <2> QED
        BY <2>1, <2>2 DEF ScanInv, Idle
<1> QED
    BY <1>1, <1>2, <1>3

LEMMA WalletInitOK ==
    ASSUME WalletInit
    PROVE  WalletInv
<1> PICK first \in {n \in Incoming : n.to = 0} : notes = <<first>>
    BY DEF WalletInit
<1>1. notes \in Seq(Note) /\ Len(notes) = 1
    BY WalletAssumption DEF Note
<1>2. /\ blocks = <<[made |-> <<1>>, gone |-> <<>>]>> /\ committed = 0 /\ page = Idle
      /\ wallet = [held |-> <<>>, scanned |-> 0, sent |-> {}]
      /\ light = [trusted |-> <<>>, scanned |-> 0, outs |-> 0, nfs |-> 0]
    BY DEF WalletInit
<1>3. ChainOK(blocks, Len(notes)) /\ blocks # <<>>
    <2>1. blocks \in Seq(Block) /\ Len(blocks) = 1
        BY <1>2 DEF Block
    <2>2. blocks[1].made = <<1>> /\ blocks[1].gone = <<>>
        BY <1>2
    <2>3. ToSet(<<1>>) = {1} /\ ToSet(<<>>) = {} /\ <<1>> # <<>>
        BY DEF ToSet
    <2>4. \A k \in 1..Len(blocks) : k = 1
        BY <2>1
    <2> QED
        <3>1. blocks[1].made # <<>> /\ ToSet(blocks[1].made) \subseteq 1..Len(notes)
            BY ONLY <1>1, <2>2, <2>3
        <3>2. \A n \in ToSet(blocks[1].gone) : FALSE
            BY ONLY <2>2, <2>3
        <3>3. blocks # <<>>
            BY <1>2
        <3> QED
            BY ONLY <2>1, <2>4, <3>1, <3>2, <3>3 DEF ChainOK, Spends
<1>4. ChainOK(<<>>, Len(notes)) /\ Len(<<>>) # 1
    <2>1. <<>> \in Seq(Block) /\ 1..Len(<<>>) = {}
        OBVIOUS
    <2> QED
        BY <2>1 DEF ChainOK
<1>5. WalletTypes
    BY <1>1, <1>2, <1>3 DEF WalletTypes, Held
<1>6. RowsBelow(<<>>, "made", 0) = <<>> /\ RowsBelow(<<>>, "gone", 0) = <<>>
    <2>1. <<>> \in Seq(Block) /\ "made" \in Fields /\ "gone" \in Fields
        BY DEF Fields
    <2> QED
        BY <2>1, RowsGrow DEF RowsBelow
<1>7. LightTypes
    BY <1>2, <1>4, <1>6 DEF LightTypes, ScannedBlocks
<1>8. ScanInv
    <2>1. Knows(<<>>, 0, notes, wallet.held)
        BY DEF Knows
    <2> QED
        BY <1>2, <2>1 DEF ScanInv, ScannedBlocks
<1> QED
    BY <1>5, <1>7, <1>8 DEF WalletInv

\* What the new notes of a block are numbered.
LEMMA CreatedAre ==
    ASSUME notes \in Seq(Note), NEW made \in Seq(Note), made # <<>>
    PROVE  /\ Created(made) \in Seq(Nat) /\ Created(made) # <<>>
           /\ ToSet(Created(made)) \subseteq 1..(Len(notes) + Len(made))
           /\ \E n \in ToSet(Created(made)) : n \notin 1..Len(notes)
<1> PICK m, n, c : m = Len(notes) /\ n = Len(made) /\ c = Created(made)
    OBVIOUS
<1>1. m \in Nat /\ n \in Nat /\ n # 0
    OBVIOUS
<1>2. c = [i \in 1..n |-> m + i]
    BY DEF Created
<1>3. c \in Seq(Nat) /\ Len(c) = n
    BY <1>1, <1>2
<1>4. c # <<>>
    <2>1. Len(<<>>) = 0
        OBVIOUS
    <2> QED
        BY <1>1, <1>3, <2>1
<1>5. ToSet(c) = {m + i : i \in 1..n}
    <2>1. ToSet(c) = {c[i] : i \in 1..Len(c)}
        BY <1>3, MembersAre
    <2> QED
        BY <1>2, <1>3, <2>1
<1>6. ToSet(c) \subseteq 1..(m + n)
    BY <1>1, <1>5
<1>7. m + 1 \in ToSet(c) /\ m + 1 \notin 1..m
    <2>1. 1 \in 1..n /\ m + 1 \notin 1..m
        BY <1>1
    <2> QED
        BY <1>5, <2>1
<1> QED
    BY <1>3, <1>4, <1>6, <1>7

LEMMA ApplyOK ==
    ASSUME WalletInv, NEW gone \in Seq(Nat), NEW made \in Seq(Note), made # <<>>,
           ToSet(gone) \subseteq OnChain("made"), Apply(gone, made),
           {"held", "scanned", "sent"} \subseteq DOMAIN wallet', wallet'.held = wallet.held,
           wallet'.sent \subseteq wallet.sent
    PROVE  WalletInv'
<1> USE DEF WalletInv
<1> PICK m, more, block : /\ m = Len(notes) /\ more = Len(notes')
                          /\ block = [made |-> Created(made), gone |-> gone]
    OBVIOUS
<1>1. /\ notes \in Seq(Note) /\ m \in Nat /\ ChainOK(blocks, m) /\ ChainOK(light.trusted, m)
      /\ blocks \in Seq(Block) /\ light.trusted \in Seq(Block)
    <2>1. notes \in Seq(Note) /\ ChainOK(blocks, Len(notes)) /\ ChainOK(light.trusted, Len(notes))
        BY DEF WalletTypes, LightTypes
    <2>2. blocks \in Seq(Block) /\ light.trusted \in Seq(Block)
        BY ONLY <2>1 DEF ChainOK
    <2> QED
        BY <2>1, <2>2
<1>2. /\ notes' = notes \o made /\ blocks' = Append(blocks, block)
      /\ UNCHANGED <<committed, light, page>>
    BY DEF Apply
<1>3. /\ notes' \in Seq(Note) /\ more = m + Len(made) /\ more \in Nat /\ m <= more
      /\ \A n \in 1..m : notes'[n] = notes[n]
    <2>1. /\ notes \o made \in Seq(Note) /\ Len(notes \o made) = Len(notes) + Len(made)
          /\ Len(made) \in Nat /\ \A n \in 1..Len(notes) : (notes \o made)[n] = notes[n]
        BY ONLY <1>1, made \in Seq(Note), JoinFacts
    <2> QED
        BY <1>1, <1>2, <2>1
<1>4. /\ Created(made) \in Seq(Nat) /\ Created(made) # <<>> /\ ToSet(Created(made)) \subseteq 1..more
      /\ \E n \in ToSet(Created(made)) : n \notin 1..m
    BY <1>1, <1>3, CreatedAre
<1>5. /\ ChainOK(blocks', more) /\ blocks' # <<>> /\ Len(blocks') = Len(blocks) + 1
      /\ \A k \in 1..Len(blocks) : blocks'[k] = blocks[k]
      /\ blocks'[Len(blocks) + 1] = block
    <2>1. ChainOK(blocks, more)
        BY <1>1, <1>3, ChainStays
    <2>2. Spends(gone, blocks, Len(blocks))
        <3>1. DOMAIN blocks = 1..Len(blocks)
            BY <1>1
        <3> QED
            BY <3>1 DEF OnChain, Spends
    <2> QED
        <3>1. /\ ChainOK(Append(blocks, block), more) /\ Append(blocks, block) # <<>>
              /\ Len(Append(blocks, block)) = Len(blocks) + 1
              /\ \A k \in 1..Len(blocks) : Append(blocks, block)[k] = blocks[k]
              /\ Append(blocks, block)[Len(blocks) + 1] = block
            <4> PICK c : c = Created(made)
                OBVIOUS
            <4>1. c \in Seq(Nat) /\ c # <<>> /\ ToSet(c) \subseteq 1..more /\ more \in Nat
                BY ONLY <1>3, <1>4, c = Created(made)
            <4>2. block = [made |-> c, gone |-> gone]
                OBVIOUS
            <4>3. ChainOK(Append(blocks, block), more) /\ Adds(Append(blocks, block), blocks, block)
                BY ONLY <2>1, <2>2, <4>1, <4>2, gone \in Seq(Nat), BlockAdded
            <4> QED
                BY ONLY <4>3 DEF Adds
        <3> QED
            BY ONLY <1>2, <3>1
<1>6. IsPrefix(light.trusted, blocks') => IsPrefix(light.trusted, blocks)
    <2>1. blocks' \in Seq(Block)
        BY <1>5 DEF ChainOK
    <2>2. \E n \in ToSet(blocks'[Len(blocks) + 1].made) : n \notin 1..m
        BY <1>4, <1>5
    <2> QED
        BY <1>1, <1>5, <2>1, <2>2, TrustedBefore
<1>7. WalletTypes'
    <2>1. \A tx \in wallet.sent : PaymentOK(tx, notes')
        <3>1. Len(notes) <= Len(notes') /\ \A n \in 1..Len(notes) : notes'[n] = notes[n]
            BY <1>3
        <3>2. \A tx \in wallet.sent : PaymentOK(tx, notes)
            BY DEF WalletTypes
        <3> QED
            BY <1>1, <1>3, <3>1, <3>2, PaymentStaysOK
    <2>2. page # Idle => PageOK(page, more)
        BY <1>1, <1>3, PageStaysOK DEF WalletTypes
    <2>3. Held \subseteq 1..more /\ committed \in Nat
        BY <1>1, <1>3 DEF WalletTypes
    <2> QED
        BY <1>2, <1>3, <1>5, <2>1, <2>2, <2>3 DEF WalletTypes, Held, Idle
<1>8. LightTypes'
    <2>1. ChainOK(light.trusted, more)
        BY <1>1, <1>3, ChainStays
    <2> QED
        BY <1>2, <2>1 DEF LightTypes
<1>9. ScanInv'
    <2>1. page # Idle /\ page.by = "scan" =>
             /\ page.to < Len(light.trusted)
             /\ IsPrefix(light.trusted, blocks') => PageTrusted(page, light.trusted)
        BY <1>6 DEF ScanInv
    <2>2. ASSUME IsPrefix(light.trusted, blocks')
          PROVE  Knows(light.trusted, ScannedBlocks(light.scanned), notes', wallet.held)
        <3>1. Knows(light.trusted, ScannedBlocks(light.scanned), notes, wallet.held)
            BY <1>6, <2>2 DEF ScanInv
        <3>2. ScannedBlocks(light.scanned) \in Nat /\ ScannedBlocks(light.scanned) <= Len(light.trusted)
            BY DEF LightTypes, ScannedBlocks
        <3> QED
            BY <1>1, <1>3, <3>1, <3>2, KnownStays
    <2> QED
        BY <1>2, <2>1, <2>2 DEF ScanInv, Idle
<1> QED
    BY <1>7, <1>8, <1>9

LEMMA UndoOK == ASSUME WalletInv, Undo PROVE WalletInv'
<1> USE DEF WalletInv
<1>1. /\ ChainOK(blocks, Len(notes)) /\ notes \in Seq(Note) /\ blocks \in Seq(Block)
      /\ light.trusted \in Seq(Block)
    BY DEF WalletTypes, LightTypes, ChainOK
<1>2. /\ blocks' = Front(blocks) /\ Len(blocks) > 1 /\ committed' \in Nat
      /\ UNCHANGED <<notes, wallet, light, page>>
    <2>1. Len(blocks) \in Nat
        BY <1>1
    <2> QED
        BY <2>1 DEF Undo, World
<1>3. /\ ChainOK(blocks', Len(notes)) /\ blocks' # <<>> /\ Len(blocks') = Len(blocks) - 1
      /\ \A k \in 1..(Len(blocks) - 1) : blocks'[k] = blocks[k]
    <2>1. Len(notes) \in Nat
        BY <1>1
    <2> QED
        BY <1>1, <1>2, <2>1, BlockRemoved
<1>4. IsPrefix(light.trusted, blocks') => IsPrefix(light.trusted, blocks)
    <2>1. blocks' \in Seq(Block)
        BY <1>3 DEF ChainOK
    <2> QED
        BY <1>1, <1>3, <2>1, TrustedStill
<1>5. WalletTypes'
    BY <1>2, <1>3 DEF WalletTypes, Held, Idle
<1>6. LightTypes'
    BY <1>2 DEF LightTypes
<1>7. ScanInv'
    BY <1>2, <1>4 DEF ScanInv, Idle
<1> QED
    BY <1>5, <1>6, <1>7

\* Some height is above those of the rows.
LEMMA RowsAreBounded ==
    ASSUME NEW rows \in Seq(Row)
    PROVE  \E b \in Nat : \A r \in ToSet(rows) : r[1] <= b
<1> PICK n : n = Len(rows)
    OBVIOUS
<1> DEFINE S == {j \in 0..n : \E b \in Nat : \A i \in 1..j : rows[i][1] <= b}
<1>1. n \in Nat /\ \A i \in 1..n : rows[i][1] \in Nat
    <2>1. \A i \in 1..n : rows[i] \in Row
        OBVIOUS
    <2> QED
        BY <2>1 DEF Row
<1>2. 0 \in S
    <2>1. 0 \in 0..n /\ 1..0 = {} /\ 0 \in Nat
        BY <1>1
    <2> QED
        BY <2>1
<1>3. ASSUME NEW j \in 1..n, j - 1 \in S PROVE j \in S
    <2>1. PICK b \in Nat : \A i \in 1..(j - 1) : rows[i][1] <= b
        BY <1>3
    <2>2. /\ b + rows[j][1] \in Nat /\ b <= b + rows[j][1] /\ rows[j][1] <= b + rows[j][1]
        BY <1>1
    <2>3. \A i \in 1..j : rows[i][1] <= b + rows[j][1]
        <3> SUFFICES ASSUME NEW i \in 1..j PROVE rows[i][1] <= b + rows[j][1]
            OBVIOUS
        <3>1. CASE i = j
            BY <2>2, <3>1
        <3>2. CASE i # j
            <4>1. i \in 1..(j - 1) /\ i \in 1..n /\ j \in 1..n
                BY <3>2
            <4>2. rows[i][1] <= b /\ rows[i][1] \in Nat /\ rows[j][1] \in Nat
                BY <1>1, <2>1, <4>1
            <4> QED
                BY ONLY <4>2, b \in Nat
        <3> QED
            BY <3>1, <3>2
    <2>4. j \in 0..n
        OBVIOUS
    <2> QED
        BY <2>2, <2>3, <2>4
<1>4. S = 0..n
    <2>1. S \in SUBSET (0..n)
        OBVIOUS
    <2> HIDE DEF S
    <2> QED
        BY ONLY <1>1, <1>2, <1>3, <2>1, CarriedAlong
<1>5. n \in S
    <2> HIDE DEF S
    <2> QED
        BY <1>1, <1>4
<1>6. PICK b \in Nat : \A i \in 1..n : rows[i][1] <= b
    BY <1>5
<1> QED
    BY <1>6, MembersAre

\* What a chain's rows are about is notes there are.
LEMMA ChainRowsOK ==
    ASSUME NEW chain, NEW top \in Nat, ChainOK(chain, top), NEW field \in Fields
    PROVE  RowsOK(AllRows(chain, field), top)
<1>1. chain \in Seq(Block) /\ Len(chain) \in Nat
    BY DEF ChainOK
<1>2. /\ AllRows(chain, field) \in Seq(Row)
      /\ \A r \in ToSet(AllRows(chain, field)) :
            r[1] \in 0..(Len(chain) - 1) /\ r[2] \in ToSet(chain[r[1] + 1][field])
    BY <1>1, AllRowsAre
<1>3. ASSUME NEW k \in 1..Len(chain), NEW n \in ToSet(chain[k][field]) PROVE n \in 1..top
    <2>1. CASE field = "made"
        BY <1>3, <2>1 DEF ChainOK
    <2>2. CASE field = "gone"
        <3>1. n \in ToSet(chain[k].gone)
            BY <1>3, <2>2
        <3>2. PICK j \in 1..(k - 1) : n \in ToSet(chain[j].made)
            BY <3>1 DEF ChainOK, Spends
        <3>3. j \in 1..Len(chain)
            BY <1>1, <3>2
        <3> QED
            BY <3>2, <3>3 DEF ChainOK
    <2> QED
        BY <2>1, <2>2 DEF Fields
<1>4. \A r \in ToSet(AllRows(chain, field)) : r[2] \in 1..top
    <2> SUFFICES ASSUME NEW r \in ToSet(AllRows(chain, field)) PROVE r[2] \in 1..top
        OBVIOUS
    <2>1. r[1] + 1 \in 1..Len(chain)
        BY <1>1, <1>2
    <2> QED
        BY <1>2, <1>3, <2>1
<1> QED
    BY <1>2, <1>4 DEF RowsOK

\* Fewer rows.
LEMMA FewerRows ==
    ASSUME NEW rows, NEW top, RowsOK(rows, top), NEW some \in Seq(Row),
           ToSet(some) \subseteq ToSet(rows)
    PROVE  /\ RowsOK(some, top)
           /\ \A chain, field : RowsIn(rows, chain, field) => RowsIn(some, chain, field)
BY DEF RowsOK, RowsIn

LEMMA NoRows ==
    ASSUME NEW top
    PROVE  RowsOK(<<>>, top) /\ \A chain, field : RowsIn(<<>>, chain, field)
<1>1. <<>> \in Seq(Row) /\ ToSet(<<>>) = {}
    BY DEF ToSet
<1> QED
    BY <1>1 DEF RowsOK, RowsIn

\* A SELECT of the database, for a page that is wanted.
LEMMA ReadRows ==
    ASSUME WalletInv, page # Idle, NEW field \in Fields, NEW rows,
           rows = RowsBetween(field, page.since, Lesser(page.to, committed))
    PROVE  /\ RowsOK(rows, Len(notes))
           /\ page.by = "scan" /\ IsPrefix(light.trusted, blocks) => RowsIn(rows, light.trusted, field)
<1>1. /\ ChainOK(blocks, Len(notes)) /\ ChainOK(light.trusted, Len(notes)) /\ notes \in Seq(Note)
      /\ page.to \in Nat /\ committed \in Nat
    BY DEF WalletInv, WalletTypes, LightTypes, PageOK
<1>2. /\ blocks \in Seq(Block) /\ light.trusted \in Seq(Block) /\ Len(notes) \in Nat
      /\ Len(light.trusted) \in Nat
    BY <1>1 DEF ChainOK
<1>3. RowsOK(AllRows(blocks, field), Len(notes)) /\ AllRows(blocks, field) \in Seq(Row)
    BY <1>1, <1>2, ChainRowsOK DEF RowsOK
<1>4. /\ rows \in Seq(Row)
      /\ \A r \in ToSet(rows) : r \in ToSet(AllRows(blocks, field)) /\ r[1] <= Lesser(page.to, committed)
    BY <1>3, AmongRows DEF RowsBetween
<1>5. RowsOK(rows, Len(notes))
    BY <1>3, <1>4, FewerRows
<1>6. ASSUME page.by = "scan", IsPrefix(light.trusted, blocks)
      PROVE  RowsIn(rows, light.trusted, field)
    <2> SUFFICES ASSUME NEW r \in ToSet(rows) PROVE r \in ToSet(AllRows(light.trusted, field))
        BY DEF RowsIn
    <2>1. page.to < Len(light.trusted)
        BY <1>6 DEF WalletInv, ScanInv
    <2>2. r \in ToSet(AllRows(blocks, field)) /\ r[1] <= Lesser(page.to, committed)
        BY <1>4
    <2>3. r[1] \in 0..(Len(blocks) - 1)
        BY <1>2, <2>2, AllRowsAre
    <2>4. r[1] < Len(light.trusted)
        <3>1. Lesser(page.to, committed) <= page.to /\ Lesser(page.to, committed) \in Nat
            BY <1>1 DEF Lesser
        <3>2. r[1] \in Int
            BY <1>2, <2>3
        <3> QED
            BY ONLY <1>1, <1>2, <2>1, <2>2, <3>1, <3>2
    <2> QED
        BY <1>2, <1>6, <2>2, <2>4, RowsBelowPrefix
<1> QED
    BY <1>5, <1>6

\* A step in which only the page changes.
LEMMA PageStep ==
    ASSUME WalletInv, UNCHANGED <<notes, blocks, committed, wallet, light>>, PageFits(page')
    PROVE  WalletInv'
<1>1. committed' \in Nat
    BY DEF WalletInv, WalletTypes
<1>2. WalletFits(wallet') /\ UNCHANGED <<notes, blocks, light>>
    BY WalletFitsNow
<1> QED
    BY ONLY WalletInv, PageFits(page'), <1>1, <1>2, HoldingStep

LEMMA IdleFits == ASSUME page' = Idle PROVE PageFits(page')
BY DEF PageFits

LEMMA AskFits ==
    ASSUME WalletInv, NEW by \in {"sync", "scan"}, NEW since, NEW to \in Nat, NEW limit \in Nat,
           Ask(by, since, to, limit), by = "scan" => to < Len(light.trusted)
    PROVE  PageFits(page')
<1>1. page' = [by |-> by, since |-> since, to |-> to, limit |-> limit, at |-> "asked",
               outs |-> <<>>, nfs |-> <<>>, rows |-> <<>>, spent |-> <<>>, height |-> 0, next |-> -1]
    BY DEF Ask
<1>2. PageOK(page', Len(notes))
    BY <1>1, NoRows DEF PageOK, PageFields
<1>3. PageTrusted(page', light.trusted)
    BY <1>1, NoRows DEF PageTrusted
<1> QED
    BY <1>1, <1>2, <1>3 DEF PageFits

LEMMA StartSyncOK ==
    ASSUME WalletInv, NEW limit \in PageLimits, StartSync(limit) PROVE WalletInv'
<1>1. MaxHeight \in Nat /\ limit \in Nat
    BY WalletAssumption
<1>2. Ask("sync", wallet.scanned + 1, MaxHeight, limit)
      /\ UNCHANGED <<notes, blocks, committed, wallet, light>>
    BY DEF StartSync
<1>3. PageFits(page')
    BY <1>1, <1>2, AskFits
<1> QED
    BY <1>2, <1>3, PageStep

LEMMA StartScanOK ==
    ASSUME WalletInv, NEW limit \in PageLimits, StartScan(limit) PROVE WalletInv'
<1> PICK since, to : /\ since = (IF light.scanned = 0 THEN 0 ELSE light.scanned + 1)
                     /\ to = Len(light.trusted) - 1
    OBVIOUS
<1>1. limit \in Nat
    BY WalletAssumption
<1>2. /\ Ask("scan", since, to, limit) /\ light.trusted # <<>>
      /\ UNCHANGED <<notes, blocks, committed, wallet, light>>
    BY DEF StartScan
<1>3. to \in Nat /\ to < Len(light.trusted)
    <2>1. light.trusted \in Seq(Block)
        BY DEF WalletInv, LightTypes, ChainOK
    <2>2. Len(light.trusted) \in Nat \ {0}
        BY <1>2, <2>1
    <2> QED
        BY <2>2
<1>4. PageFits(page')
    BY <1>1, <1>2, <1>3, AskFits
<1> QED
    BY <1>2, <1>4, PageStep

LEMMA ReadOutputsOK == ASSUME WalletInv, ReadOutputs PROVE WalletInv'
<1> PICK rows : rows = RowsBetween("made", page.since, Lesser(page.to, committed))
    OBVIOUS
<1>1. /\ page # Idle /\ page' = [page EXCEPT !.at = "outputs", !.rows = rows]
      /\ UNCHANGED <<notes, blocks, committed, wallet, light>>
    BY DEF ReadOutputs
<1>2. PageFits(page)
    BY PageFitsNow
<1>3. /\ RowsOK(rows, Len(notes))
      /\ page.by = "scan" /\ IsPrefix(light.trusted, blocks) => RowsIn(rows, light.trusted, "made")
    <2>1. "made" \in Fields
        BY DEF Fields
    <2> QED
        BY <1>1, <2>1, ReadRows
<1>4. PageFits(page')
    BY <1>1, <1>2, <1>3 DEF PageFits, PageOK, PageTrusted, PageFields
<1> QED
    BY <1>1, <1>4, PageStep

LEMMA ReadNullifiersOK == ASSUME WalletInv, ReadNullifiers PROVE WalletInv'
<1> PICK nfs, cut : /\ nfs = RowsBetween("gone", page.since, Lesser(page.to, committed))
                    /\ cut = CutOnHeight(page.rows, nfs, page.limit)
    OBVIOUS
<1>1. /\ page # Idle
      /\ page' = [page EXCEPT !.at = "read", !.rows = cut.outs, !.spent = cut.nfs, !.next = cut.next]
      /\ UNCHANGED <<notes, blocks, committed, wallet, light>>
    BY DEF ReadNullifiers
<1>2. PageFits(page)
    BY PageFitsNow
<1>3. /\ RowsOK(nfs, Len(notes))
      /\ page.by = "scan" /\ IsPrefix(light.trusted, blocks) => RowsIn(nfs, light.trusted, "gone")
    <2>1. "gone" \in Fields
        BY DEF Fields
    <2> QED
        BY <1>1, <2>1, ReadRows
<1>4. /\ RowsOK(page.rows, Len(notes)) /\ page.limit \in Nat
      /\ page.rows \in Seq(Row) /\ nfs \in Seq(Row)
    BY <1>1, <1>2, <1>3 DEF PageFits, PageOK, RowsOK
<1>5. /\ cut.outs \in Seq(Row) /\ ToSet(cut.outs) \subseteq ToSet(page.rows)
      /\ cut.nfs \in Seq(Row) /\ ToSet(cut.nfs) \subseteq ToSet(nfs)
      /\ cut.next \in Nat \cup {-1} /\ cut.next # 0
    <2>1. PICK a \in Nat : \A r \in ToSet(page.rows) : r[1] <= a
        BY <1>4, RowsAreBounded
    <2>2. PICK c \in Nat : \A r \in ToSet(nfs) : r[1] <= c
        BY <1>4, RowsAreBounded
    <2>3. \A r \in ToSet(page.rows) \cup ToSet(nfs) : r[1] \in Nat
        <3>1. \A r \in ToSet(page.rows) \cup ToSet(nfs) : r \in Row
            BY <1>4, MembersAre
        <3> QED
            BY <3>1 DEF Row
    <2> PICK b : b = a + c
        OBVIOUS
    <2>4. b \in Nat /\ \A r \in ToSet(page.rows) \cup ToSet(nfs) : r[1] <= b
        BY ONLY <2>1, <2>2, <2>3, a \in Nat, c \in Nat, b = a + c
    <2> QED
        BY ONLY <1>4, <2>4, cut = CutOnHeight(page.rows, nfs, page.limit), CutKeeps
<1>6. /\ RowsOK(cut.outs, Len(notes)) /\ RowsOK(cut.nfs, Len(notes))
      /\ \A chain, field : RowsIn(page.rows, chain, field) => RowsIn(cut.outs, chain, field)
      /\ \A chain, field : RowsIn(nfs, chain, field) => RowsIn(cut.nfs, chain, field)
    BY <1>3, <1>4, <1>5, FewerRows
<1>7. PageFits(page')
    BY <1>1, <1>2, <1>3, <1>5, <1>6 DEF PageFits, PageOK, PageTrusted, PageFields
<1> QED
    BY <1>1, <1>7, PageStep

LEMMA HeightReached == ASSUME WalletInv, page # Idle PROVE Reached \in Nat
<1>1. page.to \in Nat /\ page.next \in Nat \cup {-1} /\ page.next # 0
    BY DEF WalletInv, WalletTypes, PageOK
<1>2. World \in Nat
    <2>1. blocks \in Seq(Block) /\ blocks # <<>>
        BY DEF WalletInv, WalletTypes, ChainOK
    <2>2. Len(blocks) \in Nat \ {0}
        BY <2>1
    <2> QED
        BY <2>2 DEF World
<1>3. Lesser(page.to, World) \in Nat
    BY <1>1, <1>2 DEF Lesser
<1> QED
    BY <1>1, <1>3 DEF Reached

LEMMA AnswerOK == ASSUME WalletInv, Answer PROVE WalletInv'
<1> PICK height : height = Reached
    OBVIOUS
<1>1. /\ page # Idle /\ page' = [page EXCEPT !.at = "answered", !.height = height]
      /\ UNCHANGED <<notes, blocks, committed, wallet, light>>
    BY DEF Answer
<1>2. PageFits(page) /\ height \in Nat
    BY <1>1, PageFitsNow, HeightReached
<1>3. PageFits(page')
    BY <1>1, <1>2 DEF PageFits, PageOK, PageTrusted, PageFields
<1> QED
    BY <1>1, <1>3, PageStep

\* All but the last.
LEMMA FrontRows ==
    ASSUME NEW rows \in Seq(Row), rows # <<>>
    PROVE  Front(rows) \in Seq(Row) /\ ToSet(Front(rows)) \subseteq ToSet(rows)
<1> PICK n, m, s : n = Len(rows) /\ m = n - 1 /\ s = Front(rows)
    OBVIOUS
<1>1. n \in Nat \ {0} /\ m \in Nat /\ m <= n
    <2>1. n \in Nat /\ n # 0
        OBVIOUS
    <2> QED
        BY <2>1
<1>2. s = SubSeq(rows, 1, m)
    BY DEF Front
<1>3. /\ SubSeq(rows, 1, m) \in Seq(Row) /\ Len(SubSeq(rows, 1, m)) = m
      /\ \A k \in 1..m : SubSeq(rows, 1, m)[k] = rows[k]
    BY <1>1
<1>a. s \in Seq(Row) /\ Len(s) = m /\ \A k \in 1..m : s[k] = rows[k]
    BY ONLY <1>2, <1>3
<1>4. /\ ToSet(s) = {s[k] : k \in 1..m} /\ ToSet(rows) = {rows[k] : k \in 1..n}
    <2>1. ToSet(s) = {s[k] : k \in 1..Len(s)} /\ ToSet(rows) = {rows[k] : k \in 1..Len(rows)}
        BY <1>a, MembersAre
    <2> QED
        BY ONLY <1>a, <2>1, n = Len(rows)
<1>5. \A k \in 1..m : k \in 1..n /\ s[k] = rows[k]
    BY <1>1, <1>a
<1> QED
    BY ONLY <1>a, <1>4, <1>5, s = Front(rows)

LEMMA AnswerShortOK == ASSUME WalletInv, AnswerShort PROVE WalletInv'
<1>1. page # Idle /\ UNCHANGED <<notes, blocks, committed, wallet, light>>
    BY DEF AnswerShort
<1>2. PageFits(page) /\ RowsOK(page.rows, Len(notes)) /\ RowsOK(page.spent, Len(notes))
    BY <1>1, PageFitsNow DEF PageFits, PageOK
<1>3. CASE page.rows # <<>> /\ page' = [page EXCEPT !.at = "answered", !.rows = Front(@)]
    <2> PICK some : some = Front(page.rows)
        OBVIOUS
    <2>1. some \in Seq(Row) /\ ToSet(some) \subseteq ToSet(page.rows)
        BY <1>2, <1>3, FrontRows DEF RowsOK
    <2>2. /\ RowsOK(some, Len(notes))
          /\ \A chain, field : RowsIn(page.rows, chain, field) => RowsIn(some, chain, field)
        BY <1>2, <2>1, FewerRows
    <2>3. page' = [page EXCEPT !.at = "answered", !.rows = some]
        BY <1>3
    <2>4. PageFits(page')
        BY <1>1, <1>2, <2>2, <2>3 DEF PageFits, PageOK, PageTrusted, PageFields
    <2> QED
        BY <1>1, <2>4, PageStep
<1>4. CASE page.spent # <<>> /\ page' = [page EXCEPT !.at = "answered", !.spent = Front(@)]
    <2> PICK some : some = Front(page.spent)
        OBVIOUS
    <2>1. some \in Seq(Row) /\ ToSet(some) \subseteq ToSet(page.spent)
        BY <1>2, <1>4, FrontRows DEF RowsOK
    <2>2. /\ RowsOK(some, Len(notes))
          /\ \A chain, field : RowsIn(page.spent, chain, field) => RowsIn(some, chain, field)
        BY <1>2, <2>1, FewerRows
    <2>3. page' = [page EXCEPT !.at = "answered", !.spent = some]
        BY <1>4
    <2>4. PageFits(page')
        BY <1>1, <1>2, <2>2, <2>3 DEF PageFits, PageOK, PageTrusted, PageFields
    <2> QED
        BY <1>1, <2>4, PageStep
<1> QED
    BY <1>3, <1>4 DEF AnswerShort

\* The page that goes on from this one with these rows collected.
GoesOn(p, outs, nfs) ==
    /\ DOMAIN p = DOMAIN page /\ p.by = page.by /\ p.to = page.to /\ p.limit = page.limit
    /\ p.outs = outs /\ p.nfs = nfs /\ p.rows = <<>> /\ p.spent = <<>>
    /\ p.height = 0 /\ p.next = -1

LEMMA NextGoesOn ==
    ASSUME NEW outs, NEW nfs, PageFields \subseteq DOMAIN page
    PROVE  /\ GoesOn(NextPage, page.outs, page.nfs)
           /\ GoesOn([NextPage EXCEPT !.outs = outs, !.nfs = nfs], outs, nfs)
BY DEF NextPage, GoesOn, PageFields

LEMMA NextFits ==
    ASSUME WalletInv, page # Idle, NEW outs, NEW nfs, NEW p, GoesOn(p, outs, nfs),
           RowsOK(outs, Len(notes)), RowsOK(nfs, Len(notes)),
           page.by = "scan" /\ IsPrefix(light.trusted, blocks) =>
              RowsIn(outs, light.trusted, "made") /\ RowsIn(nfs, light.trusted, "gone")
    PROVE  PageFits(p)
<1>1. PageFits(page) /\ PageOK(page, Len(notes))
    BY PageFitsNow DEF PageFits
<1>3. RowsOK(<<>>, Len(notes)) /\ \A chain, field : RowsIn(<<>>, chain, field)
    BY NoRows
<1>4. PageOK(p, Len(notes))
    <2>1. PageFields \subseteq DOMAIN p /\ p.to \in Nat /\ p.limit \in Nat
        BY <1>1 DEF PageOK, GoesOn
    <2> QED
        BY <1>3, <2>1 DEF PageOK, GoesOn
<1>5. p.by = "scan" /\ IsPrefix(light.trusted, blocks) => PageTrusted(p, light.trusted)
    BY <1>3 DEF PageTrusted, GoesOn
<1> QED
    BY <1>1, <1>4, <1>5 DEF PageFits, GoesOn

\* What a scan that takes these rows in leaves of the wallet.
LEMMA TakenTypes ==
    ASSUME WalletInv, NEW rows, RowsOK(rows, Len(notes)), NEW gone, NEW height, height # Unspent, NEW high,
           wallet' = [ReconcileRows(ScanRows(wallet, rows), gone, height) EXCEPT !.scanned = high]
    PROVE  /\ {"held", "scanned", "sent"} \subseteq DOMAIN wallet' /\ wallet'.sent = wallet.sent
           /\ DOMAIN wallet'.held \subseteq 1..Len(notes) /\ Held \subseteq DOMAIN wallet'.held
           /\ \A n \in Held : wallet.held[n] # Unspent => wallet'.held[n] # Unspent
           /\ DOMAIN wallet'.held = Held
                 \cup {r[2] : r \in {s \in ToSet(rows) : notes[s[2]].to \in Addresses}}
           /\ \A n \in DOMAIN wallet'.held :
                 n \in {r[2] : r \in ToSet(gone)} => wallet'.held[n] # Unspent
<1>1. {"held", "scanned", "sent"} \subseteq DOMAIN wallet /\ Held \subseteq 1..Len(notes)
    BY DEF WalletInv, WalletTypes
<1> PICK after : after = wallet'
    OBVIOUS
<1>2. /\ {"held", "scanned", "sent"} \subseteq DOMAIN after /\ after.sent = wallet.sent
      /\ DOMAIN after.held = DOMAIN wallet.held
            \cup {r[2] : r \in {s \in ToSet(rows) : notes[s[2]].to \in Addresses}}
      /\ \A n \in DOMAIN wallet.held : wallet.held[n] # Unspent => after.held[n] # Unspent
      /\ \A n \in DOMAIN after.held :
            n \in {r[2] : r \in ToSet(gone)} => after.held[n] # Unspent
    <2>1. after = [ReconcileRows(ScanRows(wallet, rows), gone, height) EXCEPT !.scanned = high]
        OBVIOUS
    <2> QED
        BY ONLY <1>1, <2>1, height # Unspent, TakenIn
<1>3. \A r \in ToSet(rows) : r[2] \in 1..Len(notes)
    BY DEF RowsOK
<1> QED
    BY ONLY <1>1, <1>2, <1>3, after = wallet' DEF Held

LEMMA TakeSyncedOK == ASSUME WalletInv, TakeSynced PROVE WalletInv'
<1> PICK high : high = IF ReconcileRows(ScanRows(wallet, page.rows), page.spent, page.height).scanned < page.height
                       THEN page.height
                       ELSE ReconcileRows(ScanRows(wallet, page.rows), page.spent, page.height).scanned
    OBVIOUS
<1>1. /\ page # Idle /\ page.by = "sync"
      /\ wallet' = [ReconcileRows(ScanRows(wallet, page.rows), page.spent, page.height)
                      EXCEPT !.scanned = high]
      /\ page' = IF page.next = -1 THEN Idle ELSE NextPage
      /\ UNCHANGED <<notes, blocks, committed, light>>
    BY DEF TakeSynced
<1>2. PageFits(page) /\ PageOK(page, Len(notes))
    BY <1>1, PageFitsNow DEF PageFits
<1>3. RowsOK(page.rows, Len(notes)) /\ page.height \in Nat /\ page.height # Unspent
    BY <1>2 DEF PageOK, Unspent
<1>4. /\ {"held", "scanned", "sent"} \subseteq DOMAIN wallet' /\ wallet'.sent = wallet.sent
      /\ DOMAIN wallet'.held \subseteq 1..Len(notes) /\ Held \subseteq DOMAIN wallet'.held
      /\ \A n \in Held : wallet.held[n] # Unspent => wallet'.held[n] # Unspent
    <2> PICK rows, gone, height : rows = page.rows /\ gone = page.spent /\ height = page.height
        OBVIOUS
    <2>1. wallet' = [ReconcileRows(ScanRows(wallet, rows), gone, height) EXCEPT !.scanned = high]
        BY <1>1
    <2>2. RowsOK(rows, Len(notes)) /\ height # Unspent
        BY <1>3
    <2> QED
        BY ONLY WalletInv, <2>1, <2>2, TakenTypes
<1>5. PageFits(page')
    <2>1. CASE page.next = -1
        BY <1>1, <2>1, IdleFits
    <2>2. CASE page.next # -1
        <3> PICK p : p = NextPage
            OBVIOUS
        <3>1. GoesOn(p, page.outs, page.nfs)
            BY <1>2, NextGoesOn DEF PageOK
        <3>2. RowsOK(page.outs, Len(notes)) /\ RowsOK(page.nfs, Len(notes)) /\ page.by # "scan"
            BY <1>1, <1>2 DEF PageOK
        <3>3. PageFits(p)
            BY ONLY WalletInv, <1>1, <3>1, <3>2, NextFits
        <3> QED
            BY <1>1, <2>2, <3>3 DEF PageFits
    <2> QED
        BY <2>1, <2>2
<1>6. committed' \in Nat /\ \A tx \in wallet.sent : PaymentOK(tx, notes)
    BY <1>1 DEF WalletInv, WalletTypes
<1>7. WalletFits(wallet') /\ UNCHANGED <<notes, blocks, light>>
    BY <1>1, <1>4, <1>6 DEF WalletFits
<1> QED
    BY ONLY WalletInv, <1>5, <1>6, <1>7, HoldingStep

\* Two sequences of rows, one after the other.
LEMMA RowsJoined ==
    ASSUME NEW a, NEW b, NEW top, RowsOK(a, top), RowsOK(b, top)
    PROVE  /\ RowsOK(a \o b, top)
           /\ \A chain, field : RowsIn(a, chain, field) /\ RowsIn(b, chain, field) => RowsIn(a \o b, chain, field)
<1>1. a \in Seq(Row) /\ b \in Seq(Row)
    BY DEF RowsOK
<1>2. a \o b \in Seq(Row) /\ ToSet(a \o b) = ToSet(a) \cup ToSet(b)
    BY <1>1, JoinFacts
<1> QED
    BY <1>2 DEF RowsOK, RowsIn

\* The scan that goes on.
LEMMA ScanGoesOn ==
    ASSUME WalletInv, page # Idle,
           page' = [NextPage EXCEPT !.outs = page.outs \o page.rows, !.nfs = page.nfs \o page.spent],
           UNCHANGED <<notes, blocks, committed, wallet, light>>
    PROVE  WalletInv'
<1> PICK outs, nfs : outs = page.outs \o page.rows /\ nfs = page.nfs \o page.spent
    OBVIOUS
<1>1. PageFits(page) /\ PageOK(page, Len(notes))
    BY PageFitsNow DEF PageFits
<1>2. /\ RowsOK(outs, Len(notes)) /\ RowsOK(nfs, Len(notes))
      /\ page.by = "scan" /\ IsPrefix(light.trusted, blocks) =>
              RowsIn(outs, light.trusted, "made") /\ RowsIn(nfs, light.trusted, "gone")
    BY <1>1, RowsJoined DEF PageFits, PageOK, PageTrusted
<1>3. PageFits(page')
    <2> PICK p : p = page'
        OBVIOUS
    <2>1. PageFits(p)
        <3>1. GoesOn(p, outs, nfs)
            <4>1. PageFields \subseteq DOMAIN page
                BY <1>1 DEF PageOK
            <4> QED
                BY <4>1, NextGoesOn
        <3> QED
            BY ONLY WalletInv, page # Idle, <1>2, <3>1, NextFits
    <2> QED
        BY <2>1 DEF PageFits
<1> QED
    BY <1>3, PageStep

\* The scan that is over, and complete.
LEMMA ScanEnds ==
    ASSUME WalletInv, page # Idle, page.by = "scan", NEW outs, NEW nfs, NEW top, NEW high,
           outs = page.outs \o page.rows, nfs = page.nfs \o page.spent,
           top = Len(light.trusted) - 1,
           Spans(outs, light.outs, Len(AllRows(light.trusted, "made"))),
           Spans(nfs, light.nfs, Len(AllRows(light.trusted, "gone"))),
           wallet' = [ReconcileRows(ScanRows(wallet, outs), nfs, top) EXCEPT !.scanned = high],
           light' = [light EXCEPT !.scanned = top, !.outs = Len(AllRows(light.trusted, "made")),
                                  !.nfs = Len(AllRows(light.trusted, "gone"))],
           page' = Idle, UNCHANGED <<notes, blocks, committed>>
    PROVE  WalletInv'
<1> PICK t, s, m : t = light.trusted /\ s = ScannedBlocks(light.scanned) /\ m = Len(t)
    OBVIOUS
<1>1. PageOK(page, Len(notes)) /\ PageFits(page)
    BY PageFitsNow DEF PageFits
<1>2. /\ ChainOK(t, Len(notes)) /\ t \in Seq(Block) /\ m \in Nat /\ m > 1 /\ notes \in Seq(Note)
      /\ top \in Nat /\ top # 0 /\ top + 1 = m
    <2>1. ChainOK(t, Len(notes)) /\ notes \in Seq(Note) /\ m # 1
        BY DEF WalletInv, LightTypes, WalletTypes
    <2>2. t \in Seq(Block) /\ m \in Nat
        BY <2>1 DEF ChainOK
    <2>3. page.to \in Nat /\ page.to < m
        BY <1>1 DEF PageOK, PageFits
    <2>4. top = m - 1
        BY ONLY top = Len(light.trusted) - 1, t = light.trusted, m = Len(t)
    <2>5. m > 1 /\ top \in Nat /\ top # 0 /\ top + 1 = m
        <3>1. m \in Nat /\ m # 1 /\ m # 0
            BY ONLY <2>1, <2>2, <2>3
        <3> QED
            BY ONLY <2>4, <3>1
    <2> QED
        BY <2>1, <2>2, <2>5
<1>3. /\ s \in 0..m /\ light.outs = Len(RowsBelow(t, "made", s)) /\ light.nfs = Len(RowsBelow(t, "gone", s))
    <2>1. light.scanned \in Nat /\ s <= m
        BY DEF WalletInv, LightTypes
    <2> QED
        BY <1>2, <2>1 DEF WalletInv, LightTypes, ScannedBlocks
<1>4. /\ RowsOK(outs, Len(notes)) /\ outs \in Seq(Row) /\ nfs \in Seq(Row)
      /\ IsPrefix(t, blocks) => RowsIn(outs, t, "made") /\ RowsIn(nfs, t, "gone")
    <2>1. RowsOK(outs, Len(notes)) /\ RowsOK(nfs, Len(notes))
        BY <1>1, RowsJoined DEF PageOK
    <2>2. IsPrefix(t, blocks) => RowsIn(outs, t, "made") /\ RowsIn(nfs, t, "gone")
        BY <1>1, RowsJoined DEF PageOK, PageFits, PageTrusted
    <2> QED
        BY <2>1, <2>2 DEF RowsOK
<1>5. /\ {"held", "scanned", "sent"} \subseteq DOMAIN wallet' /\ wallet'.sent = wallet.sent
      /\ DOMAIN wallet'.held \subseteq 1..Len(notes) /\ Held \subseteq DOMAIN wallet'.held
      /\ \A n \in Held : wallet.held[n] # Unspent => wallet'.held[n] # Unspent
      /\ DOMAIN wallet'.held = Held
            \cup {r[2] : r \in {q \in ToSet(outs) : notes[q[2]].to \in Addresses}}
      /\ \A n \in DOMAIN wallet'.held :
            n \in {r[2] : r \in ToSet(nfs)} => wallet'.held[n] # Unspent
    <2>1. top # Unspent
        BY <1>2 DEF Unspent
    <2> QED
        BY ONLY WalletInv, <1>4, <2>1, TakenTypes,
                wallet' = [ReconcileRows(ScanRows(wallet, outs), nfs, top) EXCEPT !.scanned = high]
<1>6. /\ {"trusted", "scanned", "outs", "nfs"} \subseteq DOMAIN light'
      /\ light'.trusted = t /\ light'.scanned = top
      /\ light'.outs = Len(AllRows(t, "made")) /\ light'.nfs = Len(AllRows(t, "gone"))
    BY DEF WalletInv, LightTypes
<1>7. ScannedBlocks(top) = m /\ \A field : AllRows(t, field) = RowsBelow(t, field, m)
    BY <1>2 DEF ScannedBlocks, AllRows, RowsBelow
<1>8. WalletTypes'
    <2>1. /\ committed \in Nat /\ ChainOK(blocks, Len(notes)) /\ blocks # <<>>
          /\ \A tx \in wallet.sent : PaymentOK(tx, notes)
        BY DEF WalletInv, WalletTypes
    <2>2. committed' \in Nat
        BY <2>1
    <2> QED
        BY <1>2, <1>5, <2>1, <2>2 DEF WalletTypes, Held, Idle
<1>9. LightTypes'
    BY <1>2, <1>6, <1>7 DEF LightTypes
<1>10. ASSUME IsPrefix(t, blocks) PROVE Knows(t, m, notes, wallet'.held)
    <2> PICK held, after, ns, last : /\ held = wallet.held /\ after = wallet'.held /\ ns = notes
                                     /\ last = Len(notes)
        OBVIOUS
    <2>2. Knows(t, s, ns, held)
        BY <1>10 DEF WalletInv, ScanInv
    <2>3. last \in Nat /\ ChainOK(t, last) /\ s \in 0..Len(t)
        BY <1>2, <1>3
    <2>4. /\ RowsIn(outs, t, "made") /\ RowsIn(nfs, t, "gone")
          /\ Spans(outs, Len(RowsBelow(t, "made", s)), Len(AllRows(t, "made")))
          /\ Spans(nfs, Len(RowsBelow(t, "gone", s)), Len(AllRows(t, "gone")))
        BY <1>3, <1>4, <1>10
    <2>5. /\ DOMAIN after = DOMAIN held \cup {r[2] : r \in {q \in ToSet(outs) : ns[q[2]].to \in Addresses}}
          /\ \A n \in DOMAIN held : held[n] # Unspent => after[n] # Unspent
          /\ \A n \in DOMAIN after : n \in {r[2] : r \in ToSet(nfs)} => after[n] # Unspent
        BY <1>5 DEF Held
    <2>6. Knows(t, Len(t), ns, after)
        BY ONLY <1>4, <2>2, <2>3, <2>4, <2>5, ScanCompletes
    <2> QED
        BY <2>6
<1>11. ScanInv'
    BY <1>6, <1>7, <1>10 DEF ScanInv, Idle
<1> QED
    BY <1>8, <1>9, <1>11 DEF WalletInv

LEMMA TakeScannedOK == ASSUME WalletInv, TakeScanned PROVE WalletInv'
<1> PICK outs, nfs, top : /\ outs = page.outs \o page.rows /\ nfs = page.nfs \o page.spent
                          /\ top = Len(light.trusted) - 1
    OBVIOUS
<1>1. page # Idle /\ page.by = "scan" /\ UNCHANGED <<notes, blocks, committed>>
    BY DEF TakeScanned
<1>2. CASE page' = [NextPage EXCEPT !.outs = outs, !.nfs = nfs] /\ UNCHANGED <<wallet, light>>
    BY <1>1, <1>2, ScanGoesOn
<1>3. CASE page' = Idle /\ UNCHANGED <<wallet, light>>
    <2>1. PageFits(page')
        BY <1>3, IdleFits
    <2> QED
        BY <1>1, <1>3, <2>1, PageStep
<1>4. CASE /\ page' = Idle
           /\ Spans(outs, light.outs, Len(AllRows(light.trusted, "made")))
           /\ Spans(nfs, light.nfs, Len(AllRows(light.trusted, "gone")))
           /\ \E high : wallet' = [ReconcileRows(ScanRows(wallet, outs), nfs, top)
                                     EXCEPT !.scanned = high]
           /\ light' = [light EXCEPT !.scanned = top, !.outs = Len(AllRows(light.trusted, "made")),
                                     !.nfs = Len(AllRows(light.trusted, "gone"))]
    <2>1. PICK high : wallet' = [ReconcileRows(ScanRows(wallet, outs), nfs, top)
                                   EXCEPT !.scanned = high]
        BY <1>4
    <2> QED
        BY <1>1, <1>4, <2>1, ScanEnds
<1>5. \/ page' = [NextPage EXCEPT !.outs = outs, !.nfs = nfs] /\ UNCHANGED <<wallet, light>>
      \/ page' = Idle /\ UNCHANGED <<wallet, light>>
      \/ /\ page' = Idle
         /\ Spans(outs, light.outs, Len(AllRows(light.trusted, "made")))
         /\ Spans(nfs, light.nfs, Len(AllRows(light.trusted, "gone")))
         /\ \E high : wallet' = [ReconcileRows(ScanRows(wallet, outs), nfs, top)
                                   EXCEPT !.scanned = high]
         /\ light' = [light EXCEPT !.scanned = top, !.outs = Len(AllRows(light.trusted, "made")),
                                   !.nfs = Len(AllRows(light.trusted, "gone"))]
    BY DEF TakeScanned, Counts
<1> QED
    BY <1>2, <1>3, <1>4, <1>5

LEMMA FollowOK == ASSUME WalletInv, Follow PROVE WalletInv'
<1> PICK t, b, s, m : /\ t = light.trusted /\ b = blocks /\ s = ScannedBlocks(light.scanned)
                      /\ m = Len(notes)
    OBVIOUS
<1>1. /\ IsPrefix(t, b) /\ Len(b) # 1 /\ light' = [light EXCEPT !.trusted = b]
      /\ UNCHANGED <<notes, blocks, committed, wallet, page>>
    <2>1. blocks \in Seq(Block)
        BY DEF WalletInv, WalletTypes, ChainOK
    <2>2. Len(blocks) \in Nat
        BY <2>1
    <2>3. Len(b) # 1
        <3> PICK k : k = Len(blocks)
            OBVIOUS
        <3>1. k - 1 > 0
            BY DEF Follow, World
        <3>2. k # 1
            BY ONLY <3>1, k = Len(blocks), <2>2
        <3> QED
            BY <3>2
    <2>4. light' = [light EXCEPT !.trusted = b] /\ UNCHANGED <<notes, blocks, committed, wallet, page>>
        BY DEF Follow
    <2> QED
        BY <2>3, <2>4 DEF Follow, Descends
<1>2. /\ ChainOK(t, m) /\ ChainOK(b, m) /\ t \in Seq(Block) /\ b \in Seq(Block)
    BY DEF WalletInv, WalletTypes, LightTypes, ChainOK
<1>3. /\ {"trusted", "scanned", "outs", "nfs"} \subseteq DOMAIN light
      /\ light.scanned \in Nat /\ s <= Len(t) /\ s \in Nat
      /\ light.outs = Len(RowsBelow(t, "made", s)) /\ light.nfs = Len(RowsBelow(t, "gone", s))
    BY DEF WalletInv, LightTypes, ScannedBlocks
<1>4. \A field \in Fields :
         /\ RowsBelow(t, field, s) = RowsBelow(b, field, s)
         /\ \A rows : RowsIn(rows, t, field) => RowsIn(rows, b, field)
    <2> SUFFICES ASSUME NEW field \in Fields
                 PROVE  /\ RowsBelow(t, field, s) = RowsBelow(b, field, s)
                        /\ \A rows : RowsIn(rows, t, field) => RowsIn(rows, b, field)
        OBVIOUS
    <2>1. /\ \A k \in 0..Len(t) : RowsBelow(t, field, k) = RowsBelow(b, field, k)
          /\ ToSet(AllRows(t, field)) \subseteq ToSet(AllRows(b, field))
        BY ONLY <1>1, <1>2, field \in Fields, RowsBelowPrefix
    <2>2. s \in 0..Len(t)
        <3>1. Len(t) \in Nat
            BY <1>2
        <3> QED
            BY <1>3, <3>1
    <2> QED
        BY <2>1, <2>2 DEF RowsIn
<1>5. "made" \in Fields /\ "gone" \in Fields
    BY DEF Fields
<1>6. Len(t) \in Nat /\ Len(b) \in Nat /\ Len(t) <= Len(b) /\ \A k \in 1..Len(t) : t[k] = b[k]
    BY <1>1, <1>2, PrefixIs
<1>7. /\ DOMAIN light' = DOMAIN light /\ light'.trusted = b /\ light'.scanned = light.scanned
      /\ light'.outs = light.outs /\ light'.nfs = light.nfs
    BY <1>1, <1>3
<1>8. WalletTypes'
    BY <1>1 DEF WalletInv, WalletTypes, Held, Idle
<1>9. LightTypes'
    <2>1. light'.outs = Len(RowsBelow(b, "made", s)) /\ light'.nfs = Len(RowsBelow(b, "gone", s))
        BY <1>3, <1>4, <1>5, <1>7
    <2> QED
        BY <1>1, <1>2, <1>3, <1>6, <1>7, <2>1 DEF LightTypes
<1>10. Knows(b, s, notes, wallet.held)
    <2>1. Knows(t, s, notes, wallet.held)
        BY <1>1 DEF WalletInv, ScanInv
    <2>2. \A k \in 1..s : b[k] = t[k]
        BY <1>3, <1>6
    <2> QED
        BY <2>1, <2>2 DEF Knows
<1>11. ASSUME page # Idle, page.by = "scan" PROVE page.to < Len(b) /\ PageTrusted(page, b)
    <2>1. page.to < Len(t) /\ PageTrusted(page, t) /\ page.to \in Nat
        BY <1>1, <1>11 DEF WalletInv, ScanInv, WalletTypes, PageOK
    <2>2. page.to < Len(b)
        BY <1>6, <2>1
    <2> QED
        BY <1>4, <1>5, <2>1, <2>2 DEF PageTrusted
<1>12. ScanInv'
    BY <1>1, <1>7, <1>10, <1>11 DEF ScanInv, Idle
<1> QED
    BY <1>8, <1>9, <1>12 DEF WalletInv

-----------------------------------------------------------------------------
(* Wallet: notes to pay with.                                               *)

\* The total of the notes of S among the first ones, one note after another.
Adding(f, S) ==
    /\ f[0] = 0
    /\ \A n \in 1..Len(notes) : f[n] = f[n - 1] + (IF n \in S THEN notes[n].value ELSE 0)

LEMMA SumIs ==
    ASSUME notes \in Seq(Note), NEW S
    PROVE  \E f \in [0..Len(notes) -> Nat] : Adding(f, S) /\ Sum(S) = f[Len(notes)]
<1> PICK n : n = Len(notes)
    OBVIOUS
<1> DEFINE body(f, i) == IF i = 0 THEN 0 ELSE f[i - 1] + (IF i \in S THEN notes[i].value ELSE 0)
           total == CHOOSE f : f = [i \in 0..n |-> body(f, i)]
<1>1. n \in Nat /\ \A i \in 1..n : notes[i].value \in Nat
    <2>1. \A i \in 1..n : notes[i] \in Note
        OBVIOUS
    <2> QED
        BY <2>1 DEF Note
<1>2. Sum(S) = total[n]
    BY DEF Sum
<1>3. PICK step : step = [i \in 1..n |-> [x \in Nat |-> x + (IF i \in S THEN notes[i].value ELSE 0)]]
    OBVIOUS
<1>4. step \in [1..n -> [Nat -> Nat]]
    <2> SUFFICES ASSUME NEW i \in 1..n, NEW x \in Nat
                 PROVE  x + (IF i \in S THEN notes[i].value ELSE 0) \in Nat
        BY <1>3
    <2> QED
        BY <1>1
<1>5. PICK f \in [0..n -> Nat] : InTurn(f, n, 0, step)
    BY <1>1, <1>4, StepsInTurn
<1>6. \A i \in 0..n : f[i] = body(f, i)
    <2> SUFFICES ASSUME NEW i \in 0..n PROVE f[i] = body(f, i)
        OBVIOUS
    <2>1. f[i] = IF i = 0 THEN 0 ELSE step[i][f[i - 1]]
        BY <1>5 DEF InTurn
    <2>2. CASE i = 0
        BY <2>1, <2>2
    <2>3. CASE i # 0
        <3>1. i \in 1..n /\ i - 1 \in 0..n
            BY <1>1, <2>3
        <3>2. f[i - 1] \in Nat
            BY <1>5, <3>1
        <3>3. step[i][f[i - 1]] = f[i - 1] + (IF i \in S THEN notes[i].value ELSE 0)
            BY <1>3, <3>1, <3>2
        <3> QED
            BY <2>1, <2>3, <3>3
    <2> QED
        BY <2>2, <2>3
<1>7. f = [i \in 0..n |-> body(f, i)]
    <2> HIDE DEF body
    <2> QED
        BY <1>5, <1>6
<1>8. total = [i \in 0..n |-> body(total, i)]
    <2> HIDE DEF body
    <2> QED
        BY <1>7
<1> HIDE DEF total
<1>9. ASSUME NEW g, NEW k, g = [i \in 0..n |-> body(g, i)], k = [i \in 0..n |-> body(k, i)]
      PROVE  g = k
    <2> DEFINE T == {i \in 0..n : g[i] = k[i]}
    <2>1. g[0] = 0 /\ k[0] = 0 /\ 0 \in 0..n
        <3>1. 0 \in 0..n
            BY <1>1
        <3>2. body(g, 0) = 0 /\ body(k, 0) = 0
            OBVIOUS
        <3> HIDE DEF body
        <3> QED
            BY ONLY <3>1, <3>2, <1>9
    <2>2. \A i \in 1..n : i - 1 \in T => i \in T
        <3> SUFFICES ASSUME NEW i \in 1..n, g[i - 1] = k[i - 1] PROVE g[i] = k[i] /\ i \in 0..n
            OBVIOUS
        <3>1. i \in 0..n /\ i # 0
            OBVIOUS
        <3>2. g[i] = body(g, i) /\ k[i] = body(k, i)
            <4> HIDE DEF body
            <4> QED
                BY ONLY <1>9, <3>1
        <3> QED
            BY <3>1, <3>2
    <2>3. T = 0..n
        <3>1. 0 \in T /\ T \in SUBSET (0..n)
            BY <2>1
        <3> HIDE DEF T
        <3> QED
            BY <1>1, <2>2, <3>1, CarriedAlong
    <2>4. \A x \in 0..n : g[x] = k[x]
        BY <2>3
    <2> HIDE DEF body
    <2> QED
        BY ONLY <1>9, <2>4
<1>10. total = f
    <2> HIDE DEF body
    <2> QED
        BY <1>7, <1>8, <1>9
<1>11. f[0] = 0 /\ \A i \in 1..n : f[i] = f[i - 1] + (IF i \in S THEN notes[i].value ELSE 0)
    <2>1. 0 \in 0..n /\ \A i \in 1..n : i \in 0..n /\ i # 0
        BY <1>1
    <2> QED
        BY <1>6, <2>1
<1> QED
    BY <1>2, <1>5, <1>10, <1>11 DEF Adding

LEMMA SumNat == ASSUME notes \in Seq(Note), NEW S PROVE Sum(S) \in Nat
<1>1. PICK f \in [0..Len(notes) -> Nat] : Sum(S) = f[Len(notes)]
    BY SumIs
<1>2. Len(notes) \in 0..Len(notes)
    OBVIOUS
<1> QED
    BY <1>1, <1>2

\* Nothing is worth nothing.
LEMMA SumOfNone == ASSUME notes \in Seq(Note) PROVE Sum({}) = 0
<1> PICK n : n = Len(notes)
    OBVIOUS
<1>1. PICK f \in [0..n -> Nat] : Adding(f, {}) /\ Sum({}) = f[n]
    BY SumIs
<1> DEFINE T == {i \in 0..n : f[i] = 0}
<1>2. n \in Nat /\ 0 \in T /\ T \in SUBSET (0..n)
    BY <1>1 DEF Adding
<1>3. \A i \in 1..n : i - 1 \in T => i \in T
    BY <1>1 DEF Adding
<1>4. T = 0..n
    <2> HIDE DEF T
    <2> QED
        BY <1>2, <1>3, CarriedAlong
<1>5. n \in T
    <2> HIDE DEF T
    <2> QED
        BY <1>2, <1>4
<1> QED
    BY <1>1, <1>5

\* The members of S, the one nothing comes before first.
InOrder(S, R) ==
    [k \in 1..Cardinality(S) |-> CHOOSE m \in S : Cardinality({j \in S : <<j, m>> \in R}) = k - 1]

\* Everything in S once, the greater values first.
Sorts(d, S, v) ==
    /\ d \in Seq(S) /\ Len(d) = Cardinality(S)
    /\ \A i, j \in 1..Len(d) : d[i] = d[j] => i = j
    /\ \A m \in S : \E i \in 1..Len(d) : d[i] = m
    /\ \A i, j \in 1..Len(d) : i < j => v[d[i]] >= v[d[j]]

\* R says which of two notes has the greater value, or the lower number.
Above(R, S, v) ==
    /\ R \in SUBSET (S \X S)
    /\ \A a, b \in S : <<a, b>> \in R <=> v[a] > v[b] \/ (v[a] = v[b] /\ a < b)

LEMMA SortedIs ==
    ASSUME NEW S, IsFiniteSet(S), NEW R, NEW v, v \in [S -> Nat], \A m \in S : m \in Nat, Above(R, S, v)
    PROVE  Sorts(InOrder(S, R), S, v)
<1> PICK n, d : n = Cardinality(S) /\ d = InOrder(S, R)
    OBVIOUS
<1>0. /\ R \in SUBSET (S \X S)
      /\ \A a, b \in S : <<a, b>> \in R <=> v[a] > v[b] \/ (v[a] = v[b] /\ a < b)
    BY DEF Above
<1>d. d = [k \in 1..n |-> CHOOSE m \in S : Cardinality({j \in S : <<j, m>> \in R}) = k - 1]
    BY DEF InOrder
<1> PICK rank : rank = Ranks(S, R)
    OBVIOUS
<1>1. n \in Nat
    BY FS_CardinalityType
<1>2. /\ \A g \in S : <<g, g>> \notin R
      /\ \A g, h, i \in S : <<g, h>> \in R /\ <<h, i>> \in R => <<g, i>> \in R
      /\ \A g, h \in S : g # h => <<g, h>> \in R \/ <<h, g>> \in R
    <2>0. \A a \in S : a \in Nat /\ v[a] \in Nat
        OBVIOUS
    <2> USE <1>0
    <2>1. \A a \in S : <<a, a>> \notin R
        BY <2>0
    <2>2. ASSUME NEW a \in S, NEW b \in S, NEW c \in S, <<a, b>> \in R, <<b, c>> \in R
          PROVE  <<a, c>> \in R
        BY <2>0, <2>2
    <2>3. ASSUME NEW a \in S, NEW b \in S, a # b PROVE <<a, b>> \in R \/ <<b, a>> \in R
        BY <2>0, <2>3
    <2> QED
        BY <2>1, <2>2, <2>3
<1>r. R \in SUBSET (S \X S)
    BY <1>0
<1>3. /\ rank \in [S -> 0..(n - 1)]
      /\ \A g, h \in S : rank[g] = rank[h] => g = h
      /\ {rank[g] : g \in S} = 0..(n - 1)
      /\ \A g, h \in S : <<g, h>> \in R => rank[g] < rank[h]
    BY ONLY IsFiniteSet(S), n = Cardinality(S), <1>r, rank = Ranks(S, R), <1>2, RanksFill
<1>4. \A m \in S : rank[m] = Cardinality({k \in S : <<k, m>> \in R})
    BY DEF Ranks
<1>5. \A k \in 1..n : d[k] \in S /\ rank[d[k]] = k - 1
    <2> SUFFICES ASSUME NEW k \in 1..n PROVE d[k] \in S /\ rank[d[k]] = k - 1
        OBVIOUS
    <2>1. k - 1 \in 0..(n - 1)
        BY <1>1
    <2>2. \E m \in S : rank[m] = k - 1
        BY <1>3, <2>1
    <2>3. \E m \in S : Cardinality({j \in S : <<j, m>> \in R}) = k - 1
        BY <1>4, <2>2
    <2>4. d[k] = CHOOSE m \in S : Cardinality({j \in S : <<j, m>> \in R}) = k - 1
        BY <1>d
    <2>5. d[k] \in S /\ Cardinality({j \in S : <<j, d[k]>> \in R}) = k - 1
        BY ONLY <2>3, <2>4
    <2> QED
        BY ONLY <1>4, <2>5
<1>6. d \in Seq(S) /\ Len(d) = n
    <2>1. d \in [1..n -> S]
        BY <1>5, <1>d
    <2> QED
        BY ONLY <1>1, <2>1
<1>7. \A i, j \in 1..n : d[i] = d[j] => i = j
    <2> SUFFICES ASSUME NEW i \in 1..n, NEW j \in 1..n, d[i] = d[j] PROVE i = j
        OBVIOUS
    <2>1. i - 1 = j - 1
        BY <1>5
    <2> QED
        BY ONLY <1>1, <2>1, i \in 1..n, j \in 1..n
<1>8. \A m \in S : \E i \in 1..n : d[i] = m
    <2> SUFFICES ASSUME NEW m \in S PROVE \E i \in 1..n : d[i] = m
        OBVIOUS
    <2>1. rank[m] \in 0..(n - 1)
        BY <1>3
    <2> PICK i : i = rank[m] + 1
        OBVIOUS
    <2>2. i \in 1..n /\ i - 1 = rank[m]
        BY <1>1, <2>1
    <2>3. rank[d[i]] = rank[m] /\ d[i] \in S
        BY <1>5, <2>2
    <2> QED
        BY <1>3, <2>2, <2>3
<1>9. \A i, j \in 1..n : i < j => v[d[i]] >= v[d[j]]
    <2> SUFFICES ASSUME NEW i \in 1..n, NEW j \in 1..n, i < j, ~(v[d[i]] >= v[d[j]])
                 PROVE  FALSE
        OBVIOUS
    <2> PICK a, b : a = d[i] /\ b = d[j]
        OBVIOUS
    <2>1. a \in S /\ b \in S /\ rank[a] = i - 1 /\ rank[b] = j - 1
        BY <1>5
    <2>2. v[b] > v[a]
        <3>1. v[a] \in Nat /\ v[b] \in Nat /\ ~(v[a] >= v[b])
            BY <2>1
        <3> QED
            BY ONLY <3>1
    <2>3. <<b, a>> \in R
        BY <1>0, <2>1, <2>2
    <2>4. rank[b] < rank[a]
        BY <1>3, <2>1, <2>3
    <2> QED
        BY <1>1, <2>1, <2>4
<1> QED
    BY ONLY <1>6, <1>7, <1>8, <1>9, n = Cardinality(S), d = InOrder(S, R) DEF Sorts

\* The notes in the order they are spent: each once, the greater first.
LEMMA DescendingIs ==
    ASSUME notes \in Seq(Note), NEW S, S \in SUBSET (1..Len(notes)), NEW n, n = Cardinality(S)
    PROVE  /\ IsFiniteSet(S) /\ n \in Nat
           /\ Descending(S) \in Seq(S) /\ Len(Descending(S)) = n
           /\ \A i, j \in 1..n : Descending(S)[i] = Descending(S)[j] => i = j
           /\ \A m \in S : \E i \in 1..n : Descending(S)[i] = m
           /\ \A i, j \in 1..n : i < j => notes[Descending(S)[i]].value >= notes[Descending(S)[j]].value
<1> PICK R, v, d : R = Sooner(S) /\ v = [m \in S |-> notes[m].value] /\ d = Descending(S)
    OBVIOUS
<1>1. IsFiniteSet(S) /\ n \in Nat /\ \A m \in S : m \in Nat
    <2>1. IsFiniteSet(1..Len(notes))
        <3>1. 1 \in Int /\ Len(notes) \in Int
            OBVIOUS
        <3> QED
            BY ONLY <3>1, FS_Interval
    <2>2. IsFiniteSet(S)
        BY <2>1, FS_Subset
    <2> QED
        BY <2>2, FS_CardinalityType
<1>2. v \in [S -> Nat]
    <2>1. \A m \in S : notes[m] \in Note
        OBVIOUS
    <2> QED
        BY <2>1 DEF Note
<1>3. Above(R, S, v)
    <2>1. R \in SUBSET (S \X S)
        BY DEF Sooner
    <2>2. \A a, b \in S : <<a, b>> \in R <=> v[a] > v[b] \/ (v[a] = v[b] /\ a < b)
        BY DEF Sooner
    <2> QED
        BY <2>1, <2>2 DEF Above
<1>4. d = InOrder(S, R)
    BY DEF Descending, InOrder
<1>5. Sorts(d, S, v)
    BY ONLY <1>1, <1>2, <1>3, <1>4, SortedIs
<1>6. /\ d \in Seq(S) /\ Len(d) = n
      /\ \A i, j \in 1..n : d[i] = d[j] => i = j
      /\ \A m \in S : \E i \in 1..n : d[i] = m
      /\ \A i, j \in 1..n : i < j => v[d[i]] >= v[d[j]]
    BY ONLY <1>5, n = Cardinality(S) DEF Sorts
<1>7. \A i \in 1..n : d[i] \in S /\ v[d[i]] = notes[d[i]].value
    BY ONLY <1>1, <1>6, v = [m \in S |-> notes[m].value]
<1>8. \A i, j \in 1..n : i < j => notes[d[i]].value >= notes[d[j]].value
    BY ONLY <1>6, <1>7
<1> QED
    BY <1>1, <1>6, <1>8

\* The first k notes of S: as many, and none left is worth more.
Leading(s, S, k) ==
    /\ s \in Seq(S) /\ Len(s) = k /\ ToSet(s) \in SUBSET S
    /\ IsFiniteSet(ToSet(s)) /\ Cardinality(ToSet(s)) = k
    /\ k # 0 => \E v \in Nat : /\ \A a \in ToSet(s) : notes[a].value >= v
                              /\ \A b \in S \ ToSet(s) : notes[b].value <= v

LEMMA FirstOf ==
    ASSUME notes \in Seq(Note), NEW S, S \in SUBSET (1..Len(notes)),
           NEW order, order = Descending(S), NEW k, k \in 0..Len(order),
           NEW s, s = SubSeq(order, 1, k)
    PROVE  Leading(s, S, k)
<1> PICK n, T : n = Cardinality(S) /\ T = ToSet(s)
    OBVIOUS
<1>1. /\ n \in Nat /\ order \in Seq(S) /\ Len(order) = n
      /\ \A i, j \in 1..n : order[i] = order[j] => i = j
      /\ \A m \in S : \E i \in 1..n : order[i] = m
      /\ \A i, j \in 1..n : i < j => notes[order[i]].value >= notes[order[j]].value
    BY ONLY notes \in Seq(Note), S \in SUBSET (1..Len(notes)), n = Cardinality(S), order = Descending(S),
            DescendingIs
<1>2. k \in Nat /\ k <= n
    BY ONLY <1>1, k \in 0..Len(order)
<1>3. s \in Seq(S) /\ Len(s) = k /\ \A i \in 1..k : s[i] = order[i]
    BY ONLY <1>1, <1>2, s = SubSeq(order, 1, k)
<1>4. T = {order[i] : i \in 1..k}
    <2>1. ToSet(s) = {s[i] : i \in 1..Len(s)}
        BY ONLY <1>3, MembersAre
    <2> QED
        BY ONLY <1>3, <2>1, T = ToSet(s)
<1>5. \A i \in 1..k : i \in 1..n
    BY ONLY <1>1, <1>2
<1>6. \A i \in 1..n : order[i] \in S
    BY ONLY <1>1
<1>7. T \in SUBSET S
    BY ONLY <1>4, <1>5, <1>6
<1>8. IsFiniteSet(T) /\ Cardinality(T) = k
    <2> PICK f : f = [i \in 1..k |-> order[i]]
        OBVIOUS
    <2>1. f \in Bijection(1..k, T)
        <3>1. f \in [1..k -> T] /\ \A t \in T : \E i \in 1..k : f[i] = t
            BY ONLY <1>4, f = [i \in 1..k |-> order[i]]
        <3>2. \A i, j \in 1..k : f[i] = f[j] => i = j
            BY ONLY <1>1, <1>5, f = [i \in 1..k |-> order[i]]
        <3> QED
            BY ONLY <3>1, <3>2 DEF Bijection, Injection, Surjection, IsInjective
    <2>2. IsFiniteSet(1..k) /\ Cardinality(1..k) = k
        <3>1. 1 \in Int /\ k \in Int /\ (IF 1 > k THEN 0 ELSE k - 1 + 1) = k
            BY ONLY <1>2
        <3> QED
            BY ONLY <3>1, FS_Interval
    <2>3. ExistsBijection(1..k, T)
        BY ONLY <2>1 DEF ExistsBijection
    <2> QED
        BY ONLY <2>2, <2>3, FS_Bijection
<1>9. ASSUME k # 0
      PROVE  \E v \in Nat : /\ \A a \in T : notes[a].value >= v
                            /\ \A b \in S \ T : notes[b].value <= v
    <2> PICK v : v = notes[order[k]].value
        OBVIOUS
    <2>1. k \in 1..k /\ k \in 1..n
        BY ONLY <1>1, <1>2, <1>9
    <2>2. \A m \in S : notes[m].value \in Nat
        <3>1. \A m \in S : notes[m] \in Note
            BY ONLY notes \in Seq(Note), S \in SUBSET (1..Len(notes))
        <3> QED
            BY ONLY <3>1 DEF Note
    <2>3. v \in Nat
        BY ONLY <1>6, <2>1, <2>2, v = notes[order[k]].value
    <2>4. ASSUME NEW a \in T PROVE notes[a].value >= v
        <3>1. PICK i \in 1..k : a = order[i]
            BY <1>4
        <3>2. CASE i = k
            BY ONLY <2>3, <3>1, <3>2, v = notes[order[k]].value
        <3>3. CASE i # k
            <4>1. i < k /\ i \in 1..n
                BY ONLY <1>2, <1>5, <3>1, <3>3
            <4> QED
                BY ONLY <1>1, <2>1, <3>1, <4>1, v = notes[order[k]].value
        <3> QED
            BY <3>2, <3>3
    <2>5. ASSUME NEW b \in S \ T PROVE notes[b].value <= v
        <3>1. PICK i \in 1..n : order[i] = b
            BY <1>1
        <3>2. i \notin 1..k
            BY ONLY <1>4, <3>1, b \in S \ T
        <3>3. k < i
            BY ONLY <1>1, <1>2, <3>1, <3>2
        <3>4. v >= notes[b].value
            BY ONLY <1>1, <2>1, <3>1, <3>3, v = notes[order[k]].value
        <3> QED
            BY ONLY <2>2, <2>3, <3>4, b \in S \ T
    <2> QED
        BY <2>3, <2>4, <2>5
<1> QED
    BY ONLY <1>3, <1>7, <1>8, <1>9, T = ToSet(s) DEF Leading

\* One of two sets of as many notes is worth no less when what it alone has is worth no
\* less, note by note, than what the other alone has.
LEMMA Outweighs ==
    ASSUME notes \in Seq(Note), NEW S, S \in SUBSET (1..Len(notes)), NEW T, T \in SUBSET (1..Len(notes)),
           Cardinality(S) = Cardinality(T), NEW v \in Nat,
           \A a \in T \ S : notes[a].value >= v, \A b \in S \ T : notes[b].value <= v
    PROVE  Sum(S) <= Sum(T)
<1> PICK n : n = Len(notes)
    OBVIOUS
<1>1. n \in Nat /\ \A i \in 1..n : notes[i].value \in Nat
    <2>1. \A i \in 1..n : notes[i] \in Note
        OBVIOUS
    <2> QED
        BY <2>1 DEF Note
<1>2. PICK f \in [0..n -> Nat] : Adding(f, S) /\ Sum(S) = f[n]
    BY SumIs
<1>3. PICK g \in [0..n -> Nat] : Adding(g, T) /\ Sum(T) = g[n]
    BY SumIs
<1> DEFINE upTo(U, i) == U \cap (1..i)
           c(U, i) == v * Cardinality(upTo(U, i))
<1>4. ASSUME NEW U, U \in SUBSET (1..n)
      PROVE  /\ c(U, 0) = 0 /\ c(U, n) = v * Cardinality(U)
             /\ \A i \in 0..n : c(U, i) \in Nat
             /\ \A i \in 1..n : c(U, i) = c(U, i - 1) + (IF i \in U THEN v ELSE 0)
    <2>1. \A i \in 0..n : IsFiniteSet(upTo(U, i)) /\ Cardinality(upTo(U, i)) \in Nat
        <3> SUFFICES ASSUME NEW i \in 0..n PROVE IsFiniteSet(upTo(U, i)) /\ Cardinality(upTo(U, i)) \in Nat
            OBVIOUS
        <3>1. IsFiniteSet(1..i)
            BY FS_Interval
        <3>2. IsFiniteSet(upTo(U, i))
            BY <3>1, FS_Intersection
        <3> QED
            BY <3>2, FS_CardinalityType
    <2>2. upTo(U, 0) = {} /\ upTo(U, n) = U
        BY <1>1, <1>4
    <2>3. Cardinality({}) = 0
        BY FS_EmptySet
    <2>4. ASSUME NEW i \in 1..n
          PROVE  Cardinality(upTo(U, i)) = Cardinality(upTo(U, i - 1)) + (IF i \in U THEN 1 ELSE 0)
        <3>1. i - 1 \in 0..n
            BY <1>1
        <3>2. CASE i \in U
            <4>1. upTo(U, i) = upTo(U, i - 1) \cup {i} /\ i \notin upTo(U, i - 1)
                BY <1>1, <3>2
            <4> HIDE DEF upTo
            <4>2. IsFiniteSet(upTo(U, i - 1))
                BY <2>1, <3>1
            <4> PICK more, less : more = upTo(U, i) /\ less = upTo(U, i - 1)
                OBVIOUS
            <4>3. IsFiniteSet(less) /\ i \notin less /\ more = less \cup {i}
                BY ONLY <4>1, <4>2, more = upTo(U, i), less = upTo(U, i - 1)
            <4>4. Cardinality(less \cup {i}) = Cardinality(less) + 1
                BY ONLY <4>3, FS_AddElement
            <4> QED
                BY ONLY <3>2, <4>3, <4>4, more = upTo(U, i), less = upTo(U, i - 1)
        <3>3. CASE i \notin U
            <4>1. upTo(U, i) = upTo(U, i - 1)
                BY <1>1, <3>3
            <4> HIDE DEF upTo
            <4>2. Cardinality(upTo(U, i - 1)) \in Nat
                BY <2>1, <3>1
            <4> QED
                BY <3>3, <4>1, <4>2
        <3> QED
            BY <3>2, <3>3
    <2> HIDE DEF upTo
    <2>5. \A i \in 1..n : c(U, i) = c(U, i - 1) + (IF i \in U THEN v ELSE 0)
        <3> SUFFICES ASSUME NEW i \in 1..n
                     PROVE  c(U, i) = c(U, i - 1) + (IF i \in U THEN v ELSE 0)
            OBVIOUS
        <3>1. i - 1 \in 0..n
            BY <1>1
        <3> PICK a, b : a = Cardinality(upTo(U, i)) /\ b = Cardinality(upTo(U, i - 1))
            OBVIOUS
        <3>2. b \in Nat /\ a = b + (IF i \in U THEN 1 ELSE 0)
            BY <2>1, <2>4, <3>1
        <3>3. v * a = v * b + (IF i \in U THEN v ELSE 0)
            <4>1. v * (b + 1) = v * b + v /\ v * (b + 0) = v * b + 0
                BY ONLY <3>2, v \in Nat
            <4> QED
                BY ONLY <3>2, <4>1, v \in Nat
        <3> QED
            BY <3>3
    <2>6. \A i \in 0..n : c(U, i) \in Nat
        BY <2>1
    <2>7. c(U, 0) = 0
        <3>1. Cardinality(upTo(U, 0)) = 0
            BY ONLY <2>2, <2>3
        <3>2. v * 0 = 0
            BY ONLY v \in Nat
        <3> QED
            BY ONLY <3>1, <3>2
    <2> QED
        BY <2>2, <2>5, <2>6, <2>7
<1> HIDE DEF c
<1> PICK p, q : p = [i \in 0..n |-> c(S, i)] /\ q = [i \in 0..n |-> c(T, i)]
    OBVIOUS
<1>5. /\ S \in SUBSET (1..n) /\ T \in SUBSET (1..n)
    OBVIOUS
<1>6. /\ p \in [0..n -> Nat] /\ p[0] = 0 /\ p[n] = v * Cardinality(S)
      /\ \A i \in 1..n : p[i] = p[i - 1] + (IF i \in S THEN v ELSE 0)
    <2>1. 0 \in 0..n /\ n \in 0..n /\ \A i \in 1..n : i \in 0..n /\ i - 1 \in 0..n
        BY ONLY <1>1
    <2>2. /\ c(S, 0) = 0 /\ c(S, n) = v * Cardinality(S)
          /\ \A i \in 0..n : c(S, i) \in Nat
          /\ \A i \in 1..n : c(S, i) = c(S, i - 1) + (IF i \in S THEN v ELSE 0)
        BY ONLY <1>4, <1>5
    <2>3. \A i \in 0..n : p[i] = c(S, i)
        BY ONLY p = [i \in 0..n |-> c(S, i)]
    <2>4. p \in [0..n -> Nat]
        BY ONLY <2>2, p = [i \in 0..n |-> c(S, i)]
    <2>5. \A i \in 1..n : p[i] = p[i - 1] + (IF i \in S THEN v ELSE 0)
        <3> SUFFICES ASSUME NEW i \in 1..n
                     PROVE  p[i] = p[i - 1] + (IF i \in S THEN v ELSE 0)
            OBVIOUS
        <3>1. p[i] = c(S, i) /\ p[i - 1] = c(S, i - 1)
            BY ONLY <2>1, <2>3, i \in 1..n
        <3>2. c(S, i) = c(S, i - 1) + (IF i \in S THEN v ELSE 0)
            BY ONLY <2>2, i \in 1..n
        <3> QED
            BY ONLY <3>1, <3>2
    <2> QED
        BY ONLY <2>1, <2>2, <2>3, <2>4, <2>5
<1>7. /\ q \in [0..n -> Nat] /\ q[0] = 0 /\ q[n] = v * Cardinality(T)
      /\ \A i \in 1..n : q[i] = q[i - 1] + (IF i \in T THEN v ELSE 0)
    <2>1. 0 \in 0..n /\ n \in 0..n /\ \A i \in 1..n : i \in 0..n /\ i - 1 \in 0..n
        BY ONLY <1>1
    <2>2. /\ c(T, 0) = 0 /\ c(T, n) = v * Cardinality(T)
          /\ \A i \in 0..n : c(T, i) \in Nat
          /\ \A i \in 1..n : c(T, i) = c(T, i - 1) + (IF i \in T THEN v ELSE 0)
        BY ONLY <1>4, <1>5
    <2>3. \A i \in 0..n : q[i] = c(T, i)
        BY ONLY q = [i \in 0..n |-> c(T, i)]
    <2>4. q \in [0..n -> Nat]
        BY ONLY <2>2, q = [i \in 0..n |-> c(T, i)]
    <2>5. \A i \in 1..n : q[i] = q[i - 1] + (IF i \in T THEN v ELSE 0)
        <3> SUFFICES ASSUME NEW i \in 1..n
                     PROVE  q[i] = q[i - 1] + (IF i \in T THEN v ELSE 0)
            OBVIOUS
        <3>1. q[i] = c(T, i) /\ q[i - 1] = c(T, i - 1)
            BY ONLY <2>1, <2>3, i \in 1..n
        <3>2. c(T, i) = c(T, i - 1) + (IF i \in T THEN v ELSE 0)
            BY ONLY <2>2, i \in 1..n
        <3> QED
            BY ONLY <3>1, <3>2
    <2> QED
        BY ONLY <2>1, <2>2, <2>3, <2>4, <2>5
<1> DEFINE A == {i \in 0..n : f[i] + q[i] <= g[i] + p[i]}
<1>8. 0 \in A /\ A \in SUBSET (0..n)
    BY <1>1, <1>2, <1>3, <1>6, <1>7 DEF Adding
<1>9. ASSUME NEW i \in 1..n, i - 1 \in A PROVE i \in A
    <2>1. i \in 0..n /\ i - 1 \in 0..n
        BY <1>1
    <2> PICK w, f0, g0, p0, q0 : w = notes[i].value /\ f0 = f[i - 1] /\ g0 = g[i - 1] /\ p0 = p[i - 1] /\ q0 = q[i - 1]
        OBVIOUS
    <2>2. f0 \in Nat /\ g0 \in Nat /\ p0 \in Nat /\ q0 \in Nat /\ w \in Nat /\ f0 + q0 <= g0 + p0
        BY <1>1, <1>2, <1>3, <1>6, <1>7, <1>9, <2>1
    <2>3. f[i] = f0 + (IF i \in S THEN w ELSE 0) /\ g[i] = g0 + (IF i \in T THEN w ELSE 0)
        BY <1>2, <1>3 DEF Adding
    <2>4. p[i] = p0 + (IF i \in S THEN v ELSE 0) /\ q[i] = q0 + (IF i \in T THEN v ELSE 0)
        BY <1>6, <1>7
    <2>5. /\ i \in T /\ i \notin S => w >= v
          /\ i \in S /\ i \notin T => w <= v
        OBVIOUS
    <2>6. f[i] + q[i] <= g[i] + p[i]
        BY ONLY <2>2, <2>3, <2>4, <2>5, v \in Nat
    <2> QED
        BY <2>1, <2>6
<1>10. n \in A
    <2> HIDE DEF A
    <2>1. A = 0..n
        BY <1>1, <1>8, <1>9, CarriedAlong
    <2> QED
        BY <1>1, <2>1
<1>11. f[n] + q[n] <= g[n] + p[n] /\ p[n] = q[n]
    BY <1>6, <1>7, <1>10
<1>12. f[n] \in Nat /\ g[n] \in Nat /\ p[n] \in Nat
    <2>1. n \in 0..n
        BY <1>1
    <2> QED
        BY <1>2, <1>3, <1>6, <2>1
<1> QED
    BY ONLY <1>2, <1>3, <1>11, <1>12

\* A note taken away takes its value.
LEMMA SumWithout ==
    ASSUME notes \in Seq(Note), NEW S, S \in SUBSET (1..Len(notes)), NEW m, m \in S
    PROVE  Sum(S) = Sum(S \ {m}) + notes[m].value
<1> PICK n, T, v : n = Len(notes) /\ T = S \ {m} /\ v = notes[m].value
    OBVIOUS
<1>1. n \in Nat /\ m \in 1..n /\ v \in Nat /\ \A i \in 1..n : notes[i].value \in Nat
    <2>1. \A i \in 1..n : notes[i] \in Note
        OBVIOUS
    <2> QED
        BY <2>1 DEF Note
<1>2. PICK f \in [0..n -> Nat] : Adding(f, S) /\ Sum(S) = f[n]
    BY SumIs
<1>3. PICK g \in [0..n -> Nat] : Adding(g, T) /\ Sum(T) = g[n]
    BY SumIs
<1> DEFINE A == {i \in 0..n : f[i] = g[i] + (IF m <= i THEN v ELSE 0)}
<1>4. 0 \in A /\ A \in SUBSET (0..n)
    BY <1>1, <1>2, <1>3 DEF Adding
<1>5. ASSUME NEW i \in 1..n, i - 1 \in A PROVE i \in A
    <2>1. i \in 0..n /\ i - 1 \in 0..n
        BY <1>1
    <2> PICK w, f0, g0 : w = notes[i].value /\ f0 = f[i - 1] /\ g0 = g[i - 1]
        OBVIOUS
    <2>2. f0 \in Nat /\ g0 \in Nat /\ w \in Nat /\ f0 = g0 + (IF m <= i - 1 THEN v ELSE 0)
        BY <1>1, <1>2, <1>3, <1>5, <2>1
    <2>3. f[i] = f0 + (IF i \in S THEN w ELSE 0) /\ g[i] = g0 + (IF i \in T THEN w ELSE 0)
        BY <1>2, <1>3 DEF Adding
    <2>4. CASE i = m
        <3>1. i \in S /\ i \notin T /\ w = v /\ m <= i /\ ~(m <= i - 1)
            BY <1>1, <2>4
        <3> QED
            BY <1>1, <2>1, <2>2, <2>3, <3>1
    <2>5. CASE i # m
        <3>1. (i \in S <=> i \in T) /\ (m <= i <=> m <= i - 1)
            BY <1>1, <2>1, <2>5
        <3> QED
            BY <1>1, <2>1, <2>2, <2>3, <3>1
    <2> QED
        BY <2>4, <2>5
<1>6. n \in A
    <2> HIDE DEF A
    <2>1. A = 0..n
        BY <1>1, <1>4, <1>5, CarriedAlong
    <2> QED
        BY <1>1, <2>1
<1> QED
    BY <1>1, <1>2, <1>3, <1>6

\* What a partition pays with: enough, and no more notes than any others would take.
LEMMA CoverIs ==
    ASSUME notes \in Seq(Note), Held \subseteq 1..Len(notes), NEW part, NEW amount \in Nat,
           NEW c, c = Cover(part, amount)
    PROVE  /\ c \in Seq(Pool(part)) /\ ToSet(c) \in SUBSET Pool(part)
           /\ Cardinality(ToSet(c)) = Len(c)
           /\ c # <<>> => Sum(ToSet(c)) >= amount
           /\ amount > 0 => \A S \in SUBSET Pool(part) :
                                Sum(S) >= amount => c # <<>> /\ Len(c) <= Cardinality(S)
<1> PICK P, order, n : P = Pool(part) /\ order = Descending(P) /\ n = Len(order)
    OBVIOUS
<1> DEFINE enough == {k \in 0..n : Sum(ToSet(SubSeq(order, 1, k))) >= amount}
           front(k) == ToSet(SubSeq(order, 1, k))
<1>1. P \in SUBSET (1..Len(notes))
    BY DEF Pool, UnspentNotes, Held
<1>2. order \in Seq(P) /\ n = Cardinality(P) /\ n \in Nat /\ IsFiniteSet(P)
    <2>1. /\ IsFiniteSet(P) /\ Cardinality(P) \in Nat
          /\ Descending(P) \in Seq(P) /\ Len(Descending(P)) = Cardinality(P)
        <3> PICK m : m = Cardinality(P)
            OBVIOUS
        <3>1. /\ IsFiniteSet(P) /\ m \in Nat
              /\ Descending(P) \in Seq(P) /\ Len(Descending(P)) = m
            BY ONLY notes \in Seq(Note), <1>1, m = Cardinality(P), DescendingIs
        <3> QED
            BY ONLY <3>1, m = Cardinality(P)
    <2> QED
        BY ONLY <2>1, order = Descending(P), n = Len(order)
<1>3. c = IF enough = {} THEN <<>>
          ELSE SubSeq(order, 1, CHOOSE k \in enough : \A j \in enough : k <= j)
    BY DEF Cover, SpendingOrder
<1>4. ASSUME NEW k \in 0..n
      PROVE  /\ SubSeq(order, 1, k) \in Seq(P) /\ Len(SubSeq(order, 1, k)) = k
             /\ front(k) \in SUBSET P /\ IsFiniteSet(front(k)) /\ Cardinality(front(k)) = k
             /\ k # 0 => \E v \in Nat : /\ \A a \in front(k) : notes[a].value >= v
                                       /\ \A b \in P \ front(k) : notes[b].value <= v
    <2> PICK s : s = SubSeq(order, 1, k)
        OBVIOUS
    <2>1. k \in 0..Len(order)
        OBVIOUS
    <2>2. Leading(s, P, k)
        BY ONLY notes \in Seq(Note), <1>1, <2>1, order = Descending(P), s = SubSeq(order, 1, k), FirstOf
    <2> QED
        BY ONLY <2>2, s = SubSeq(order, 1, k) DEF Leading
<1>5. ASSUME amount > 0, NEW S \in SUBSET P, Sum(S) >= amount
      PROVE  Cardinality(S) \in enough
    <2> PICK k, T : k = Cardinality(S) /\ T = front(k)
        OBVIOUS
    <2>1. k \in Nat /\ k <= n
        <3>1. k <= n /\ IsFiniteSet(S)
            BY ONLY <1>2, S \in SUBSET P, k = Cardinality(S), FS_Subset
        <3> QED
            BY ONLY <3>1, k = Cardinality(S), FS_CardinalityType
    <2>2. k \in 0..n
        BY ONLY <1>2, <2>1
    <2>3. k # 0
        <3> SUFFICES ASSUME k = 0 PROVE FALSE
            OBVIOUS
        <3>1. IsFiniteSet(S)
            BY ONLY <1>2, S \in SUBSET P, FS_Subset
        <3>2. S = {}
            BY ONLY <3>1, k = 0, k = Cardinality(S), FS_EmptySet
        <3>3. Sum(S) = 0
            BY ONLY <3>2, notes \in Seq(Note), SumOfNone
        <3> QED
            BY ONLY <1>5, <3>3, amount \in Nat
    <2>4. PICK v \in Nat : /\ \A a \in T : notes[a].value >= v
                           /\ \A b \in P \ T : notes[b].value <= v
        BY <1>4, <2>2, <2>3
    <2>5. T \in SUBSET P /\ Cardinality(T) = k
        BY <1>4, <2>2
    <2>7. Sum(S) <= Sum(T)
        <3>1. /\ \A a \in T \ S : notes[a].value >= v
              /\ \A b \in S \ T : notes[b].value <= v
            BY ONLY <1>1, <2>4, <2>5, S \in SUBSET P
        <3>2. S \in SUBSET (1..Len(notes)) /\ T \in SUBSET (1..Len(notes)) /\ Cardinality(S) = Cardinality(T)
            BY ONLY <1>1, <2>5, S \in SUBSET P, k = Cardinality(S)
        <3> QED
            BY ONLY <3>1, <3>2, notes \in Seq(Note), v \in Nat, Outweighs
    <2>8. Sum(T) >= amount
        <3>1. Sum(S) \in Nat /\ Sum(T) \in Nat
            BY ONLY notes \in Seq(Note), SumNat
        <3> QED
            BY ONLY <1>5, <2>7, <3>1, amount \in Nat
    <2> QED
        BY ONLY <2>2, <2>8, T = front(k), k = Cardinality(S)
<1>6. CASE enough = {}
    <2>1. c = <<>>
        BY <1>3, <1>6
    <2>2. ToSet(c) = {} /\ Len(c) = 0 /\ c \in Seq(P)
        BY ONLY <2>1 DEF ToSet
    <2>3. Cardinality(ToSet(c)) = Len(c)
        BY ONLY <2>2, FS_EmptySet
    <2>4. amount > 0 => \A S \in SUBSET P : ~(Sum(S) >= amount)
        BY <1>5, <1>6
    <2> QED
        BY <2>1, <2>2, <2>3, <2>4
<1>7. CASE enough # {}
    <2> PICK k : k = CHOOSE i \in enough : \A j \in enough : i <= j
        OBVIOUS
    <2>1. k \in enough /\ \A j \in enough : k <= j
        <3>1. enough \in SUBSET Nat
            OBVIOUS
        <3> HIDE DEF enough
        <3>2. \E i \in enough : \A j \in enough : i <= j
            BY ONLY <1>7, <3>1, LeastOfSome
        <3> QED
            BY <3>2
    <2>2. c = SubSeq(order, 1, k) /\ k \in 0..n
        BY <1>3, <1>7, <2>1
    <2>3. /\ c \in Seq(P) /\ Len(c) = k /\ ToSet(c) \in SUBSET P /\ Cardinality(ToSet(c)) = k
        <3>1. /\ SubSeq(order, 1, k) \in Seq(P) /\ Len(SubSeq(order, 1, k)) = k
              /\ front(k) \in SUBSET P /\ Cardinality(front(k)) = k
            BY ONLY <1>4, <2>2
        <3> QED
            BY ONLY <2>2, <3>1
    <2>4. Sum(ToSet(c)) >= amount
        BY <2>1, <2>2
    <2>5. ASSUME amount > 0, NEW S \in SUBSET P, Sum(S) >= amount
          PROVE  c # <<>> /\ Len(c) <= Cardinality(S)
        <3>1. k <= Cardinality(S)
            BY <1>5, <2>1, <2>5
        <3>2. c # <<>>
            <4> SUFFICES ASSUME c = <<>> PROVE FALSE
                OBVIOUS
            <4>1. ToSet(c) = {}
                BY ONLY c = <<>> DEF ToSet
            <4>2. Sum(ToSet(c)) = 0
                BY ONLY <4>1, notes \in Seq(Note), SumOfNone
            <4> QED
                BY ONLY <2>4, <2>5, <4>2, amount \in Nat
        <3> QED
            BY ONLY <2>3, <3>1, <3>2
    <2> QED
        BY ONLY <2>3, <2>4, <2>5, P = Pool(part)
<1> QED
    BY <1>6, <1>7

\* The partition chosen: one that can pay, and none needs fewer notes.
LEMMA SelectIs ==
    ASSUME notes \in Seq(Note), Held \subseteq 1..Len(notes), NEW amount \in Nat,
           NEW chosen, chosen = Select(amount)
    PROVE  /\ chosen # <<>> => \E part \in Grids : /\ chosen = Cover(part, amount)
                                                   /\ Len(chosen) \in 1..MaxInputs
           /\ \A part \in Grids : Len(Cover(part, amount)) \in 1..MaxInputs =>
                 chosen # <<>> /\ Len(chosen) <= Len(Cover(part, amount))
<1> PICK covers, totals : /\ covers = [g \in Grids |-> Cover(g, amount)]
                          /\ totals = [g \in Grids |-> Sum(ToSet(Cover(g, amount)))]
    OBVIOUS
<1> DEFINE able == {g \in Grids : Len(covers[g]) \in 1..MaxInputs}
           before(a, b) == \/ Len(covers[a]) < Len(covers[b])
                           \/ Len(covers[a]) = Len(covers[b]) /\ totals[a] < totals[b]
                           \/ Len(covers[a]) = Len(covers[b]) /\ totals[a] = totals[b] /\ a <= b
<1>1. chosen = IF able = {} THEN <<>>
               ELSE covers[CHOOSE g \in able : \A other \in able : before(g, other)]
    <2>1. totals = [g \in Grids |-> Sum(ToSet(covers[g]))]
        OBVIOUS
    <2> QED
        BY ONLY <2>1, covers = [g \in Grids |-> Cover(g, amount)], chosen = Select(amount) DEF Select
<1>2. \A g \in able : Len(covers[g]) \in Nat /\ totals[g] \in Nat /\ g \in Nat
    <2>1. \A g \in Grids : totals[g] \in Nat /\ g \in Nat
        BY SumNat, WalletAssumption
    <2> QED
        BY <2>1
<1>3. ASSUME able # {} PROVE \E g \in able : \A other \in able : before(g, other)
    <2> DEFINE L == {Len(covers[g]) : g \in able}
    <2>1. PICK l \in L : \A m \in L : l <= m
        <3>1. L \in SUBSET Nat /\ L # {}
            BY <1>2, <1>3
        <3> HIDE DEF L
        <3> QED
            BY <3>1, LeastOfSome
    <2> DEFINE A == {g \in able : Len(covers[g]) = l}
               W == {totals[g] : g \in A}
    <2>2. A # {}
        BY <2>1
    <2>3. PICK w \in W : \A m \in W : w <= m
        <3>1. W \in SUBSET Nat /\ W # {}
            BY <1>2, <2>2
        <3> HIDE DEF W
        <3> QED
            BY <3>1, LeastOfSome
    <2> DEFINE B == {g \in A : totals[g] = w}
    <2>4. PICK h \in B : \A m \in B : h <= m
        <3>1. B \in SUBSET Nat /\ B # {}
            BY <1>2, <2>3
        <3> HIDE DEF B
        <3> QED
            BY <3>1, LeastOfSome
    <2>5. h \in able /\ Len(covers[h]) = l /\ totals[h] = w
        BY <2>4
    <2>6. ASSUME NEW other \in able PROVE before(h, other)
        <3>1. l <= Len(covers[other]) /\ Len(covers[other]) \in Nat /\ l \in Nat
            BY <1>2, <2>1, <2>5
        <3>2. CASE l < Len(covers[other])
            BY <2>5, <3>2
        <3>3. CASE l = Len(covers[other])
            <4>1. other \in A
                BY <3>3
            <4>2. w <= totals[other] /\ totals[other] \in Nat /\ w \in Nat
                BY <1>2, <2>3, <2>5, <4>1
            <4>3. CASE w < totals[other]
                BY <2>5, <3>3, <4>3
            <4>4. CASE w = totals[other]
                <5>1. h <= other
                    BY <2>4, <4>1, <4>4
                <5> QED
                    BY <2>5, <3>3, <4>4, <5>1
            <4> QED
                BY ONLY <4>2, <4>3, <4>4
        <3> QED
            BY ONLY <3>1, <3>2, <3>3
    <2> QED
        BY <2>5, <2>6
<1>4. CASE able = {}
    <2>1. chosen = <<>>
        BY <1>1, <1>4
    <2> QED
        BY <1>4, <2>1
<1>5. CASE able # {}
    <2> PICK g : g = CHOOSE h \in able : \A other \in able : before(h, other)
        OBVIOUS
    <2>1. g \in able /\ \A other \in able : before(g, other)
        <3> HIDE DEF able, before
        <3> QED
            BY <1>3, <1>5
    <2>2. chosen = covers[g] /\ g \in Grids /\ chosen = Cover(g, amount) /\ Len(chosen) \in 1..MaxInputs
        BY <1>1, <1>5, <2>1
    <2>3. chosen # <<>>
        BY ONLY <2>2
    <2>4. \A part \in Grids : Len(Cover(part, amount)) \in 1..MaxInputs => Len(chosen) <= Len(Cover(part, amount))
        <3> SUFFICES ASSUME NEW part \in Grids, Len(Cover(part, amount)) \in 1..MaxInputs
                     PROVE  Len(chosen) <= Len(Cover(part, amount))
            OBVIOUS
        <3>1. part \in able /\ covers[part] = Cover(part, amount)
            OBVIOUS
        <3>2. before(g, part)
            BY <2>1, <3>1
        <3>3. Len(covers[g]) \in Nat /\ Len(covers[part]) \in Nat
            BY <1>2, <2>1, <3>1
        <3>4. Len(covers[g]) <= Len(covers[part])
            BY ONLY <3>2, <3>3
        <3> QED
            BY <2>2, <3>1, <3>4
    <2> QED
        BY <2>2, <2>3, <2>4
<1> QED
    BY <1>4, <1>5

LEMMA HeldNow ==
    ASSUME WalletInv
    PROVE  notes \in Seq(Note) /\ Held \subseteq 1..Len(notes) /\ \A tx \in wallet.sent : PaymentOK(tx, notes)
BY DEF WalletInv, WalletTypes

\* A step of what the wallet has sent.
LEMMA SentStep ==
    ASSUME WalletInv, NEW sent, \A tx \in sent : PaymentOK(tx, notes),
           wallet' = [wallet EXCEPT !.sent = sent], UNCHANGED <<notes, blocks, committed, light, page>>
    PROVE  WalletInv'
<1>1. {"held", "scanned", "sent"} \subseteq DOMAIN wallet /\ committed \in Nat
    BY DEF WalletInv, WalletTypes
<1>2. {"held", "scanned", "sent"} \subseteq DOMAIN wallet' /\ wallet'.held = wallet.held /\ wallet'.sent = sent
    BY <1>1
<1>3. PageFits(page') /\ committed' \in Nat
    BY <1>1, PageFitsNow DEF PageFits
<1>4. /\ DOMAIN wallet'.held \subseteq 1..Len(notes) /\ Held \subseteq DOMAIN wallet'.held
      /\ \A n \in Held : wallet.held[n] # Unspent => wallet'.held[n] # Unspent
      /\ \A tx \in wallet'.sent : PaymentOK(tx, notes)
    BY <1>2, HeldNow DEF Held
<1>5. WalletFits(wallet') /\ UNCHANGED <<notes, blocks, light>>
    BY <1>2, <1>4 DEF WalletFits
<1> QED
    BY ONLY WalletInv, <1>3, <1>5, HoldingStep

LEMMA ReceivePaymentOK ==
    ASSUME WalletInv, NEW note \in Incoming, ReceivePayment(note)
    PROVE  WalletInv'
<1> PICK gone, made : gone = <<>> /\ made = <<note>>
    OBVIOUS
<1>1. gone \in Seq(Nat) /\ ToSet(gone) = {} /\ made \in Seq(Note) /\ made # <<>>
    <2>1. note \in Note
        BY WalletAssumption DEF Note
    <2>2. ToSet(<<>>) = {} /\ <<>> \in Seq(Nat)
        BY DEF ToSet
    <2>3. <<note>> \in Seq(Note) /\ Len(<<note>>) = 1 /\ Len(<<>>) = 0
        BY ONLY <2>1
    <2>4. <<note>> # <<>>
        BY ONLY <2>3
    <2> QED
        BY <2>2, <2>3, <2>4
<1>2. Apply(gone, made) /\ wallet' = wallet
    BY DEF ReceivePayment
<1>3. {"held", "scanned", "sent"} \subseteq DOMAIN wallet' /\ ToSet(gone) \subseteq OnChain("made")
    BY <1>1, <1>2 DEF WalletInv, WalletTypes
<1> QED
    BY ONLY WalletInv, <1>1, <1>2, <1>3, ApplyOK

LEMMA IncludeOK ==
    ASSUME WalletInv, NEW tx \in wallet.sent, Include(tx)
    PROVE  WalletInv'
<1> PICK gone, made : gone = tx.ins /\ made = tx.outs
    OBVIOUS
<1>1. gone \in Seq(Nat) /\ made \in Seq(Note) /\ made # <<>>
    BY HeldNow DEF PaymentOK
<1>2. /\ Apply(gone, made) /\ ToSet(gone) \subseteq OnChain("made")
      /\ wallet' = [wallet EXCEPT !.sent = @ \ {tx}]
    BY DEF Include
<1>3. /\ {"held", "scanned", "sent"} \subseteq DOMAIN wallet' /\ wallet'.held = wallet.held
      /\ wallet'.sent \subseteq wallet.sent
    BY <1>2 DEF WalletInv, WalletTypes
<1> QED
    BY ONLY WalletInv, <1>1, <1>2, <1>3, ApplyOK

LEMMA ForgetOK ==
    ASSUME WalletInv, NEW tx \in wallet.sent, Forget(tx)
    PROVE  WalletInv'
<1> PICK sent : sent = wallet.sent \ {tx}
    OBVIOUS
<1>1. wallet' = [wallet EXCEPT !.sent = sent] /\ UNCHANGED <<notes, blocks, committed, light, page>>
    BY DEF Forget
<1>2. \A other \in sent : PaymentOK(other, notes)
    BY HeldNow
<1> QED
    BY <1>1, <1>2, SentStep

LEMMA CommitOK == ASSUME WalletInv, Commit PROVE WalletInv'
<1>1. committed' = World /\ UNCHANGED <<notes, blocks, wallet, light, page>>
    BY DEF Commit
<1>2. World \in Nat
    <2>1. blocks \in Seq(Block) /\ blocks # <<>>
        BY DEF WalletInv, WalletTypes, ChainOK
    <2>2. Len(blocks) \in Nat \ {0}
        BY <2>1
    <2> QED
        BY <2>2 DEF World
<1>3. PageFits(page') /\ committed' \in Nat
    BY <1>1, <1>2, PageFitsNow DEF PageFits
<1>4. WalletFits(wallet') /\ UNCHANGED <<notes, blocks, light>>
    BY <1>1, WalletFitsNow
<1> QED
    BY ONLY WalletInv, <1>3, <1>4, HoldingStep

\* What spends notes of one partition and one asset, and gives its change back in them.
LEMMA PayingOK ==
    ASSUME notes \in Seq(Note), Held \subseteq 1..Len(notes), NEW part,
           NEW chosen, chosen \in Seq(Pool(part)), Len(chosen) <= MaxInputs,
           NEW asset, \A n \in ToSet(chosen) : notes[n].asset = asset,
           NEW outs, outs \in Seq(Note), outs # <<>>, Last(outs).part = part, Last(outs).asset = asset,
           NEW tx, tx.ins = chosen, tx.outs = outs
    PROVE  PaymentOK(tx, notes)
<1> PICK P, top : P = Pool(part) /\ top = Len(notes)
    OBVIOUS
<1>1. P \in SUBSET (1..top) /\ \A n \in P : notes[n].part = part
    BY DEF Pool, UnspentNotes, Held
<1>2. \A n \in ToSet(chosen) : n \in P
    <2>1. chosen \in Seq(P)
        OBVIOUS
    <2> QED
        BY ONLY <2>1, MembersAre
<1>3. chosen \in Seq(Nat)
    <2>1. chosen \in Seq(P) /\ \A n \in P : n \in Nat
        BY ONLY <1>1, chosen \in Seq(Pool(part)), P = Pool(part)
    <2>2. Len(chosen) \in Nat /\ chosen \in [1..Len(chosen) -> P]
        BY ONLY <2>1
    <2>3. chosen \in [1..Len(chosen) -> Nat]
        BY ONLY <2>1, <2>2
    <2> QED
        BY ONLY <2>2, <2>3
<1>4. ToSet(chosen) \subseteq 1..top /\ \A n \in ToSet(chosen) : notes[n].part = part
    BY ONLY <1>1, <1>2
<1> QED
    BY <1>3, <1>4 DEF PaymentOK

\* The first of what was chosen is a note there is.
LEMMA FirstChosen ==
    ASSUME notes \in Seq(Note), Held \subseteq 1..Len(notes), NEW part,
           NEW chosen, chosen \in Seq(Pool(part)), chosen # <<>>
    PROVE  notes[chosen[1]] \in Note /\ notes[chosen[1]].part = part /\ chosen[1] \in ToSet(chosen)
<1>1. chosen[1] \in Pool(part) /\ chosen[1] \in ToSet(chosen)
    <2> PICK P : P = Pool(part)
        OBVIOUS
    <2>1. chosen \in Seq(P)
        OBVIOUS
    <2>2. chosen[1] \in P /\ 1 \in DOMAIN chosen
        BY ONLY <2>1, chosen # <<>>
    <2>3. chosen[1] \in ToSet(chosen)
        BY ONLY <2>2 DEF ToSet
    <2> QED
        BY <2>2, <2>3
<1> QED
    BY <1>1 DEF Pool, UnspentNotes, Held

LEMMA SendOK ==
    ASSUME WalletInv, NEW amount \in Amounts, NEW theirPart \in Grids,
           Send(amount, theirPart)
    PROVE  WalletInv'
<1> PICK chosen, total, tx : /\ chosen = Select(amount + Fee) /\ total = amount + Fee
                             /\ tx = Payment(chosen, amount, theirPart)
    OBVIOUS
<1>1. notes \in Seq(Note) /\ Held \subseteq 1..Len(notes)
    BY HeldNow
<1>2. amount \in Nat /\ Fee \in Nat /\ total \in Nat
    BY WalletAssumption
<1>3. chosen # <<>> /\ Sends(tx)
    BY DEF Send
<1>4. PICK part \in Grids : chosen = Cover(part, total) /\ Len(chosen) \in 1..MaxInputs
    <2>1. chosen = Select(total)
        OBVIOUS
    <2> QED
        BY ONLY <1>1, <1>2, <1>3, <2>1, SelectIs
<1>5. chosen \in Seq(Pool(part)) /\ Sum(ToSet(chosen)) >= total /\ Len(chosen) <= MaxInputs
    <2>1. chosen \in Seq(Pool(part)) /\ Sum(ToSet(chosen)) >= total
        BY ONLY <1>1, <1>2, <1>3, <1>4, CoverIs
    <2> QED
        BY <1>4, <2>1, WalletAssumption
<1> PICK from, left, outs : /\ from = notes[chosen[1]] /\ left = Sum(ToSet(chosen)) - amount - Fee
                            /\ outs = <<Change(theirPart, amount, Other, from.asset),
                                        Change(from.part, left, from.to, from.asset)>>
    OBVIOUS
<1>6. from \in Note /\ from.part = part /\ chosen[1] \in ToSet(chosen)
    BY ONLY <1>1, <1>3, <1>5, from = notes[chosen[1]], FirstChosen
<1>7. left \in Nat
    <2>1. Sum(ToSet(chosen)) \in Nat
        BY ONLY <1>1, SumNat
    <2> QED
        BY ONLY <1>2, <1>5, <2>1, left = Sum(ToSet(chosen)) - amount - Fee, total = amount + Fee
<1>8. tx = [ins |-> chosen, outs |-> outs]
    BY DEF Payment
<1>9. tx.ins = chosen /\ tx.outs = outs
    BY ONLY <1>8
<1>10. \A n \in ToSet(chosen) : notes[n].asset = from.asset
    BY <1>3, <1>6, <1>9 DEF Sends, Builds, OneAsset
<1>11. outs \in Seq(Note) /\ outs # <<>> /\ Last(outs).part = part /\ Last(outs).asset = from.asset
    <2> PICK a, b : /\ a = Change(theirPart, amount, Other, from.asset)
                    /\ b = Change(from.part, left, from.to, from.asset)
        OBVIOUS
    <2>1. outs = <<a, b>> /\ outs[1] = a /\ outs[2] = b
        OBVIOUS
    <2>2. a.value < NoteLimit /\ b.value < NoteLimit
        <3>1. \A i \in DOMAIN outs : outs[i].value < NoteLimit
            BY <1>3, <1>9 DEF Sends, Builds
        <3>2. 1 \in DOMAIN outs /\ 2 \in DOMAIN outs
            BY ONLY <2>1
        <3> QED
            BY ONLY <2>1, <3>1, <3>2
    <2>3. a.value = amount /\ b.value = left /\ NoteLimit \in Nat
        BY WalletAssumption DEF Change
    <2>4. amount \in 0..(NoteLimit - 1) /\ left \in 0..(NoteLimit - 1)
        BY ONLY <1>2, <1>7, <2>2, <2>3
    <2>5. a \in Note /\ b \in Note /\ b.part = part /\ b.asset = from.asset
        BY <1>6, <2>4 DEF Change, Note
    <2>6. outs \in Seq(Note) /\ Len(outs) = 2 /\ outs[Len(outs)] = b /\ outs # <<>>
        BY ONLY <2>1, <2>5
    <2> QED
        BY ONLY <2>5, <2>6 DEF Last
<1>12. PaymentOK(tx, notes)
    <2> PICK asset : asset = from.asset
        OBVIOUS
    <2> QED
        BY ONLY <1>1, <1>5, <1>9, <1>10, <1>11, asset = from.asset, PayingOK
<1> PICK sent : sent = {tx}
    OBVIOUS
<1>13. wallet' = [wallet EXCEPT !.sent = sent] /\ UNCHANGED <<notes, blocks, committed, light, page>>
    BY <1>3 DEF Sends
<1>14. \A other \in sent : PaymentOK(other, notes)
    BY <1>12
<1> QED
    BY ONLY WalletInv, <1>13, <1>14, SentStep

LEMMA ConsolidateOK ==
    ASSUME WalletInv, NEW part \in Grids, Consolidate(part)
    PROVE  WalletInv'
<1> PICK P, order, k, chosen : /\ P = Pool(part) /\ order = Descending(P)
                               /\ k = Lesser(MaxInputs, Len(order)) /\ chosen = SubSeq(order, 1, k)
    OBVIOUS
<1> PICK from, left, outs, tx : /\ from = notes[chosen[1]] /\ left = Sum(ToSet(chosen)) - Fee
                                /\ outs = <<Change(part, left, from.to, from.asset)>>
                                /\ tx = [ins |-> chosen, outs |-> outs]
    OBVIOUS
<1>1. notes \in Seq(Note) /\ Held \subseteq 1..Len(notes)
    BY HeldNow
<1>2. /\ Len(chosen) >= 2 /\ Sum(ToSet(chosen)) > Fee /\ wallet' = [wallet EXCEPT !.sent = {tx}]
      /\ UNCHANGED <<notes, blocks, committed, light, page>> /\ Builds(tx)
    BY DEF Consolidate, Sends
<1>3. P \in SUBSET (1..Len(notes))
    BY <1>1 DEF Pool, UnspentNotes, Held
<1>4. Len(order) \in Nat
    <2> PICK m : m = Cardinality(P)
        OBVIOUS
    <2>1. m \in Nat /\ Len(Descending(P)) = m
        BY ONLY <1>1, <1>3, m = Cardinality(P), DescendingIs
    <2> QED
        BY ONLY <2>1, order = Descending(P)
<1>5. k \in 0..Len(order) /\ k <= MaxInputs
    BY <1>4, WalletAssumption DEF Lesser
<1>6. Leading(chosen, P, k)
    BY ONLY <1>1, <1>3, <1>5, order = Descending(P), chosen = SubSeq(order, 1, k), FirstOf
<1>7. chosen \in Seq(Pool(part)) /\ Len(chosen) <= MaxInputs /\ chosen # <<>>
    <2>1. chosen \in Seq(P) /\ Len(chosen) = k
        BY ONLY <1>6 DEF Leading
    <2>2. chosen # <<>>
        BY ONLY <1>2, <2>1
    <2> QED
        BY ONLY <1>5, <2>1, <2>2, P = Pool(part)
<1>8. from \in Note /\ chosen[1] \in ToSet(chosen)
    BY ONLY <1>1, <1>7, from = notes[chosen[1]], FirstChosen
<1>9. left \in Nat
    <2>1. Sum(ToSet(chosen)) \in Nat
        BY ONLY <1>1, SumNat
    <2>2. Fee \in Nat
        BY WalletAssumption
    <2> QED
        BY ONLY <1>2, <2>1, <2>2, left = Sum(ToSet(chosen)) - Fee
<1>10. tx.ins = chosen /\ tx.outs = outs
    OBVIOUS
<1>11. OneAsset(ToSet(chosen)) /\ \A i \in DOMAIN outs : outs[i].value < NoteLimit
    BY ONLY <1>2, <1>10 DEF Builds
<1>12. \A n \in ToSet(chosen) : notes[n].asset = from.asset
    <2>1. \A m, n \in ToSet(chosen) : notes[m].asset = notes[n].asset
        BY ONLY <1>11 DEF OneAsset
    <2> QED
        BY ONLY <1>8, <2>1, from = notes[chosen[1]]
<1>13. outs \in Seq(Note) /\ outs # <<>> /\ Last(outs).part = part /\ Last(outs).asset = from.asset
    <2> PICK a : a = Change(part, left, from.to, from.asset)
        OBVIOUS
    <2>1. outs = <<a>> /\ outs[1] = a
        OBVIOUS
    <2>2. a.value < NoteLimit
        <3>1. 1 \in DOMAIN outs
            BY ONLY <2>1
        <3> QED
            BY ONLY <1>11, <2>1, <3>1
    <2>3. a.value = left /\ NoteLimit \in Nat
        BY WalletAssumption DEF Change
    <2>4. left \in 0..(NoteLimit - 1)
        BY ONLY <1>9, <2>2, <2>3
    <2>5. a \in Note /\ a.part = part /\ a.asset = from.asset
        BY <1>8, <2>4 DEF Change, Note
    <2>6. outs \in Seq(Note) /\ Len(outs) = 1 /\ outs[Len(outs)] = a /\ outs # <<>>
        BY ONLY <2>1, <2>5
    <2> QED
        BY ONLY <2>5, <2>6 DEF Last
<1>14. PaymentOK(tx, notes)
    <2> PICK asset : asset = from.asset
        OBVIOUS
    <2> QED
        BY ONLY <1>1, <1>7, <1>10, <1>12, <1>13, asset = from.asset, PayingOK
<1> PICK sent : sent = {tx}
    OBVIOUS
<1>15. wallet' = [wallet EXCEPT !.sent = sent] /\ \A other \in sent : PaymentOK(other, notes)
    BY <1>2, <1>14
<1> QED
    BY ONLY WalletInv, <1>2, <1>15, SentStep

\* WalletInv holds of every state of every wallet, light client and node.
THEOREM WalletInvariance == WalletSpec => []WalletInv
<1>1. WalletInit => WalletInv
    BY WalletInitOK
<1>2. WalletInv /\ [WalletNext]_walletVars => WalletInv'
    <2> SUFFICES ASSUME WalletInv, [WalletNext]_walletVars PROVE WalletInv'
        OBVIOUS
    <2>1. ASSUME NEW note \in Incoming, ReceivePayment(note) PROVE WalletInv'
        BY <2>1, ReceivePaymentOK
    <2>2. ASSUME NEW tx \in wallet.sent, Include(tx) PROVE WalletInv'
        BY <2>2, IncludeOK
    <2>3. ASSUME NEW tx \in wallet.sent, Forget(tx) PROVE WalletInv'
        BY <2>3, ForgetOK
    <2>4. CASE Commit
        BY <2>4, CommitOK
    <2>5. CASE Undo
        BY <2>5, UndoOK
    <2>6. ASSUME NEW amount \in Amounts, NEW part \in Grids, Send(amount, part) PROVE WalletInv'
        BY <2>6, SendOK
    <2>7. ASSUME NEW part \in Grids, Consolidate(part) PROVE WalletInv'
        BY <2>7, ConsolidateOK
    <2>8. ASSUME NEW limit \in PageLimits, StartSync(limit) PROVE WalletInv'
        BY <2>8, StartSyncOK
    <2>9. ASSUME NEW limit \in PageLimits, StartScan(limit) PROVE WalletInv'
        BY <2>9, StartScanOK
    <2>10. CASE ReadOutputs
        BY <2>10, ReadOutputsOK
    <2>11. CASE ReadNullifiers
        BY <2>11, ReadNullifiersOK
    <2>12. CASE Answer
        BY <2>12, AnswerOK
    <2>13. CASE AnswerShort
        BY <2>13, AnswerShortOK
    <2>14. CASE TakeSynced
        BY <2>14, TakeSyncedOK
    <2>15. CASE TakeScanned
        BY <2>15, TakeScannedOK
    <2>16. CASE Follow
        BY <2>16, FollowOK
    <2>17. CASE UNCHANGED walletVars
        BY <2>17 DEF walletVars, WalletInv, WalletTypes, LightTypes, ScanInv, Held, Idle
    <2> QED
        BY <2>1, <2>2, <2>3, <2>4, <2>5, <2>6, <2>7, <2>8, <2>9, <2>10, <2>11, <2>12, <2>13, <2>14,
           <2>15, <2>16, <2>17 DEF WalletNext
<1> QED
    BY <1>1, <1>2, PTL DEF WalletSpec

\* A light client that counts what it scans misses no note and no spend.
THEOREM ScansAreComplete == WalletSpec => []CountedScanIsComplete
<1>1. WalletInv => CountedScanIsComplete
    <2> SUFFICES ASSUME WalletInv, IsPrefix(light.trusted, blocks), light.scanned > 0,
                        NEW n \in Upto(light.scanned)
                 PROVE  n \in Held /\ (n \in SpentUpto(light.scanned) => wallet.held[n] # Unspent)
        BY DEF CountedScanIsComplete
    <2> PICK t, s : t = light.trusted /\ s = light.scanned + 1
        OBVIOUS
    <2>1. light.scanned \in Nat /\ t \in Seq(Block) /\ blocks \in Seq(Block)
        BY DEF WalletInv, WalletTypes, LightTypes, ChainOK
    <2>2. s = ScannedBlocks(light.scanned) /\ s \in Nat /\ s <= Len(t)
        <3>1. light.scanned # 0
            BY <2>1
        <3> QED
            BY <2>1, <3>1 DEF WalletInv, LightTypes, ScannedBlocks
    <2>3. Knows(t, s, notes, wallet.held)
        BY <2>2 DEF WalletInv, ScanInv
    <2>4. \A k \in 1..s : t[k] = blocks[k]
        <3>1. \A i \in 1..Len(t) : t[i] = blocks[i]
            BY <2>1, PrefixIs
        <3>2. \A k \in 1..s : k \in 1..Len(t)
            <4>1. Len(t) \in Nat
                BY <2>1
            <4> QED
                BY <2>2, <4>1
        <3> QED
            BY <3>1, <3>2
    <2>5. PICK k \in 1..s : n \in ToSet(blocks[k].made)
        BY DEF Upto
    <2>6. notes[n].to \in Addresses
        BY DEF Upto, Mine
    <2>7. n \in DOMAIN wallet.held /\ \A j \in 1..s : n \in ToSet(t[j].gone) => wallet.held[n] # Unspent
        BY <2>3, <2>4, <2>5, <2>6 DEF Knows
    <2>8. ASSUME n \in SpentUpto(light.scanned) PROVE wallet.held[n] # Unspent
        <3>1. PICK j \in 1..s : n \in ToSet(blocks[j].gone)
            BY <2>8 DEF SpentUpto
        <3> QED
            BY <2>4, <2>7, <3>1
    <2> QED
        BY <2>7, <2>8 DEF Held
<1> QED
    BY <1>1, WalletInvariance, PTL

\* A wallet of one asset pays when it can, in one grid, with as few notes as there are to
\* pay with (Wallet.select, Wallet.send); one of several sends nothing mixed.
THEOREM PaymentsHold == WalletSpec => []PaymentsAreLeast
<1>1. WalletInv => PaymentsHaveAHome
    <2> SUFFICES ASSUME WalletInv, NEW tx \in wallet.sent
                 PROVE  /\ \A n \in ToSet(tx.ins) : /\ notes[n].part = Last(tx.outs).part
                                                     /\ notes[n].asset = Last(tx.outs).asset
                        /\ Len(tx.ins) <= MaxInputs
                        /\ \A i \in DOMAIN tx.outs : tx.outs[i].value \in 0..(NoteLimit - 1)
        BY DEF PaymentsHaveAHome
    <2>1. PaymentOK(tx, notes)
        BY HeldNow
    <2>2. \A i \in DOMAIN tx.outs : tx.outs[i] \in Note
        <3> PICK outs : outs = tx.outs
            OBVIOUS
        <3>1. outs \in Seq(Note)
            BY <2>1 DEF PaymentOK
        <3>2. \A i \in DOMAIN outs : outs[i] \in Note
            BY ONLY <3>1
        <3> QED
            BY <3>2
    <2> QED
        BY <2>1, <2>2 DEF PaymentOK, Note
<1>2. WalletInv => SelectionIsLeast
    <2> SUFFICES ASSUME WalletInv, NEW amount \in {a + Fee : a \in Amounts}
                 PROVE  LET covers == {S \in SUBSET UnspentNotes :
                                         /\ Sum(S) >= amount /\ Cardinality(S) <= MaxInputs
                                         /\ \E g \in Grids : \A n \in S : notes[n].part = g}
                            chosen == Select(amount)
                        IN IF covers = {} THEN chosen = <<>>
                           ELSE \A S \in covers : chosen # <<>> /\ Len(chosen) <= Cardinality(S)
        BY DEF SelectionIsLeast
    <2> DEFINE covers == {S \in SUBSET UnspentNotes :
                            /\ Sum(S) >= amount /\ Cardinality(S) <= MaxInputs
                            /\ \E g \in Grids : \A n \in S : notes[n].part = g}
    <2> PICK chosen : chosen = Select(amount)
        OBVIOUS
    <2>1. notes \in Seq(Note) /\ Held \subseteq 1..Len(notes)
        BY HeldNow
    <2>2. amount \in Nat /\ amount > 0 /\ MaxInputs \in Nat
        <3>1. PICK a \in Amounts : amount = a + Fee
            OBVIOUS
        <3>2. a \in Nat /\ Fee \in Nat /\ a + Fee > 0 /\ MaxInputs \in Nat
            BY WalletAssumption
        <3> QED
            BY <3>1, <3>2
    <2>3. /\ chosen # <<>> => \E part \in Grids : /\ chosen = Cover(part, amount)
                                                  /\ Len(chosen) \in 1..MaxInputs
          /\ \A part \in Grids : Len(Cover(part, amount)) \in 1..MaxInputs =>
                chosen # <<>> /\ Len(chosen) <= Len(Cover(part, amount))
        <3>1. chosen = Select(amount)
            OBVIOUS
        <3> QED
            BY ONLY <2>1, <2>2, <3>1, SelectIs
    <2>4. ASSUME chosen # <<>> PROVE covers # {}
        <3>1. PICK part \in Grids : chosen = Cover(part, amount) /\ Len(chosen) \in 1..MaxInputs
            BY <2>3, <2>4
        <3>2. /\ ToSet(chosen) \in SUBSET Pool(part) /\ Cardinality(ToSet(chosen)) = Len(chosen)
              /\ Sum(ToSet(chosen)) >= amount
            BY ONLY <2>1, <2>2, <2>4, <3>1, CoverIs
        <3>3. Pool(part) \in SUBSET UnspentNotes /\ \A n \in Pool(part) : notes[n].part = part
            BY DEF Pool
        <3>4. Cardinality(ToSet(chosen)) <= MaxInputs
            BY ONLY <2>2, <3>1, <3>2
        <3>5. ToSet(chosen) \in covers
            BY <3>2, <3>3, <3>4
        <3> QED
            BY <3>5
    <2>5. ASSUME NEW S \in covers PROVE chosen # <<>> /\ Len(chosen) <= Cardinality(S)
        <3>1. PICK part \in Grids : \A n \in S : notes[n].part = part
            OBVIOUS
        <3> PICK c : c = Cover(part, amount)
            OBVIOUS
        <3>2. S \in SUBSET Pool(part) /\ Sum(S) >= amount /\ Cardinality(S) <= MaxInputs
            BY <3>1 DEF Pool
        <3>3. /\ c \in Seq(Pool(part))
              /\ \A T \in SUBSET Pool(part) : Sum(T) >= amount => c # <<>> /\ Len(c) <= Cardinality(T)
            BY ONLY <2>1, <2>2, c = Cover(part, amount), CoverIs
        <3>4. c # <<>> /\ Len(c) <= Cardinality(S)
            BY ONLY <3>2, <3>3
        <3>5. Len(c) \in Nat \ {0}
            BY ONLY <3>3, <3>4
        <3>6. IsFiniteSet(S) /\ Cardinality(S) \in Nat
            <4>1. Pool(part) \in SUBSET (1..Len(notes))
                BY <2>1 DEF Pool, UnspentNotes, Held
            <4>2. IsFiniteSet(1..Len(notes))
                <5>1. 1 \in Int /\ Len(notes) \in Int
                    BY <2>1
                <5> QED
                    BY ONLY <5>1, FS_Interval
            <4>3. S \in SUBSET (1..Len(notes))
                BY <3>2, <4>1
            <4> QED
                BY ONLY <4>2, <4>3, FS_Subset, FS_CardinalityType
        <3>7. Len(c) \in 1..MaxInputs
            BY ONLY <2>2, <3>2, <3>4, <3>5, <3>6
        <3>8. chosen # <<>> /\ Len(chosen) <= Len(c)
            BY ONLY <2>3, <3>7, c = Cover(part, amount)
        <3>9. Len(chosen) \in Nat
            <4>1. PICK g \in Grids : Len(chosen) \in 1..MaxInputs
                BY <2>3, <3>8
            <4> QED
                BY <2>2, <4>1
        <3> QED
            BY ONLY <3>4, <3>5, <3>6, <3>8, <3>9
    <2> HIDE DEF covers
    <2>6. IF covers = {} THEN chosen = <<>>
          ELSE \A S \in covers : chosen # <<>> /\ Len(chosen) <= Cardinality(S)
        BY <2>4, <2>5
    <2> QED
        BY <2>6 DEF covers
<1>3. WalletInv => PaysInOneAsset
    <2> SUFFICES ASSUME WalletInv, OneAsset(UnspentNotes), NEW amount \in Amounts,
                        Select(amount + Fee) # <<>>, amount < NoteLimit, NEW theirPart \in Grids
                 PROVE  Builds(Payment(Select(amount + Fee), amount, theirPart))
        BY DEF PaysInOneAsset
    <2> PICK chosen, total, tx : /\ chosen = Select(amount + Fee) /\ total = amount + Fee
                                 /\ tx = Payment(chosen, amount, theirPart)
        OBVIOUS
    <2>1. notes \in Seq(Note) /\ Held \subseteq 1..Len(notes)
        BY HeldNow
    <2>2. amount \in Nat /\ Fee \in Nat /\ total \in Nat /\ total > 0 /\ NoteLimit \in Nat
        BY WalletAssumption
    <2>3. PICK part \in Grids : chosen = Cover(part, total)
        <3>1. chosen = Select(total) /\ chosen # <<>>
            OBVIOUS
        <3> QED
            BY ONLY <2>1, <2>2, <3>1, SelectIs
    <2> PICK C, P : C = ToSet(chosen) /\ P = Pool(part)
        OBVIOUS
    <2>4. /\ chosen \in Seq(P) /\ C \in SUBSET P /\ Cardinality(C) = Len(chosen) /\ Sum(C) >= total
          /\ \A S \in SUBSET P : Sum(S) >= total => Len(chosen) <= Cardinality(S)
        <3>1. chosen # <<>>
            OBVIOUS
        <3> QED
            BY ONLY <2>1, <2>2, <2>3, <3>1, C = ToSet(chosen), P = Pool(part), CoverIs
    <2> PICK n : n = chosen[1]
        OBVIOUS
    <2>5. notes[n] \in Note /\ n \in C
        <3>1. chosen # <<>> /\ chosen \in Seq(Pool(part))
            BY <2>4
        <3> QED
            BY ONLY <2>1, <3>1, C = ToSet(chosen), n = chosen[1], FirstChosen
    <2>6. P \in SUBSET UnspentNotes /\ P \in SUBSET (1..Len(notes))
        BY <2>1 DEF Pool, UnspentNotes, Held
    <2> PICK R, v : R = C \ {n} /\ v = notes[n].value
        OBVIOUS
    <2>7. Sum(C) = Sum(R) + v
        <3>1. C \in SUBSET (1..Len(notes))
            BY <2>4, <2>6
        <3> QED
            BY ONLY <2>1, <2>5, <3>1, R = C \ {n}, v = notes[n].value, SumWithout
    <2>8. Cardinality(R) < Len(chosen) /\ Len(chosen) \in Nat /\ Cardinality(R) \in Nat
        <3>1. IsFiniteSet(C)
            <4>1. IsFiniteSet(1..Len(notes))
                <5>1. 1 \in Int /\ Len(notes) \in Int
                    BY <2>1
                <5> QED
                    BY ONLY <5>1, FS_Interval
            <4>2. C \in SUBSET (1..Len(notes))
                BY <2>4, <2>6
            <4> QED
                BY ONLY <4>1, <4>2, FS_Subset
        <3>2. /\ Cardinality(R) = Cardinality(C) - 1 /\ Cardinality(C) \in Nat
              /\ IsFiniteSet(R)
            <4>1. R \in SUBSET C
                OBVIOUS
            <4> QED
                BY ONLY <2>5, <3>1, <4>1, R = C \ {n}, FS_RemoveElement, FS_CardinalityType, FS_Subset
        <3>3. Cardinality(R) \in Nat
            BY ONLY <3>2, FS_CardinalityType
        <3> QED
            BY ONLY <2>4, <3>2, <3>3
    <2>9. Sum(R) < total
        <3>1. R \in SUBSET P /\ Sum(R) \in Nat
            <4>1. Sum(R) \in Nat
                BY ONLY <2>1, SumNat
            <4> QED
                BY <2>4, <4>1
        <3> QED
            BY ONLY <2>2, <2>4, <2>8, <3>1
    <2> PICK left, from : left = Sum(C) - amount - Fee /\ from = notes[n]
        OBVIOUS
    <2>10. left < NoteLimit
        <3>1. Sum(R) \in Nat /\ Sum(C) \in Nat
            BY ONLY <2>1, SumNat
        <3>2. v \in Nat /\ v < NoteLimit
            BY <2>2, <2>5 DEF Note
        <3> QED
            BY ONLY <2>2, <2>7, <2>9, <3>1, <3>2, left = Sum(C) - amount - Fee, total = amount + Fee
    <2> PICK a, b, outs : /\ a = Change(theirPart, amount, Other, from.asset)
                          /\ b = Change(from.part, left, from.to, from.asset) /\ outs = <<a, b>>
        OBVIOUS
    <2>11. tx = [ins |-> chosen, outs |-> outs]
        BY DEF Payment
    <2>12. a.value = amount /\ b.value = left
        BY DEF Change
    <2>13. OneAsset(C)
        BY <2>4, <2>6 DEF OneAsset
    <2>14. \A i \in DOMAIN outs : outs[i].value < NoteLimit
        <3>1. amount < NoteLimit
            OBVIOUS
        <3>2. \A i \in DOMAIN outs : outs[i] \in {a, b}
            BY ONLY outs = <<a, b>>
        <3> QED
            BY ONLY <2>10, <2>12, <3>1, <3>2
    <2>15. tx.ins = chosen /\ tx.outs = outs
        BY ONLY <2>11
    <2>16. Builds(tx)
        BY ONLY <2>13, <2>14, <2>15, C = ToSet(chosen) DEF Builds
    <2> QED
        BY <2>16
<1> QED
    BY <1>1, <1>2, <1>3, WalletInvariance, PTL DEF PaymentsAreLeast
=============================================================================
