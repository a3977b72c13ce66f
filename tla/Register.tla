---- MODULE Register ----
(* One grid's register (src/chain/register.py) as a value: who belongs to the
   grid, with what standing, and what one ceremony's attendance roll does to it.
   Counters nothing decides on (led, seen, totals, service) are left out. *)
EXTENDS Integers, FiniteSets

CONSTANTS
    Threshold,              \* consecutive ceremonies that make an attester
    Forgiveness,            \* absences tolerated before the streak is lost
    QuorumNum, QuorumDen,   \* quorum = ceil(attesters * num / den)
    AdmitNum, AdmitDen      \* apprenticeships at once, per attester

ASSUME RegisterAssumption ==
    /\ Threshold \in Nat \ {0} /\ Forgiveness \in Nat
    /\ QuorumNum \in Nat \ {0} /\ QuorumDen \in Nat \ {0} /\ QuorumNum <= QuorumDen
    /\ AdmitNum \in Nat \ {0} /\ AdmitDen \in Nat \ {0}

Standings == {"observer", "apprentice", "attester", "suspended"}

\* No member was founded from this: its standing was earned in its own grid.
OwnGrid == <<>>

Newcomer(epoch) == [standing |-> "apprentice", joined |-> epoch, streak |-> 0,
                    misses |-> 0, faults |-> 0, from |-> OwnGrid]

Founder == [standing |-> "attester", joined |-> -1, streak |-> Threshold,
            misses |-> 0, faults |-> 0, from |-> OwnGrid]

GenesisRegister(founders) == [epoch |-> 0, members |-> [n \in founders |-> Founder]]

Enrolled(reg) == DOMAIN reg.members

StandingOf(reg, n) == IF n \in Enrolled(reg) THEN reg.members[n].standing ELSE "observer"
Attesters(reg) == {n \in Enrolled(reg) : StandingOf(reg, n) = "attester"}
ApprenticesOf(reg) == {n \in Enrolled(reg) : StandingOf(reg, n) = "apprentice"}
SeatedMembers(reg) == Attesters(reg) \cup ApprenticesOf(reg)

AtLeastOne(k) == IF k < 1 THEN 1 ELSE k

RegisterQuorum(reg) ==
    AtLeastOne((Cardinality(Attesters(reg)) * QuorumNum + QuorumDen - 1) \div QuorumDen)

ApprenticeCap(reg) == AtLeastOne((Cardinality(Attesters(reg)) * AdmitNum) \div AdmitDen)

HasRoom(reg) == Cardinality(ApprenticesOf(reg)) < ApprenticeCap(reg)

Admit(reg, n) ==
    [reg EXCEPT !.members = [m \in DOMAIN @ \cup {n} |->
                                IF m = n THEN Newcomer(reg.epoch) ELSE @[m]]]

\* What one ceremony does to one member.
Faulted(rec) == [rec EXCEPT !.standing = "suspended", !.streak = 0,
                            !.faults = @ + 1, !.misses = 0]

Promoted(rec) ==
    IF rec.standing = "apprentice" /\ rec.streak >= Threshold
    THEN [rec EXCEPT !.standing = "attester"] ELSE rec

\* Counted no further than the threshold and the tolerance they are compared with.
UpTo(bound, k) == IF k > bound THEN bound ELSE k

Attended(rec) == Promoted([rec EXCEPT !.streak = UpTo(Threshold, @ + 1), !.misses = 0])

MissedDecays(rec) == [rec EXCEPT !.misses = @ + 1, !.streak = @ - 1]

Missed(rec) ==
    [rec EXCEPT !.misses = UpTo(Forgiveness + 1, @ + 1),
                !.streak = IF rec.misses + 1 > Forgiveness THEN 0 ELSE @]

AdvancedBySeat(rec, n, roll, faulted) ==
    CASE n \in faulted -> Faulted(rec)
      [] n \notin faulted /\ rec.standing = "suspended" -> rec
      [] OTHER -> Attended(rec)

Advanced(rec, n, roll, faulted) ==
    CASE n \in faulted -> Faulted(rec)
      [] n \notin faulted /\ rec.standing = "suspended" -> rec
      [] n \notin faulted /\ rec.standing # "suspended" /\ n \in roll.attended -> Attended(rec)
      [] OTHER -> Missed(rec)

\* A roll admits whoever it names: the seated, and the faulted, member or not.
ApplyRoll(reg, roll, faulted) ==
    LET named == roll.seated \cup faulted
        was(n) == IF n \in Enrolled(reg) THEN reg.members[n] ELSE Newcomer(roll.epoch)
    IN [epoch |-> roll.epoch + 1,
        members |-> [n \in Enrolled(reg) \cup named |->
                        IF n \in named THEN Advanced(was(n), n, roll, faulted)
                        ELSE reg.members[n]]]

\* What AttendanceRoll.from_cert derives from a certificate and the seats of now.
RollFrom(cert, members) ==
    [epoch |-> cert.height, seated |-> members, attended |-> cert.signers]

CanRelease(reg, movers) ==
    \A n \in movers : StandingOf(reg, n) = "attester" /\ reg.members[n].faults = 0

Release(reg, movers) ==
    [reg EXCEPT !.members = [n \in DOMAIN @ \ movers |-> @[n]]]

\* `replace(rec, founded_from = donor)`: the record moves, its misses do not
\* (release pops them).
FoundRegister(reg, movers, donor) ==
    [epoch |-> reg.epoch,
     members |-> [n \in movers |-> [reg.members[n] EXCEPT !.from = donor, !.misses = 0]]]

CanAbsorb(reg, other) ==
    /\ Enrolled(reg) \cap Enrolled(other) = {}
    /\ reg.epoch = other.epoch

AbsorbAsNewcomers(reg, other, name) ==
    [reg EXCEPT !.members = [n \in DOMAIN @ \cup Enrolled(other) |->
        IF n \in DOMAIN @ THEN @[n] ELSE [Newcomer(reg.epoch) EXCEPT !.from = name]]]

Absorb(reg, other, name) ==
    [reg EXCEPT !.members = [n \in DOMAIN @ \cup Enrolled(other) |->
        IF n \in DOMAIN @ THEN @[n] ELSE [other.members[n] EXCEPT !.from = name]]]
====
