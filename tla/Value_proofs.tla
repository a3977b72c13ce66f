---------------------------- MODULE Value_proofs ----------------------------
(***************************************************************************)
(* What a network's money rests on.  What a quorum is worth, for every size  *)
(* of committee and every fraction a chain may be founded on (Params); that  *)
(* a chain is founded by the consent of its founders, one from a roster      *)
(* (Founding); that what its mint declares is all there is, however it is    *)
(* spent (Payment); what a node may hold, and what it gives up, while        *)
(* payments come and go (Mempool); and that the pool it is hardened with is  *)
(* parted, and that a turn of it is whose the document says (EraPool).       *)
(***************************************************************************)
EXTENDS Founding, Payment, Mempool, EraPool, Selection_proofs, TLAPS

-----------------------------------------------------------------------------
(* Params.                                                                  *)

\* Rounding up: the least q with q * den >= n * num.
LEMMA QuorumRoundsUp ==
    ASSUME NEW n \in Nat, NEW num \in Nat, NEW den \in Nat \ {0}
    PROVE  /\ QuorumSize(n, num, den) \in Nat
           /\ den * QuorumSize(n, num, den) >= n * num
           /\ den * QuorumSize(n, num, den) < n * num + den
<1> DEFINE x == n * num + den - 1
           q == x \div den
<1>1. n * num \in Nat
    OBVIOUS
<1>2. x \in Nat
    BY <1>1
<1>3. /\ q \in Nat /\ den * q <= x /\ x < den * q + den
    <2>1. /\ x = den * (x \div den) + (x % den) /\ x % den \in 0 .. den - 1
        BY <1>2
    <2>2. q \in Int
        BY <1>2
    <2>3. q >= 0
        BY <1>2, <2>1, <2>2
    <2> QED
        BY <1>2, <2>1, <2>2, <2>3
<1>4. den * q \in Int
    BY <1>3
<1> QED
    BY <1>1, <1>3, <1>4 DEF QuorumSize

\* The fractions params.py lets a chain be built with (__post_init__), and the
\* floor a launch is held to (assess).
LEMMA FractionOfParams ==
    ASSUME NEW p, p.num \in Nat, p.den \in Nat, Constructible(p)
    PROVE  p.num \in Nat \ {0} /\ p.den \in Nat \ {0} /\ p.num <= p.den
BY DEF Constructible

\* Every committee that has a member has a quorum, and can make it: what
\* __post_init__ refuses is all that has to be refused (params.py).
THEOREM QuorumIsReachable ==
    ASSUME NEW p, p.num \in Nat, p.den \in Nat, Constructible(p),
           NEW n \in Nat \ {0}
    PROVE  QuorumSize(n, p.num, p.den) \in 1 .. n
<1> DEFINE q == QuorumSize(n, p.num, p.den)
<1>1. p.num \in Nat \ {0} /\ p.den \in Nat \ {0} /\ p.num <= p.den
    BY FractionOfParams
<1>2. q \in Nat /\ p.den * q >= n * p.num /\ p.den * q < n * p.num + p.den
    BY <1>1, QuorumRoundsUp
<1>3. q # 0
    <2>1. n * p.num > 0
        BY <1>1
    <2> QED
        BY <1>1, <1>2, <2>1
<1>4. q <= n
    <2>1. n * p.num <= n * p.den
        BY <1>1
    <2>2. p.den * q < p.den * (n + 1)
        BY <1>1, <1>2, <2>1
    <2> QED
        BY <1>1, <1>2, <2>2
<1> QED
    BY <1>2, <1>3, <1>4

\* A quorum of a chain that may be launched is two thirds, rounded either way.
LEMMA QuorumIsTwoThirds ==
    ASSUME NEW p, p.num \in Nat, p.den \in Nat, Constructible(p),
           AtLeastTwoThirds(p), NEW n \in Nat
    PROVE  3 * QuorumSize(n, p.num, p.den) >= 2 * n
<1> DEFINE q == QuorumSize(n, p.num, p.den)
<1>1. p.num \in Nat \ {0} /\ p.den \in Nat \ {0}
    BY FractionOfParams
<1>2. q \in Nat /\ p.den * q >= n * p.num
    BY <1>1, QuorumRoundsUp
<1>3. n * (p.num * 3) >= n * (p.den * 2)
    BY <1>1 DEF AtLeastTwoThirds
<1>4. p.den * (3 * q) >= p.den * (2 * n)
    BY <1>1, <1>2, <1>3
<1> QED
    BY <1>1, <1>2, <1>4

\* Two quorums of one committee share at least a third of it, whatever the
\* committee: with fewer than a third of it faulty, an honest member signed for
\* both (params.py, quorum_size and the floor of assess).
THEOREM QuorumsMeet ==
    ASSUME NEW p, p.num \in Nat, p.den \in Nat, Constructible(p),
           AtLeastTwoThirds(p),
           NEW S, IsFiniteSet(S), NEW A \in SUBSET S, NEW B \in SUBSET S,
           Cardinality(A) >= QuorumSize(Cardinality(S), p.num, p.den),
           Cardinality(B) >= QuorumSize(Cardinality(S), p.num, p.den)
    PROVE  3 * Cardinality(A \cap B) >= Cardinality(S)
<1> DEFINE q == QuorumSize(Cardinality(S), p.num, p.den)
<1>1. /\ IsFiniteSet(A) /\ IsFiniteSet(B)
      /\ A \cup B \in SUBSET S /\ A \cap B \in SUBSET S
    BY FS_Subset
<1>2. /\ Cardinality(A \cup B) = Cardinality(A) + Cardinality(B) - Cardinality(A \cap B)
      /\ Cardinality(A \cup B) <= Cardinality(S)
    BY <1>1, FS_Union, FS_Subset
<1>3. /\ Cardinality(S) \in Nat /\ Cardinality(A) \in Nat
      /\ Cardinality(B) \in Nat /\ Cardinality(A \cap B) \in Nat
    BY <1>1, FS_Subset, FS_CardinalityType
<1>4. q \in Nat /\ 3 * q >= 2 * Cardinality(S)
    BY <1>3, FractionOfParams, QuorumRoundsUp, QuorumIsTwoThirds
<1> HIDE DEF q
<1> QED
    BY <1>2, <1>3, <1>4 DEF q

\* In particular a quorum is more than half of a committee that has a member,
\* which is what the argument of OnTime asks of its Quorum where every seat is an
\* attester (register.py, quorum).
THEOREM QuorumIsAMajority ==
    ASSUME NEW p, p.num \in Nat, p.den \in Nat, Constructible(p),
           AtLeastTwoThirds(p), NEW n \in Nat \ {0}
    PROVE  2 * QuorumSize(n, p.num, p.den) > n
<1>1. QuorumSize(n, p.num, p.den) \in Nat
    BY FractionOfParams, QuorumRoundsUp
<1>2. 3 * QuorumSize(n, p.num, p.den) >= 2 * n
    BY QuorumIsTwoThirds
<1> QED
    BY <1>1, <1>2

-----------------------------------------------------------------------------
(* Founding: what the checklist lets through.                               *)

WellFormed(b) ==
    /\ {"roster", "params", "threshold"} \subseteq DOMAIN b
    /\ IsRoster(b.roster) /\ IsFraction(b.params) /\ b.threshold \in Nat

SigsOK(sigs) == \A id \in DOMAIN sigs : sigs[id] \in signed

Signers(b) == {id \in Ids(b) : <<id, b>> \in signed}

\* As many as the document asks for, no fewer than its quorum, have signed it.
Consented(b) ==
    /\ WellFormed(b) /\ IsFiniteSet(Ids(b)) /\ Cardinality(Ids(b)) = Len(b.roster)
    /\ Keys(b) = Ids(b)
    /\ b.threshold >= Floor(b)
    /\ b.purpose = "launch" => b.threshold = Len(b.roster)
    /\ Cardinality(Signers(b)) >= b.threshold

FoundingInv ==
    /\ DOMAIN doc = {"body", "sigs"} /\ WellFormed(doc.body) /\ SigsOK(doc.sigs)
    /\ file # Absent =>
           /\ DOMAIN file = {"body", "sigs", "stated"}
           /\ WellFormed(file.body) /\ SigsOK(file.sigs)
    /\ \A s \in signed : s[1] \in Keepers \cup Others
    /\ \A s, t \in signed : (s[1] \in Keepers /\ s[1] = t[1]) => s[2] = t[2]
    /\ \A b \in founded : Consented(b)

LEMMA RosterPasses ==
    ASSUME NEW b
    PROVE  RosterProblems(b) = {} <=> (/\ Cardinality(Ids(b)) = Len(b.roster)
                                       /\ Cardinality(Keys(b)) = Len(b.roster))
<1>1. \A x, y : Holding([ids |-> x, keys |-> y]) = {} <=> (~x /\ ~y)
    BY DEF Holding
<1> QED
    BY <1>1, Zenon DEF RosterProblems

LEMMA RatificationPasses ==
    ASSUME NEW d
    PROVE  RatificationProblems(d) = {} <=>
             /\ ~(DOMAIN d.sigs \ Ids(d.body) # {})
             /\ ~(\E id \in DOMAIN d.sigs \cap Ids(d.body) : ~Verifies(d.body, id, d.sigs[id]))
             /\ ~(Cardinality({id \in DOMAIN d.sigs : Verifies(d.body, id, d.sigs[id])})
                      < d.body.threshold)
<1>1. \A x, y, z : Holding([stranger |-> x, bad |-> y, few |-> z]) = {} <=> (~x /\ ~y /\ ~z)
    BY DEF Holding
<1> QED
    BY <1>1, Zenon DEF RatificationProblems

LEMMA ThresholdPasses ==
    ASSUME NEW b
    PROVE  ThresholdProblems(b) = {} <=>
             /\ ~(b.threshold > Len(b.roster)) /\ ~(b.threshold < Floor(b))
             /\ ~(b.purpose = "launch" /\ b.threshold # Len(b.roster))
<1>1. \A x, y, z : Holding([unreachable |-> x, below |-> y, launch |-> z]) = {} <=> (~x /\ ~y /\ ~z)
    BY DEF Holding
<1> QED
    BY <1>1, Zenon DEF ThresholdProblems

\* Ids and keys are images of the entries of the roster.
LEMMA RosterIds ==
    ASSUME NEW b, IsRoster(b.roster)
    PROVE  /\ IsFiniteSet(Ids(b))
           /\ (\A i, j \in DOMAIN b.roster : b.roster[i].id = b.roster[j].id => i = j)
                => Cardinality(Ids(b)) = Len(b.roster)
<1> DEFINE n == Len(b.roster)
<1>1. n \in Nat /\ DOMAIN b.roster = 1..n
    BY DEF IsRoster
<1>2. PICK f : f = [i \in 1..n |-> b.roster[i].id]
    OBVIOUS
<1>3. f \in [1..n -> Ids(b)] /\ \A t \in Ids(b) : \E i \in 1..n : f[i] = t
    BY <1>1, <1>2 DEF Ids
<1>4. f \in Surjection(1..n, Ids(b))
    BY <1>3 DEF Surjection
<1>5. IsFiniteSet(1..n) /\ Cardinality(1..n) = n
    <2>1. PICK m \in Nat : m = n
        BY <1>1
    <2>2. /\ IsFiniteSet(1..m)
          /\ Cardinality(1..m) = IF 1 > m THEN 0 ELSE m - 1 + 1
        BY FS_Interval
    <2>3. Cardinality(1..m) = m
        BY <2>2
    <2> QED
        BY <2>1, <2>2, <2>3
<1>6. IsFiniteSet(Ids(b))
    BY <1>4, <1>5, FS_Surjection
<1>7. ASSUME \A i, j \in DOMAIN b.roster : b.roster[i].id = b.roster[j].id => i = j
      PROVE  Cardinality(Ids(b)) = n
    <2>1. f \in Injection(1..n, Ids(b))
        BY <1>1, <1>2, <1>3, <1>7 DEF Injection, IsInjective
    <2> QED
        BY <1>4, <1>5, <2>1, FS_Surjection
<1> QED
    BY <1>6, <1>7

LEMMA KeysAreIds ==
    ASSUME NEW b, IsRoster(b.roster), \A i \in DOMAIN b.roster : b.roster[i].key = b.roster[i].id
    PROVE  Keys(b) = Ids(b) /\ \A id \in Ids(b) : KeyOf(b, id) = id
<1>1. Keys(b) = Ids(b)
    BY DEF Keys, Ids
<1>2. ASSUME NEW id \in Ids(b) PROVE KeyOf(b, id) = id
    <2> DEFINE places == {i \in DOMAIN b.roster : b.roster[i].id = id}
    <2>1. places # {} /\ places \in SUBSET Nat /\ \A k \in places : k <= Len(b.roster)
        BY DEF Ids, IsRoster
    <2>2. Len(b.roster) \in Nat
        BY DEF IsRoster
    <2>3. \E m \in places : \A k \in places : m >= k
        BY <2>1, <2>2, LargestBelow
    <2>4. Max(places) \in places
        BY <2>3 DEF Max
    <2> QED
        BY <2>4 DEF KeyOf
<1> QED
    BY <1>1, <1>2

\* A document that boots has the consent of its founders.
LEMMA BootsByConsent ==
    ASSUME NEW d, Boots(d), WellFormed(d.body), SigsOK(d.sigs)
    PROVE  Consented(d.body)
<1> DEFINE b == d.body
<1>1. /\ RosterProblems(b) = {} /\ RatificationProblems(d) = {} /\ ThresholdProblems(b) = {}
      /\ \A i \in DOMAIN b.roster : b.roster[i].key = b.roster[i].id
    BY DEF Boots, Problems
<1>2. IsRoster(b.roster) /\ b.threshold \in Nat /\ Len(b.roster) \in Nat
    BY DEF WellFormed, IsRoster
<1>3. IsFiniteSet(Ids(b)) /\ Cardinality(Ids(b)) = Len(b.roster)
    BY <1>1, <1>2, RosterIds, RosterPasses
<1>4. Keys(b) = Ids(b) /\ \A id \in Ids(b) : KeyOf(b, id) = id
    BY <1>1, <1>2, KeysAreIds
<1>5. PICK q : q = Floor(b)
    OBVIOUS
<1>6. q \in Nat
    BY <1>2, <1>5, FractionOfParams, QuorumRoundsUp DEF WellFormed, IsFraction, Floor
<1>7. b.threshold >= q /\ (b.purpose = "launch" => b.threshold = Len(b.roster))
    BY <1>1, <1>2, <1>5, <1>6, ThresholdPasses
<1>8. PICK S : S = {id \in DOMAIN d.sigs : Verifies(d.body, id, d.sigs[id])}
    OBVIOUS
<1>9. ~(Cardinality(S) < b.threshold)
    BY <1>1, <1>8, RatificationPasses
<1>10. S \subseteq Signers(b)
    BY <1>4, <1>8 DEF Verifies, Signers, SigsOK
<1>11. IsFiniteSet(Signers(b))
    BY <1>3, FS_Subset DEF Signers
<1>12. /\ Cardinality(S) <= Cardinality(Signers(b)) /\ Cardinality(S) \in Nat
       /\ Cardinality(Signers(b)) \in Nat
    BY <1>10, <1>11, FS_Subset, FS_CardinalityType
<1> QED
    BY <1>2, <1>3, <1>4, <1>5, <1>7, <1>9, <1>12 DEF Consented

LEMMA ConsentIsKept ==
    ASSUME NEW b, Consented(b), signed \subseteq signed'
    PROVE  Consented(b)'
<1>1. Signers(b) \subseteq Signers(b)' /\ Signers(b)' \subseteq Ids(b)
    BY DEF Signers
<1>2. IsFiniteSet(Signers(b)') /\ IsFiniteSet(Signers(b)) /\ b.threshold \in Nat
    BY <1>1, FS_Subset DEF Consented, WellFormed
<1>3. /\ Cardinality(Signers(b)) <= Cardinality(Signers(b)')
      /\ Cardinality(Signers(b)) \in Nat /\ Cardinality(Signers(b)') \in Nat
    BY <1>1, <1>2, FS_Subset, FS_CardinalityType
<1> QED
    BY <1>2, <1>3 DEF Consented

-----------------------------------------------------------------------------
(* The invariant.                                                           *)

LEMMA DraftsAreWellFormed == \A d \in Drafts : WellFormed(Draft(d))
<1> SUFFICES ASSUME NEW d \in Drafts PROVE WellFormed(Draft(d))
    OBVIOUS
<1>1. IsRoster(d.roster) /\ IsFraction(d.params)
    BY DraftsAssumption
<1>2. Threshold(d) \in Nat
    <2>1. QuorumSize(Len(d.roster), d.params.num, d.params.den) \in Nat /\ Len(d.roster) \in Nat
        BY <1>1, FractionOfParams, QuorumRoundsUp DEF IsRoster, IsFraction
    <2> QED
        BY <2>1 DEF Threshold
<1>3. PICK t : t = Threshold(d)
    OBVIOUS
<1> QED
    BY <1>1, <1>2, <1>3 DEF WellFormed, Draft

LEMMA EditsKeepForm ==
    ASSUME NEW e \in Edits, NEW b, WellFormed(b)
    PROVE  WellFormed([b EXCEPT ![e[1]] = e[2]])
<1> PICK c : c = [b EXCEPT ![e[1]] = e[2]]
    OBVIOUS
<1>1. DOMAIN c = DOMAIN b /\ \A f \in DOMAIN b : c[f] = IF f = e[1] THEN e[2] ELSE b[f]
    OBVIOUS
<1> QED
    BY <1>1, EditsAssumption DEF WellFormed

LEMMA FoundingInitially == FoundingInit => FoundingInv
BY DraftsAreWellFormed DEF FoundingInit, FoundingInv, NoSignatures, SigsOK

LEMMA FoundingStep == FoundingInv /\ [FoundingNext]_foundingVars => FoundingInv'
<1> SUFFICES ASSUME FoundingInv, [FoundingNext]_foundingVars PROVE FoundingInv'
    OBVIOUS
<1>1. ASSUME UNCHANGED <<signed, founded>>,
             /\ DOMAIN doc' = {"body", "sigs"} /\ WellFormed(doc'.body) /\ SigsOK(doc'.sigs)
             /\ file' # Absent =>
                    /\ DOMAIN file' = {"body", "sigs", "stated"}
                    /\ WellFormed(file'.body) /\ SigsOK(file'.sigs)
      PROVE  FoundingInv'
    BY <1>1 DEF FoundingInv, SigsOK, Consented, Signers
<1>2. CASE UNCHANGED foundingVars
    BY <1>1, <1>2 DEF foundingVars, FoundingInv
<1>3. ASSUME NEW d \in Drafts, Redraft(d) PROVE FoundingInv'
    BY <1>1, <1>3, DraftsAreWellFormed DEF Redraft, FoundingInv, SigsOK, NoSignatures
<1>4. ASSUME NEW e \in Edits, Replace(e[1], e[2]) PROVE FoundingInv'
    <2>1. doc' = [doc EXCEPT !.body[e[1]] = e[2]] /\ UNCHANGED <<file, signed, founded>>
        BY <1>4 DEF Replace
    <2>2. DOMAIN doc' = {"body", "sigs"} /\ doc'.body = [doc.body EXCEPT ![e[1]] = e[2]]
          /\ doc'.sigs = doc.sigs
        BY <2>1 DEF FoundingInv
    <2> QED
        BY <1>1, <2>1, <2>2, EditsKeepForm DEF FoundingInv
<1>5. ASSUME NEW key \in Keepers \cup Others, NEW id \in Ids(doc.body), Ratify(key, id)
      PROVE  FoundingInv'
    <2> PICK sig : sig = <<key, doc.body>>
        OBVIOUS
    <2>1. /\ doc' = [doc EXCEPT !.sigs = [i \in DOMAIN @ \cup {id} |-> IF i = id THEN sig ELSE @[i]]]
          /\ signed' = signed \cup {sig} /\ UNCHANGED <<file, founded>>
          /\ key \in Keepers => \A s \in signed : s[1] = key => s[2] = doc.body
        BY <1>5 DEF Ratify
    <2>2. /\ DOMAIN doc' = {"body", "sigs"} /\ doc'.body = doc.body
          /\ doc'.sigs = [i \in DOMAIN doc.sigs \cup {id} |-> IF i = id THEN sig ELSE doc.sigs[i]]
        BY <2>1 DEF FoundingInv
    <2>3. SigsOK(doc.sigs) /\ (file # Absent => SigsOK(file.sigs))
        BY DEF FoundingInv
    <2>4. SigsOK(doc.sigs)'
        BY <2>1, <2>2, <2>3 DEF SigsOK
    <2>5. file' # Absent => SigsOK(file.sigs)'
        BY <2>1, <2>3 DEF SigsOK
    <2>6. sig[1] = key /\ sig[2] = doc.body
        OBVIOUS
    <2>7. /\ \A s \in signed' : s[1] \in Keepers \cup Others
          /\ \A s, t \in signed' : (s[1] \in Keepers /\ s[1] = t[1]) => s[2] = t[2]
        BY <2>1, <2>6 DEF FoundingInv
    <2>8. \A b \in founded' : Consented(b)'
        BY <2>1, ConsentIsKept DEF FoundingInv
    <2> QED
        BY <2>1, <2>2, <2>4, <2>5, <2>7, <2>8 DEF FoundingInv
<1>6. CASE Save
    BY <1>1, <1>6 DEF Save, FoundingInv
<1>7. CASE Load
    BY <1>1, <1>7 DEF Load, Loads, DocOf, FoundingInv
<1>8. ASSUME NEW e \in Edits, NEW stated, EditFile(e[1], e[2], stated) PROVE FoundingInv'
    <2>1. /\ file # Absent /\ file' = [file EXCEPT !.body[e[1]] = e[2], !.stated = stated]
          /\ UNCHANGED <<doc, signed, founded>>
        BY <1>8 DEF EditFile
    <2>2. DOMAIN file' = {"body", "sigs", "stated"}
          /\ file'.body = [file.body EXCEPT ![e[1]] = e[2]] /\ file'.sigs = file.sigs
        BY <2>1 DEF FoundingInv
    <2> QED
        BY <1>1, <2>1, <2>2, EditsKeepForm DEF FoundingInv
<1>9. ASSUME NEW n \in Booting, BootNode(n) PROVE FoundingInv'
    <2>1. /\ file # Absent /\ Boots(DocOf(file)) /\ founded' = founded \cup {file.body}
          /\ UNCHANGED <<doc, file, signed>>
        BY <1>9 DEF BootNode, Loads
    <2>2. DocOf(file).body = file.body /\ DocOf(file).sigs = file.sigs
        BY DEF DocOf
    <2>3. Consented(file.body)
        BY <2>1, <2>2, BootsByConsent DEF FoundingInv
    <2>4. \A b \in founded' : Consented(b)'
        BY <2>1, <2>3, ConsentIsKept DEF FoundingInv
    <2> QED
        BY <2>1, <2>4 DEF FoundingInv, SigsOK
<1>10. ASSUME NEW n \in Booting, SaveSeats(n) \/ StopNode(n) PROVE FoundingInv'
    BY <1>1, <1>10 DEF SaveSeats, StopNode, FoundingInv
<1> QED
    BY <1>2, <1>3, <1>4, <1>5, <1>6, <1>7, <1>8, <1>9, <1>10 DEF FoundingNext

\* However a document goes round, is edited and is booted from: what is signed was
\* signed over a body, by one who had not signed another if he never does, and
\* what a node booted from had the signatures it asks for.
THEOREM FoundingInvariance == FoundingSpec => []FoundingInv
<1> QED
    BY FoundingInitially, FoundingStep, PTL DEF FoundingSpec

-----------------------------------------------------------------------------
(* What follows of it.                                                      *)

LEMMA ConsentIsAgreement == FoundingInv => FoundersAgreed
<1> SUFFICES ASSUME FoundingInv, NEW b \in founded
             PROVE  LET signers == {key \in Keys(b) : <<key, b>> \in signed}
                    IN /\ b.purpose = "launch" => signers = Ids(b)
                       /\ Cardinality(signers) >= b.threshold
    BY DEF FoundersAgreed
<1>1. Consented(b)
    BY DEF FoundingInv
<1>2. {key \in Keys(b) : <<key, b>> \in signed} = Signers(b)
    BY <1>1 DEF Consented, Signers
<1>3. Cardinality(Signers(b)) >= b.threshold /\ IsFiniteSet(Ids(b)) /\ Signers(b) \in SUBSET Ids(b)
    BY <1>1 DEF Consented, Signers
<1>4. b.purpose = "launch" => Cardinality(Signers(b)) >= Cardinality(Ids(b))
    BY <1>1, <1>3 DEF Consented
<1>5. /\ Cardinality(Signers(b)) <= Cardinality(Ids(b))
      /\ Cardinality(Signers(b)) \in Nat /\ Cardinality(Ids(b)) \in Nat
      /\ Cardinality(Ids(b)) = Cardinality(Signers(b)) => Ids(b) = Signers(b)
    BY <1>3, FS_Subset, FS_CardinalityType
<1>6. b.purpose = "launch" => Signers(b) = Ids(b)
    BY <1>4, <1>5
<1> QED
    BY <1>2, <1>3, <1>6

LEMMA OneRosterOneChain == FoundingInv => RosterFoundsOneChain
<1> SUFFICES ASSUME FoundingInv, NEW b \in founded, NEW c \in founded, Ids(b) = Ids(c),
                    AtLeastTwoThirds(b.params), AtLeastTwoThirds(c.params),
                    3 * Cardinality(Others \cap Ids(b)) < Cardinality(Ids(b))
             PROVE  b = c
    BY DEF RosterFoundsOneChain
<1>1. Consented(b) /\ Consented(c)
    BY DEF FoundingInv
<1> DEFINE S == Ids(b)
           B == Signers(b)
           C == Signers(c)
<1>2. IsFiniteSet(S) /\ B \in SUBSET S /\ C \in SUBSET S
    BY <1>1 DEF Consented, Signers
<1>3. /\ Cardinality(S) \in Nat /\ Cardinality(B) \in Nat /\ Cardinality(C) \in Nat
      /\ B \cap C \in SUBSET S /\ IsFiniteSet(B \cap C) /\ B \cup C \in SUBSET S
      /\ IsFiniteSet(B) /\ IsFiniteSet(C) /\ Cardinality(B \cap C) \in Nat
    BY <1>2, FS_Subset, FS_CardinalityType
<1>4. 3 * Cardinality(B) >= 2 * Cardinality(S)
    <2>1. /\ Floor(b) \in Nat /\ 3 * Floor(b) >= 2 * Len(b.roster)
          /\ Len(b.roster) = Cardinality(S) /\ b.threshold \in Nat
          /\ b.threshold >= Floor(b) /\ Cardinality(B) >= b.threshold
        BY <1>1, FractionOfParams, QuorumRoundsUp, QuorumIsTwoThirds
        DEF Consented, WellFormed, IsRoster, IsFraction, Floor
    <2> QED
        BY <1>3, <2>1
<1>5. 3 * Cardinality(C) >= 2 * Cardinality(S)
    <2>1. /\ Floor(c) \in Nat /\ 3 * Floor(c) >= 2 * Len(c.roster)
          /\ Len(c.roster) = Cardinality(S) /\ c.threshold \in Nat
          /\ c.threshold >= Floor(c) /\ Cardinality(C) >= c.threshold
        BY <1>1, FractionOfParams, QuorumRoundsUp, QuorumIsTwoThirds
        DEF Consented, WellFormed, IsRoster, IsFraction, Floor
    <2> QED
        BY <1>3, <2>1
<1>6. /\ Cardinality(B \cup C) = Cardinality(B) + Cardinality(C) - Cardinality(B \cap C)
      /\ Cardinality(B \cup C) <= Cardinality(S)
    BY <1>2, <1>3, FS_Union, FS_Subset
<1>7. 3 * Cardinality(B \cap C) >= Cardinality(S)
    BY <1>3, <1>4, <1>5, <1>6
<1>8. PICK id \in B \cap C : id \notin Others
    <2> SUFFICES ASSUME B \cap C \subseteq Others \cap S PROVE FALSE
        BY <1>2
    <2>1. IsFiniteSet(Others \cap S)
        BY <1>2, FS_Subset
    <2>2. Cardinality(B \cap C) <= Cardinality(Others \cap S) /\ Cardinality(Others \cap S) \in Nat
        BY <2>1, FS_Subset, FS_CardinalityType
    <2> QED
        BY <1>3, <1>7, <2>2
<1>9. <<id, b>> \in signed /\ <<id, c>> \in signed
    BY <1>8 DEF Signers
<1>10. id \in Keepers
    BY <1>8, <1>9 DEF FoundingInv
<1> QED
    BY <1>9, <1>10 DEF FoundingInv

\* A draft nobody touched, signed by everybody it names and nobody else.
LEMMA DraftsPass == DraftsAreFoundable
<1> SUFFICES ASSUME NEW d \in Drafts, doc.body = Draft(d), doc.body.tiers = 1,
                    DOMAIN doc.sigs = Ids(doc.body),
                    \A id \in Ids(doc.body) : Verifies(doc.body, id, doc.sigs[id])
             PROVE  Boots(doc)
    BY DEF DraftsAreFoundable
<1> PICK b : b = doc.body
    OBVIOUS
<1>1. /\ b.purpose = d.purpose /\ b.roster = d.roster /\ b.params = d.params /\ b.tiers = d.tiers
      /\ b.partitions = IF d.tiers = 1 THEN 1 ELSE 0
      /\ b.holders = [i \in DOMAIN d.roster |-> d.roster[i].id]
      /\ b.money = d.money
      /\ b.declared = IF d.money.minted THEN d.money.total ELSE Total(d.money.values)
      /\ b.threshold = Threshold(d)
      /\ b.schedule = IF d.purpose = "launch" THEN {<<Implements + 1, 3>>, <<Implements + 2, 5>>} ELSE {}
      /\ b.era0 = d.era0
    BY DEF Draft
<1>2. /\ IsRoster(b.roster) /\ Len(b.roster) > 0 /\ Len(b.roster) \in Nat /\ IsFraction(b.params)
      /\ \A i \in DOMAIN b.roster : b.roster[i].key = b.roster[i].id
      /\ \A i, j \in DOMAIN b.roster : b.roster[i].id = b.roster[j].id => i = j
      /\ Len(b.roster) <= GridSize
    BY <1>1, DraftsAssumption DEF IsRoster
<1>3. IsFiniteSet(Ids(b)) /\ Cardinality(Ids(b)) = Len(b.roster) /\ Keys(b) = Ids(b)
    BY <1>2, RosterIds, KeysAreIds
<1>4. RosterProblems(b) = {}
    BY <1>3, RosterPasses
<1>5. Floor(b) \in 1 .. Len(b.roster)
    BY <1>2, QuorumIsReachable DEF Floor, IsFraction
<1>6. /\ b.threshold \in Nat /\ b.threshold <= Len(b.roster) /\ b.threshold >= Floor(b)
      /\ b.purpose = "launch" => b.threshold = Len(b.roster)
    BY <1>1, <1>2, <1>5 DEF Threshold, Floor
<1>7. ThresholdProblems(b) = {}
    BY <1>2, <1>5, <1>6, ThresholdPasses
<1>8. RatificationProblems(doc) = {}
    <2>1. {id \in DOMAIN doc.sigs : Verifies(doc.body, id, doc.sigs[id])} = Ids(b)
        OBVIOUS
    <2> QED
        BY <1>2, <1>3, <1>6, <2>1, RatificationPasses
<1>9. ParameterProblems(b) = {}
    BY <1>1, DraftsAssumption DEF ParameterProblems
<1>10. ScheduleProblems(b) = {}
    <2>1. \A x, y : Holding([odd |-> x, ahead |-> y]) = {} <=> (~x /\ ~y)
        BY DEF Holding
    <2>2. ScheduleNormal(b.schedule)
        BY <1>1, ImplementsAssumption DEF ScheduleNormal
    <2>3. ~(ScheduleNormal(b.schedule) /\ \E e \in b.schedule : e[2] <= 1 /\ e[1] > Implements)
        BY <1>1
    <2> QED
        BY <2>1, <2>2, <2>3, Zenon DEF ScheduleProblems
<1>11. GridProblems(b) = {}
    <2>1. \A x : Holding([partitions |-> x]) = {} <=> ~x
        BY DEF Holding
    <2>2. ~(b.tiers = 1 /\ b.partitions # 1)
        BY <1>1
    <2> QED
        BY <2>1, <2>2, Zenon DEF GridProblems
<1>12. HolderProblems(b) = {}
    <2>1. \A x, y : Holding([strangers |-> x, twice |-> y]) = {} <=> (~x /\ ~y)
        BY DEF Holding
    <2>2. ToSet(b.holders) \ Ids(b) = {}
        BY <1>1 DEF ToSet, Ids
    <2>3. NoDuplicates(b.holders)
        BY <1>1, <1>2 DEF NoDuplicates
    <2> QED
        BY <2>1, <2>2, <2>3, Zenon DEF HolderProblems
<1>13. Era0Problems(b) = {}
    <2>1. \A x, y : Holding([absent |-> x, refused |-> y]) = {} <=> (~x /\ ~y)
        BY DEF Holding
    <2>2. b.era0 # "refused" /\ ~(b.era0 = "none" /\ b.purpose = "launch")
        BY <1>1, DraftsAssumption
    <2> QED
        BY <2>1, <2>2, Zenon DEF Era0Problems
<1>14. SupplyProblems(b) = {}
    <2>1. CASE d.money.minted
        <3>1. \A x, y, z, u : Holding([values |-> x, total |-> y, empty |-> z, twice |-> u]) = {}
                                 <=> (~x /\ ~y /\ ~z /\ ~u)
            BY DEF Holding
        <3>2. /\ b.money.values = <<>> /\ b.money.total = b.declared /\ b.money.cms # <<>>
              /\ NoDuplicates(b.money.cms) /\ b.money.minted
            BY <1>1, <2>1, DraftsAssumption DEF NoDuplicates
        <3>3. Holding([values |-> b.money.values # <<>>, total |-> b.money.total # b.declared,
                       empty |-> b.money.cms = <<>>, twice |-> ~NoDuplicates(b.money.cms)]) = {}
            BY <3>1, <3>2, Zenon
        <3> QED
            BY <3>2, <3>3 DEF SupplyProblems
    <2>2. CASE ~d.money.minted
        <3>1. \A x, y : Holding([sum |-> x, issued |-> y]) = {} <=> (~x /\ ~y)
            BY DEF Holding
        <3>2. /\ Total(b.money.values) = b.declared /\ b.purpose # "launch" /\ ~b.money.minted
            BY <1>1, <2>2, DraftsAssumption
        <3>3. Holding([sum |-> Total(b.money.values) # b.declared,
                       issued |-> b.purpose = "launch"]) = {}
            BY <3>1, <3>2, Zenon
        <3> QED
            BY <3>2, <3>3 DEF SupplyProblems
    <2> QED
        BY <2>1, <2>2
<1>15. GridsFormed(b) = b.partitions
    BY <1>1, <1>2 DEF GridsFormed
<1> QED
    BY <1>2, <1>4, <1>7, <1>8, <1>9, <1>10, <1>11, <1>12, <1>13, <1>14, <1>15 DEF Boots, Problems

\* A network is founded by the consent of its founders, every one of them at a launch; while
\* fewer than a third of a roster sign more than one document it founds one chain; and what
\* draft proposes can be founded (genesis.py: draft, ratify, verify, boot).
THEOREM FoundersConsent == FoundingSpec => []FoundingIsByConsent
<1>1. FoundingInv => FoundingIsByConsent
    BY ConsentIsAgreement, OneRosterOneChain, DraftsPass DEF FoundingIsByConsent
<1> QED
    BY <1>1, FoundingInvariance, PTL

-----------------------------------------------------------------------------
(***************************************************************************)
(* Payment.  What notes are worth together.                                  *)
(***************************************************************************)
\* The value of notes up to each of them.
AddsUp(f, notes) ==
    /\ f \in [0..Len(notes) -> Int]
    /\ f[0] = 0 /\ \A i \in 1..Len(notes) : f[i] = f[i - 1] + notes[i].value

Valued(notes) == Len(notes) \in Nat /\ \A i \in 1..Len(notes) : notes[i].value \in Int

LEMMA AmountIs ==
    ASSUME NEW notes, NEW f, Valued(notes), AddsUp(f, notes)
    PROVE  Amount(notes) = f[Len(notes)]
<1> DEFINE n == Len(notes)
           Adds(g) == g = [i \in 0..n |-> IF i = 0 THEN 0 ELSE g[i - 1] + notes[i].value]
<1>0. n \in Nat
    BY DEF Valued
<1>1. Adds(f)
    <2>1. f = [i \in 0..n |-> f[i]]
        BY DEF AddsUp
    <2>2. \A i \in 0..n : f[i] = IF i = 0 THEN 0 ELSE f[i - 1] + notes[i].value
        <3>1. \A i \in 0..n : i # 0 => i \in 1..n
            BY <1>0
        <3> QED
            BY <3>1 DEF AddsUp
    <2> QED
        BY <2>1, <2>2
<1> DEFINE sum == CHOOSE g : Adds(g)
<1>2. Adds(sum)
    BY <1>1
<1>3. Amount(notes) = sum[n]
    BY DEF Amount
<1>4. \A i \in 0..n : sum[i] = f[i]
    <2> DEFINE Differ == {i \in 0..n : sum[i] # f[i]}
    <2> SUFFICES ASSUME Differ # {} PROVE FALSE
        OBVIOUS
    <2>0. Differ \in SUBSET Nat
        BY <1>0
    <2>1. PICK i \in Differ : \A j \in Differ : i <= j
        BY <2>0, LeastOfSome
    <2>2. sum[0] = 0 /\ f[0] = 0
        <3>1. 0 \in 0..n
            BY <1>0
        <3>2. \A g : Adds(g) => g[0] = 0
            BY <3>1
        <3> QED
            BY <1>1, <1>2, <3>2
    <2>3. i # 0 /\ i \in 0..n /\ i - 1 \in 0..n /\ i - 1 < i
        BY <1>0, <2>1, <2>2
    <2>4. sum[i - 1] = f[i - 1]
        BY <2>0, <2>1, <2>3
    <2>5. sum[i] = sum[i - 1] + notes[i].value /\ f[i] = f[i - 1] + notes[i].value
        BY <1>1, <1>2, <2>3
    <2> QED
        BY <2>1, <2>4, <2>5
<1> QED
    BY <1>0, <1>3, <1>4

LEMMA SumsExist ==
    ASSUME NEW notes, Valued(notes)
    PROVE  \E f : AddsUp(f, notes)
<1>1. PICK n, v : n = Len(notes) /\ v = [i \in 1..n |-> notes[i].value]
    OBVIOUS
<1>2. n \in Nat /\ \A i \in 1..n : v[i] \in Int /\ v[i] = notes[i].value
    BY <1>1 DEF Valued
<1>3. PICK step : step = [i \in 1..n |-> [x \in Int |-> x + v[i]]]
    OBVIOUS
<1>4. step \in [1..n -> [Int -> Int]]
    BY <1>2, <1>3
<1>5. PICK f \in [0..n -> Int] : InTurn(f, n, 0, step)
    <2>1. PICK X, base : X = Int /\ base = 0
        OBVIOUS
    <2>2. n \in Nat /\ base \in X /\ step \in [1..n -> [X -> X]]
        BY <1>2, <1>4, <2>1
    <2>3. \E f \in [0..n -> X] : InTurn(f, n, base, step)
        BY <2>2, StepsInTurn
    <2> QED
        BY <2>1, <2>3
<1>6. \A i \in 1..n : i \in 0..n /\ i # 0 /\ i - 1 \in 0..n
    BY <1>2
<1>7. f[0] = 0
    BY <1>2, <1>5 DEF InTurn
<1>8. \A i \in 1..n : f[i] = step[i][f[i - 1]]
    BY <1>5, <1>6 DEF InTurn
<1>9. \A i \in 1..n : f[i] = f[i - 1] + notes[i].value
    BY <1>2, <1>3, <1>5, <1>6, <1>8
<1> QED
    BY <1>1, <1>5, <1>7, <1>9 DEF AddsUp

\* What is worth nothing adds nothing, and one note more adds its value.
LEMMA AmountOfNone ==
    ASSUME NEW notes, Len(notes) = 0
    PROVE  Amount(notes) = 0
<1>1. PICK f : f = [i \in 0..0 |-> 0]
    OBVIOUS
<1>2. Valued(notes) /\ AddsUp(f, notes)
    BY <1>1 DEF Valued, AddsUp
<1> QED
    BY <1>1, <1>2, AmountIs

LEMMA AmountIsWhole ==
    ASSUME NEW notes, Valued(notes)
    PROVE  Amount(notes) \in Int
<1>1. PICK f : AddsUp(f, notes)
    BY SumsExist
<1>2. f[Len(notes)] \in Int
    BY <1>1 DEF AddsUp, Valued
<1> QED
    BY <1>1, <1>2, AmountIs

LEMMA AmountOfMore ==
    ASSUME NEW notes, NEW more, Valued(notes), Valued(more), Len(more) = Len(notes) + 1,
           \A i \in 1..Len(notes) : more[i].value = notes[i].value
    PROVE  Amount(more) = Amount(notes) + more[Len(more)].value
<1>1. PICK f : AddsUp(f, notes)
    BY SumsExist
<1>2. PICK n, x : n = Len(notes) /\ x = more[n + 1].value
    OBVIOUS
<1>3. n \in Nat /\ x \in Int /\ f \in [0..n -> Int]
    BY <1>1, <1>2 DEF AddsUp, Valued
<1>4. PICK g : g = [i \in 0..(n + 1) |-> IF i = n + 1 THEN f[n] + x ELSE f[i]]
    OBVIOUS
<1>5. AddsUp(g, more)
    <2>1. g \in [0..(n + 1) -> Int]
        BY <1>3, <1>4
    <2>2. g[0] = 0
        BY <1>1, <1>3, <1>4 DEF AddsUp
    <2>3. ASSUME NEW i \in 1..(n + 1) PROVE g[i] = g[i - 1] + more[i].value
        <3>1. CASE i = n + 1
            <4>1. g[i] = f[n] + x /\ g[i - 1] = f[n]
                BY <1>3, <1>4, <3>1
            <4> QED
                BY <1>2, <3>1, <4>1
        <3>2. CASE i # n + 1
            <4>1. i \in 1..n /\ g[i] = f[i] /\ g[i - 1] = f[i - 1]
                BY <1>3, <1>4, <3>2
            <4> QED
                BY <1>1, <1>2, <4>1 DEF AddsUp
        <3> QED
            BY <3>1, <3>2
    <2> QED
        BY <1>2, <2>1, <2>2, <2>3 DEF AddsUp
<1>6. Amount(more) = g[n + 1] /\ Amount(notes) = f[n]
    BY <1>1, <1>2, <1>5, AmountIs
<1>7. g[n + 1] = f[n] + x
    BY <1>3, <1>4
<1> QED
    BY <1>2, <1>6, <1>7

\* Only the values count.
LEMMA AmountOfAlike ==
    ASSUME NEW notes, NEW others, Valued(notes), Len(others) = Len(notes),
           \A i \in 1..Len(notes) : others[i].value = notes[i].value
    PROVE  Amount(others) = Amount(notes)
<1>1. PICK f : AddsUp(f, notes)
    BY SumsExist
<1>2. AddsUp(f, others) /\ Valued(others)
    BY <1>1 DEF AddsUp, Valued
<1> QED
    BY <1>1, <1>2, AmountIs

\* A note that is worth less by so much takes so much away.
LEMMA AmountOfLess ==
    ASSUME NEW notes, NEW others, Valued(notes), Len(others) = Len(notes),
           NEW k \in 1..Len(notes), NEW x \in Int, others[k].value = notes[k].value - x,
           \A i \in 1..Len(notes) : i # k => others[i].value = notes[i].value
    PROVE  Amount(others) = Amount(notes) - x
<1>1. PICK f : AddsUp(f, notes)
    BY SumsExist
<1>2. PICK n : n = Len(notes)
    OBVIOUS
<1>3. n \in Nat /\ f \in [0..n -> Int] /\ k \in 1..n
    BY <1>1, <1>2 DEF AddsUp, Valued
<1>4. PICK g : g = [i \in 0..n |-> IF i < k THEN f[i] ELSE f[i] - x]
    OBVIOUS
<1>5. AddsUp(g, others)
    <2>1. g \in [0..n -> Int]
        BY <1>3, <1>4
    <2>2. g[0] = 0
        BY <1>1, <1>3, <1>4 DEF AddsUp
    <2>3. ASSUME NEW i \in 1..n PROVE g[i] = g[i - 1] + others[i].value
        <3>00. i - 1 \in 0..n /\ i \in 0..n
            BY <1>3
        <3>0. /\ f[i] = f[i - 1] + notes[i].value /\ notes[i].value \in Int
              /\ f[i - 1] \in Int /\ i - 1 \in 0..n /\ i \in 0..n
            BY <1>1, <1>2, <1>3, <3>00 DEF AddsUp, Valued
        <3>1. CASE i < k
            <4>1. g[i] = f[i] /\ g[i - 1] = f[i - 1]
                BY <1>3, <1>4, <3>0, <3>1
            <4>2. others[i].value = notes[i].value
                BY <1>2, <1>3, <3>1
            <4> QED
                BY <3>0, <4>1, <4>2
        <3>2. CASE i = k
            <4>1. g[i] = f[i] - x /\ g[i - 1] = f[i - 1]
                BY <1>3, <1>4, <3>0, <3>2
            <4>2. others[i].value = notes[i].value - x
                BY <3>2
            <4> QED
                BY <3>0, <4>1, <4>2
        <3>3. CASE i > k
            <4>1. g[i] = f[i] - x /\ g[i - 1] = f[i - 1] - x
                <5>1. ~(i < k) /\ ~(i - 1 < k)
                    BY <1>3, <3>3
                <5> QED
                    BY <1>4, <3>0, <5>1
            <4>2. others[i].value = notes[i].value
                BY <1>2, <1>3, <3>3
            <4> QED
                BY <3>0, <4>1, <4>2
        <3> QED
            BY <1>3, <3>1, <3>2, <3>3
    <2> QED
        BY <1>2, <2>1, <2>2, <2>3 DEF AddsUp
<1>6. Valued(others)
    <2>1. \A i \in 1..Len(notes) : others[i].value \in Int
        BY DEF Valued
    <2> QED
        BY <2>1 DEF Valued
<1>7. Amount(others) = g[n] /\ Amount(notes) = f[n]
    BY <1>1, <1>2, <1>5, <1>6, AmountIs
<1>8. g[n] = f[n] - x
    BY <1>3, <1>4
<1> QED
    BY <1>7, <1>8

\* Notes that are worth something are not worth less than nothing together.
LEMMA AmountIsNatural ==
    ASSUME NEW notes, Len(notes) \in Nat, \A i \in 1..Len(notes) : notes[i].value \in Nat
    PROVE  Amount(notes) \in Nat
<1>1. Valued(notes)
    BY DEF Valued
<1>2. PICK f : AddsUp(f, notes)
    BY <1>1, SumsExist
<1>3. PICK n : n = Len(notes) /\ n \in Nat
    OBVIOUS
<1> DEFINE Debt == {i \in 0..n : f[i] < 0}
<1>4. Debt = {}
    <2> SUFFICES ASSUME Debt # {} PROVE FALSE
        OBVIOUS
    <2>0. Debt \in SUBSET Nat
        BY <1>3
    <2>1. PICK i \in Debt : \A j \in Debt : i <= j
        BY <2>0, LeastOfSome
    <2>2. f[0] = 0
        BY <1>2 DEF AddsUp
    <2>3. i \in 1..n /\ i - 1 \in 0..n /\ i - 1 < i /\ f[i] < 0
        BY <1>3, <2>1, <2>2
    <2>4. ~(f[i - 1] < 0)
        BY <2>0, <2>1, <2>3
    <2>5. f[i] = f[i - 1] + notes[i].value /\ notes[i].value \in Nat /\ f[i - 1] \in Int
        BY <1>2, <1>3, <2>3 DEF AddsUp
    <2> QED
        BY <2>3, <2>4, <2>5
<1>5. f[n] \in Int /\ n \in 0..n
    BY <1>2, <1>3 DEF AddsUp
<1>6. f[n] \in Nat
    BY <1>4, <1>5
<1> QED
    BY <1>1, <1>2, <1>3, <1>6, AmountIs

-----------------------------------------------------------------------------
(***************************************************************************)
(* What is live is worth what it was, less what is spent, more what is made.  *)
(***************************************************************************)
LEMMA OpeningsHaveValues ==
    ASSUME NEW note \in Opening
    PROVE  note.value \in Int
<1>1. PICK x : x = note.value
    OBVIOUS
<1>2. x \in Values \cup Nat
    BY <1>1 DEF Opening
<1>3. \A y \in Values : y \in Int
    BY PaymentAssumption
<1>4. x \in Int
    BY <1>2, <1>3
<1> QED
    BY <1>1, <1>4

LEMMA WorthIsWhole ==
    ASSUME NEW book \in Seq(Opening), NEW cms
    PROVE  /\ Worth(book, cms) \in Int
           /\ Valued([i \in DOMAIN book |-> IF i \in cms THEN book[i] ELSE [value |-> 0]])
<1>1. PICK s : s = [i \in DOMAIN book |-> IF i \in cms THEN book[i] ELSE [value |-> 0]]
    OBVIOUS
<1>2. \A i \in 1..Len(book) : book[i] \in Opening
    OBVIOUS
<1>3. \A i \in 1..Len(book) : book[i].value \in Int
    BY <1>2, OpeningsHaveValues
<1>4. Len(s) = Len(book) /\ Len(book) \in Nat
    BY <1>1
<1>5. \A i \in 1..Len(s) : s[i].value \in Int
    BY <1>1, <1>3, <1>4
<1> QED
    BY <1>1, <1>4, <1>5, AmountIsWhole DEF Valued, Worth

LEMMA WorthOfLess ==
    ASSUME NEW book \in Seq(Opening), NEW cms, NEW a \in cms, a \in DOMAIN book
    PROVE  Worth(book, cms \ {a}) = Worth(book, cms) - book[a].value
<1>1. PICK s, t : /\ s = [i \in DOMAIN book |-> IF i \in cms THEN book[i] ELSE [value |-> 0]]
                  /\ t = [i \in DOMAIN book |-> IF i \in cms \ {a} THEN book[i] ELSE [value |-> 0]]
    OBVIOUS
<1>2. Valued(s)
    BY <1>1, WorthIsWhole
<1>3. Len(s) = Len(book) /\ Len(t) = Len(book) /\ a \in 1..Len(s)
    BY <1>1
<1>4. book[a].value \in Int
    BY OpeningsHaveValues
<1>5. t[a].value = 0 /\ s[a].value = book[a].value
    BY <1>1
<1>6. \A i \in 1..Len(s) : i # a => t[i].value = s[i].value
    BY <1>1, <1>3
<1>7. Amount(t) = Amount(s) - book[a].value
    BY <1>2, <1>3, <1>4, <1>5, <1>6, AmountOfLess
<1> QED
    BY <1>1, <1>7 DEF Worth

LEMMA WorthOfMore ==
    ASSUME NEW book \in Seq(Opening), NEW cms \in SUBSET DOMAIN book, NEW note \in Opening
    PROVE  Worth(Append(book, note), cms \cup {Len(book) + 1}) = Worth(book, cms) + note.value
<1>1. PICK more : more = Append(book, note)
    OBVIOUS
<1>2. /\ more \in Seq(Opening) /\ Len(more) = Len(book) + 1 /\ DOMAIN more = 1..Len(more)
      /\ more[Len(book) + 1] = note /\ \A i \in 1..Len(book) : more[i] = book[i]
      /\ DOMAIN book = 1..Len(book) /\ Len(book) \in Nat
    BY <1>1
<1>3. PICK all : all = cms \cup {Len(book) + 1}
    OBVIOUS
<1>4. PICK s, t : /\ s = [i \in DOMAIN book |-> IF i \in cms THEN book[i] ELSE [value |-> 0]]
                  /\ t = [i \in DOMAIN more |-> IF i \in all THEN more[i] ELSE [value |-> 0]]
    OBVIOUS
<1>5. Valued(s) /\ Valued(t)
    BY <1>2, <1>4, WorthIsWhole
<1>6. Len(s) = Len(book) /\ Len(t) = Len(s) + 1
    BY <1>2, <1>4
<1>7. \A i \in 1..Len(s) : t[i].value = s[i].value
    <2> SUFFICES ASSUME NEW i \in 1..Len(s) PROVE t[i].value = s[i].value
        OBVIOUS
    <2>1. i \in DOMAIN book /\ i \in DOMAIN more /\ i # Len(book) + 1 /\ more[i] = book[i]
        BY <1>2, <1>6
    <2>2. i \in all <=> i \in cms
        BY <1>3, <2>1
    <2> QED
        BY <1>4, <2>1, <2>2
<1>8. t[Len(t)].value = note.value
    <2>1. Len(t) \in DOMAIN more /\ Len(t) \in all /\ more[Len(t)] = note
        BY <1>2, <1>3, <1>6
    <2> QED
        BY <1>4, <2>1
<1>9. Amount(t) = Amount(s) + t[Len(t)].value
    BY <1>5, <1>6, <1>7, AmountOfMore
<1> QED
    BY <1>1, <1>3, <1>4, <1>8, <1>9 DEF Worth

\* One or two notes.
LEMMA AmountOfOne ==
    ASSUME NEW notes, Len(notes) = 1, notes[1].value \in Int
    PROVE  Amount(notes) = notes[1].value
<1>1. PICK none : none = <<>>
    OBVIOUS
<1>2. Len(none) = 0
    BY <1>1
<1>3. Valued(notes) /\ Valued(none) /\ Amount(none) = 0
    BY <1>2, AmountOfNone DEF Valued
<1>4. Len(notes) = Len(none) + 1 /\ \A i \in 1..Len(none) : notes[i].value = none[i].value
    BY <1>2
<1>5. Amount(notes) = Amount(none) + notes[Len(notes)].value
    BY <1>3, <1>4, AmountOfMore
<1> QED
    BY <1>3, <1>5

LEMMA AmountOfTwo ==
    ASSUME NEW notes, Len(notes) = 2, notes[1].value \in Int, notes[2].value \in Int
    PROVE  Amount(notes) = notes[1].value + notes[2].value
<1>1. PICK one : one = <<notes[1]>>
    OBVIOUS
<1>2. Valued(notes) /\ Valued(one) /\ Len(one) = 1 /\ one[1] = notes[1]
    BY <1>1 DEF Valued
<1>3. Amount(one) = notes[1].value
    BY <1>2, AmountOfOne
<1>4. Len(notes) = Len(one) + 1 /\ \A i \in 1..Len(one) : notes[i].value = one[i].value
    BY <1>2
<1>5. Amount(notes) = Amount(one) + notes[Len(notes)].value
    BY <1>2, <1>4, AmountOfMore
<1> QED
    BY <1>3, <1>5

LEMMA Joined ==
    ASSUME NEW S, NEW s \in Seq(S), NEW t \in Seq(S)
    PROVE  s \o t \in Seq(S) /\ Len(s \o t) = Len(s) + Len(t)
OBVIOUS

LEMMA OneMore ==
    ASSUME NEW S, NEW s \in Seq(S), NEW x \in S
    PROVE  s \o <<x>> = Append(s, x)
<1>1. PICK t, u : t = s \o <<x>> /\ u = Append(s, x)
    OBVIOUS
<1>2. t \in Seq(S) /\ u \in Seq(S) /\ Len(t) = Len(s) + 1 /\ Len(u) = Len(s) + 1 /\ Len(s) \in Nat
    BY <1>1
<1>3. t[Len(s) + 1] = x /\ u[Len(s) + 1] = x
    BY <1>1
<1>4. \A i \in 1..Len(s) : t[i] = s[i] /\ u[i] = s[i]
    BY <1>1
<1>5. \A i \in 1..Len(t) : t[i] = u[i]
    <2> SUFFICES ASSUME NEW i \in 1..Len(t) PROVE t[i] = u[i]
        OBVIOUS
    <2>1. i \in 1..Len(s) \/ i = Len(s) + 1
        BY <1>2
    <2> QED
        BY <1>3, <1>4, <2>1
<1>6. t = [i \in 1..Len(t) |-> t[i]] /\ u = [i \in 1..Len(u) |-> u[i]]
    BY <1>2
<1> QED
    BY <1>1, <1>2, <1>5, <1>6

LEMMA TwoMore ==
    ASSUME NEW S, NEW s \in Seq(S), NEW x \in S, NEW y \in S
    PROVE  s \o <<x, y>> = Append(Append(s, x), y)
<1>1. PICK t, u, v : t = s \o <<x, y>> /\ v = Append(s, x) /\ u = Append(v, y)
    OBVIOUS
<1>2. /\ v \in Seq(S) /\ Len(v) = Len(s) + 1 /\ v[Len(s) + 1] = x
      /\ \A i \in 1..Len(s) : v[i] = s[i]
    BY <1>1
<1>3. t \in Seq(S) /\ u \in Seq(S) /\ Len(t) = Len(s) + 2 /\ Len(u) = Len(s) + 2 /\ Len(s) \in Nat
    BY <1>1, <1>2
<1>4. t[Len(s) + 1] = x /\ t[Len(s) + 2] = y
    BY <1>1
<1>5. u[Len(s) + 2] = y /\ \A i \in 1..(Len(s) + 1) : u[i] = v[i]
    BY <1>1, <1>2
<1>6. \A i \in 1..Len(s) : t[i] = s[i]
    BY <1>1
<1>7. \A i \in 1..Len(t) : t[i] = u[i]
    <2> SUFFICES ASSUME NEW i \in 1..Len(t) PROVE t[i] = u[i]
        OBVIOUS
    <2>1. \/ i \in 1..Len(s) /\ i \in 1..(Len(s) + 1)
          \/ i = Len(s) + 1 /\ i \in 1..(Len(s) + 1)
          \/ i = Len(s) + 2
        BY <1>3
    <2> QED
        BY <1>2, <1>4, <1>5, <1>6, <2>1
<1>8. t = [i \in 1..Len(t) |-> t[i]] /\ u = [i \in 1..Len(u) |-> u[i]]
    BY <1>3
<1> QED
    BY <1>1, <1>3, <1>7, <1>8

LEMMA WorthOfSpent ==
    ASSUME NEW book \in Seq(Opening), NEW cms \in SUBSET DOMAIN book, NEW ins,
           IsInjective(ins), ToSet(ins) \subseteq cms,
           (\E a \in cms : ins = <<a>>) \/ \E a, b \in cms : ins = <<a, b>>
    PROVE  Worth(book, cms \ ToSet(ins)) = Worth(book, cms) - Amount(Open(book, ins))
<1>01. Worth(book, cms) \in Int
    BY WorthIsWhole
<1>02. \A a \in cms : book[a] \in Opening
    OBVIOUS
<1>0. \A a \in cms : book[a].value \in Int /\ Worth(book, cms) \in Int
    BY <1>01, <1>02, OpeningsHaveValues
<1>1. CASE \E a \in cms : ins = <<a>>
    <2>1. PICK a \in cms : ins = <<a>>
        BY <1>1
    <2>2. PICK spent : spent = Open(book, ins)
        OBVIOUS
    <2>3. Len(spent) = 1 /\ spent[1] = book[a]
        BY <2>1, <2>2 DEF Open
    <2>4. Amount(spent) = book[a].value
        BY <1>0, <2>3, AmountOfOne
    <2>5. ToSet(ins) = {a}
        BY <2>1 DEF ToSet
    <2> QED
        BY <2>2, <2>4, <2>5, WorthOfLess
<1>2. CASE \E a, b \in cms : ins = <<a, b>>
    <2>1. PICK a \in cms, b \in cms : ins = <<a, b>>
        BY <1>2
    <2>2. PICK spent : spent = Open(book, ins)
        OBVIOUS
    <2>3. Len(spent) = 2 /\ spent[1] = book[a] /\ spent[2] = book[b]
        BY <2>1, <2>2 DEF Open
    <2>4. Amount(spent) = book[a].value + book[b].value
        BY <1>0, <2>3, AmountOfTwo
    <2>5. ToSet(ins) = {a, b}
        BY <2>1 DEF ToSet
    <2>6. a # b
        BY <2>1 DEF IsInjective
    <2>7. Worth(book, cms \ {a}) = Worth(book, cms) - book[a].value
        BY WorthOfLess
    <2>8. Worth(book, (cms \ {a}) \ {b}) = Worth(book, cms \ {a}) - book[b].value
        BY <2>6, WorthOfLess
    <2>9. (cms \ {a}) \ {b} = cms \ ToSet(ins)
        BY <2>5
    <2>10. PICK w, x, y : w = Worth(book, cms) /\ x = book[a].value /\ y = book[b].value
        OBVIOUS
    <2>11. w \in Int /\ x \in Int /\ y \in Int
        BY <1>0, <2>10
    <2>12. Worth(book, cms \ ToSet(ins)) = (w - x) - y
        BY <2>7, <2>8, <2>9, <2>10
    <2>13. Amount(Open(book, ins)) = x + y
        BY <2>2, <2>4, <2>10
    <2>14. (w - x) - y = w - (x + y)
        BY <2>11
    <2> QED
        BY <2>10, <2>12, <2>13, <2>14
<1> QED
    BY <1>1, <1>2

LEMMA WorthOfMade ==
    ASSUME NEW book \in Seq(Opening), NEW cms \in SUBSET DOMAIN book, NEW notes,
           notes \in [1..1 -> Opening] \cup [1..2 -> Opening]
    PROVE  /\ Worth(book \o notes, cms \cup ToSet(Commitments(Len(book), notes)))
                = Worth(book, cms) + Amount(notes)
           /\ ToSet(Commitments(Len(book), notes)) = {Len(book) + i : i \in DOMAIN notes}
<1>0. PICK outs : outs = Commitments(Len(book), notes)
    OBVIOUS
<1>11. Len(book) \in Nat
    OBVIOUS
<1>12. Worth(book, cms) \in Int
    BY WorthIsWhole
<1>1. Worth(book, cms) \in Int /\ Len(book) \in Nat
    BY <1>11, <1>12
<1>2. ToSet(outs) = {Len(book) + i : i \in DOMAIN notes}
    BY <1>0 DEF ToSet, Commitments
<1>3. CASE notes \in [1..1 -> Opening]
    <2>1. notes = <<notes[1]>> /\ notes[1] \in Opening /\ Len(notes) = 1
        BY <1>3
    <2>2. book \o notes = Append(book, notes[1])
        BY <2>1, OneMore
    <2>3. ToSet(outs) = {Len(book) + 1}
        BY <1>2, <2>1
    <2>4. Amount(notes) = notes[1].value
        BY <2>1, AmountOfOne, OpeningsHaveValues
    <2> QED
        BY <1>0, <1>2, <2>1, <2>2, <2>3, <2>4, WorthOfMore
<1>4. CASE notes \in [1..2 -> Opening]
    <2>1. notes = <<notes[1], notes[2]>> /\ notes[1] \in Opening /\ notes[2] \in Opening /\ Len(notes) = 2
        BY <1>4
    <2>2. PICK one : one = Append(book, notes[1])
        OBVIOUS
    <2>3. one \in Seq(Opening) /\ Len(one) = Len(book) + 1 /\ DOMAIN one = 1..(Len(book) + 1)
        BY <2>1, <2>2
    <2>4. book \o notes = Append(one, notes[2])
        <3>1. PICK x \in Opening, y \in Opening : x = notes[1] /\ y = notes[2]
            BY <2>1
        <3>2. book \o <<x, y>> = Append(Append(book, x), y)
            BY TwoMore
        <3>3. notes = <<x, y>>
            BY <2>1, <3>1
        <3> QED
            BY <2>2, <3>1, <3>2, <3>3
    <2>5. PICK live1 : live1 = cms \cup {Len(book) + 1}
        OBVIOUS
    <2>6. live1 \in SUBSET DOMAIN one
        BY <1>1, <2>3, <2>5
    <2>7. Worth(one, live1) = Worth(book, cms) + notes[1].value
        BY <2>1, <2>2, <2>5, WorthOfMore
    <2>8. Worth(Append(one, notes[2]), live1 \cup {Len(one) + 1}) = Worth(one, live1) + notes[2].value
        BY <2>1, <2>3, <2>6, WorthOfMore
    <2>9. ToSet(outs) = {Len(book) + 1, Len(one) + 1}
        <3>1. DOMAIN notes = {1, 2}
            BY <1>4
        <3>2. ToSet(outs) = {Len(book) + 1, Len(book) + 2}
            BY <1>2, <3>1
        <3> QED
            BY <1>1, <2>3, <3>2
    <2>10. Amount(notes) = notes[1].value + notes[2].value
        BY <2>1, AmountOfTwo, OpeningsHaveValues
    <2>11. notes[1].value \in Int /\ notes[2].value \in Int
        BY <2>1, OpeningsHaveValues
    <2>12. live1 \cup {Len(one) + 1} = cms \cup ToSet(outs)
        BY <2>5, <2>9
    <2>13. PICK w, x, y : w = Worth(book, cms) /\ x = notes[1].value /\ y = notes[2].value
        OBVIOUS
    <2>14. w \in Int /\ x \in Int /\ y \in Int
        BY <1>1, <2>11, <2>13
    <2>15. Worth(book \o notes, cms \cup ToSet(outs)) = (w + x) + y
        BY <2>4, <2>7, <2>8, <2>12, <2>13
    <2>16. (w + x) + y = w + (x + y)
        BY <2>14
    <2> QED
        BY <1>0, <1>2, <2>10, <2>13, <2>15, <2>16
<1> QED
    BY <1>3, <1>4

-----------------------------------------------------------------------------
(***************************************************************************)
(* What a transaction that is taken says of the notes: it is what was signed, *)
(* and the row that adds up in the field adds up.                             *)
(***************************************************************************)
LEMMA BetweenMultiples ==
    ASSUME NEW x \in Int, NEW y \in Int, P > 0, x % P = y % P, x - y < P, y - x < P
    PROVE  x = y
<1>1. P \in Nat
    BY PaymentAssumption
<1>2. PICK q, r, m : q = x \div P /\ r = y \div P /\ m = x % P
    OBVIOUS
<1>3. q \in Int /\ r \in Int /\ m \in Int /\ x = P * q + m /\ y = P * r + m
    BY <1>1, <1>2
<1>4. PICK d \in Int : d = q - r
    BY <1>3
<1>5. x - y = P * d
    BY <1>1, <1>3, <1>4
<1>6. ~(d >= 1)
    <2> SUFFICES ASSUME d >= 1 PROVE FALSE
        OBVIOUS
    <2>1. P * d >= P
        BY <1>1
    <2> QED
        BY <1>1, <1>5, <2>1
<1>7. ~(d <= -1)
    <2> SUFFICES ASSUME d <= -1 PROVE FALSE
        OBVIOUS
    <2>1. P * d <= -P
        BY <1>1
    <2> QED
        BY <1>1, <1>5, <2>1
<1>8. d = 0
    BY <1>6, <1>7
<1> QED
    BY <1>1, <1>5, <1>8

LEMMA FieldIsPositive == P \in Nat /\ P > 0 /\ MaxValue \in Nat /\ 4 * MaxValue < P
<1>1. P \in Nat /\ MaxValue \in Nat /\ 4 * MaxValue < P
    BY PaymentAssumption, FieldIsWide DEF MaxSlots
<1>2. 4 * MaxValue >= 0
    BY <1>1
<1> QED
    BY <1>1, <1>2

LEMMA MultiplesAreNothing ==
    ASSUME NEW z \in Int
    PROVE  (P * z) % P = 0
<1>1. P \in Nat /\ P > 0
    BY FieldIsPositive
<1>2. PICK x : x = P * z
    OBVIOUS
<1>3. PICK q, m : q = x \div P /\ m = x % P
    OBVIOUS
<1>4. x \in Int /\ q \in Int /\ m \in 0..(P - 1) /\ x = P * q + m
    BY <1>1, <1>2, <1>3
<1>5. PICK d \in Int : d = z - q
    BY <1>4
<1>6. m = P * d
    BY <1>1, <1>2, <1>4, <1>5
<1>7. ~(d >= 1)
    <2> SUFFICES ASSUME d >= 1 PROVE FALSE
        OBVIOUS
    <2>1. P * d >= P
        BY <1>1
    <2> QED
        BY <1>1, <1>4, <1>6, <2>1
<1>8. ~(d <= -1)
    <2> SUFFICES ASSUME d <= -1 PROVE FALSE
        OBVIOUS
    <2>1. P * d <= -P
        BY <1>1
    <2> QED
        BY <1>1, <1>4, <1>6, <2>1
<1>9. d = 0
    BY <1>7, <1>8
<1> QED
    BY <1>1, <1>2, <1>3, <1>6, <1>9

\* What differs by nothing in the field moves nothing in it.
LEMMA MovedByNothing ==
    ASSUME NEW x \in Int, NEW d \in Int, NEW f \in Int, x % P = 0, d % P = f % P
    PROVE  (x + (d - f)) % P = 0
<1>1. P \in Nat /\ P > 0
    BY FieldIsPositive
<1>2. PICK q, r, t, m : q = x \div P /\ r = d \div P /\ t = f \div P /\ m = d % P
    OBVIOUS
<1>3. /\ q \in Int /\ r \in Int /\ t \in Int /\ m \in Int
      /\ x = P * q /\ d = P * r + m /\ f = P * t + m
    BY <1>1, <1>2
<1>4. PICK z \in Int : z = q + (r - t)
    BY <1>3
<1>5. x + (d - f) = P * z
    BY <1>1, <1>3, <1>4
<1> QED
    BY <1>4, <1>5, MultiplesAreNothing

\* The book with what is made written in.
LEMMA BookWithMade ==
    ASSUME BookInv, NEW notes \in NotesOf(1..1) \cup NotesOf(1..2)
    PROVE  /\ notes \in [1..1 -> Opening] \cup [1..2 -> Opening] /\ notes \in Seq(Opening)
           /\ openings \o notes \in Seq(Opening)
           /\ DOMAIN (openings \o notes) = 1..(Len(openings) + Len(notes))
           /\ \A cm \in DOMAIN openings : (openings \o notes)[cm] = openings[cm]
           /\ \A i \in DOMAIN notes : (openings \o notes)[Len(openings) + i] = notes[i]
           /\ Open(openings \o notes, NewCms(notes)) = notes
           /\ \A ins \in Chosen : Open(openings \o notes, ins) = Open(openings, ins)
<1>1. [value : Values, asset : Assets, owner : Holders] \subseteq Opening
    BY DEF Opening
<1>2. notes \in [1..1 -> Opening] \cup [1..2 -> Opening]
    BY <1>1 DEF NotesOf
<1>3. notes \in Seq(Opening) /\ DOMAIN notes = 1..Len(notes) /\ Len(notes) \in Nat
    <2>1. \A n \in {1, 2} : \A f \in [1..n -> Opening] : f \in Seq(Opening)
        OBVIOUS
    <2> QED
        BY <1>2, <2>1
<1>4. PICK book : book = openings \o notes
    OBVIOUS
<1>5. openings \in Seq(Opening) /\ DOMAIN openings = 1..Len(openings) /\ Len(openings) \in Nat
    BY DEF BookInv
<1>6. book \in Seq(Opening) /\ Len(book) = Len(openings) + Len(notes) /\ DOMAIN book = 1..Len(book)
    BY <1>3, <1>4, <1>5
<1>7. \A cm \in DOMAIN openings : book[cm] = openings[cm]
    BY <1>3, <1>4, <1>5
<1>8. \A i \in DOMAIN notes : book[Len(openings) + i] = notes[i]
    BY <1>3, <1>4, <1>5
<1>9. Open(book, NewCms(notes)) = notes
    <2>1. PICK k : k \in {1, 2} /\ notes \in [1..k -> Opening]
        BY <1>2
    <2>2. notes = [i \in 1..k |-> notes[i]] /\ DOMAIN notes = 1..k
        BY <2>1
    <2>3. Open(book, NewCms(notes)) = [i \in 1..k |-> book[Len(openings) + i]]
        BY <2>2 DEF Open, NewCms, Commitments
    <2> QED
        BY <1>8, <2>2, <2>3
<1>10. \A ins \in Chosen : Open(book, ins) = Open(openings, ins)
    <2> SUFFICES ASSUME NEW ins \in Chosen PROVE Open(book, ins) = Open(openings, ins)
        OBVIOUS
    <2>1. \A i \in DOMAIN ins : ins[i] \in DOMAIN openings
        BY DEF Chosen, BookInv
    <2> QED
        BY <1>7, <2>1 DEF Open
<1> QED
    BY <1>2, <1>3, <1>4, <1>6, <1>7, <1>8, <1>9, <1>10

LEMMA ChosenIsLive ==
    ASSUME BookInv, NEW ins \in Chosen
    PROVE  /\ ins # <<>> /\ 1 \in DOMAIN ins /\ ToSet(ins) \subseteq live
           /\ (\E a \in live : ins = <<a>>) \/ \E a, b \in live : ins = <<a, b>>
           /\ \A i \in DOMAIN ins : ins[i] \in live /\ ins[i] \in DOMAIN openings
<1>1. CASE \E a \in live : ins = <<a>>
    BY <1>1 DEF BookInv, ToSet
<1>2. CASE \E a, b \in live : ins = <<a, b>>
    BY <1>2 DEF BookInv, ToSet
<1>3. (\E a \in live : ins = <<a>>) \/ \E a, b \in live : ins = <<a, b>>
    <2>1. CASE ins \in {<<a>> : a \in live}
        BY <2>1
    <2>2. CASE ins \in {p \in live \X live : p[1] <= p[2]}
        BY <2>2
    <2> QED
        BY <2>1, <2>2 DEF Chosen
<1> QED
    BY <1>1, <1>2, <1>3

LEMMA AlteredIsRefused ==
    ASSUME CarriedInv, BookInv, carried # None, carried.altered
    PROVE  ~Authenticate(carried.tx, Chain)
<1> SUFFICES ASSUME Authenticate(carried.tx, Chain) PROVE FALSE
    OBVIOUS
<1>1. PICK fee, ins, outs, signers, sealed, notes :
        /\ fee = Signed[2] /\ ins = Signed[3] /\ outs = Signed[4] /\ signers = Signed[5]
        /\ sealed = Signed[6] /\ notes = carried.made
    OBVIOUS
<1>2. PICK tx, f, o, s : tx = Written /\ f = carried.tx.fee /\ o = carried.tx.outs /\ s = carried.tx.sealed
    OBVIOUS
<1>3. carried.tx = Changed(tx, f, o, s) /\ carried.tx # tx /\ Signed[1] = Chain /\ ins \in Chosen
    BY <1>1, <1>2 DEF CarriedInv
<1>4. tx = Assemble(Chain, fee, ins, outs, notes, signers, sealed)
    BY <1>1, <1>2, <1>3 DEF Written
<1>5. PICK beta, v, sigs : /\ beta = <<Chain, fee, ins, outs, signers, sealed>>
                           /\ v = Rows(openings \o notes, ins, outs, beta)
                           /\ sigs = [i \in DOMAIN ins |-> <<signers[i], beta>>]
    OBVIOUS
<1>6. tx = [chain |-> Chain, fee |-> fee, ins |-> ins, outs |-> outs, owners |-> signers,
            sealed |-> sealed, binding |-> beta, v |-> v, proof |-> Prove(v), sigs |-> sigs]
    BY <1>4, <1>5 DEF Assemble, Binding
<1>7. PICK ch : ch = carried.tx
    OBVIOUS
<1>8. /\ ch.chain = Chain /\ ch.ins = ins /\ ch.owners = signers /\ ch.sigs = sigs
      /\ ch.fee = f /\ ch.outs = o /\ ch.sealed = s
    BY <1>3, <1>6, <1>7 DEF Changed
<1>9. 1 \in DOMAIN ins
    BY <1>3, ChosenIsLive
<1>10. ch.sigs[1] = <<ch.owners[1], Binding(ch.chain, ch.fee, ch.ins, ch.outs, ch.owners, ch.sealed)>>
    BY <1>7, <1>8, <1>9 DEF Authenticate
<1>11. <<signers[1], beta>> = <<signers[1], <<Chain, f, ins, o, signers, s>>>>
    BY <1>5, <1>8, <1>9, <1>10 DEF Binding
<1>12. beta = <<Chain, f, ins, o, signers, s>>
    BY <1>11
<1>13. f = fee /\ o = outs /\ s = sealed
    BY <1>5, <1>12
<1>14. v.bind = beta /\ v = [notes |-> v.notes, sum |-> v.sum, asset |-> v.asset, range |-> v.range,
                            nfs |-> v.nfs, owners |-> v.owners, bind |-> beta]
    BY <1>5 DEF Rows
<1>15. [v EXCEPT !.bind = beta] = v
    BY <1>14
<1>16. tx.v = v /\ tx.binding = beta /\ tx.fee = fee /\ tx.outs = outs /\ tx.sealed = sealed
    BY <1>6
<1>17. Changed(tx, fee, outs, sealed) = [tx EXCEPT !.fee = fee, !.outs = outs, !.sealed = sealed,
                                                   !.binding = beta, !.v = [tx.v EXCEPT !.bind = beta]]
    BY <1>5, <1>6 DEF Changed, Binding
<1>18. Changed(tx, fee, outs, sealed) = [tx EXCEPT !.fee = fee, !.outs = outs, !.sealed = sealed,
                                                   !.binding = beta, !.v = v]
    BY <1>15, <1>16, <1>17
<1>19. [tx EXCEPT !.fee = fee, !.outs = outs, !.sealed = sealed, !.binding = beta, !.v = v] = tx
    <2>1. [tx EXCEPT !.fee = fee] = tx
        BY <1>6
    <2>2. [tx EXCEPT !.outs = outs] = tx
        BY <1>6
    <2>3. [tx EXCEPT !.sealed = sealed] = tx
        BY <1>6
    <2>4. [tx EXCEPT !.binding = beta] = tx
        BY <1>6
    <2>5. [tx EXCEPT !.v = v] = tx
        BY <1>6
    <2>6. [tx EXCEPT !.fee = fee, !.outs = outs, !.sealed = sealed, !.binding = beta, !.v = v]
           = [[[[[tx EXCEPT !.fee = fee] EXCEPT !.outs = outs] EXCEPT !.sealed = sealed]
                  EXCEPT !.binding = beta] EXCEPT !.v = v]
        OBVIOUS
    <2> QED
        BY <2>1, <2>2, <2>3, <2>4, <2>5, <2>6
<1> QED
    BY <1>3, <1>13, <1>18, <1>19

\* What is in a transaction, and what its rows say of the notes.
Says(tx, fee, ins, notes, signers, sealed) ==
    LET beta == Binding(Chain, fee, ins, NewCms(notes), signers, sealed)
        all == Open(openings, ins) \o notes
    IN /\ tx.chain = Chain /\ tx.fee = fee /\ tx.ins = ins /\ tx.outs = NewCms(notes)
       /\ tx.owners = signers /\ tx.sealed = sealed /\ tx.binding = beta
       /\ tx.v.bind = beta /\ tx.v.notes = ins \o NewCms(notes) /\ tx.v.nfs = ins
       /\ tx.v.sum = (Amount(Open(openings, ins)) - Amount(notes)) % P
       /\ tx.v.asset = (\A i, j \in DOMAIN all : all[i].asset = all[j].asset)
       /\ tx.v.range = (\A i \in DOMAIN notes : InRange(notes[i].value))
       /\ tx.v.owners = [i \in DOMAIN ins |-> openings[ins[i]].owner]
       /\ tx.proof = Prove(tx.v)
       /\ tx.sigs = [i \in DOMAIN ins |-> <<signers[i], beta>>]

LEMMA AssembledSays ==
    ASSUME BookInv, NEW fee, NEW ins \in Chosen, NEW notes \in NotesOf(1..1) \cup NotesOf(1..2),
           NEW signers, NEW sealed
    PROVE  Says(Assemble(Chain, fee, ins, NewCms(notes), notes, signers, sealed),
                fee, ins, notes, signers, sealed)
<1>1. PICK beta, outs, book, v :
        /\ outs = NewCms(notes) /\ beta = Binding(Chain, fee, ins, outs, signers, sealed)
        /\ book = openings \o notes /\ v = Rows(book, ins, outs, beta)
    OBVIOUS
<1>2. PICK tx : tx = Assemble(Chain, fee, ins, outs, notes, signers, sealed)
    OBVIOUS
<1>3. /\ tx.chain = Chain /\ tx.fee = fee /\ tx.ins = ins /\ tx.outs = outs /\ tx.owners = signers
      /\ tx.sealed = sealed /\ tx.binding = beta /\ tx.v = v /\ tx.proof = Prove(v)
      /\ tx.sigs = [i \in DOMAIN ins |-> <<signers[i], beta>>]
    BY <1>1, <1>2 DEF Assemble
<1>4. Open(book, ins) = Open(openings, ins) /\ Open(book, outs) = notes
    BY <1>1, BookWithMade
<1>5. \A i \in DOMAIN notes : book[Len(openings) + i] = notes[i]
    BY <1>1, BookWithMade
<1>6. DOMAIN outs = DOMAIN notes /\ \A i \in DOMAIN notes : outs[i] = Len(openings) + i
    BY <1>1 DEF NewCms, Commitments
<1>7. \A i \in DOMAIN ins : book[ins[i]] = openings[ins[i]]
    BY <1>1, BookWithMade, ChosenIsLive
<1> DEFINE all == Open(openings, ins) \o notes
<1>80. PICK spent, made : spent = Open(book, ins) /\ made = Open(book, outs)
    OBVIOUS
<1>81. v = LET n == spent \o made
           IN [notes |-> ins \o outs, sum |-> (Amount(spent) - Amount(made)) % P,
               asset |-> \A i, j \in DOMAIN n : n[i].asset = n[j].asset,
               range |-> \A i \in DOMAIN outs : InRange(book[outs[i]].value),
               nfs |-> ins, owners |-> [i \in DOMAIN ins |-> book[ins[i]].owner], bind |-> beta]
    BY <1>1, <1>80 DEF Rows
<1>82. v.bind = beta /\ v.notes = ins \o outs /\ v.nfs = ins
    BY <1>81
<1>83. v.sum = (Amount(Open(openings, ins)) - Amount(notes)) % P
    BY <1>4, <1>80, <1>81
<1>84. v.asset = (\A i, j \in DOMAIN all : all[i].asset = all[j].asset)
    BY <1>4, <1>80, <1>81
<1>85. v.range = (\A i \in DOMAIN outs : InRange(book[outs[i]].value))
    BY <1>81
<1>86. v.owners = [i \in DOMAIN ins |-> book[ins[i]].owner]
    BY <1>81
<1>8. /\ v.bind = beta /\ v.notes = ins \o outs /\ v.nfs = ins
      /\ v.sum = (Amount(Open(openings, ins)) - Amount(notes)) % P
      /\ v.asset = (\A i, j \in DOMAIN all : all[i].asset = all[j].asset)
      /\ v.range = (\A i \in DOMAIN outs : InRange(book[outs[i]].value))
      /\ v.owners = [i \in DOMAIN ins |-> book[ins[i]].owner]
    BY <1>82, <1>83, <1>84, <1>85, <1>86
<1>9. v.range = (\A i \in DOMAIN notes : InRange(notes[i].value))
    BY <1>5, <1>6, <1>8
<1>10. v.owners = [i \in DOMAIN ins |-> openings[ins[i]].owner]
    BY <1>7, <1>8
<1> QED
    BY <1>1, <1>2, <1>3, <1>8, <1>9, <1>10 DEF Says

LEMMA UnalteredSays ==
    ASSUME BookInv, CarriedInv, carried # None, ~carried.altered
    PROVE  /\ carried.made \in NotesOf(1..1) \cup NotesOf(1..2)
           /\ \E fee, ins, signers, sealed :
                /\ fee \in Fees /\ ins \in Chosen
                /\ Says(carried.tx, fee, ins, carried.made, signers, sealed)
                /\ sealed \in {<<>>} \cup [DOMAIN carried.made -> Holders \X Nat]
                /\ carried.from = "wallet" =>
                     /\ signers = [i \in DOMAIN ins |-> openings[ins[i]].owner]
                     /\ sealed = SealedTo(carried.made)
                     /\ Buildable(ins, carried.made, fee, signers)
<1>1. PICK fee, ins, signers, sealed, notes :
        /\ fee = Signed[2] /\ ins = Signed[3] /\ signers = Signed[5]
        /\ sealed = Signed[6] /\ notes = carried.made
    OBVIOUS
<1>2. /\ Signed[1] = Chain /\ Signed[4] = NewCms(notes) /\ fee \in Fees /\ ins \in Chosen
      /\ notes \in NotesOf(1..1) \cup NotesOf(1..2) /\ carried.tx = Written
      /\ sealed \in {<<>>} \cup [DOMAIN notes -> Holders \X Nat]
      /\ carried.from = "wallet" =>
                     /\ signers = [i \in DOMAIN ins |-> openings[ins[i]].owner]
                     /\ sealed = SealedTo(notes)
                     /\ Buildable(ins, notes, fee, signers)
    BY <1>1 DEF CarriedInv
<1>3. carried.tx = Assemble(Chain, fee, ins, NewCms(notes), notes, signers, sealed)
    BY <1>1, <1>2 DEF Written
<1>4. Says(carried.tx, fee, ins, notes, signers, sealed)
    BY <1>2, <1>3, AssembledSays
<1> QED
    BY <1>1, <1>2, <1>4

LEMMA CommitmentsAreNew ==
    ASSUME BookInv, NEW notes \in NotesOf(1..1) \cup NotesOf(1..2)
    PROVE  /\ NewCms(notes) # <<>> /\ IsInjective(NewCms(notes)) /\ Len(NewCms(notes)) = Len(notes)
           /\ DOMAIN NewCms(notes) = DOMAIN notes /\ Len(SealedTo(notes)) = Len(notes)
           /\ SealedTo(notes) \in Seq(Holders \X Nat) /\ NewCms(notes) \in Seq(Nat)
           /\ \A i \in DOMAIN notes : /\ NewCms(notes)[i] = Len(openings) + i
                                      /\ SealedTo(notes)[i] = SealOutput(notes[i], Len(openings) + i)
<1>1. PICK k : k \in {1, 2} /\ notes \in [1..k -> Opening]
    BY BookWithMade
<1>2. Len(openings) \in Nat
    BY DEF BookInv
<1>3. PICK outs, lids : /\ outs = [i \in 1..k |-> Len(openings) + i]
                        /\ lids = [i \in 1..k |-> SealOutput(notes[i], Len(openings) + i)]
    OBVIOUS
<1>4. DOMAIN notes = 1..k /\ Len(notes) = k /\ DOMAIN outs = 1..k
    BY <1>1, <1>3
<1>5. NewCms(notes) = outs
    BY <1>3, <1>4 DEF NewCms, Commitments
<1>6. SealedTo(notes) = lids
    BY <1>3, <1>4, <1>5 DEF SealedTo
<1>7. outs # <<>> /\ Len(outs) = k /\ Len(lids) = k
    BY <1>1, <1>3
<1>8. outs \in Seq(Nat)
    BY <1>1, <1>2, <1>3
<1>9. \A i \in 1..k : notes[i].owner \in Holders
    BY <1>1 DEF Opening
<1>10. lids \in Seq(Holders \X Nat)
    BY <1>1, <1>2, <1>3, <1>9 DEF SealOutput
<1>11. IsInjective(outs)
    BY <1>2, <1>3 DEF IsInjective
<1> QED
    BY <1>3, <1>4, <1>5, <1>6, <1>7, <1>8, <1>10, <1>11

\* What build_transaction built is taken.
LEMMA WalletsAreHeard ==
    ASSUME BookInv, CarriedInv
    PROVE  BuiltIsAccepted
<1> SUFFICES ASSUME carried # None, carried.from = "wallet", ~carried.altered
             PROVE  VerifyTransaction(carried.tx, Chain)
    BY DEF BuiltIsAccepted
<1>1. PICK fee, ins, signers, sealed :
                /\ fee \in Fees /\ ins \in Chosen
                /\ Says(carried.tx, fee, ins, carried.made, signers, sealed)
                /\ signers = [i \in DOMAIN ins |-> openings[ins[i]].owner]
                /\ sealed = SealedTo(carried.made)
                /\ Buildable(ins, carried.made, fee, signers)
    BY UnalteredSays
<1>2. PICK tx, notes, outs, spent, beta :
        /\ tx = carried.tx /\ notes = carried.made /\ outs = NewCms(notes)
        /\ spent = Open(openings, ins)
        /\ beta = Binding(Chain, fee, ins, outs, signers, sealed)
    OBVIOUS
<1>3. notes \in NotesOf(1..1) \cup NotesOf(1..2)
    BY <1>2, UnalteredSays
<1>4. /\ fee >= 0 /\ Amount(spent) - Amount(notes) = fee /\ IsInjective(ins)
      /\ \A m, n \in ToSet(spent) \cup ToSet(notes) : m.asset = n.asset
      /\ \A i \in DOMAIN notes : InRange(notes[i].value)
    BY <1>1, <1>2 DEF Buildable
<1>5. /\ tx.chain = Chain /\ tx.fee = fee /\ tx.ins = ins /\ tx.outs = outs
      /\ tx.owners = signers /\ tx.sealed = sealed /\ tx.binding = beta
      /\ tx.v.bind = beta /\ tx.v.notes = ins \o outs /\ tx.v.nfs = ins
      /\ tx.v.sum = (Amount(spent) - Amount(notes)) % P
      /\ tx.v.owners = signers /\ tx.proof = Prove(tx.v)
      /\ tx.sigs = [i \in DOMAIN ins |-> <<signers[i], beta>>]
    BY <1>1, <1>2 DEF Says
<1>6. tx.v.range
    BY <1>1, <1>2, <1>4 DEF Says
<1>7. tx.v.asset
    <2>1. PICK all : all = spent \o notes
        OBVIOUS
    <2>2. tx.v.asset = (\A i, j \in DOMAIN all : all[i].asset = all[j].asset)
        BY <1>1, <1>2, <2>1, ZenonT(40) DEF Says
    <2>3. \A i \in DOMAIN all : all[i] \in ToSet(spent) \cup ToSet(notes)
        <3>1. spent \in Seq(Opening) /\ notes \in Seq(Opening)
            <4>1. ins \in Seq(DOMAIN openings)
                <5>1. (\E a \in live : ins = <<a>>) \/ \E a, b \in live : ins = <<a, b>>
                    BY <1>1, ChosenIsLive
                <5>2. \A a \in live : a \in DOMAIN openings
                    BY DEF BookInv
                <5>3. PICK S : S = DOMAIN openings
                    OBVIOUS
                <5>4. \A a \in S : <<a>> \in Seq(S)
                    OBVIOUS
                <5>5. \A a, b \in S : <<a, b>> \in Seq(S)
                    OBVIOUS
                <5> QED
                    BY <5>1, <5>2, <5>3, <5>4, <5>5
            <4>2. \A i \in DOMAIN ins : openings[ins[i]] \in Opening
                BY <1>1, ChosenIsLive DEF BookInv
            <4>3. spent \in Seq(Opening)
                BY <1>2, <4>1, <4>2 DEF Open
            <4> QED
                BY <1>3, <4>3, BookWithMade
        <3>2. DOMAIN spent = 1..Len(spent) /\ DOMAIN notes = 1..Len(notes) /\ DOMAIN all = 1..(Len(spent) + Len(notes))
            BY <2>1, <3>1
        <3>3. \A i \in DOMAIN all : \/ i \in DOMAIN spent /\ all[i] = spent[i]
                                    \/ i - Len(spent) \in DOMAIN notes /\ all[i] = notes[i - Len(spent)]
            BY <2>1, <3>1, <3>2
        <3> QED
            BY <3>3 DEF ToSet
    <2> QED
        BY <1>4, <2>2, <2>3
<1>8. ins # <<>> /\ outs # <<>> /\ IsInjective(outs) /\ (sealed = <<>> \/ Len(sealed) = Len(outs))
    BY <1>1, <1>2, <1>3, ChosenIsLive, CommitmentsAreNew
<1>9. tx.v.sum = fee % P
    BY <1>4, <1>5
<1>10. OwnersMatch(tx)
    BY <1>5 DEF OwnersMatch
<1>11. \A i \in DOMAIN ins : tx.sigs[i] = <<tx.owners[i], beta>>
    BY <1>5
<1>12. Authenticate(tx, Chain)
    BY <1>2, <1>4, <1>5, <1>6, <1>7, <1>8, <1>9, <1>10, <1>11 DEF Authenticate
<1>13. ToSet(ins) \subseteq live /\ ToSet(ins) \cap nullifiers = {}
    BY <1>1, ChosenIsLive DEF BookInv
<1> QED
    BY <1>2, <1>5, <1>12, <1>13 DEF VerifyTransaction, VerifyProof, Prove

LEMMA AmountInRange ==
    ASSUME NEW notes, notes \in [1..1 -> Opening] \cup [1..2 -> Opening],
           \A i \in DOMAIN notes : InRange(notes[i].value)
    PROVE  Amount(notes) \in 0..(2 * MaxValue)
<1>0. MaxValue \in Nat
    BY PaymentAssumption
<1>1. CASE notes \in [1..1 -> Opening]
    <2>1. Len(notes) = 1 /\ notes[1].value \in 0..(MaxValue - 1)
        BY <1>1 DEF InRange
    <2>2. Amount(notes) = notes[1].value
        BY <2>1, AmountOfOne
    <2> QED
        BY <1>0, <2>1, <2>2
<1>2. CASE notes \in [1..2 -> Opening]
    <2>1. Len(notes) = 2 /\ notes[1].value \in 0..(MaxValue - 1) /\ notes[2].value \in 0..(MaxValue - 1)
        BY <1>2 DEF InRange
    <2>2. Amount(notes) = notes[1].value + notes[2].value
        BY <2>1, AmountOfTwo
    <2> QED
        BY <1>0, <2>1, <2>2
<1> QED
    BY <1>1, <1>2

\* What is taken was signed by the owners of what it spends, and is paid for.
LEMMA TakenIsPaidFor ==
    ASSUME BookInv, CarriedInv, SupplyIsConserved, carried # None, VerifyTransaction(carried.tx, Chain)
    PROVE  /\ ~carried.altered /\ carried.made \in NotesOf(1..1) \cup NotesOf(1..2)
           /\ \E fee, ins, signers, sealed :
                /\ fee \in Fees /\ ins \in Chosen
                /\ Says(carried.tx, fee, ins, carried.made, signers, sealed)
                /\ sealed \in {<<>>} \cup [DOMAIN carried.made -> Holders \X Nat]
                /\ carried.from = "wallet" => sealed = SealedTo(carried.made)
                /\ IsInjective(ins) /\ fee >= 0
                /\ Amount(Open(openings, ins)) \in Int /\ Amount(carried.made) \in Int
                /\ (Amount(Open(openings, ins)) - Amount(carried.made)) % P = fee % P
                /\ MaxSlots * MaxValue + fee < P =>
                     Amount(Open(openings, ins)) = Amount(carried.made) + fee
                /\ \A i \in DOMAIN carried.made : InRange(carried.made[i].value)
                /\ signers = [i \in DOMAIN ins |-> openings[ins[i]].owner]
<1>1. Authenticate(carried.tx, Chain)
    BY DEF VerifyTransaction
<1>2. ~carried.altered
    BY <1>1, AlteredIsRefused
<1>3. PICK fee, ins, signers, sealed :
                /\ fee \in Fees /\ ins \in Chosen
                /\ Says(carried.tx, fee, ins, carried.made, signers, sealed)
                /\ sealed \in {<<>>} \cup [DOMAIN carried.made -> Holders \X Nat]
                /\ carried.from = "wallet" => sealed = SealedTo(carried.made)
    BY <1>2, UnalteredSays
<1>4. PICK tx, notes, spent : tx = carried.tx /\ notes = carried.made /\ spent = Open(openings, ins)
    OBVIOUS
<1>5. notes \in NotesOf(1..1) \cup NotesOf(1..2) /\ notes \in [1..1 -> Opening] \cup [1..2 -> Opening]
    BY <1>2, <1>4, UnalteredSays, BookWithMade
<1>6. tx.ins = ins /\ tx.fee = fee /\ tx.owners = signers
      /\ tx.v.owners = [i \in DOMAIN ins |-> openings[ins[i]].owner]
      /\ tx.v.sum = (Amount(spent) - Amount(notes)) % P
    BY <1>3, <1>4 DEF Says
<1>7. tx.fee >= 0 /\ IsInjective(tx.ins) /\ tx.v.sum = tx.fee % P /\ tx.v.range /\ OwnersMatch(tx)
    BY <1>1, <1>4 DEF Authenticate
<1>8. \A i \in DOMAIN notes : InRange(notes[i].value)
    BY <1>3, <1>4, <1>7 DEF Says
<1>9. Amount(notes) \in 0..(2 * MaxValue)
    BY <1>5, <1>8, AmountInRange
<1>10. Amount(spent) \in 0..(2 * MaxValue)
    <2>1. \A i \in DOMAIN ins : ins[i] \in live /\ openings[ins[i]] \in Opening /\ InRange(openings[ins[i]].value)
        BY <1>3, ChosenIsLive DEF SupplyIsConserved, BookInv
    <2>2. DOMAIN ins = 1..1 \/ DOMAIN ins = 1..2
        BY <1>3, ChosenIsLive
    <2>3. spent = [i \in DOMAIN ins |-> openings[ins[i]]]
        BY <1>4 DEF Open
    <2>4. spent \in [1..1 -> Opening] \cup [1..2 -> Opening]
        BY <2>1, <2>2, <2>3
    <2>5. \A i \in DOMAIN spent : InRange(spent[i].value)
        BY <2>1, <2>3
    <2> QED
        BY <2>4, <2>5, AmountInRange
<1>11. fee \in Int /\ fee >= 0 /\ P \in Nat /\ MaxValue \in Nat /\ P > 0
    BY <1>3, <1>6, <1>7, PaymentAssumption, FieldIsPositive
<1>12. (Amount(spent) - Amount(notes)) % P = fee % P
    BY <1>6, <1>7
<1>13. MaxSlots * MaxValue + fee < P => Amount(spent) = Amount(notes) + fee
    <2> SUFFICES ASSUME 4 * MaxValue + fee < P PROVE Amount(spent) = Amount(notes) + fee
        BY DEF MaxSlots
    <2>1. PICK x, y, d : x = Amount(spent) /\ y = Amount(notes) /\ d = x - y
        OBVIOUS
    <2>2. x \in 0..(2 * MaxValue) /\ y \in 0..(2 * MaxValue)
        BY <1>9, <1>10, <2>1
    <2>3. d \in Int /\ d % P = fee % P /\ d - fee < P /\ fee - d < P
        <3>1. d % P = fee % P
            BY <1>12, <2>1
        <3>2. d \in Int /\ d - fee < P /\ fee - d < P
            BY <1>11, <2>1, <2>2
        <3> QED
            BY <3>1, <3>2
    <2>4. d = fee
        BY <1>11, <2>3, BetweenMultiples
    <2> QED
        BY <1>11, <2>1, <2>2, <2>4
<1>14. signers = [i \in DOMAIN ins |-> openings[ins[i]].owner]
    BY <1>6, <1>7 DEF OwnersMatch
<1>15. Amount(spent) \in Int /\ Amount(notes) \in Int
    BY <1>9, <1>10
<1>16. IsInjective(ins)
    BY <1>6, <1>7
<1>17. PICK made, worth, cost : made = carried.made /\ worth = Amount(Open(openings, ins)) /\ cost = Amount(made)
    OBVIOUS
<1>18. /\ worth \in Int /\ cost \in Int /\ (worth - cost) % P = fee % P
       /\ MaxSlots * MaxValue + fee < P => worth = cost + fee
    BY <1>4, <1>12, <1>13, <1>15, <1>17
<1> QED
    BY <1>2, <1>3, <1>4, <1>5, <1>8, <1>11, <1>14, <1>16, <1>17, <1>18

-----------------------------------------------------------------------------
(***************************************************************************)
(* Every step keeps the books.                                                *)
(***************************************************************************)
LEMMA PaymentInitOK ==
    ASSUME PaymentInit
    PROVE  PaymentInv
<1>1. BookInv
    BY DEF PaymentInit, BookInv
<1>2. SupplyIsConserved
    <2>1. PICK s : s = [i \in DOMAIN openings |-> IF i \in live THEN openings[i] ELSE [value |-> 0]]
        OBVIOUS
    <2>2. Len(s) = 0
        BY <2>1 DEF PaymentInit
    <2>3. Worth(openings, live) = 0
        BY <2>1, <2>2, AmountOfNone DEF Worth
    <2>4. (supply - burned - Worth(openings, live)) % P = 0
        BY <2>3, FieldIsPositive DEF PaymentInit
    <2> QED
        BY <2>3, <2>4 DEF PaymentInit, SupplyIsConserved
<1>3. CarriedInv
    BY DEF PaymentInit, CarriedInv
<1> QED
    BY <1>1, <1>2, <1>3 DEF PaymentInv

\* Nothing but the ledger moves the books.
LEMMA BooksStay ==
    ASSUME PaymentInv, UNCHANGED <<openings, live, nullifiers, posted, addressed, supply, burned>>
    PROVE  BookInv' /\ SupplyIsConserved'
BY DEF PaymentInv, BookInv, SupplyIsConserved, NothingWrapped

LEMMA WrittenOK ==
    ASSUME PaymentInv, NEW fee \in Fees, NEW ins \in Chosen,
           NEW notes \in NotesOf(1..1) \cup NotesOf(1..2), NEW signers, NEW sealed, NEW from,
           Room(notes), UNCHANGED <<openings, live>>,
           carried' = [tx |-> Assemble(Chain, fee, ins, NewCms(notes), notes, signers, sealed),
                       made |-> notes, from |-> from, altered |-> FALSE],
           sealed \in {<<>>} \cup [DOMAIN notes -> Holders \X Nat],
           from = "wallet" =>
                 /\ signers = [i \in DOMAIN ins |-> openings[ins[i]].owner]
                 /\ sealed = SealedTo(notes)
                 /\ Buildable(ins, notes, fee, signers)
    PROVE  CarriedInv'
<1>1. PICK tx, c, outs, beta :
        /\ outs = NewCms(notes) /\ tx = Assemble(Chain, fee, ins, outs, notes, signers, sealed)
        /\ c = carried' /\ beta = Binding(Chain, fee, ins, outs, signers, sealed)
    OBVIOUS
<1>2. c = [tx |-> tx, made |-> notes, from |-> from, altered |-> FALSE]
    BY <1>1
<1>3. c.tx = tx /\ c.made = notes /\ c.from = from /\ c.altered = FALSE
    BY <1>2
<1>4. Says(tx, fee, ins, notes, signers, sealed)
    BY <1>1, AssembledSays DEF PaymentInv
<1>5. tx.sigs[1][2] = beta
    BY <1>1, <1>4, ChosenIsLive DEF Says, PaymentInv
<1>6. Signed' = beta
    BY <1>1, <1>3, <1>5 DEF Signed
<1>7. /\ Signed'[1] = Chain /\ Signed'[2] = fee /\ Signed'[3] = ins /\ Signed'[4] = outs
      /\ Signed'[5] = signers /\ Signed'[6] = sealed
    BY <1>1, <1>6 DEF Binding
<1>8. Written' = tx
    BY <1>1, <1>3, <1>7 DEF Written, Assemble
<1>9. NewCms(notes)' = NewCms(notes) /\ SealedTo(notes)' = SealedTo(notes) /\ Chosen' = Chosen
    BY DEF NewCms, SealedTo, Chosen
<1>10. Buildable(ins, notes, fee, signers)' = Buildable(ins, notes, fee, signers)
    BY DEF Buildable
<1>11. NewCms(carried.made)' = outs /\ SealedTo(carried.made)' = SealedTo(notes)
    BY <1>1, <1>3, <1>9 DEF NewCms, SealedTo
<1> QED
    BY <1>1, <1>2, <1>3, <1>7, <1>8, <1>9, <1>10, <1>11 DEF CarriedInv, Room

LEMMA PayOK ==
    ASSUME PaymentInv, NEW ins \in Chosen, NEW notes \in NotesOf(1..1) \cup NotesOf(1..2),
           NEW fee \in Fees, Pay(ins, notes, fee)
    PROVE  PaymentInv'
<1>1. PICK signers, sealed : /\ signers = [i \in DOMAIN ins |-> openings[ins[i]].owner]
                             /\ sealed = SealedTo(notes)
    OBVIOUS
<1>2. sealed = [i \in DOMAIN notes |-> SealOutput(notes[i], NewCms(notes)[i])]
    BY <1>1 DEF SealedTo
<1>3. /\ Room(notes) /\ Buildable(ins, notes, fee, signers)
      /\ carried' = [tx |-> Assemble(Chain, fee, ins, NewCms(notes), notes, signers, sealed),
                     made |-> notes, from |-> "wallet", altered |-> FALSE]
      /\ UNCHANGED <<openings, live, nullifiers, posted, addressed, supply, burned>>
    BY <1>1, <1>2 DEF Pay
<1>4. sealed \in [DOMAIN notes -> Holders \X Nat]
    <2>1. /\ notes \in [1..1 -> Opening] \cup [1..2 -> Opening]
          /\ DOMAIN NewCms(notes) = DOMAIN notes
          /\ \A i \in DOMAIN notes : NewCms(notes)[i] = Len(openings) + i
        BY BookWithMade, CommitmentsAreNew DEF PaymentInv
    <2>2. \A i \in DOMAIN notes : notes[i].owner \in Holders /\ i \in Nat
        BY <2>1 DEF Opening
    <2>3. Len(openings) \in Nat
        BY DEF PaymentInv, BookInv
    <2>4. \A i \in DOMAIN notes : SealOutput(notes[i], NewCms(notes)[i]) \in Holders \X Nat
        BY <2>1, <2>2, <2>3 DEF SealOutput
    <2> QED
        BY <1>2, <2>4
<1>5. CarriedInv'
    BY <1>1, <1>3, <1>4, WrittenOK
<1> QED
    BY <1>3, <1>5, BooksStay DEF PaymentInv

LEMMA SubmitOK ==
    ASSUME PaymentInv, NEW ins \in Chosen, NEW notes \in NotesOf(1..1) \cup NotesOf(1..2),
           NEW fee \in Fees, NEW signer \in Holders, NEW sealed \in Seals(notes),
           Submit(ins, notes, fee, signer, sealed)
    PROVE  PaymentInv'
<1>1. PICK signers, from : signers = [i \in DOMAIN ins |-> signer] /\ from = "anyone"
    OBVIOUS
<1>2. /\ Room(notes)
      /\ carried' = [tx |-> Assemble(Chain, fee, ins, NewCms(notes), notes, signers, sealed),
                     made |-> notes, from |-> from, altered |-> FALSE]
      /\ UNCHANGED <<openings, live, nullifiers, posted, addressed, supply, burned>>
    BY <1>1 DEF Submit
<1>3. from # "wallet" /\ sealed \in {<<>>} \cup [DOMAIN notes -> Holders \X Nat]
    <2>1. Len(openings) + 1 \in Nat
        BY DEF PaymentInv, BookInv
    <2> QED
        BY <1>1, <2>1 DEF Seals
<1>4. CarriedInv'
    BY <1>2, <1>3, WrittenOK
<1> QED
    BY <1>2, <1>4, BooksStay DEF PaymentInv

LEMMA AlterOK ==
    ASSUME PaymentInv, Alter
    PROVE  PaymentInv'
<1>1. carried # None /\ ~carried.altered
    BY DEF Alter
<1>2. UNCHANGED <<openings, live, nullifiers, posted, addressed, supply, burned>>
    BY DEF Alter
<1>3. PICK fee, outs, sealed :
        /\ Changed(carried.tx, fee, outs, sealed) # carried.tx
        /\ carried' = [carried EXCEPT !.tx = Changed(carried.tx, fee, outs, sealed), !.altered = TRUE]
    BY DEF Alter
<1>4. PICK tx, made, from, ch : /\ tx = carried.tx /\ made = carried.made /\ from = carried.from
                                /\ ch = Changed(tx, fee, outs, sealed)
    OBVIOUS
<1>5. carried = [tx |-> tx, made |-> made, from |-> from, altered |-> carried.altered]
    BY <1>1, <1>4 DEF PaymentInv, CarriedInv
<1>6. PICK c : c = carried'
    OBVIOUS
<1>7. c = [tx |-> ch, made |-> made, from |-> from, altered |-> TRUE]
    BY <1>3, <1>4, <1>5, <1>6
<1>8. c.tx = ch /\ c.made = made /\ c.from = from /\ c.altered = TRUE
    BY <1>7
<1>9. tx = Written
    BY <1>1, <1>4 DEF PaymentInv, CarriedInv
<1>10. /\ DOMAIN tx = {"chain", "fee", "ins", "outs", "owners", "sealed", "binding", "v", "proof", "sigs"}
    BY <1>9 DEF Written, Assemble
<1>11. ch.sigs = tx.sigs /\ ch.fee = fee /\ ch.outs = outs /\ ch.sealed = sealed
    BY <1>4, <1>10 DEF Changed
<1>12. Signed' = Signed
    BY <1>4, <1>6, <1>8, <1>11 DEF Signed
<1>13. Written' = Written
    BY <1>2, <1>4, <1>6, <1>8, <1>12 DEF Written, Assemble
<1>14. ch = Changed(tx, ch.fee, ch.outs, ch.sealed)
    BY <1>4, <1>11
<1>15. NewCms(carried.made)' = NewCms(carried.made) /\ SealedTo(carried.made)' = SealedTo(carried.made)
       /\ Chosen' = Chosen
    BY <1>2, <1>4, <1>6, <1>8 DEF NewCms, SealedTo, Chosen
<1>16. Buildable(Signed[3], carried.made, Signed[2], Signed[5])'
         = Buildable(Signed[3], carried.made, Signed[2], Signed[5])
    BY <1>2, <1>4, <1>6, <1>8, <1>12 DEF Buildable
<1>17. CarriedInv'
    BY <1>1, <1>2, <1>3, <1>4, <1>6, <1>7, <1>8, <1>9, <1>12, <1>13, <1>14, <1>15, <1>16
        DEF PaymentInv, CarriedInv
<1> QED
    BY <1>2, <1>17, BooksStay DEF PaymentInv

LEMMA DeliverOK ==
    ASSUME PaymentInv, Deliver
    PROVE  PaymentInv'
<1>0. carried' = None /\ carried # None
    BY DEF Deliver
<1>1. CarriedInv'
    BY <1>0 DEF CarriedInv
<1>2. CASE ~VerifyTransaction(carried.tx, Chain)
    <2>1. UNCHANGED <<openings, live, nullifiers, posted, addressed, supply, burned>>
        BY <1>2 DEF Deliver
    <2> QED
        BY <1>1, <2>1, BooksStay DEF PaymentInv
<1>3. CASE VerifyTransaction(carried.tx, Chain)
    <2>1. PICK fee, ins, signers, sealed :
                /\ fee \in Fees /\ ins \in Chosen
                /\ Says(carried.tx, fee, ins, carried.made, signers, sealed)
                /\ sealed \in {<<>>} \cup [DOMAIN carried.made -> Holders \X Nat]
                /\ carried.from = "wallet" => sealed = SealedTo(carried.made)
                /\ IsInjective(ins) /\ fee >= 0
                /\ Amount(Open(openings, ins)) \in Int /\ Amount(carried.made) \in Int
                /\ (Amount(Open(openings, ins)) - Amount(carried.made)) % P = fee % P
                /\ MaxSlots * MaxValue + fee < P =>
                     Amount(Open(openings, ins)) = Amount(carried.made) + fee
                /\ \A i \in DOMAIN carried.made : InRange(carried.made[i].value)
        BY <1>0, <1>3, TakenIsPaidFor DEF PaymentInv
    <2>2. PICK notes, outs, n : notes = carried.made /\ outs = NewCms(notes) /\ n = Len(openings)
        OBVIOUS
    <2>3. notes \in NotesOf(1..1) \cup NotesOf(1..2)
        BY <1>0, <1>3, <2>2, TakenIsPaidFor DEF PaymentInv
    <2>4. carried.tx.ins = ins /\ carried.tx.outs = outs /\ carried.tx.sealed = sealed /\ carried.tx.fee = fee
        BY <2>1, <2>2 DEF Says
    <2>5. PICK lids : lids = [i \in DOMAIN outs |-> IF sealed = <<>> THEN Unsealed ELSE sealed[i]]
        OBVIOUS
    <2>6. /\ openings' = openings \o notes
          /\ live' = (live \ ToSet(ins)) \cup ToSet(outs)
          /\ nullifiers' = nullifiers \cup ToSet(ins)
          /\ posted' = posted \o lids
          /\ burned' = burned + fee /\ supply' = supply
          /\ addressed' = IF carried.from = "wallet" THEN addressed \cup ToSet(outs) ELSE addressed
        BY <1>3, <2>2, <2>4, <2>5 DEF Deliver
    <2>7. /\ notes \in [1..1 -> Opening] \cup [1..2 -> Opening] /\ openings' \in Seq(Opening)
          /\ DOMAIN openings' = 1..(n + Len(notes)) /\ Len(openings') = n + Len(notes)
          /\ \A cm \in DOMAIN openings : openings'[cm] = openings[cm]
          /\ \A i \in DOMAIN notes : openings'[n + i] = notes[i]
          /\ n \in Nat /\ Len(notes) \in Nat /\ DOMAIN openings = 1..n /\ DOMAIN notes = 1..Len(notes)
        <3>1. BookInv /\ openings \in Seq(Opening)
            BY DEF PaymentInv, BookInv
        <3>2. /\ notes \in [1..1 -> Opening] \cup [1..2 -> Opening] /\ notes \in Seq(Opening)
              /\ openings' \in Seq(Opening) /\ DOMAIN openings' = 1..(n + Len(notes))
              /\ \A cm \in DOMAIN openings : openings'[cm] = openings[cm]
              /\ \A i \in DOMAIN notes : openings'[n + i] = notes[i]
            BY <2>2, <2>3, <2>6, <3>1, BookWithMade
        <3>3. n \in Nat /\ Len(notes) \in Nat /\ DOMAIN openings = 1..n /\ DOMAIN notes = 1..Len(notes)
            BY <2>2, <3>1, <3>2
        <3>4. Len(openings') = n + Len(notes)
            BY <3>2, <3>3
        <3> QED
            BY <3>2, <3>3, <3>4
    <2>8. ToSet(outs) = {n + i : i \in DOMAIN notes}
        <3>1. \A i \in DOMAIN notes : outs[i] = n + i
            BY <2>2, <2>3, CommitmentsAreNew DEF PaymentInv
        <3>2. DOMAIN outs = DOMAIN notes
            BY <2>2, <2>3, CommitmentsAreNew DEF PaymentInv
        <3> QED
            BY <3>1, <3>2 DEF ToSet
    <2>9. ToSet(ins) \subseteq live /\ live \subseteq DOMAIN openings /\ nullifiers \subseteq DOMAIN openings
          /\ live \cap nullifiers = {}
        BY <2>1, ChosenIsLive DEF PaymentInv, BookInv
    <2>10. /\ \A cm \in ToSet(outs) : cm \in DOMAIN openings' /\ cm \notin DOMAIN openings
           /\ DOMAIN openings \subseteq DOMAIN openings'
        <3>1. \A i \in DOMAIN notes : n + i \in DOMAIN openings' /\ n + i \notin DOMAIN openings
            BY <2>7
        <3>2. DOMAIN openings \subseteq DOMAIN openings'
            BY <2>7
        <3> QED
            BY <2>8, <3>1, <3>2
    <2>11. /\ live' \subseteq DOMAIN openings' /\ nullifiers' \subseteq DOMAIN openings'
           /\ live' \cap nullifiers' = {}
        BY <2>6, <2>9, <2>10
    <2>12. SupplyIsConserved'
        <3>1. PICK cms : cms = live \ ToSet(ins)
            OBVIOUS
        <3>2. cms \in SUBSET DOMAIN openings /\ openings \in Seq(Opening)
            BY <2>9, <3>1 DEF PaymentInv, BookInv
        <3>3. Worth(openings, cms) = Worth(openings, live) - Amount(Open(openings, ins))
            BY <2>1, <2>9, <3>1, <3>2, ChosenIsLive, WorthOfSpent DEF PaymentInv
        <3>4. Worth(openings \o notes, cms \cup ToSet(outs)) = Worth(openings, cms) + Amount(notes)
            BY <2>2, <2>7, <3>2, WorthOfMade DEF NewCms
        <3>5. PICK w, a, b : w = Worth(openings, live) /\ a = Amount(Open(openings, ins)) /\ b = Amount(notes)
            OBVIOUS
        <3>6. /\ w \in Int /\ a \in Int /\ b \in Int /\ fee \in Int /\ fee >= 0
              /\ (a - b) % P = fee % P
              /\ MaxSlots * MaxValue + fee < P => a = b + fee
            BY <2>1, <2>2, <3>2, <3>5, WorthIsWhole, PaymentAssumption
        <3>7. PICK w1 : w1 = Worth(openings', live') /\ w1 = (w - a) + b
            BY <2>6, <3>1, <3>3, <3>4, <3>5
        <3>8. /\ (supply - burned - w) % P = 0 /\ (NothingWrapped => supply = burned + w)
              /\ burned \in Nat /\ supply \in Int
            BY <3>5 DEF PaymentInv, SupplyIsConserved, BookInv
        <3>81. PICK s, t, u : s = supply /\ t = burned /\ u = burned' /\ supply' = s
            BY <2>6
        <3>82. s \in Int /\ t \in Int /\ t >= 0 /\ u = t + fee
            BY <2>6, <3>8, <3>81
        <3>83. a \in Int /\ b \in Int /\ w \in Int /\ fee \in Int /\ fee >= 0 /\ w1 = (w - a) + b
            BY <3>6, <3>7
        <3>9. (supply' - burned' - w1) % P = 0
            <4>1. PICK x, d : x = (s - t) - w /\ d = a - b
                OBVIOUS
            <4>2. x \in Int /\ d \in Int /\ (s - u) - w1 = x + (d - fee)
                BY <3>82, <3>83, <4>1
            <4>3. x % P = 0 /\ d % P = fee % P
                BY <3>6, <3>8, <3>81, <4>1
            <4> QED
                BY <3>81, <3>83, <4>2, <4>3, MovedByNothing
        <3>91. NothingWrapped' => supply' = burned' + w1
            <4> SUFFICES ASSUME s < P, u + 4 * MaxValue < P PROVE s = u + w1
                BY <3>81 DEF NothingWrapped, MaxSlots
            <4>1. P \in Nat /\ MaxValue \in Nat
                BY PaymentAssumption
            <4>2. s < P /\ t + 4 * MaxValue < P /\ 4 * MaxValue + fee < P
                BY <3>82, <3>83, <4>1
            <4>3. s = t + w /\ a = b + fee
                BY <3>6, <3>8, <3>81, <4>2 DEF NothingWrapped, MaxSlots
            <4> QED
                BY <3>82, <3>83, <4>3
        <3>10. \A cm \in live' : InRange(openings'[cm].value)
            <4> SUFFICES ASSUME NEW cm \in live' PROVE InRange(openings'[cm].value)
                OBVIOUS
            <4>1. CASE cm \in live
                <5>1. openings'[cm] = openings[cm] /\ InRange(openings[cm].value)
                    BY <2>7, <2>9, <4>1 DEF PaymentInv, SupplyIsConserved
                <5> QED
                    BY <5>1
            <4>2. CASE cm \notin live
                <5>1. PICK i \in DOMAIN notes : cm = n + i
                    BY <2>6, <2>8, <4>2
                <5>2. openings'[cm] = notes[i] /\ InRange(notes[i].value)
                    BY <2>1, <2>2, <2>7, <5>1
                <5> QED
                    BY <5>2
            <4> QED
                BY <4>1, <4>2
        <3>11. \A cm \in live' : InRange(openings[cm].value)'
            BY <3>10 DEF InRange
        <3> QED
            BY <3>7, <3>9, <3>91, <3>11 DEF SupplyIsConserved, Worth, NothingWrapped
    <2>13. DOMAIN lids = DOMAIN notes /\ Len(lids) = Len(notes)
        BY <2>2, <2>3, <2>5, <2>7, CommitmentsAreNew DEF PaymentInv
    <2>14. carried.from = "wallet" => \A i \in DOMAIN notes : lids[i] = SealOutput(notes[i], n + i)
        <3> SUFFICES ASSUME carried.from = "wallet"
                     PROVE  \A i \in DOMAIN notes : lids[i] = SealOutput(notes[i], n + i)
            OBVIOUS
        <3>1. /\ \A i \in DOMAIN notes : SealedTo(notes)[i] = SealOutput(notes[i], n + i)
              /\ Len(SealedTo(notes)) = Len(notes)
            BY <2>2, <2>3, CommitmentsAreNew DEF PaymentInv
        <3>2. sealed = SealedTo(notes)
            BY <2>1, <2>2
        <3>3. Len(notes) # 0
            BY <2>7
        <3>4. sealed # <<>>
            BY <3>1, <3>2, <3>3
        <3>5. \A i \in DOMAIN notes : lids[i] = SealedTo(notes)[i]
            BY <2>5, <2>13, <3>2, <3>4
        <3> QED
            BY <3>1, <3>5
    <2>15. \A i \in DOMAIN notes : lids[i] \in {Unsealed} \cup (Holders \X Nat)
        <3>1. DOMAIN outs = DOMAIN notes
            BY <2>2, <2>3, CommitmentsAreNew DEF PaymentInv
        <3>2. CASE sealed = <<>>
            BY <2>5, <3>1, <3>2
        <3>3. CASE sealed # <<>>
            <4>1. sealed \in [DOMAIN notes -> Holders \X Nat]
                BY <2>1, <2>2, <3>3
            <4> QED
                BY <2>5, <3>1, <3>3, <4>1
        <3> QED
            BY <3>2, <3>3
    <2>16. PICK p : p = posted' /\ posted \in Seq({Unsealed} \cup (Holders \X Nat)) /\ Len(posted) = n
        BY <2>2 DEF PaymentInv, BookInv
    <2>17. lids \in Seq({Unsealed} \cup (Holders \X Nat))
        <3>1. PICK k, S : k = Len(notes) /\ S = {Unsealed} \cup (Holders \X Nat)
            OBVIOUS
        <3>2. DOMAIN lids = 1..k /\ k \in Nat /\ \A i \in 1..k : lids[i] \in S
            BY <2>7, <2>13, <2>15, <3>1
        <3>3. lids = [i \in 1..k |-> lids[i]]
            BY <2>5, <3>2
        <3>4. lids \in Seq(S)
            BY <3>2, <3>3
        <3> QED
            BY <3>1, <3>4
    <2>18. /\ p \in Seq({Unsealed} \cup (Holders \X Nat)) /\ Len(p) = n + Len(notes)
           /\ \A cm \in 1..n : p[cm] = posted[cm]
           /\ \A i \in 1..Len(notes) : p[n + i] = lids[i]
        <3>1. PICK k, S : k = Len(notes) /\ S = {Unsealed} \cup (Holders \X Nat)
            OBVIOUS
        <3>2. /\ posted \in Seq(S) /\ lids \in Seq(S) /\ Len(posted) = n /\ Len(lids) = k
              /\ k \in Nat /\ n \in Nat /\ p = posted \o lids
            BY <2>6, <2>7, <2>13, <2>16, <2>17, <3>1
        <3>30. Len(p) = Len(posted) + Len(lids)
            BY <3>2, Joined
        <3>31. p \in Seq(S)
            BY <3>2, Joined
        <3>3. p \in Seq(S) /\ Len(p) = n + k
            BY <3>2, <3>30, <3>31
        <3>4. \A cm \in 1..n : p[cm] = posted[cm]
            BY <3>2
        <3>5. \A i \in 1..k : p[n + i] = lids[i]
            BY <3>2
        <3> QED
            BY <3>1, <3>3, <3>4, <3>5
    <2>19. /\ addressed' \subseteq DOMAIN openings'
           /\ \A cm \in addressed' : p[cm] = SealOutput(openings'[cm], cm)
        <3>1. addressed \subseteq DOMAIN openings /\ \A cm \in addressed : posted[cm] = SealOutput(openings[cm], cm)
            BY DEF PaymentInv, BookInv
        <3>2. \A cm \in addressed : cm \in DOMAIN openings' /\ p[cm] = SealOutput(openings'[cm], cm)
            <4> SUFFICES ASSUME NEW cm \in addressed
                         PROVE  cm \in DOMAIN openings' /\ p[cm] = SealOutput(openings'[cm], cm)
                OBVIOUS
            <4>1. cm \in 1..n /\ cm \in DOMAIN openings'
                BY <2>7, <2>10, <3>1
            <4>2. p[cm] = posted[cm] /\ openings'[cm] = openings[cm]
                BY <2>7, <2>18, <4>1
            <4> QED
                BY <3>1, <4>1, <4>2
        <3>3. ASSUME carried.from = "wallet", NEW cm \in ToSet(outs)
              PROVE  cm \in DOMAIN openings' /\ p[cm] = SealOutput(openings'[cm], cm)
            <4>1. PICK i \in DOMAIN notes : cm = n + i
                BY <2>8, <3>3
            <4>2. p[cm] = lids[i] /\ openings'[cm] = notes[i]
                BY <2>7, <2>18, <4>1
            <4> QED
                BY <2>10, <2>14, <3>3, <4>1, <4>2
        <3>4. CASE carried.from = "wallet"
            <4>1. addressed' = addressed \cup ToSet(outs)
                BY <2>6, <3>4
            <4> QED
                BY <3>2, <3>3, <3>4, <4>1
        <3>5. CASE carried.from # "wallet"
            <4>1. addressed' = addressed
                BY <2>6, <3>5
            <4> QED
                BY <3>2, <4>1
        <3> QED
            BY <3>4, <3>5
    <2>20. supply' \in Int /\ burned' \in Nat /\ openings' # <<>>
        <3>1. Len(openings') > 0
            BY <2>7
        <3>2. openings' # <<>>
            BY <3>1
        <3> QED
            BY <2>1, <2>6, <3>2, PaymentAssumption DEF PaymentInv, BookInv
    <2>21. BookInv'
        BY <2>7, <2>11, <2>16, <2>18, <2>19, <2>20 DEF BookInv, SealOutput, Unsealed, Opening
    <2> QED
        BY <1>1, <2>12, <2>21 DEF PaymentInv
<1> QED
    BY <1>2, <1>3

\* All the notes of a book together are worth the book.
LEMMA WorthOfAll ==
    ASSUME NEW book \in Seq(Opening), NEW cms, cms = DOMAIN book
    PROVE  Worth(book, cms) = Amount(book)
<1>1. [i \in DOMAIN book |-> IF i \in cms THEN book[i] ELSE [value |-> 0]] = [i \in DOMAIN book |-> book[i]]
    OBVIOUS
<1>2. [i \in DOMAIN book |-> book[i]] = book
    OBVIOUS
<1> QED
    BY <1>1, <1>2 DEF Worth

LEMMA MintOK ==
    ASSUME PaymentInv, MintGenesis
    PROVE  PaymentInv'
<1>1. PICK values \in Supplies, total \in Totals :
        \E owners \in [DOMAIN values -> Holders] :
          LET notes == [i \in DOMAIN values |->
                          [value |-> values[i], asset |-> CHOOSE a \in Assets : TRUE,
                           owner |-> owners[i]]]
              mint == BuildMint(Chain, total, notes)
          IN /\ openings = <<>> /\ VerifyMint(mint, Chain)
             /\ openings' = notes /\ live' = ToSet(mint.outs)
             /\ posted' = mint.sealed /\ addressed' = live' /\ supply' = total
             /\ UNCHANGED <<nullifiers, burned, carried>>
    BY DEF MintGenesis
<1>2. PICK owners, notes, mint, outs, sealed :
        /\ owners \in [DOMAIN values -> Holders]
        /\ notes = [i \in DOMAIN values |->
                          [value |-> values[i], asset |-> CHOOSE a \in Assets : TRUE,
                           owner |-> owners[i]]]
        /\ mint = BuildMint(Chain, total, notes)
        /\ outs = NewCms(notes) /\ sealed = [i \in DOMAIN notes |-> SealOutput(notes[i], outs[i])]
        /\ openings = <<>> /\ VerifyMint(mint, Chain)
        /\ openings' = notes /\ live' = ToSet(mint.outs)
        /\ posted' = mint.sealed /\ addressed' = live' /\ supply' = total
        /\ UNCHANGED <<nullifiers, burned, carried>>
    BY <1>1
<1>3. PICK n : n = Len(values) /\ n \in Nat /\ DOMAIN values = 1..n /\ \A i \in 1..n : values[i] \in Nat
    <2>1. values \in Seq(Nat)
        BY PaymentAssumption
    <2> QED
        BY <2>1
<1>4. Assets # {} /\ (CHOOSE a \in Assets : TRUE) \in Assets
    BY PaymentAssumption
<1>5. /\ notes \in [1..n -> Opening] /\ DOMAIN notes = 1..n /\ Len(notes) = n
      /\ \A i \in 1..n : notes[i].value = values[i] /\ notes[i].owner \in Holders
    <2>1. PICK a0 \in Assets : notes = [i \in 1..n |-> [value |-> values[i], asset |-> a0, owner |-> owners[i]]]
        BY <1>2, <1>3, <1>4
    <2>2. \A i \in 1..n : owners[i] \in Holders /\ values[i] \in Nat
        BY <1>2, <1>3
    <2>3. \A i \in 1..n : notes[i] = [value |-> values[i], asset |-> a0, owner |-> owners[i]]
        BY <2>1
    <2>4. \A i \in 1..n : notes[i] \in Opening /\ notes[i].value = values[i] /\ notes[i].owner \in Holders
        <3>1. \A x \in Nat, a \in Assets, h \in Holders : [value |-> x, asset |-> a, owner |-> h] \in Opening
            BY DEF Opening
        <3>2. \A i \in 1..n : notes[i] \in Opening
            BY <2>2, <2>3, <3>1
        <3>3. ASSUME NEW i \in 1..n PROVE notes[i].value = values[i] /\ notes[i].owner = owners[i]
            <4>1. PICK note : note = notes[i] /\ note = [value |-> values[i], asset |-> a0, owner |-> owners[i]]
                BY <2>3
            <4>2. note.value = values[i] /\ note.owner = owners[i]
                BY <4>1
            <4> QED
                BY <4>1, <4>2
        <3> QED
            BY <2>2, <3>2, <3>3
    <2>5. notes = [i \in 1..n |-> notes[i]]
        BY <2>1
    <2> QED
        BY <1>3, <2>4, <2>5
<1>6. notes \in Seq(Opening)
    BY <1>3, <1>5
<1>7. Len(openings) = 0
    BY <1>2
<1>8. outs = [i \in 1..n |-> i]
    <2>1. outs = [i \in 1..n |-> Len(openings) + i]
        BY <1>2, <1>5 DEF NewCms, Commitments
    <2>2. \A i \in 1..n : Len(openings) + i = i
        BY <1>3, <1>7
    <2> QED
        BY <2>1, <2>2
<1>9. sealed = [i \in 1..n |-> SealOutput(notes[i], i)]
    <2>1. sealed = [i \in 1..n |-> SealOutput(notes[i], outs[i])]
        BY <1>2, <1>5
    <2>2. \A i \in 1..n : outs[i] = i
        BY <1>8
    <2> QED
        BY <2>1, <2>2
<1>10. PICK v : /\ v = Rows(openings \o notes, <<>>, outs, MintBinding(Chain, total, outs, sealed))
                /\ mint = [context |-> Chain, total |-> total, outs |-> outs, sealed |-> sealed,
                           v |-> v, proof |-> Prove(v)]
    <2>1. PICK v : v = Rows(openings \o notes, <<>>, outs, MintBinding(Chain, total, outs, sealed))
        OBVIOUS
    <2>2. mint = BuildMint(Chain, total, notes) /\ outs = NewCms(notes)
          /\ sealed = [i \in DOMAIN notes |-> SealOutput(notes[i], outs[i])]
        BY <1>2
    <2>3. mint = [context |-> Chain, total |-> total, outs |-> outs, sealed |-> sealed,
                  v |-> v, proof |-> Prove(v)]
        BY <2>1, <2>2 DEF BuildMint
    <2> QED
        BY <2>1, <2>3
<1>11. mint.total = total /\ mint.outs = outs /\ mint.sealed = sealed /\ mint.v = v
    BY <1>10
<1>12. total >= 0 /\ outs # <<>> /\ v.sum = (P - (total % P)) % P /\ v.range
    BY <1>2, <1>11 DEF VerifyMint
<1>13. n >= 1
    <2>1. n # 0
        <3> SUFFICES ASSUME n = 0 PROVE FALSE
            OBVIOUS
        <3>1. outs = <<>>
            BY <1>8
        <3> QED
            BY <1>12, <3>1
    <2> QED
        BY <1>3, <2>1
<1>14. openings \o notes = notes
    <2>1. PICK none : none = openings /\ none = <<>>
        BY <1>2
    <2> QED
        BY <1>6, <2>1
<1>15. Open(notes, outs) = notes
    <2>1. Open(notes, outs) = [i \in 1..n |-> notes[i]]
        BY <1>8 DEF Open
    <2> QED
        BY <1>5, <2>1
<1>16. Open(notes, <<>>) = <<>>
    BY DEF Open
<1>17. Amount(<<>>) = 0
    <2>1. PICK none : none = <<>>
        OBVIOUS
    <2>2. Len(none) = 0
        BY <2>1
    <2> QED
        BY <2>1, <2>2, AmountOfNone
<1>18. v.sum = (0 - Amount(notes)) % P
    <2>1. PICK spent, made : spent = Open(notes, <<>>) /\ made = Open(notes, outs)
        OBVIOUS
    <2>2. v.sum = (Amount(spent) - Amount(made)) % P
        BY <1>10, <1>14, <2>1 DEF Rows
    <2> QED
        BY <1>15, <1>16, <1>17, <2>1, <2>2
<1>19. Amount(notes) = Endowed(values) /\ Amount(notes) \in Nat
    <2>1. PICK s : s = [i \in DOMAIN values |-> [value |-> values[i]]]
        OBVIOUS
    <2>2. Len(s) = n /\ \A i \in 1..n : s[i].value = values[i]
        BY <1>3, <2>1
    <2>3. Valued(notes) /\ \A i \in 1..n : notes[i].value \in Nat
        BY <1>3, <1>5 DEF Valued
    <2>4. Amount(s) = Amount(notes)
        BY <1>5, <2>2, <2>3, AmountOfAlike
    <2>5. Amount(notes) \in Nat
        BY <1>3, <1>5, <2>3, AmountIsNatural
    <2> QED
        BY <2>1, <2>4, <2>5 DEF Endowed
<1>20. Amount(notes) < P /\ P \in Nat /\ P > 0 /\ total \in Nat
    <2>1. Totals \subseteq Int
        BY PaymentAssumption
    <2> QED
        BY <1>12, <1>19, <2>1, FieldIsWide, FieldIsPositive
<1>21. (total - Amount(notes)) % P = 0 /\ (total < P => Amount(notes) = total)
    <2>1. PICK a, t, q, y : /\ a = Amount(notes) /\ t = total % P /\ q = total \div P /\ y = P - t
        OBVIOUS
    <2>2. a \in 0..(P - 1) /\ t \in 0..(P - 1) /\ q \in Int /\ total = P * q + t
        BY <1>19, <1>20, <2>1
    <2>3. (0 - a) % P = y % P /\ y \in Int /\ 0 - a \in Int
        BY <1>12, <1>18, <2>1, <2>2
    <2>4. PICK x : x = P - a /\ x \in Int
        BY <1>20, <2>2
    <2>5. x % P = (0 - a) % P
        BY <1>20, <2>2, <2>4
    <2>6. x - y < P /\ y - x < P
        BY <1>20, <2>1, <2>2, <2>4
    <2>7. x = y
        BY <1>20, <2>3, <2>4, <2>5, <2>6, BetweenMultiples
    <2>8. a = t
        BY <1>20, <2>1, <2>2, <2>4, <2>7
    <2>9. total - a = P * q
        BY <1>20, <2>2, <2>8
    <2>10. (total - a) % P = 0
        BY <2>2, <2>9, MultiplesAreNothing
    <2>11. total < P => t = total
        BY <1>20, <2>1
    <2> QED
        BY <2>1, <2>8, <2>10, <2>11
<1>22. live' = 1..n /\ addressed' = 1..n /\ openings' = notes /\ posted' = sealed /\ supply' = total
    <2>1. ToSet(outs) = 1..n
        BY <1>8 DEF ToSet
    <2> QED
        BY <1>2, <1>11, <2>1
<1>23. nullifiers = {} /\ live = {} /\ burned = 0 /\ carried = None /\ burned' = 0 /\ nullifiers' = {} /\ carried' = None
    <2>1. nullifiers \subseteq DOMAIN openings /\ DOMAIN openings = {} /\ live \subseteq DOMAIN openings
        BY <1>2 DEF PaymentInv, BookInv
    <2>2. burned = 0 /\ carried = None
        BY <1>2 DEF PaymentInv, BookInv, CarriedInv
    <2> QED
        BY <1>2, <2>1, <2>2
<1>24. sealed \in Seq({Unsealed} \cup (Holders \X Nat)) /\ Len(sealed) = n
       /\ \A i \in 1..n : sealed[i] = SealOutput(notes[i], i)
    <2>1. PICK S : S = {Unsealed} \cup (Holders \X Nat)
        OBVIOUS
    <2>2. \A i \in 1..n : SealOutput(notes[i], i) \in S
        BY <1>3, <1>5, <2>1 DEF SealOutput
    <2>3. sealed \in Seq(S)
        BY <1>3, <1>9, <2>2
    <2> QED
        BY <1>3, <1>9, <2>1, <2>3
<1>25. notes # <<>>
    BY <1>5, <1>13
<1>26. BookInv'
    BY <1>5, <1>6, <1>20, <1>22, <1>23, <1>24, <1>25 DEF BookInv, SealOutput, Unsealed, Opening
<1>27. SupplyIsConserved'
    <2>1. Worth(notes, 1..n) = Amount(notes)
        BY <1>5, <1>6, WorthOfAll
    <2>2. /\ (supply' - burned' - Worth(openings', live')) % P = 0
          /\ NothingWrapped' => supply' = burned' + Worth(openings', live')
        <3>1. PICK w : w = Worth(openings', live') /\ w = Amount(notes) /\ w \in Nat
            BY <1>19, <1>22, <2>1
        <3>2. supply' - burned' - w = total - w
            BY <1>20, <1>22, <1>23, <3>1
        <3>3. NothingWrapped' => total < P
            BY <1>22 DEF NothingWrapped
        <3> QED
            BY <1>20, <1>21, <1>22, <1>23, <3>1, <3>2, <3>3
    <2>3. \A cm \in 1..n : InRange(notes[cm].value)
        <3>1. v.range = (\A i \in DOMAIN outs : InRange(notes[outs[i]].value))
            BY <1>10, <1>14 DEF Rows
        <3> QED
            BY <1>8, <1>12, <3>1
    <2> QED
        BY <1>22, <2>2, <2>3 DEF SupplyIsConserved, InRange, Worth, NothingWrapped
<1>28. CarriedInv'
    BY <1>23 DEF CarriedInv
<1> QED
    BY <1>26, <1>27, <1>28 DEF PaymentInv

LEMMA PaymentNextOK ==
    ASSUME PaymentInv, [PaymentNext]_paymentVars
    PROVE  PaymentInv'
<1>1. CASE MintGenesis
    BY <1>1, MintOK
<1>2. CASE \E ins \in Chosen, shape \in {1..1, 1..2} :
             \E notes \in NotesOf(shape), fee \in Fees :
                \/ Pay(ins, notes, fee)
                \/ \E signer \in Holders, sealed \in Seals(notes) :
                      Submit(ins, notes, fee, signer, sealed)
    <2>1. PICK ins \in Chosen, shape \in {1..1, 1..2} :
             \E notes \in NotesOf(shape), fee \in Fees :
                \/ Pay(ins, notes, fee)
                \/ \E signer \in Holders, sealed \in Seals(notes) :
                      Submit(ins, notes, fee, signer, sealed)
        BY <1>2
    <2>2. PICK notes \in NotesOf(shape), fee \in Fees :
                \/ Pay(ins, notes, fee)
                \/ \E signer \in Holders, sealed \in Seals(notes) :
                      Submit(ins, notes, fee, signer, sealed)
        BY <2>1
    <2>3. notes \in NotesOf(1..1) \cup NotesOf(1..2)
        BY <2>1, <2>2
    <2> QED
        BY <2>2, <2>3, PayOK, SubmitOK
<1>4. CASE Alter
    BY <1>4, AlterOK
<1>5. CASE Deliver
    BY <1>5, DeliverOK
<1>6. CASE UNCHANGED paymentVars
    <2>1. /\ UNCHANGED <<openings, live, nullifiers, posted, addressed, supply, burned>>
          /\ UNCHANGED carried /\ UNCHANGED openings /\ UNCHANGED live
        BY <1>6 DEF paymentVars
    <2>2. Signed' = Signed /\ Written' = Written /\ Chosen' = Chosen
        BY <2>1 DEF Signed, Written, Assemble, Chosen
    <2>3. NewCms(carried.made)' = NewCms(carried.made) /\ SealedTo(carried.made)' = SealedTo(carried.made)
        BY <2>1 DEF NewCms, SealedTo
    <2>4. Buildable(Signed[3], carried.made, Signed[2], Signed[5])'
            = Buildable(Signed[3], carried.made, Signed[2], Signed[5])
        BY <2>1, <2>2 DEF Buildable
    <2>5. CarriedInv'
        BY <2>1, <2>2, <2>3, <2>4 DEF PaymentInv, CarriedInv
    <2> QED
        BY <2>1, <2>5, BooksStay DEF PaymentInv
<1> QED
    BY <1>1, <1>2, <1>4, <1>5, <1>6 DEF PaymentNext

\* The inductive invariant: commitments are made once, what the mint or a wallet posted
\* beside one is its own, and what is on its way is what was signed or can be told from it.
THEOREM PaymentInvariance == PaymentSpec => []PaymentInv
<1>1. PaymentInit => PaymentInv
    BY PaymentInitOK
<1>2. PaymentInv /\ [PaymentNext]_paymentVars => PaymentInv'
    BY PaymentNextOK
<1> QED
    BY <1>1, <1>2, PTL DEF PaymentSpec

LEMMA BooksAreSound ==
    ASSUME PaymentInv
    PROVE  PaymentsAreSound
<1>1. FoundFromTheSeed
    <2> SUFFICES ASSUME NEW cm \in live \cap addressed, NEW h \in Holders
                 PROVE  DecryptOpening(posted[cm], h, cm) <=> h = openings[cm].owner
        BY DEF FoundFromTheSeed
    <2>1. posted[cm] = <<openings[cm].owner, cm>>
        BY DEF PaymentInv, BookInv, SealOutput
    <2> QED
        BY <2>1 DEF DecryptOpening
<1>2. BuiltIsAccepted
    BY WalletsAreHeard DEF PaymentInv
<1> QED
    BY <1>1, <1>2 DEF PaymentsAreSound, PaymentInv

\* What is live and what was burned is what was minted, but for a multiple of P and
\* exactly while no total and no fee came near it, though the sum is taken in a field and
\* anybody may submit anything; a note sealed by a wallet is found by its owner; and what
\* build_transaction builds is accepted (txsystem.py, transaction.py, sealing.py).
THEOREM MoneyIsSound == PaymentSpec => []PaymentsAreSound
BY PaymentInvariance, BooksAreSound, PTL

LEMMA SpentByOwners ==
    ASSUME PaymentInv, [PaymentNext]_paymentVars, ~(live \subseteq live')
    PROVE  /\ ~carried.altered
           /\ \A i \in DOMAIN carried.tx.ins :
                carried.tx.sigs[i] = <<openings[carried.tx.ins[i]].owner, carried.tx.binding>>
<1>1. ~UNCHANGED live
    OBVIOUS
<1>2. \A ins, notes, fee : ~Pay(ins, notes, fee)
    BY <1>1 DEF Pay
<1>3. \A ins, notes, fee, signer, sealed : ~Submit(ins, notes, fee, signer, sealed)
    BY <1>1 DEF Submit
<1>4. ~Alter
    BY <1>1 DEF Alter
<1>5. ~MintGenesis
    <2> SUFFICES ASSUME MintGenesis PROVE FALSE
        OBVIOUS
    <2>1. openings = <<>>
        BY DEF MintGenesis
    <2>2. live = {}
        BY <2>1 DEF PaymentInv, BookInv
    <2> QED
        BY <2>2
<1>6. Deliver
    BY <1>1, <1>2, <1>3, <1>4, <1>5 DEF PaymentNext, paymentVars
<1>7. carried # None /\ VerifyTransaction(carried.tx, Chain)
    BY <1>1, <1>6 DEF Deliver
<1>8. PICK fee, ins, signers, sealed :
        /\ fee \in Fees /\ ins \in Chosen
        /\ Says(carried.tx, fee, ins, carried.made, signers, sealed)
        /\ signers = [i \in DOMAIN ins |-> openings[ins[i]].owner]
    BY <1>7, TakenIsPaidFor DEF PaymentInv
<1>9. ~carried.altered
    BY <1>7, TakenIsPaidFor DEF PaymentInv
<1>10. /\ carried.tx.ins = ins
       /\ carried.tx.sigs = [i \in DOMAIN ins |-> <<signers[i], carried.tx.binding>>]
    BY <1>8 DEF Says
<1> QED
    BY <1>8, <1>9, <1>10

\* No note leaves the ledger but by its owner's signature over what replaced it, whoever
\* assembled the transaction and whatever was done to it on the way (authenticate).
THEOREM OwnersSpend == PaymentSpec => OnlyTheOwnerSpends
<1>1. PaymentInv /\ [PaymentNext]_paymentVars =>
        [live \subseteq live' \/
           LET tx == carried.tx
           IN /\ ~carried.altered
              /\ \A i \in DOMAIN tx.ins :
                    tx.sigs[i] = <<openings[tx.ins[i]].owner, tx.binding>>]_paymentVars
    BY SpentByOwners
<1> QED
    BY <1>1, PaymentInvariance, PTL DEF PaymentSpec, OnlyTheOwnerSpends

-----------------------------------------------------------------------------
(***************************************************************************)
(* Mempool.  What is held, and what is left when something goes.             *)
(***************************************************************************)
LEMMA SelectedKeeps ==
    ASSUME NEW S, NEW s \in Seq(S), NEW where \in SUBSET DOMAIN s
    PROVE  /\ Selected(s, where) \in Seq(S) /\ Len(Selected(s, where)) = Cardinality(where)
           /\ Len(Selected(s, where)) \in 0..Len(s)
           /\ ToSet(Selected(s, where)) = {s[i] : i \in where}
           /\ \A k \in DOMAIN Selected(s, where) : \E i \in where : Selected(s, where)[k] = s[i]
           /\ \A k, m \in DOMAIN Selected(s, where) : k < m =>
                \E i, j \in where : i < j /\ Selected(s, where)[k] = s[i] /\ Selected(s, where)[m] = s[j]
<1>1. PICK t : t = Selected(s, where)
    OBVIOUS
<1>2. where \in SUBSET (1..Len(s))
    OBVIOUS
<1>3. /\ Cardinality(where) \in 0 .. Len(s)
      /\ t \in Seq(S) /\ Len(t) = Cardinality(where)
      /\ \A k \in 1 .. Cardinality(where) : Nth(where, k) \in where /\ t[k] = s[Nth(where, k)]
      /\ \A k, m \in 1 .. Cardinality(where) : k < m => Nth(where, k) < Nth(where, m)
      /\ \A i \in where : \E k \in 1 .. Cardinality(where) : t[k] = s[i]
    BY <1>1, <1>2, SelectedFacts
<1>4. DOMAIN t = 1..Cardinality(where)
    BY <1>3
<1>5. ToSet(t) = {s[i] : i \in where}
    <2>1. \A x \in ToSet(t) : x \in {s[i] : i \in where}
        BY <1>3, <1>4 DEF ToSet
    <2>2. \A i \in where : s[i] \in ToSet(t)
        BY <1>3, <1>4 DEF ToSet
    <2> QED
        BY <2>1, <2>2
<1>6. \A k \in DOMAIN t : \E i \in where : t[k] = s[i]
    BY <1>3, <1>4
<1>7. \A k, m \in DOMAIN t : k < m => \E i, j \in where : i < j /\ t[k] = s[i] /\ t[m] = s[j]
    BY <1>3, <1>4
<1> QED
    BY <1>1, <1>3, <1>5, <1>6, <1>7

LEMMA LackingKeeps ==
    ASSUME NEW S, NEW s \in Seq(S), NEW gone
    PROVE  /\ Lacking(s, gone) \in Seq(S) /\ Len(Lacking(s, gone)) \in 0..Len(s)
           /\ ToSet(Lacking(s, gone)) = ToSet(s) \ gone
           /\ \A k \in DOMAIN Lacking(s, gone) : \E i \in DOMAIN s : Lacking(s, gone)[k] = s[i]
           /\ \A k, m \in DOMAIN Lacking(s, gone) : k < m =>
                \E i, j \in DOMAIN s : i < j /\ Lacking(s, gone)[k] = s[i] /\ Lacking(s, gone)[m] = s[j]
           /\ ToSet(s) \cap gone # {} => Len(Lacking(s, gone)) < Len(s)
<1>1. PICK where : where = {i \in DOMAIN s : s[i] \notin gone}
    OBVIOUS
<1>2. Lacking(s, gone) = Selected(s, where) /\ where \in SUBSET DOMAIN s
    BY <1>1 DEF Lacking
<1>3. /\ Lacking(s, gone) \in Seq(S) /\ Len(Lacking(s, gone)) = Cardinality(where)
      /\ Len(Lacking(s, gone)) \in 0..Len(s)
      /\ ToSet(Lacking(s, gone)) = {s[i] : i \in where}
      /\ \A k \in DOMAIN Lacking(s, gone) : \E i \in where : Lacking(s, gone)[k] = s[i]
      /\ \A k, m \in DOMAIN Lacking(s, gone) : k < m =>
            \E i, j \in where : i < j /\ Lacking(s, gone)[k] = s[i] /\ Lacking(s, gone)[m] = s[j]
    BY <1>2, SelectedKeeps
<1>4. {s[i] : i \in where} = ToSet(s) \ gone
    BY <1>1 DEF ToSet
<1>5. ASSUME ToSet(s) \cap gone # {} PROVE Cardinality(where) < Len(s)
    <2>1. PICK i \in DOMAIN s : s[i] \in gone
        BY <1>5 DEF ToSet
    <2>2. PICK all : all = 1..Len(s) /\ Len(s) \in Nat /\ DOMAIN s = 1..Len(s)
        OBVIOUS
    <2>3. where # all /\ where \subseteq all
        BY <1>1, <2>1, <2>2
    <2>4. IsFiniteSet(all) /\ Cardinality(all) = Len(s)
        <3>1. IsFiniteSet(1..Len(s)) /\ Cardinality(1..Len(s)) = IF 1 > Len(s) THEN 0 ELSE Len(s) - 1 + 1
            BY <2>2, FS_Interval
        <3> QED
            BY <2>2, <3>1
    <2>5. Cardinality(where) <= Cardinality(all) /\ (Cardinality(where) = Cardinality(all) => where = all)
        BY <2>3, <2>4, FS_Subset
    <2>6. IsFiniteSet(where)
        BY <2>3, <2>4, FS_Subset
    <2>7. Cardinality(where) \in Nat
        BY <2>6, FS_CardinalityType
    <2> QED
        BY <2>2, <2>3, <2>4, <2>5, <2>7
<1> QED
    BY <1>2, <1>3, <1>4, <1>5

LEMMA LackingIsInjective ==
    ASSUME NEW S, NEW s \in Seq(S), NEW gone, IsInjective(s)
    PROVE  IsInjective(Lacking(s, gone))
<1>1. PICK t : t = Lacking(s, gone)
    OBVIOUS
<1>2. t \in Seq(S) /\ \A k, m \in DOMAIN t : k < m => \E i, j \in DOMAIN s : i < j /\ t[k] = s[i] /\ t[m] = s[j]
    BY <1>1, LackingKeeps
<1>3. DOMAIN t \subseteq Nat /\ DOMAIN s \subseteq Nat
    BY <1>2
<1>4. \A k, m \in DOMAIN t : k < m => t[k] # t[m]
    <2> SUFFICES ASSUME NEW k \in DOMAIN t, NEW m \in DOMAIN t, k < m PROVE t[k] # t[m]
        OBVIOUS
    <2>1. PICK i \in DOMAIN s, j \in DOMAIN s : i < j /\ t[k] = s[i] /\ t[m] = s[j]
        BY <1>2
    <2>2. i # j
        BY <1>3, <2>1
    <2> QED
        BY <2>1, <2>2 DEF IsInjective
<1>5. \A k, m \in DOMAIN t : t[k] = t[m] => k = m
    BY <1>3, <1>4
<1> QED
    BY <1>1, <1>5 DEF IsInjective

\* There is a cheapest, and it is held.
LEMMA CheapestIsHeld ==
    ASSUME NEW p, p.held \in Seq(Txs), p.held # <<>>
    PROVE  Cheapest(p) \in PoolTxs(p)
<1>1. PICK h, n : h = p.held /\ n = Len(h)
    OBVIOUS
<1>2. n \in Nat /\ DOMAIN h = 1..n /\ n >= 1 /\ \A i \in 1..n : h[i] \in Txs
    <2>1. h \in Seq(Txs) /\ h # <<>>
        BY <1>1
    <2> QED
        BY <1>1, <2>1
<1>3. PICK fee : fee = [i \in 1..n |-> Body[h[i]].fee]
    OBVIOUS
<1>4. \A i \in 1..n : fee[i] \in Nat
    BY <1>2, <1>3, MempoolAssumption
<1> DEFINE FeesHeld == {fee[i] : i \in 1..n}
<1>5. PICK least \in FeesHeld : \A x \in FeesHeld : least <= x
    <2>1. FeesHeld \in SUBSET Nat /\ FeesHeld # {}
        BY <1>2, <1>4
    <2> HIDE DEF FeesHeld
    <2> QED
        BY <2>1, LeastOfSome
<1> DEFINE At == {i \in 1..n : fee[i] = least}
<1>6. PICK m \in At : \A i \in At : m <= i
    <2>1. At \in SUBSET Nat /\ At # {}
        BY <1>2, <1>5
    <2> HIDE DEF At
    <2> QED
        BY <2>1, LeastOfSome
<1>7. m \in 1..n /\ (\A j \in 1..n : fee[m] <= fee[j]) /\ \A j \in 1..(m - 1) : fee[m] < fee[j]
    <2>1. m \in 1..n /\ fee[m] = least
        BY <1>6
    <2>2. \A j \in 1..n : least <= fee[j] /\ least \in Nat
        BY <1>4, <1>5
    <2>3. \A j \in 1..(m - 1) : j \in 1..n /\ j \notin At
        BY <1>2, <1>6, <2>1
    <2>4. \A j \in 1..(m - 1) : fee[j] # least
        BY <2>3
    <2> QED
        BY <1>4, <2>1, <2>2, <2>3, <2>4
<1>8. /\ \A j \in 1..n : Body[h[m]].fee <= Body[h[j]].fee
      /\ \A j \in 1..(m - 1) : Body[h[m]].fee < Body[h[j]].fee
    <2>1. \A j \in 1..n : fee[j] = Body[h[j]].fee
        BY <1>3
    <2>2. \A j \in 1..(m - 1) : j \in 1..n
        BY <1>2, <1>7
    <2> QED
        BY <1>7, <2>1, <2>2
<1> DEFINE c == CHOOSE i \in DOMAIN h :
                    /\ \A j \in DOMAIN h : Body[h[i]].fee <= Body[h[j]].fee
                    /\ \A j \in 1..(i - 1) : Body[h[i]].fee < Body[h[j]].fee
<1>9. c \in DOMAIN h
    BY <1>2, <1>7, <1>8
<1>10. Cheapest(p) = h[c]
    BY <1>1 DEF Cheapest
<1> QED
    BY <1>1, <1>9, <1>10 DEF PoolTxs, ToSet

LEMMA EvictKeeps ==
    ASSUME NEW p, PoolInv(p), NEW S
    PROVE  /\ PoolInv(Evict(p, S)) /\ Evict(p, S).refused = p.refused
           /\ PoolTxs(Evict(p, S)) = PoolTxs(p) \ S /\ Len(Evict(p, S).held) \in Nat
           /\ PoolTxs(p) \cap S # {} => Len(Evict(p, S).held) < Len(p.held)
<1>1. PICK h : h = Lacking(p.held, S)
    OBVIOUS
<1>2. PICK freed : freed = UNION {Body[tx].ins : tx \in S \cap PoolTxs(p)}
    OBVIOUS
<1>3. PICK kept : kept = [n \in DOMAIN p.claims \ freed |-> p.claims[n]]
    OBVIOUS
<1>4. PICK q : q = Evict(p, S)
    OBVIOUS
<1>5. p \in PoolRecord
    BY DEF PoolInv
<1>6. q = [p EXCEPT !.held = h, !.claims = kept]
    BY <1>1, <1>2, <1>3, <1>4, <1>5 DEF Evict, PoolRecord
<1>7. p.held \in Seq(Txs) /\ IsInjective(p.held) /\ Len(p.held) \in Nat /\ Len(p.held) <= MaxMempool
    BY <1>5 DEF PoolInv, PoolRecord
<1>8. /\ h \in Seq(Txs) /\ Len(h) \in 0..Len(p.held) /\ ToSet(h) = ToSet(p.held) \ S
      /\ ToSet(p.held) \cap S # {} => Len(h) < Len(p.held)
    BY <1>1, <1>7, LackingKeeps
<1>9. IsInjective(h)
    BY <1>1, <1>7, LackingIsInjective
<1>10. Len(h) <= MaxMempool
    BY <1>7, <1>8, MempoolAssumption
<1>11. /\ q.held = h /\ q.claims = kept /\ q.strikes = p.strikes /\ q.refused = p.refused
    BY <1>5, <1>6 DEF PoolRecord
<1>12. PICK D \in SUBSET Notes : p.claims \in [D -> Txs]
    BY <1>5 DEF PoolRecord
<1>13. kept \in [D \ freed -> Txs]
    BY <1>3, <1>12
<1>14. kept \in UNION {[E -> Txs] : E \in SUBSET Notes}
    BY <1>12, <1>13
<1>15. q \in PoolRecord
    BY <1>5, <1>6, <1>8, <1>14 DEF PoolRecord
<1>16. ASSUME NEW n \in DOMAIN kept PROVE kept[n] \in ToSet(h) /\ n \in Body[kept[n]].ins
    <2>1. n \in DOMAIN p.claims /\ n \notin freed /\ kept[n] = p.claims[n]
        BY <1>3
    <2>2. p.claims[n] \in ToSet(p.held) /\ n \in Body[p.claims[n]].ins
        BY <2>1 DEF PoolInv, PoolTxs
    <2>3. p.claims[n] \notin S
        BY <1>2, <2>1, <2>2 DEF PoolTxs
    <2> QED
        BY <1>8, <2>1, <2>2, <2>3
<1>17. PoolInv(q)
    BY <1>9, <1>10, <1>11, <1>15, <1>16 DEF PoolInv, PoolTxs
<1> QED
    BY <1>4, <1>8, <1>11, <1>17 DEF PoolTxs

\* One round of making room is enough.
LEMMA RoomIsMade ==
    ASSUME NEW p, PoolInv(p), NEW tx
    PROVE  /\ PoolInv(MakeRoom(p, tx)) /\ MakeRoom(p, tx).refused = p.refused
           /\ tx \in PoolTxs(MakeRoom(p, tx)) \/ Len(MakeRoom(p, tx).held) < MaxMempool
<1>1. p.held \in Seq(Txs) /\ Len(p.held) \in Nat /\ Len(p.held) <= MaxMempool
    BY DEF PoolInv, PoolRecord
<1>2. CASE Len(p.held) < MaxMempool
    BY <1>2 DEF MakeRoom
<1>3. CASE ~(Len(p.held) < MaxMempool)
    <2>1. Len(p.held) = MaxMempool /\ MaxMempool \in Nat \ {0}
        BY <1>1, <1>3, MempoolAssumption
    <2>2. p.held # <<>>
        BY <1>1, <2>1
    <2>3. PICK c : c = Cheapest(p)
        OBVIOUS
    <2>4. c \in PoolTxs(p)
        BY <1>1, <2>2, <2>3, CheapestIsHeld
    <2>5. CASE c = tx
        BY <2>3, <2>4, <2>5 DEF MakeRoom
    <2>6. CASE c # tx
        <3>1. MakeRoom(p, tx) = Evict(p, {c})
            BY <1>3, <2>3, <2>6 DEF MakeRoom
        <3>2. PoolTxs(p) \cap {c} # {}
            BY <2>4
        <3>3. /\ PoolInv(Evict(p, {c})) /\ Evict(p, {c}).refused = p.refused
              /\ Len(Evict(p, {c}).held) \in Nat /\ Len(Evict(p, {c}).held) < Len(p.held)
            BY <3>2, EvictKeeps
        <3> QED
            BY <1>1, <2>1, <3>1, <3>3
    <2> QED
        BY <2>5, <2>6
<1> QED
    BY <1>2, <1>3

LEMMA AdmittedKeeps ==
    ASSUME NEW p, PoolInv(p), NEW tx \in Txs, tx \in PoolTxs(p) \/ Len(p.held) < MaxMempool
    PROVE  PoolInv(Admitted(p, tx)) /\ Admitted(p, tx).refused = p.refused
<1>1. PICK h : h = IF tx \in PoolTxs(p) THEN p.held ELSE Append(p.held, tx)
    OBVIOUS
<1>2. PICK claimed : claimed = [n \in DOMAIN p.claims \cup Body[tx].ins |->
                                  IF n \in Body[tx].ins THEN tx ELSE p.claims[n]]
    OBVIOUS
<1>3. PICK q : q = Admitted(p, tx)
    OBVIOUS
<1>4. p \in PoolRecord
    BY DEF PoolInv
<1>5. q = [p EXCEPT !.held = h, !.claims = claimed]
    BY <1>1, <1>2, <1>3, <1>4 DEF Admitted, PoolRecord
<1>6. p.held \in Seq(Txs) /\ IsInjective(p.held) /\ Len(p.held) \in Nat /\ Len(p.held) <= MaxMempool
    BY <1>4 DEF PoolInv, PoolRecord
<1>7. h \in Seq(Txs) /\ Len(h) <= MaxMempool /\ IsInjective(h) /\ tx \in ToSet(h) /\ ToSet(p.held) \subseteq ToSet(h)
    <2>1. CASE tx \in PoolTxs(p)
        BY <1>1, <1>6, <2>1 DEF PoolTxs
    <2>2. CASE tx \notin PoolTxs(p)
        <3>1. PICK n : n = Len(p.held)
            OBVIOUS
        <3>2. /\ n \in Nat /\ h \in Seq(Txs) /\ Len(h) = n + 1 /\ h[n + 1] = tx
              /\ \A i \in 1..n : h[i] = p.held[i]
              /\ DOMAIN h = 1..(n + 1) /\ DOMAIN p.held = 1..n
            BY <1>1, <1>6, <2>2, <3>1
        <3>3. n < MaxMempool /\ MaxMempool \in Nat
            BY <2>2, <3>1, MempoolAssumption
        <3>4. \A i \in 1..n : h[i] # tx
            BY <2>2, <3>2 DEF PoolTxs, ToSet
        <3>5. \A i, j \in 1..n : h[i] = h[j] => i = j
            BY <1>6, <3>2 DEF IsInjective
        <3>6. \A i \in 1..(n + 1) : i \in 1..n \/ i = n + 1
            BY <3>2
        <3>7. \A i, j \in 1..(n + 1) : h[i] = h[j] => i = j
            BY <3>2, <3>4, <3>5, <3>6
        <3>8. n + 1 \in 1..(n + 1) /\ \A i \in 1..n : i \in 1..(n + 1)
            BY <3>2
        <3>9. tx \in ToSet(h) /\ ToSet(p.held) \subseteq ToSet(h)
            BY <3>2, <3>8 DEF ToSet
        <3>10. n + 1 <= MaxMempool
            BY <3>2, <3>3
        <3> QED
            BY <3>2, <3>7, <3>9, <3>10 DEF IsInjective
    <2> QED
        BY <2>1, <2>2
<1>8. /\ q.held = h /\ q.claims = claimed /\ q.strikes = p.strikes /\ q.refused = p.refused
    BY <1>4, <1>5 DEF PoolRecord
<1>9. PICK D \in SUBSET Notes : p.claims \in [D -> Txs]
    BY <1>4 DEF PoolRecord
<1>10. claimed \in [D \cup Body[tx].ins -> Txs] /\ D \cup Body[tx].ins \in SUBSET Notes
    BY <1>2, <1>9 DEF Notes
<1>11. claimed \in UNION {[E -> Txs] : E \in SUBSET Notes}
    BY <1>10
<1>12. q \in PoolRecord
    BY <1>4, <1>5, <1>7, <1>11 DEF PoolRecord
<1>13. ASSUME NEW n \in DOMAIN claimed PROVE claimed[n] \in ToSet(h) /\ n \in Body[claimed[n]].ins
    <2>1. CASE n \in Body[tx].ins
        BY <1>2, <1>7, <2>1
    <2>2. CASE n \notin Body[tx].ins
        <3>1. n \in DOMAIN p.claims /\ claimed[n] = p.claims[n]
            BY <1>2, <2>2
        <3>2. p.claims[n] \in ToSet(p.held) /\ n \in Body[p.claims[n]].ins
            BY <3>1 DEF PoolInv, PoolTxs
        <3> QED
            BY <1>7, <3>1, <3>2
    <2> QED
        BY <2>1, <2>2
<1>14. PoolInv(q)
    BY <1>7, <1>8, <1>12, <1>13 DEF PoolInv, PoolTxs
<1> QED
    BY <1>3, <1>8, <1>14

LEMMA RefusalKeeps ==
    ASSUME NEW p, PoolInv(p), NEW tx, NEW proof, <<tx, proof>> \in Submissions
    PROVE  /\ PoolInv(RememberRefusal(p, tx, proof))
           /\ ToSet(RememberRefusal(p, tx, proof).refused) \subseteq ToSet(p.refused) \cup {<<tx, proof>>}
<1>1. PICK key, r : key = <<tx, proof>> /\ r = p.refused
    OBVIOUS
<1>2. PICK struck : struck = [p.strikes EXCEPT ![tx] = IF @ < ProofStrikes THEN @ + 1 ELSE @]
    OBVIOUS
<1>3. PICK full : full = BoundedPut(r, key)
    OBVIOUS
<1>4. PICK q : q = RememberRefusal(p, tx, proof)
    OBVIOUS
<1>5. p \in PoolRecord /\ tx \in Txs /\ key \in Submissions
    <2>1. \A s \in Submissions : s[1] \in Txs
        BY MempoolAssumption
    <2> QED
        BY <1>1, <2>1 DEF PoolInv
<1>6. q = [p EXCEPT !.strikes = struck, !.refused = full]
    BY <1>1, <1>2, <1>3, <1>4, <1>5 DEF RememberRefusal, PoolRecord
<1>7. r \in Seq(Submissions) /\ Len(r) \in Nat /\ Len(r) <= MaxRefusedProofs /\ MaxRefusedProofs \in Nat \ {0}
    BY <1>1, <1>5, MempoolAssumption DEF PoolInv, PoolRecord
<1>8. full \in Seq(Submissions) /\ Len(full) <= MaxRefusedProofs /\ ToSet(full) \subseteq ToSet(r) \cup {key}
    <2>1. CASE key \in ToSet(r)
        BY <1>3, <1>7, <2>1 DEF BoundedPut
    <2>2. CASE key \notin ToSet(r)
        <3>1. PICK c : c = IF Len(r) < MaxRefusedProofs THEN 0 ELSE Len(r) - MaxRefusedProofs + 1
            OBVIOUS
        <3>2. c \in 0..Len(r) /\ Len(r) - c + 1 <= MaxRefusedProofs
            BY <1>7, <3>1
        <3>3. PICK t : t = SubSeq(r, c + 1, Len(r))
            OBVIOUS
        <3>4. t \in Seq(Submissions) /\ Len(t) = Len(r) - c /\ \A i \in 1..Len(r) - c : t[i] = r[c + i]
            BY <1>7, <3>2, <3>3, SuffixOf
        <3>5. full = Append(t, key)
            <4>1. c + 1 = 1 + c
                BY <3>2
            <4> QED
                BY <1>3, <2>2, <3>1, <3>3, <4>1 DEF BoundedPut
        <3>6. full \in Seq(Submissions) /\ Len(full) = Len(t) + 1
            BY <1>5, <3>4, <3>5
        <3>7. \A i \in 1..Len(r) - c : c + i \in DOMAIN r
            BY <1>7, <3>2
        <3>8. ToSet(t) \subseteq ToSet(r)
            <4>1. DOMAIN t = 1..Len(r) - c
                BY <3>4
            <4> QED
                BY <3>4, <3>7, <4>1 DEF ToSet
        <3>9. ToSet(full) \subseteq ToSet(t) \cup {key}
            BY <3>4, <3>5 DEF ToSet
        <3> QED
            BY <1>7, <3>2, <3>4, <3>6, <3>8, <3>9
    <2> QED
        BY <2>1, <2>2
<1>9. /\ struck \in [Txs -> 0..ProofStrikes] /\ struck[tx] > 0
      /\ \A t \in Txs : p.strikes[t] > 0 => struck[t] > 0
    <2>1. p.strikes \in [Txs -> 0..ProofStrikes] /\ ProofStrikes \in Nat \ {0}
        BY <1>5, MempoolAssumption DEF PoolRecord
    <2> QED
        BY <1>2, <1>5, <2>1
<1>10. /\ q.held = p.held /\ q.claims = p.claims /\ q.strikes = struck /\ q.refused = full
    BY <1>5, <1>6 DEF PoolRecord
<1>11. q \in PoolRecord
    BY <1>5, <1>6, <1>8, <1>9 DEF PoolRecord
<1>12. ASSUME NEW s \in ToSet(full) PROVE struck[s[1]] > 0
    <2>1. CASE s = key
        BY <1>1, <1>9, <2>1
    <2>2. CASE s # key
        <3>1. s \in ToSet(r)
            BY <1>8, <2>2
        <3>2. p.strikes[s[1]] > 0
            BY <1>1, <3>1 DEF PoolInv
        <3>3. s \in Submissions
            BY <1>7, <3>1 DEF ToSet
        <3>4. s[1] \in Txs
            BY <3>3, MempoolAssumption
        <3> QED
            BY <1>9, <3>2, <3>4
    <2> QED
        BY <2>1, <2>2
<1>13. PoolInv(q)
    BY <1>8, <1>10, <1>11, <1>12 DEF PoolInv, PoolTxs
<1> QED
    BY <1>1, <1>4, <1>8, <1>10, <1>13

\* What a verification does to a pool.
LEMMA VerifiedKeeps ==
    ASSUME NEW p, PoolInv(p), NEW tx, NEW proof, <<tx, proof>> \in Submissions
    PROVE  /\ PoolInv(VerifyAndAdmit(p, tx, proof))
           /\ ToSet(VerifyAndAdmit(p, tx, proof).refused) \subseteq ToSet(p.refused) \cup {<<tx, proof>>}
<1>1. tx \in Txs
    <2>1. \A s \in Submissions : s[1] \in Txs
        BY MempoolAssumption
    <2> QED
        BY <2>1
<1>2. CASE proof \in GoodProofs
    <2>1. PICK r : r = MakeRoom(p, tx)
        OBVIOUS
    <2>2. PoolInv(r) /\ r.refused = p.refused /\ (tx \in PoolTxs(r) \/ Len(r.held) < MaxMempool)
        BY <2>1, RoomIsMade
    <2>3. PoolInv(Admitted(r, tx)) /\ Admitted(r, tx).refused = r.refused
        BY <1>1, <2>2, AdmittedKeeps
    <2> QED
        BY <1>2, <2>1, <2>2, <2>3 DEF VerifyAndAdmit
<1>3. CASE proof \notin GoodProofs
    BY <1>3, RefusalKeeps DEF VerifyAndAdmit
<1> QED
    BY <1>2, <1>3

\* ---- the queue ----

\* Who is served first, and who is served before this one.
Ahead(q, i, j) == q[i].prio < q[j].prio \/ (q[i].prio = q[j].prio /\ i < j)
Before(q, j) == {i \in DOMAIN q : Ahead(q, i, j)}

LEMMA JobsHavePriorities ==
    ASSUME NEW q, Queued(q)
    PROVE  /\ Len(q) \in Nat /\ DOMAIN q = 1..Len(q)
           /\ \A i \in DOMAIN q : q[i] \in Job /\ q[i].prio \in 1..3 /\ i \in Nat
           /\ \A i, j \in DOMAIN q : q[i] = q[j] => i = j
<1>1. q \in Seq(Job)
    BY DEF Queued
<1>2. Len(q) \in Nat /\ DOMAIN q = 1..Len(q) /\ \A i \in DOMAIN q : q[i] \in Job /\ i \in Nat
    BY <1>1
<1>3. \A i \in DOMAIN q : q[i].prio \in 1..3
    BY <1>2 DEF Job
<1> QED
    BY <1>2, <1>3 DEF Queued

LEMMA RankIs ==
    ASSUME NEW q, Queued(q), NEW i \in DOMAIN q
    PROVE  Rank(q, q[i]) = Cardinality(Before(q, i)) /\ Rank(q, q[i]) \in Nat
           /\ IsFiniteSet(Before(q, i))
<1>1. (CHOOSE m \in DOMAIN q : q[m] = q[i]) = i
    BY JobsHavePriorities
<1> DEFINE at == CHOOSE m \in DOMAIN q : q[m] = q[i]
           ahead == {k \in DOMAIN q : q[k].prio < q[i].prio \/ (q[k].prio = q[i].prio /\ k < at)}
<1>2. Rank(q, q[i]) = Cardinality(ahead)
    BY DEF Rank
<1>3. ahead = Before(q, i)
    <2>1. at = i
        BY <1>1
    <2> HIDE DEF at
    <2> QED
        BY <2>1 DEF Before, Ahead
<1> HIDE DEF ahead, at
<1>4. IsFiniteSet(Before(q, i))
    <2>1. PICK n, all : n = Len(q) /\ all = 1..n
        OBVIOUS
    <2>2. n \in Int /\ Before(q, i) \in SUBSET all
        BY <2>1, JobsHavePriorities DEF Before
    <2>3. IsFiniteSet(all)
        BY <2>1, <2>2, FS_Interval
    <2> QED
        BY <2>2, <2>3, FS_Subset
<1>5. Cardinality(Before(q, i)) \in Nat
    BY <1>4, FS_CardinalityType
<1> QED
    BY <1>2, <1>3, <1>4, <1>5

\* Ranks are the order of service.
LEMMA RanksOrder ==
    ASSUME NEW q, Queued(q), NEW i \in DOMAIN q, NEW j \in DOMAIN q
    PROVE  /\ Rank(q, q[i]) \in Nat /\ Rank(q, q[j]) \in Nat
           /\ Ahead(q, i, j) <=> Rank(q, q[i]) < Rank(q, q[j])
           /\ i # j => Rank(q, q[i]) # Rank(q, q[j])
<1>1. /\ Rank(q, q[i]) = Cardinality(Before(q, i)) /\ Rank(q, q[i]) \in Nat
      /\ Rank(q, q[j]) = Cardinality(Before(q, j)) /\ Rank(q, q[j]) \in Nat
      /\ IsFiniteSet(Before(q, i)) /\ IsFiniteSet(Before(q, j))
    BY RankIs
<1>2. \A k \in DOMAIN q : q[k].prio \in 1..3 /\ k \in Nat
    BY JobsHavePriorities
<1>3. \A k, m \in DOMAIN q : Ahead(q, k, m) => Cardinality(Before(q, k)) < Cardinality(Before(q, m))
    <2> SUFFICES ASSUME NEW k \in DOMAIN q, NEW m \in DOMAIN q, Ahead(q, k, m)
                 PROVE  Cardinality(Before(q, k)) < Cardinality(Before(q, m))
        OBVIOUS
    <2>1. Before(q, k) \in SUBSET Before(q, m)
        BY <1>2 DEF Before, Ahead
    <2>2. k \in Before(q, m) /\ k \notin Before(q, k)
        BY <1>2 DEF Before, Ahead
    <2>3. /\ Rank(q, q[k]) = Cardinality(Before(q, k)) /\ Rank(q, q[k]) \in Nat
          /\ Rank(q, q[m]) = Cardinality(Before(q, m)) /\ Rank(q, q[m]) \in Nat
          /\ IsFiniteSet(Before(q, m))
        BY RankIs
    <2>4. /\ Cardinality(Before(q, k)) <= Cardinality(Before(q, m))
          /\ Cardinality(Before(q, m)) = Cardinality(Before(q, k)) => Before(q, m) = Before(q, k)
        BY <2>1, <2>3, FS_Subset
    <2> QED
        BY <2>2, <2>3, <2>4
<1>4. i # j => Ahead(q, i, j) \/ Ahead(q, j, i)
    BY <1>2 DEF Ahead
<1>5. ~Ahead(q, i, i)
    BY <1>2 DEF Ahead
<1> QED
    BY <1>1, <1>3, <1>4, <1>5

\* There is one to serve first.
LEMMA SomeoneIsFirst ==
    ASSUME NEW q, Queued(q), q # <<>>
    PROVE  \E job \in ToSet(q) : Rank(q, job) = 0
<1>1. /\ Len(q) \in Nat /\ DOMAIN q = 1..Len(q) /\ q \in Seq(Job)
      /\ \A i \in DOMAIN q : q[i].prio \in 1..3 /\ i \in Nat
    BY JobsHavePriorities DEF Queued
<1>2. Len(q) >= 1
    BY <1>1
<1>3. PICK at : at = [i \in DOMAIN q |-> Rank(q, q[i])]
    OBVIOUS
<1> DEFINE Places == {at[i] : i \in DOMAIN q}
<1>4. Places \in SUBSET Nat /\ Places # {}
    <2>1. \A i \in DOMAIN q : at[i] \in Nat
        BY <1>3, RankIs
    <2>2. 1 \in DOMAIN q
        BY <1>1, <1>2
    <2> QED
        BY <2>1, <2>2
<1>5. PICK least \in Places : \A r \in Places : least <= r
    <2> HIDE DEF Places
    <2> QED
        BY <1>4, LeastOfSome
<1>6. PICK i \in DOMAIN q : least = at[i]
    BY <1>5
<1>7. \A k \in DOMAIN q : ~Ahead(q, k, i)
    <2> SUFFICES ASSUME NEW k \in DOMAIN q, Ahead(q, k, i) PROVE FALSE
        OBVIOUS
    <2>1. Rank(q, q[k]) < Rank(q, q[i]) /\ Rank(q, q[k]) \in Nat /\ Rank(q, q[i]) \in Nat
        BY RanksOrder
    <2>2. at[k] \in Places /\ at[k] = Rank(q, q[k]) /\ least = Rank(q, q[i])
        BY <1>3, <1>6
    <2>3. least <= at[k]
        BY <1>5, <2>2
    <2> QED
        BY <2>1, <2>2, <2>3
<1>8. Before(q, i) = {}
    BY <1>7 DEF Before
<1>9. Rank(q, q[i]) = 0
    BY <1>8, RankIs, FS_EmptySet
<1> QED
    BY <1>9 DEF ToSet

\* What is left of a queue is one.
LEMMA SelectedIsQueued ==
    ASSUME NEW q, Queued(q), NEW where \in SUBSET DOMAIN q
    PROVE  /\ Queued(Selected(q, where)) /\ ToSet(Selected(q, where)) = {q[i] : i \in where}
           /\ Len(Selected(q, where)) = Cardinality(where) /\ Len(Selected(q, where)) \in 0..Len(q)
<1>1. PICK t : t = Selected(q, where)
    OBVIOUS
<1>2. q \in Seq(Job)
    BY DEF Queued
<1>3. /\ t \in Seq(Job) /\ ToSet(t) = {q[i] : i \in where}
      /\ Len(t) = Cardinality(where) /\ Len(t) \in 0..Len(q)
      /\ \A k, m \in DOMAIN t : k < m => \E i, j \in where : i < j /\ t[k] = q[i] /\ t[m] = q[j]
    BY <1>1, <1>2, SelectedKeeps
<1>4. \A k, m \in DOMAIN t : k < m => t[k].tx # t[m].tx
    <2> SUFFICES ASSUME NEW k \in DOMAIN t, NEW m \in DOMAIN t, k < m PROVE t[k].tx # t[m].tx
        OBVIOUS
    <2>1. PICK i \in where, j \in where : i < j /\ t[k] = q[i] /\ t[m] = q[j]
        BY <1>3
    <2>2. i \in DOMAIN q /\ j \in DOMAIN q /\ i # j
        BY <2>1, JobsHavePriorities
    <2> QED
        BY <2>1, <2>2 DEF Queued
<1>5. \A k, m \in DOMAIN t : t[k].tx = t[m].tx => k = m
    <2>1. \A k \in DOMAIN t : k \in Nat
        BY <1>3
    <2> QED
        BY <1>4, <2>1
<1> QED
    BY <1>1, <1>3, <1>5 DEF Queued

\* What is kept fits, and is what is served first.
LEMMA BestAreKept ==
    ASSUME NEW q, Queued(q), NEW n \in Nat
    PROVE  /\ Queued(KeepBest(q, n)) /\ Len(KeepBest(q, n)) \in 0..n
           /\ ToSet(KeepBest(q, n)) \subseteq ToSet(q)
           /\ \A i \in DOMAIN q : q[i] \in ToSet(KeepBest(q, n)) <=> Rank(q, q[i]) < n
<1>1. PICK where : where = {i \in DOMAIN q : Rank(q, q[i]) < n}
    OBVIOUS
<1>2. PICK t : t = KeepBest(q, n)
    OBVIOUS
<1>3. t = Selected(q, where) /\ where \in SUBSET DOMAIN q
    BY <1>1, <1>2 DEF KeepBest
<1>4. Queued(t) /\ ToSet(t) = {q[i] : i \in where} /\ Len(t) = Cardinality(where) /\ Len(t) \in 0..Len(q)
    BY <1>3, SelectedIsQueued
<1>5. Cardinality(where) <= n
    <2>1. PICK at, room : at = [i \in where |-> Rank(q, q[i])] /\ room = 0..(n - 1)
        OBVIOUS
    <2>2. \A i \in where : at[i] \in room
        <3>1. \A i \in where : Rank(q, q[i]) \in Nat /\ Rank(q, q[i]) < n
            BY <1>1, RankIs
        <3> QED
            BY <2>1, <3>1
    <2>3. \A i, j \in where : at[i] = at[j] => i = j
        <3>1. \A i, j \in where : i # j => Rank(q, q[i]) # Rank(q, q[j])
            BY <1>1, RanksOrder
        <3> QED
            BY <2>1, <3>1
    <2>4. at \in [where -> room]
        BY <2>1, <2>2
    <2>5. at \in Injection(where, room)
        BY <2>3, <2>4 DEF Injection, IsInjective
    <2>6. IsFiniteSet(room) /\ Cardinality(room) = n
        <3>1. 0 \in Int /\ n - 1 \in Int /\ (0 > n - 1 => n = 0) /\ n - 1 - 0 + 1 = n
            OBVIOUS
        <3>2. IsFiniteSet(0..(n - 1)) /\ Cardinality(0..(n - 1)) = IF 0 > n - 1 THEN 0 ELSE n - 1 - 0 + 1
            BY <3>1, FS_Interval
        <3> QED
            BY <2>1, <3>1, <3>2
    <2> QED
        BY <2>5, <2>6, FS_Injection
<1>6. ToSet(t) \subseteq ToSet(q)
    BY <1>1, <1>4 DEF ToSet
<1>7. \A i \in DOMAIN q : q[i] \in ToSet(t) <=> Rank(q, q[i]) < n
    BY <1>1, <1>4
<1>8. Len(t) \in 0..n
    BY <1>4, <1>5
<1> QED
    BY <1>2, <1>4, <1>6, <1>7, <1>8

LEMMA EnqueueKeeps ==
    ASSUME NEW q, NEW p, QueueInv(q, p), depth \in Nat, Len(q) <= depth,
           NEW job \in Job, <<job.tx, job.proof>> \in Submissions,
           <<job.tx, job.proof>> \notin ToSet(p.refused)
    PROVE  QueueInv(Enqueue(q, job), p) /\ Len(Enqueue(q, job)) <= depth
<1>1. CASE \E i \in DOMAIN q : q[i].tx = job.tx
    BY <1>1 DEF Enqueue
<1>2. CASE ~\E i \in DOMAIN q : q[i].tx = job.tx
    <2>1. PICK n, t : n = Len(q) /\ t = Append(q, job)
        OBVIOUS
    <2>2. /\ n \in Nat /\ t \in Seq(Job) /\ DOMAIN q = 1..n /\ DOMAIN t = 1..(n + 1)
          /\ t[n + 1] = job /\ \A i \in 1..n : t[i] = q[i]
        BY <2>1 DEF QueueInv, Queued
    <2>3. \A i \in 1..(n + 1) : i \in 1..n \/ i = n + 1
        BY <2>2
    <2>4. \A i, j \in 1..n : t[i].tx = t[j].tx => i = j
        BY <2>2 DEF QueueInv, Queued
    <2>5. \A i \in 1..n : t[i].tx # job.tx
        BY <1>2, <2>2
    <2>6. \A i, j \in 1..(n + 1) : t[i].tx = t[j].tx => i = j
        BY <2>2, <2>3, <2>4, <2>5
    <2>7. Queued(t)
        BY <2>2, <2>6 DEF Queued
    <2>8. ToSet(t) \subseteq ToSet(q) \cup {job}
        BY <2>2, <2>3 DEF ToSet
    <2>9. PICK k : k = KeepBest(t, depth)
        OBVIOUS
    <2>10. Queued(k) /\ Len(k) \in 0..depth /\ ToSet(k) \subseteq ToSet(t)
        BY <2>7, <2>9, BestAreKept
    <2>11. Enqueue(q, job) = k
        BY <1>2, <2>1, <2>9 DEF Enqueue
    <2>12. \A j \in ToSet(k) : <<j.tx, j.proof>> \in Submissions /\ <<j.tx, j.proof>> \notin ToSet(p.refused)
        BY <2>8, <2>10 DEF QueueInv
    <2> QED
        BY <2>10, <2>11, <2>12 DEF QueueInv
<1> QED
    BY <1>1, <1>2

\* What a node may be in the middle of a drain.
Draining == {s \in [q : Seq(Job), p : PoolRecord, l : 0..slack] :
                QueueInv(s.q, s.p) /\ PoolInv(s.p) /\ Len(s.q) <= depth}

LEMMA ServingKeeps ==
    ASSUME NEW s \in Draining, NEW cost \in Costs, slack \in Nat, depth \in Nat
    PROVE  ServeNext(s, cost) \in Draining
<1>1. CASE s.q = <<>>
    BY <1>1 DEF ServeNext
<1>2. CASE s.q # <<>>
    <2>1. PICK job : job = CHOOSE j \in ToSet(s.q) : Rank(s.q, j) = 0
        OBVIOUS
    <2>2. QueueInv(s.q, s.p) /\ PoolInv(s.p) /\ Len(s.q) <= depth /\ s.l \in 0..slack
        BY DEF Draining
    <2>3. Queued(s.q)
        BY <2>2 DEF QueueInv
    <2>4. job \in ToSet(s.q)
        BY <1>2, <2>1, <2>3, SomeoneIsFirst
    <2>5. CASE ~Afford(job.prio, s.l)
        BY <1>2, <2>1, <2>5 DEF ServeNext
    <2>6. CASE Afford(job.prio, s.l)
        <3>1. PICK q, p, l : /\ q = Lacking(s.q, {job}) /\ p = VerifyAndAdmit(s.p, job.tx, job.proof)
                             /\ l = IF s.l > cost THEN s.l - cost ELSE 0
            OBVIOUS
        <3>2. ServeNext(s, cost) = [q |-> q, p |-> p, l |-> l]
            BY <1>2, <2>1, <2>6, <3>1 DEF ServeNext
        <3>3. <<job.tx, job.proof>> \in Submissions
            BY <2>2, <2>4 DEF QueueInv
        <3>4. PoolInv(p) /\ ToSet(p.refused) \subseteq ToSet(s.p.refused) \cup {<<job.tx, job.proof>>}
            BY <2>2, <3>1, <3>3, VerifiedKeeps
        <3>5. PICK where : where = {i \in DOMAIN s.q : s.q[i] \notin {job}}
            OBVIOUS
        <3>6. q = Selected(s.q, where) /\ where \in SUBSET DOMAIN s.q
            BY <3>1, <3>5 DEF Lacking
        <3>7. Queued(q) /\ ToSet(q) = {s.q[i] : i \in where} /\ Len(q) \in 0..Len(s.q)
            BY <2>3, <3>6, SelectedIsQueued
        <3>8. ASSUME NEW j \in ToSet(q)
              PROVE  <<j.tx, j.proof>> \in Submissions /\ <<j.tx, j.proof>> \notin ToSet(p.refused)
            <4>1. PICK i \in DOMAIN s.q : j = s.q[i] /\ j # job
                BY <3>5, <3>7
            <4>2. PICK k \in DOMAIN s.q : job = s.q[k]
                BY <2>4 DEF ToSet
            <4>3. j.tx # job.tx
                BY <2>3, <4>1, <4>2 DEF Queued
            <4>4. <<j.tx, j.proof>> # <<job.tx, job.proof>>
                BY <4>3
            <4>5. j \in ToSet(s.q)
                BY <4>1 DEF ToSet
            <4>6. <<j.tx, j.proof>> \in Submissions /\ <<j.tx, j.proof>> \notin ToSet(s.p.refused)
                BY <2>2, <4>5 DEF QueueInv
            <4> QED
                BY <3>4, <4>4, <4>6
        <3>9. QueueInv(q, p)
            BY <3>7, <3>8 DEF QueueInv
        <3>10. l \in 0..slack
            <4>1. cost \in Nat
                BY MempoolAssumption
            <4> QED
                BY <2>2, <3>1, <4>1
        <3>11. Len(q) <= depth
            <4>1. Len(s.q) \in Nat
                BY <2>3, JobsHavePriorities
            <4> QED
                BY <2>2, <3>7, <4>1
        <3>12. q \in Seq(Job) /\ p \in PoolRecord
            BY <3>4, <3>7 DEF Queued, PoolInv
        <3> QED
            BY <3>2, <3>4, <3>9, <3>10, <3>11, <3>12 DEF Draining
    <2> QED
        BY <2>5, <2>6
<1> QED
    BY <1>1, <1>2

\* A sequence of steps that each stay in X: there is one, and it stays there.
LEMMA StaysThrough ==
    ASSUME NEW X, NEW base \in X, NEW n \in Nat, NEW step \in [1..n -> [X -> X]]
    PROVE  \E f \in [0..n -> X] : /\ f[0] = base
                                 /\ \A i \in 1..n : f[i] = step[i][f[i - 1]]
<1>1. PICK f \in [0..n -> X] : InTurn(f, n, base, step)
    BY StepsInTurn
<1>2. 0 \in 0..n /\ \A i \in 1..n : i \in 0..n /\ i # 0
    OBVIOUS
<1>3. f[0] = base
    BY <1>1, <1>2 DEF InTurn
<1>4. \A i \in 1..n : f[i] = step[i][f[i - 1]]
    BY <1>1, <1>2 DEF InTurn
<1> QED
    BY <1>1, <1>3, <1>4

LEMMA DrainingKeeps ==
    ASSUME NEW start \in Draining, NEW cost \in Costs, slack \in Nat, depth \in Nat
    PROVE  DrainFrom(start, cost) \in Draining
<1>1. PICK n, X : n = DrainItems /\ X = Draining /\ n \in Nat
    BY MempoolAssumption
<1> DEFINE Goes(g) == g = [i \in 0..n |-> IF i = 0 THEN start ELSE ServeNext(g[i - 1], cost)]
           after == CHOOSE g : Goes(g)
<1>2. PICK step : step = [i \in 1..n |-> [s \in X |-> ServeNext(s, cost)]]
    OBVIOUS
<1>3. \A s \in X : ServeNext(s, cost) \in X
    BY <1>1, ServingKeeps
<1>4. step \in [1..n -> [X -> X]]
    BY <1>2, <1>3
<1>5. PICK f \in [0..n -> X] : f[0] = start /\ \A i \in 1..n : f[i] = step[i][f[i - 1]]
    <2>1. start \in X /\ n \in Nat
        BY <1>1
    <2>2. \E f \in [0..n -> X] : f[0] = start /\ \A i \in 1..n : f[i] = step[i][f[i - 1]]
        BY <1>4, <2>1, StaysThrough
    <2> QED
        BY <2>2
<1>6. \A i \in 0..n : i # 0 => i \in 1..n /\ i - 1 \in 0..n
    BY <1>1
<1>7. Goes(f)
    <2>1. \A i \in 1..n : i - 1 \in 0..n /\ f[i] = ServeNext(f[i - 1], cost)
        BY <1>1, <1>2, <1>5
    <2>2. \A i \in 0..n : f[i] = IF i = 0 THEN start ELSE ServeNext(f[i - 1], cost)
        BY <1>5, <1>6, <2>1
    <2>3. f = [i \in 0..n |-> f[i]]
        BY <1>5
    <2> QED
        BY <2>2, <2>3
<1>8. Goes(after)
    BY <1>7
<1>9. DrainFrom(start, cost) = after[n]
    BY <1>1 DEF DrainFrom
<1>10. after[0] = start /\ \A i \in 0..n : i # 0 => after[i] = ServeNext(after[i - 1], cost)
    <2>1. \A g : Goes(g) => g[0] = start /\ \A i \in 0..n : i # 0 => g[i] = ServeNext(g[i - 1], cost)
        BY <1>1
    <2> QED
        BY <1>8, <2>1
<1> DEFINE Out == {i \in 0..n : after[i] \notin X}
<1> HIDE DEF after
<1>11. Out = {}
    <2> SUFFICES ASSUME Out # {} PROVE FALSE
        OBVIOUS
    <2>0. Out \in SUBSET Nat
        BY <1>1
    <2>1. PICK i \in Out : \A j \in Out : i <= j
        <3> HIDE DEF Out
        <3> QED
            BY <2>0, LeastOfSome
    <2>2. i # 0
        BY <1>1, <1>10, <2>1
    <2>3. i - 1 \in 0..n /\ ~(i <= i - 1)
        BY <1>1, <2>1, <2>2
    <2>4. after[i - 1] \in X
        BY <2>1, <2>3
    <2>5. after[i] \in X
        BY <1>3, <1>10, <2>1, <2>2, <2>4
    <2> QED
        BY <2>1, <2>5
<1> QED
    BY <1>1, <1>9, <1>11

\* ---- what a new topology and a block make of it ----

LEMMA ResubmitKeeps ==
    ASSUME NEW p, PoolInv(p), NEW tx \in Txs, NEW mine
    PROVE  PoolInv(Resubmit(p, tx, mine)) /\ Resubmit(p, tx, mine).refused = p.refused
<1>1. PICK r : r = MakeRoom(p, tx)
    OBVIOUS
<1>2. PoolInv(r) /\ r.refused = p.refused /\ (tx \in PoolTxs(r) \/ Len(r.held) < MaxMempool)
    BY <1>1, RoomIsMade
<1>3. PoolInv(Admitted(r, tx)) /\ Admitted(r, tx).refused = r.refused
    BY <1>2, AdmittedKeeps
<1> QED
    BY <1>1, <1>2, <1>3 DEF Resubmit

LEMMA RerouteKeeps ==
    ASSUME PoolInv(pool), NEW mine, Reroute(mine)
    PROVE  PoolInv(pool') /\ pool'.refused = pool.refused
<1>1. PICK held, n, start : held = pool.held /\ n = Len(held) /\ start = Evict(pool, PoolTxs(pool))
    OBVIOUS
<1>2. n \in Nat /\ \A i \in 1..n : held[i] \in Txs
    <2>1. held \in Seq(Txs)
        BY <1>1 DEF PoolInv, PoolRecord
    <2> QED
        BY <1>1, <2>1
<1>3. PICK X : X = {p \in PoolRecord : PoolInv(p) /\ p.refused = pool.refused}
    OBVIOUS
<1>4. start \in X
    <2>1. PoolInv(start) /\ start.refused = pool.refused
        BY <1>1, EvictKeeps
    <2> QED
        BY <1>3, <2>1 DEF PoolInv
<1>5. \A p \in X : \A i \in 1..n : Resubmit(p, held[i], mine) \in X
    <2> SUFFICES ASSUME NEW p \in X, NEW i \in 1..n PROVE Resubmit(p, held[i], mine) \in X
        OBVIOUS
    <2>1. PICK tx : tx = held[i] /\ tx \in Txs
        BY <1>2
    <2>2. PoolInv(p) /\ p.refused = pool.refused
        BY <1>3
    <2>3. PoolInv(Resubmit(p, tx, mine)) /\ Resubmit(p, tx, mine).refused = p.refused
        BY <2>1, <2>2, ResubmitKeeps
    <2> QED
        BY <1>3, <2>1, <2>2, <2>3 DEF PoolInv
<1> DEFINE Goes(g) == g = [i \in 0..n |-> IF i = 0 THEN start ELSE Resubmit(g[i - 1], held[i], mine)]
           upTo == CHOOSE g : Goes(g)
<1>6. PICK step : step = [i \in 1..n |-> [p \in X |-> Resubmit(p, held[i], mine)]]
    OBVIOUS
<1>7. step \in [1..n -> [X -> X]]
    BY <1>5, <1>6
<1>8. PICK f \in [0..n -> X] : f[0] = start /\ \A i \in 1..n : f[i] = step[i][f[i - 1]]
    <2>1. start \in X /\ n \in Nat
        BY <1>2, <1>4
    <2>2. \E f \in [0..n -> X] : f[0] = start /\ \A i \in 1..n : f[i] = step[i][f[i - 1]]
        BY <1>7, <2>1, StaysThrough
    <2> QED
        BY <2>2
<1>9. \A i \in 0..n : i # 0 => i \in 1..n /\ i - 1 \in 0..n
    BY <1>2
<1>10. Goes(f)
    <2>1. \A i \in 1..n : i - 1 \in 0..n /\ f[i] = Resubmit(f[i - 1], held[i], mine)
        BY <1>2, <1>6, <1>8
    <2>2. \A i \in 0..n : f[i] = IF i = 0 THEN start ELSE Resubmit(f[i - 1], held[i], mine)
        BY <1>8, <1>9, <2>1
    <2>3. f = [i \in 0..n |-> f[i]]
        BY <1>8
    <2> QED
        BY <2>2, <2>3
<1>11. Goes(upTo)
    BY <1>10
<1>12. pool' = upTo[n]
    BY <1>1 DEF Reroute
<1>13. upTo[0] = start /\ \A i \in 0..n : i # 0 => upTo[i] = Resubmit(upTo[i - 1], held[i], mine)
    <2>1. \A g : Goes(g) => g[0] = start /\ \A i \in 0..n : i # 0 => g[i] = Resubmit(g[i - 1], held[i], mine)
        BY <1>2
    <2> QED
        BY <1>11, <2>1
<1> DEFINE Out == {i \in 0..n : upTo[i] \notin X}
<1> HIDE DEF upTo
<1>14. Out = {}
    <2> SUFFICES ASSUME Out # {} PROVE FALSE
        OBVIOUS
    <2>0. Out \in SUBSET Nat
        BY <1>2
    <2>1. PICK i \in Out : \A j \in Out : i <= j
        <3> HIDE DEF Out
        <3> QED
            BY <2>0, LeastOfSome
    <2>2. i # 0
        BY <1>4, <1>13, <2>1
    <2>3. i - 1 \in 0..n /\ ~(i <= i - 1) /\ i \in 1..n
        BY <1>2, <2>1, <2>2
    <2>4. upTo[i - 1] \in X
        BY <2>1, <2>3
    <2>5. upTo[i] \in X
        BY <1>5, <1>13, <2>1, <2>2, <2>3, <2>4
    <2> QED
        BY <2>1, <2>5
<1>15. upTo[n] \in X
    BY <1>2, <1>14
<1> QED
    BY <1>3, <1>12, <1>15

\* What some may not do together, more may not either.
LEMMA FewerAreLegal ==
    ASSUME NEW c, NEW part, NEW S, NEW T \in SUBSET S, LegalTogether(c, S, part)
    PROVE  LegalTogether(c, T, part)
BY DEF LegalTogether

LEMMA BlocksAreLegalAndFull ==
    ASSUME NEW c, NEW p, PoolInv(p), NEW part
    PROVE  /\ LegalTogether(c, ToSet(Build(c, p, part)), part)
           /\ \A tx \in PoolTxs(p) \ ToSet(Build(c, p, part)) :
                ~LegalTogether(c, ToSet(Build(c, p, part)) \cup {tx}, part)
<1>1. PICK held, n : held = p.held /\ n = Len(held)
    OBVIOUS
<1>2. n \in Nat /\ DOMAIN held = 1..n /\ \A i \in 1..n : held[i] \in Txs
    <2>1. held \in Seq(Txs)
        BY <1>1 DEF PoolInv, PoolRecord
    <2> QED
        BY <1>1, <2>1
<1>3. PICK X : X = {t \in Seq(Txs) : LegalTogether(c, ToSet(t), part)}
    OBVIOUS
<1>4. PICK empty : empty = <<>> /\ empty \in X
    <2>1. <<>> \in Seq(Txs) /\ ToSet(<<>>) = {}
        BY DEF ToSet
    <2>2. LegalTogether(c, {}, part)
        BY DEF LegalTogether
    <2> QED
        BY <1>3, <2>1, <2>2
<1>5. \A t \in X : \A tx \in Txs : /\ Pick(c, t, tx, part) \in X
                                  /\ ToSet(t) \subseteq ToSet(Pick(c, t, tx, part))
                                  /\ \/ tx \in ToSet(Pick(c, t, tx, part))
                                     \/ ~LegalTogether(c, ToSet(t) \cup {tx}, part)
    <2> SUFFICES ASSUME NEW t \in X, NEW tx \in Txs
                 PROVE  /\ Pick(c, t, tx, part) \in X
                        /\ ToSet(t) \subseteq ToSet(Pick(c, t, tx, part))
                        /\ \/ tx \in ToSet(Pick(c, t, tx, part))
                           \/ ~LegalTogether(c, ToSet(t) \cup {tx}, part)
        OBVIOUS
    <2>1. CASE ~LegalTogether(c, ToSet(t) \cup {tx}, part)
        BY <2>1 DEF Pick
    <2>2. CASE LegalTogether(c, ToSet(t) \cup {tx}, part)
        <3>1. PICK u : u = Append(t, tx) /\ t \in Seq(Txs)
            BY <1>3
        <3>2. u \in Seq(Txs) /\ DOMAIN u = 1..(Len(t) + 1) /\ DOMAIN t = 1..Len(t) /\ Len(t) \in Nat
              /\ u[Len(t) + 1] = tx /\ \A i \in 1..Len(t) : u[i] = t[i]
            BY <3>1
        <3>3. \A i \in 1..(Len(t) + 1) : i \in 1..Len(t) \/ i = Len(t) + 1
            BY <3>2
        <3>4. \A i \in 1..Len(t) : i \in 1..(Len(t) + 1)
            BY <3>2
        <3>5. Len(t) + 1 \in 1..(Len(t) + 1)
            BY <3>2
        <3>6. ToSet(u) \subseteq ToSet(t) \cup {tx}
            BY <3>2, <3>3 DEF ToSet
        <3>7. ToSet(t) \subseteq ToSet(u)
            BY <3>2, <3>4 DEF ToSet
        <3>8. tx \in ToSet(u)
            BY <3>2, <3>5 DEF ToSet
        <3>9. ToSet(u) = ToSet(t) \cup {tx}
            BY <3>6, <3>7, <3>8
        <3> QED
            BY <1>3, <2>2, <3>1, <3>2, <3>7, <3>8, <3>9 DEF Pick
    <2> QED
        BY <2>1, <2>2
<1> DEFINE Goes(g) == g = [i \in 0..n |-> IF i = 0 THEN empty ELSE Pick(c, g[i - 1], held[i], part)]
           upTo == CHOOSE g : Goes(g)
<1>6. PICK step : step = [i \in 1..n |-> [t \in X |-> Pick(c, t, held[i], part)]]
    OBVIOUS
<1>7. step \in [1..n -> [X -> X]]
    BY <1>2, <1>5, <1>6
<1>8. PICK f \in [0..n -> X] : f[0] = empty /\ \A i \in 1..n : f[i] = step[i][f[i - 1]]
    <2>1. empty \in X /\ n \in Nat
        BY <1>2, <1>4
    <2>2. \E f \in [0..n -> X] : f[0] = empty /\ \A i \in 1..n : f[i] = step[i][f[i - 1]]
        BY <1>7, <2>1, StaysThrough
    <2> QED
        BY <2>2
<1>9. \A i \in 0..n : i # 0 => i \in 1..n /\ i - 1 \in 0..n
    BY <1>2
<1>10. Goes(f)
    <2>1. \A i \in 1..n : i - 1 \in 0..n /\ f[i] = Pick(c, f[i - 1], held[i], part)
        BY <1>2, <1>6, <1>8
    <2>2. \A i \in 0..n : f[i] = IF i = 0 THEN empty ELSE Pick(c, f[i - 1], held[i], part)
        BY <1>8, <1>9, <2>1
    <2>3. f = [i \in 0..n |-> f[i]]
        BY <1>8
    <2> QED
        BY <2>2, <2>3
<1>11. Goes(upTo)
    BY <1>10
<1>12. Build(c, p, part) = upTo[n]
    BY <1>1, <1>4 DEF Build
<1>13. upTo[0] = empty /\ \A i \in 0..n : i # 0 => upTo[i] = Pick(c, upTo[i - 1], held[i], part)
    <2>1. \A g : Goes(g) => g[0] = empty /\ \A i \in 0..n : i # 0 => g[i] = Pick(c, g[i - 1], held[i], part)
        BY <1>2
    <2> QED
        BY <1>11, <2>1
<1> DEFINE Out == {i \in 0..n : upTo[i] \notin X}
<1> HIDE DEF upTo
<1>14. \A i \in 0..n : upTo[i] \in X
    <2> SUFFICES ASSUME Out # {} PROVE FALSE
        OBVIOUS
    <2>0. Out \in SUBSET Nat
        BY <1>2
    <2>1. PICK i \in Out : \A j \in Out : i <= j
        <3> HIDE DEF Out
        <3> QED
            BY <2>0, LeastOfSome
    <2>2. i # 0
        BY <1>4, <1>13, <2>1
    <2>3. i - 1 \in 0..n /\ ~(i <= i - 1) /\ i \in 1..n
        BY <1>2, <2>1, <2>2
    <2>4. upTo[i - 1] \in X
        BY <2>1, <2>3
    <2>5. upTo[i] \in X
        BY <1>2, <1>5, <1>13, <2>1, <2>2, <2>3, <2>4
    <2> QED
        BY <2>1, <2>5
<1>15. \A i \in 1..n : /\ i - 1 \in 0..n /\ i \in 0..n
                       /\ ToSet(upTo[i - 1]) \subseteq ToSet(upTo[i])
                       /\ \/ held[i] \in ToSet(upTo[i])
                          \/ ~LegalTogether(c, ToSet(upTo[i - 1]) \cup {held[i]}, part)
    <2> SUFFICES ASSUME NEW i \in 1..n
                 PROVE  /\ i - 1 \in 0..n /\ i \in 0..n
                        /\ ToSet(upTo[i - 1]) \subseteq ToSet(upTo[i])
                        /\ \/ held[i] \in ToSet(upTo[i])
                           \/ ~LegalTogether(c, ToSet(upTo[i - 1]) \cup {held[i]}, part)
        OBVIOUS
    <2>1. i - 1 \in 0..n /\ i \in 0..n /\ i # 0
        BY <1>2
    <2>2. upTo[i] = Pick(c, upTo[i - 1], held[i], part) /\ upTo[i - 1] \in X /\ held[i] \in Txs
        BY <1>2, <1>13, <1>14, <2>1
    <2> QED
        BY <1>5, <2>1, <2>2
\* What was picked stays.
<1> DEFINE Lost == {i \in 0..n : ~(ToSet(upTo[i]) \subseteq ToSet(upTo[n]))}
<1>16. \A i \in 0..n : ToSet(upTo[i]) \subseteq ToSet(upTo[n])
    <2> SUFFICES ASSUME Lost # {} PROVE FALSE
        OBVIOUS
    <2>0. Lost \in SUBSET Nat /\ \A k \in Lost : k <= n
        BY <1>2
    <2>1. PICK i \in Lost : \A j \in Lost : i >= j
        <3> HIDE DEF Lost
        <3> QED
            BY <1>2, <2>0, LargestBelow
    <2>2. i # n
        BY <2>1
    <2>3. i + 1 \in 1..n /\ i + 1 \in 0..n /\ ~(i >= i + 1) /\ (i + 1) - 1 = i
        BY <1>2, <2>1, <2>2
    <2>4. ToSet(upTo[i + 1]) \subseteq ToSet(upTo[n])
        BY <2>1, <2>3
    <2>5. ToSet(upTo[(i + 1) - 1]) \subseteq ToSet(upTo[i + 1])
        BY <1>15, <2>3
    <2>6. ToSet(upTo[i]) \subseteq ToSet(upTo[i + 1])
        BY <2>3, <2>5
    <2> QED
        BY <2>1, <2>4, <2>6
<1>17. n \in 0..n
    BY <1>2
<1>18. LegalTogether(c, ToSet(upTo[n]), part)
    BY <1>3, <1>14, <1>17
<1>19. ASSUME NEW tx \in PoolTxs(p) \ ToSet(upTo[n]), LegalTogether(c, ToSet(upTo[n]) \cup {tx}, part)
       PROVE  FALSE
    <2>1. PICK i \in 1..n : tx = held[i]
        BY <1>1, <1>2 DEF PoolTxs, ToSet
    <2>2. tx \notin ToSet(upTo[i])
        BY <1>15, <1>16, <2>1
    <2>3. ~LegalTogether(c, ToSet(upTo[i - 1]) \cup {tx}, part) /\ i - 1 \in 0..n
        BY <1>15, <2>1, <2>2
    <2>4. ToSet(upTo[i - 1]) \cup {tx} \in SUBSET (ToSet(upTo[n]) \cup {tx})
        BY <1>16, <2>3
    <2> QED
        BY <1>19, <2>3, <2>4, FewerAreLegal
<1> QED
    BY <1>12, <1>18, <1>19

\* ---- every step ----

LEMMA DepthInRange == ASSUME NEW s \in Slacks PROVE Servable(s) \in QueueFloor..QueueCapacity
<1>1. PICK n : n = (MaxEpochsQueued * s) \div 2
    OBVIOUS
<1>2. n \in Nat
    <2>1. MaxEpochsQueued \in Nat /\ s \in Nat
        BY MempoolAssumption
    <2>2. PICK m : m = MaxEpochsQueued * s /\ m \in Nat
        BY <2>1
    <2> QED
        BY <1>1, <2>2
<1>3. QueueFloor \in Nat /\ QueueCapacity \in Nat /\ QueueFloor <= QueueCapacity
    BY MempoolAssumption
<1> QED
    BY <1>1, <1>2, <1>3 DEF Servable

\* A node on another ledger holds nothing.
LEMMA EmptiedKeeps ==
    ASSUME NEW p, PoolInv(p)
    PROVE  /\ PoolInv([p EXCEPT !.held = <<>>, !.claims = <<>>])
           /\ [p EXCEPT !.held = <<>>, !.claims = <<>>].refused = p.refused
<1>1. PICK q : q = [p EXCEPT !.held = <<>>, !.claims = <<>>]
    OBVIOUS
<1>2. p \in PoolRecord
    BY DEF PoolInv
<1>3. q.held = <<>> /\ q.claims = <<>> /\ q.strikes = p.strikes /\ q.refused = p.refused
    BY <1>1, <1>2 DEF PoolRecord
<1>4. <<>> \in UNION {[D -> Txs] : D \in SUBSET Notes}
    <2>1. <<>> \in [{} -> Txs] /\ {} \in SUBSET Notes
        OBVIOUS
    <2> QED
        BY <2>1
<1>5. <<>> \in Seq(Txs) /\ IsInjective(<<>>) /\ Len(<<>>) = 0 /\ DOMAIN <<>> = {}
    BY DEF IsInjective
<1>6. q \in PoolRecord
    BY <1>1, <1>2, <1>4, <1>5 DEF PoolRecord
<1>7. 0 <= MaxMempool
    BY MempoolAssumption
<1> QED
    BY <1>1, <1>3, <1>5, <1>6, <1>7 DEF PoolInv

LEMMA MempoolInitOK == MempoolInit => MempoolInv
<1> SUFFICES ASSUME MempoolInit PROVE MempoolInv
    OBVIOUS
<1>1. chain = Issued /\ pool = EmptyPool /\ work = <<>> /\ slack \in Slacks /\ left = slack
      /\ depth = Servable(slack) /\ grids = 1
    BY DEF MempoolInit
<1>2. depth \in QueueFloor..QueueCapacity /\ slack \in Nat /\ left \in 0..slack
    BY <1>1, DepthInRange, MempoolAssumption
<1>3. <<>> \in UNION {[D -> Txs] : D \in SUBSET Notes}
    <2>1. <<>> \in [{} -> Txs] /\ {} \in SUBSET Notes
        OBVIOUS
    <2> QED
        BY <2>1
<1>4. <<>> \in Seq(Txs) /\ <<>> \in Seq(Submissions) /\ <<>> \in Seq(Job)
      /\ IsInjective(<<>>) /\ Len(<<>>) = 0 /\ DOMAIN <<>> = {} /\ ToSet(<<>>) = {}
    BY DEF IsInjective, ToSet
<1>5. 0 <= MaxMempool /\ 0 <= MaxRefusedProofs /\ 0 \in 0..ProofStrikes /\ 1 \in 1..MaxGrids
    BY MempoolAssumption
<1>6. pool.held = <<>> /\ pool.claims = <<>> /\ pool.refused = <<>>
      /\ pool.strikes = [tx \in Txs |-> 0]
    BY <1>1 DEF EmptyPool
<1>7. pool \in PoolRecord
    BY <1>1, <1>3, <1>4, <1>5 DEF EmptyPool, PoolRecord
<1>8. PoolInv(pool)
    BY <1>4, <1>5, <1>6, <1>7 DEF PoolInv
<1>9. QueueInv(work, pool)
    BY <1>1, <1>4 DEF QueueInv, Queued
<1>10. Len(work) <= depth
    <2>1. QueueFloor \in Nat
        BY MempoolAssumption
    <2> QED
        BY <1>1, <1>2, <1>4, <2>1
<1>11. chain.live \subseteq chain.ever /\ grids \in 1..MaxGrids
    BY <1>1, <1>5 DEF Issued
<1> QED
    BY <1>2, <1>8, <1>9, <1>10, <1>11 DEF MempoolInv

\* What waits stays in order when what has failed is the same.
LEMMA QueueIgnoresTheRest ==
    ASSUME NEW q, NEW p, QueueInv(q, p), NEW r, ToSet(r.refused) \subseteq ToSet(p.refused)
    PROVE  QueueInv(q, r)
BY DEF QueueInv

LEMMA OfferOK ==
    ASSUME MempoolInv, NEW s \in Submissions, NEW fromPeer \in BOOLEAN, Offer(s[1], s[2], fromPeer)
    PROVE  MempoolInv'
<1>1. PICK tx, proof : tx = s[1] /\ proof = s[2]
    OBVIOUS
<1>2. s = <<tx, proof>> /\ tx \in Txs
    BY <1>1, MempoolAssumption
<1>3. PICK job : job = [prio |-> IF fromPeer THEN PeerPriority
                                 ELSE IF Suspect(pool, tx) THEN AnonPriority ELSE OwnerPriority,
                        tx |-> tx, proof |-> proof, age |-> 0]
    OBVIOUS
<1>4. job \in Job
    <2>1. 0 \in 0..MaxEpochsQueued
        BY MempoolAssumption
    <2>2. proof \in {x[2] : x \in Submissions}
        BY <1>1
    <2> QED
        BY <1>2, <1>3, <2>1, <2>2 DEF Job, PeerPriority, OwnerPriority, AnonPriority
<1>5. job.tx = tx /\ job.proof = proof
    BY <1>3
<1>6. /\ PoolInv(pool) /\ QueueInv(work, pool) /\ Len(work) <= depth
      /\ depth \in QueueFloor..QueueCapacity
    BY DEF MempoolInv
<1>7. depth \in Nat
    BY <1>6, MempoolAssumption
<1>8. <<tx, proof>> \notin ToSet(pool.refused)
    <2>1. ~Remembered(pool, tx, proof)
        BY <1>1 DEF Offer, Authenticated
    <2>2. <<tx, proof>> \in ToSet(pool.refused) => pool.strikes[tx] > 0
        <3>1. \A x \in ToSet(pool.refused) : pool.strikes[x[1]] > 0
            BY <1>6 DEF PoolInv
        <3> QED
            BY <3>1
    <2> QED
        BY <2>1, <2>2 DEF Remembered
<1>9. work' = Enqueue(work, job) /\ UNCHANGED <<chain, pool, depth, slack, left, grids>>
    BY <1>1, <1>3 DEF Offer
<1>10. QueueInv(Enqueue(work, job), pool) /\ Len(Enqueue(work, job)) <= depth
    BY <1>2, <1>4, <1>5, <1>6, <1>7, <1>8, EnqueueKeeps
<1>11. QueueInv(work', pool') /\ Len(work') <= depth'
    BY <1>9, <1>10
<1>12. PoolInv(pool')
    BY <1>6, <1>9
<1> QED
    BY <1>9, <1>11, <1>12 DEF MempoolInv

LEMMA DrainOK == ASSUME MempoolInv, Drain PROVE MempoolInv'
<1>1. PICK cost \in Costs :
         LET end == DrainFrom([q |-> Expire(work), p |-> pool, l |-> left], cost)
         IN /\ work' = end.q /\ pool' = end.p /\ left' = end.l
            /\ UNCHANGED <<chain, depth, slack, grids>>
    BY DEF Drain
<1>2. PICK fresh, start : fresh = Expire(work) /\ start = [q |-> fresh, p |-> pool, l |-> left]
    OBVIOUS
<1>3. /\ PoolInv(pool) /\ QueueInv(work, pool) /\ Len(work) <= depth
      /\ depth \in QueueFloor..QueueCapacity /\ slack \in Nat /\ left \in 0..slack
    BY DEF MempoolInv
<1>4. depth \in Nat
    BY <1>3, MempoolAssumption
<1>5. QueueInv(fresh, pool) /\ Len(fresh) <= depth
    <2>1. PICK where : where = {i \in DOMAIN work : work[i].age < MaxEpochsQueued}
        OBVIOUS
    <2>2. fresh = Selected(work, where) /\ where \in SUBSET DOMAIN work
        BY <1>2, <2>1 DEF Expire
    <2>3. Queued(work)
        BY <1>3 DEF QueueInv
    <2>4. Queued(fresh) /\ ToSet(fresh) = {work[i] : i \in where} /\ Len(fresh) \in 0..Len(work)
        BY <2>2, <2>3, SelectedIsQueued
    <2>5. ToSet(fresh) \subseteq ToSet(work)
        BY <2>2, <2>4 DEF ToSet
    <2>6. Len(work) \in Nat
        BY <2>3, JobsHavePriorities
    <2>7. Len(fresh) <= depth
        BY <1>3, <1>4, <2>4, <2>6
    <2> QED
        BY <1>3, <2>4, <2>5, <2>7 DEF QueueInv
<1>6. start \in Draining
    <2>1. start.q = fresh /\ start.p = pool /\ start.l = left
        BY <1>2
    <2>2. start \in [q : Seq(Job), p : PoolRecord, l : 0..slack]
        BY <1>2, <1>3, <1>5 DEF QueueInv, Queued, PoolInv
    <2> QED
        BY <1>3, <1>5, <2>1, <2>2 DEF Draining
<1>7. PICK end : end = DrainFrom(start, cost)
    OBVIOUS
<1>8. end \in Draining
    BY <1>3, <1>4, <1>6, <1>7, DrainingKeeps
<1>9. /\ work' = end.q /\ pool' = end.p /\ left' = end.l
      /\ UNCHANGED <<chain, depth, slack, grids>>
    BY <1>1, <1>2, <1>7
<1>10. /\ end.l \in 0..slack /\ QueueInv(end.q, end.p) /\ PoolInv(end.p) /\ Len(end.q) <= depth
    BY <1>8 DEF Draining
<1>11. QueueInv(work', pool') /\ PoolInv(pool') /\ Len(work') <= depth' /\ left' \in 0..slack'
    BY <1>9, <1>10
<1> QED
    BY <1>9, <1>11 DEF MempoolInv

\* Ageing leaves the order alone.
Aged(q) == [i \in DOMAIN q |-> [q[i] EXCEPT !.age = IF @ < MaxEpochsQueued THEN @ + 1 ELSE @]]

LEMMA AgedIsQueued ==
    ASSUME NEW q, Queued(q)
    PROVE  /\ Queued(Aged(q)) /\ DOMAIN Aged(q) = DOMAIN q
           /\ \A i \in DOMAIN q : /\ Aged(q)[i].tx = q[i].tx /\ Aged(q)[i].proof = q[i].proof
                                 /\ Aged(q)[i].prio = q[i].prio
<1>1. PICK t : t = Aged(q)
    OBVIOUS
<1>2. Len(q) \in Nat /\ DOMAIN q = 1..Len(q) /\ \A i \in DOMAIN q : q[i] \in Job
    BY JobsHavePriorities
<1>3. DOMAIN t = DOMAIN q /\ \A i \in DOMAIN q :
         t[i] = [q[i] EXCEPT !.age = IF @ < MaxEpochsQueued THEN @ + 1 ELSE @]
    BY <1>1 DEF Aged
<1>4. ASSUME NEW i \in DOMAIN q
      PROVE  t[i] \in Job /\ t[i].tx = q[i].tx /\ t[i].proof = q[i].proof /\ t[i].prio = q[i].prio
    <2>1. PICK j, a : j = q[i] /\ a = IF j.age < MaxEpochsQueued THEN j.age + 1 ELSE j.age
        OBVIOUS
    <2>2. j \in Job /\ t[i] = [j EXCEPT !.age = a]
        BY <1>2, <1>3, <2>1
    <2>3. a \in 0..MaxEpochsQueued
        <3>1. j.age \in 0..MaxEpochsQueued /\ MaxEpochsQueued \in Nat
            BY <2>2, MempoolAssumption DEF Job
        <3> QED
            BY <2>1, <3>1
    <2> QED
        BY <2>1, <2>2, <2>3 DEF Job
<1>5. t \in Seq(Job)
    <2>1. t = [i \in 1..Len(q) |-> t[i]]
        BY <1>1, <1>2 DEF Aged
    <2>2. \A i \in 1..Len(q) : t[i] \in Job
        BY <1>2, <1>4
    <2> QED
        BY <1>2, <2>1, <2>2
<1>6. \A i, j \in DOMAIN t : t[i].tx = t[j].tx => i = j
    BY <1>3, <1>4 DEF Queued
<1> QED
    BY <1>1, <1>3, <1>4, <1>5, <1>6 DEF Queued

LEMMA OpenEpochOK == ASSUME MempoolInv, OpenEpoch PROVE MempoolInv'
<1>1. PICK s \in Slacks : /\ slack' = s /\ left' = s /\ depth' = Servable(s)
                          /\ work' = KeepBest(Aged(work), Servable(s))
                          /\ UNCHANGED <<chain, pool, grids>>
    BY DEF OpenEpoch, Aged
<1>2. PoolInv(pool) /\ QueueInv(work, pool)
    BY DEF MempoolInv
<1>3. PICK t, n : t = Aged(work) /\ n = Servable(s)
    OBVIOUS
<1>4. n \in QueueFloor..QueueCapacity /\ n \in Nat /\ s \in Nat
    <2>1. n \in QueueFloor..QueueCapacity
        BY <1>3, DepthInRange
    <2> QED
        BY <2>1, MempoolAssumption
<1>5. /\ Queued(t) /\ DOMAIN t = DOMAIN work
      /\ \A i \in DOMAIN work : t[i].tx = work[i].tx /\ t[i].proof = work[i].proof
    BY <1>2, <1>3, AgedIsQueued DEF QueueInv
<1>6. /\ Queued(work') /\ Len(work') \in 0..n /\ ToSet(work') \subseteq ToSet(t)
    BY <1>1, <1>3, <1>4, <1>5, BestAreKept
<1>7. ASSUME NEW j \in ToSet(work')
      PROVE  <<j.tx, j.proof>> \in Submissions /\ <<j.tx, j.proof>> \notin ToSet(pool.refused)
    <2>1. PICK i \in DOMAIN work : j = t[i]
        BY <1>5, <1>6 DEF ToSet
    <2>2. j.tx = work[i].tx /\ j.proof = work[i].proof /\ work[i] \in ToSet(work)
        BY <1>5, <2>1 DEF ToSet
    <2> QED
        BY <1>2, <2>2 DEF QueueInv
<1>8. QueueInv(work', pool)
    BY <1>6, <1>7 DEF QueueInv
<1>9. depth' = n /\ slack' = s /\ left' = s /\ pool' = pool
    BY <1>1, <1>3
<1>10. Len(work') <= depth' /\ depth' \in QueueFloor..QueueCapacity /\ slack' \in Nat /\ left' \in 0..slack'
    BY <1>4, <1>6, <1>9
<1>11. PoolInv(pool') /\ QueueInv(work', pool')
    BY <1>2, <1>8, <1>9
<1> QED
    BY <1>1, <1>10, <1>11 DEF MempoolInv

\* Every step keeps it.
LEMMA MempoolNextOK == MempoolInv /\ [MempoolNext]_mempoolVars => MempoolInv'
<1> SUFFICES ASSUME MempoolInv, [MempoolNext]_mempoolVars PROVE MempoolInv'
    OBVIOUS
<1>0. PoolInv(pool) /\ QueueInv(work, pool) /\ slack \in Nat /\ left \in 0..slack
      /\ Len(work) <= depth /\ depth \in QueueFloor..QueueCapacity /\ grids \in 1..MaxGrids
      /\ chain.live \subseteq chain.ever
    BY DEF MempoolInv
<1>1. CASE Arrive
    <2>1. PICK s \in Submissions, fromPeer \in BOOLEAN : Offer(s[1], s[2], fromPeer)
        BY <1>1 DEF Arrive
    <2> QED
        BY <2>1, OfferOK
<1>2. CASE Drain
    BY <1>2, DrainOK
<1>3. CASE TimePasses
    <2>1. left' \in 0..slack
        BY <1>0, <1>3 DEF TimePasses
    <2> QED
        BY <1>0, <1>3, <2>1 DEF TimePasses, MempoolInv
<1>4. CASE OpenEpoch
    BY <1>4, OpenEpochOK
<1>5. ASSUME NEW S \in SUBSET Txs, ApplyBlock(S) PROVE MempoolInv'
    <2>1. /\ chain' = ApplyTxs(chain, S) /\ pool' = Evict(pool, S)
          /\ UNCHANGED <<work, depth, slack, left, grids>>
        BY <1>5 DEF ApplyBlock
    <2>2. PoolInv(Evict(pool, S)) /\ Evict(pool, S).refused = pool.refused
        BY <1>0, EvictKeeps
    <2>3. PoolInv(pool') /\ ToSet(pool'.refused) \subseteq ToSet(pool.refused)
        BY <2>1, <2>2
    <2>4. QueueInv(work, pool')
        BY <1>0, <2>3, QueueIgnoresTheRest
    <2>5. chain'.live \subseteq chain'.ever
        BY <1>0, <2>1 DEF ApplyTxs
    <2> QED
        BY <1>0, <2>1, <2>3, <2>4, <2>5 DEF MempoolInv
<1>6. ASSUME NEW mine \in 0..MaxGrids, Reroute(mine) PROVE MempoolInv'
    <2>1. grids < MaxGrids /\ grids' = grids + 1 /\ UNCHANGED <<chain, work, depth, slack, left>>
        BY <1>6 DEF Reroute
    <2>2. PoolInv(pool') /\ ToSet(pool'.refused) \subseteq ToSet(pool.refused)
        BY <1>0, <1>6, RerouteKeeps
    <2>3. QueueInv(work, pool')
        BY <1>0, <2>2, QueueIgnoresTheRest
    <2>4. grids' \in 1..MaxGrids
        BY <1>0, <2>1, MempoolAssumption
    <2> QED
        BY <1>0, <2>1, <2>2, <2>3, <2>4 DEF MempoolInv
<1>7. ASSUME NEW S \in SUBSET Txs, NewLedger(S) PROVE MempoolInv'
    <2>1. /\ chain' = ApplyTxs(Issued, S) /\ pool' = [pool EXCEPT !.held = <<>>, !.claims = <<>>]
          /\ UNCHANGED <<work, depth, slack, left, grids>>
        BY <1>7 DEF NewLedger
    <2>2. PoolInv(pool') /\ ToSet(pool'.refused) \subseteq ToSet(pool.refused)
        BY <1>0, <2>1, EmptiedKeeps
    <2>3. QueueInv(work, pool')
        BY <1>0, <2>2, QueueIgnoresTheRest
    <2>4. chain'.live \subseteq chain'.ever
        BY <2>1 DEF ApplyTxs, Issued
    <2> QED
        BY <1>0, <2>1, <2>2, <2>3, <2>4 DEF MempoolInv
<1>8. CASE UNCHANGED mempoolVars
    <2>1. pool' = pool /\ work' = work /\ slack' = slack /\ left' = left /\ depth' = depth
          /\ grids' = grids /\ chain' = chain
        BY <1>8 DEF mempoolVars
    <2> QED
        BY <1>0, <2>1 DEF MempoolInv
<1> QED
    BY <1>1, <1>2, <1>3, <1>4, <1>5, <1>6, <1>7, <1>8 DEF MempoolNext

\* Whatever arrives, waits, fails, is agreed or undone, the invariant holds.
THEOREM MempoolInvariance == MempoolSpec => []MempoolInv
<1>1. MempoolInit => MempoolInv
    BY MempoolInitOK
<1>2. MempoolInv /\ [MempoolNext]_mempoolVars => MempoolInv'
    BY MempoolNextOK
<1> QED
    BY <1>1, <1>2, PTL DEF MempoolSpec

LEMMA PoolsAreSound == MempoolInv => PoolIsSound
<1> SUFFICES ASSUME MempoolInv PROVE PoolIsSound
    OBVIOUS
<1>0. PoolInv(pool) /\ QueueInv(work, pool)
    BY DEF MempoolInv
<1>1. MempoolTypeOK
    <2>1. pool.held \in Seq(Txs) /\ pool.strikes \in [Txs -> 0..ProofStrikes]
        BY <1>0 DEF PoolInv, PoolRecord
    <2>2. PoolTxs(pool) \subseteq Txs
        BY <2>1 DEF PoolTxs, ToSet
    <2> QED
        BY <1>0, <2>1, <2>2 DEF MempoolTypeOK, MempoolInv, PoolInv
<1>2. EveryClaimIsHeld
    BY <1>0 DEF PoolInv, EveryClaimIsHeld
<1>3. NoFailureIsPaidForTwice
    BY <1>0 DEF QueueInv, NoFailureIsPaidForTwice
<1>4. BlockIsLegalAndFull
    <2> SUFFICES ASSUME NEW part \in 0..(grids - 1)
                 PROVE  /\ LegalTogether(chain, ToSet(Build(chain, pool, part)), part)
                        /\ \A tx \in PoolTxs(pool) \ ToSet(Build(chain, pool, part)) :
                             ~LegalTogether(chain, ToSet(Build(chain, pool, part)) \cup {tx}, part)
        BY DEF BlockIsLegalAndFull
    <2> QED
        BY <1>0, BlocksAreLegalAndFull
<1> QED
    BY <1>1, <1>2, <1>3, <1>4 DEF PoolIsSound

\* The cap, the claims, the failures remembered and the block that is built, of any pool.
THEOREM PoolsHold == MempoolSpec => []PoolIsSound
BY MempoolInvariance, PoolsAreSound, PTL

\* What is cut is served after what is kept.
LEMMA CutIsServedLater ==
    ASSUME NEW q, Queued(q), NEW n \in Nat, NEW i \in DOMAIN q, NEW k \in DOMAIN q,
           q[i] \notin ToSet(KeepBest(q, n)), q[k] \in ToSet(KeepBest(q, n))
    PROVE  Ahead(q, k, i)
<1>1. ~(Rank(q, q[i]) < n) /\ Rank(q, q[k]) < n
    BY BestAreKept
<1>2. /\ Rank(q, q[i]) \in Nat /\ Rank(q, q[k]) \in Nat
      /\ Ahead(q, k, i) <=> Rank(q, q[k]) < Rank(q, q[i])
    BY RanksOrder
<1> QED
    BY <1>1, <1>2

\* What a step other than a drain drops is served after what it keeps.
DropsTheLeast ==
    \A job \in ToSet(work) :
        (\A j \in ToSet(work') : j.tx # job.tx) =>
            \A kept \in ToSet(work') \cap ToSet(work) : Rank(work, kept) < Rank(work, job)

LEMMA ArrivalsDropTheLeast ==
    ASSUME Queued(work), depth \in Nat, NEW new \in Job, work' = Enqueue(work, new)
    PROVE  DropsTheLeast
<1> SUFFICES ASSUME NEW job \in ToSet(work), \A j \in ToSet(work') : j.tx # job.tx,
                    NEW kept \in ToSet(work') \cap ToSet(work)
             PROVE  Rank(work, kept) < Rank(work, job)
    BY DEF DropsTheLeast
<1>1. PICK i \in DOMAIN work, k \in DOMAIN work : job = work[i] /\ kept = work[k]
    BY DEF ToSet
<1>2. job \notin ToSet(work')
    OBVIOUS
<1>3. PICK t, n : t = Append(work, new) /\ n = Len(work)
    OBVIOUS
<1>4. /\ n \in Nat /\ t \in Seq(Job) /\ DOMAIN work = 1..n /\ DOMAIN t = 1..(n + 1)
      /\ t[n + 1] = new /\ \A m \in 1..n : t[m] = work[m] /\ m \in 1..(n + 1)
    BY <1>3 DEF Queued
<1>5. ~\E m \in DOMAIN work : work[m].tx = new.tx
    BY <1>2 DEF Enqueue
<1>6. Queued(t)
    <2>1. \A m \in 1..(n + 1) : m \in 1..n \/ m = n + 1
        BY <1>4
    <2>2. \A a, b \in 1..n : t[a].tx = t[b].tx => a = b
        BY <1>4 DEF Queued
    <2>3. \A a \in 1..n : t[a].tx # new.tx
        BY <1>4, <1>5
    <2>4. \A a, b \in 1..(n + 1) : t[a].tx = t[b].tx => a = b
        BY <1>4, <2>1, <2>2, <2>3
    <2> QED
        BY <1>4, <2>4 DEF Queued
<1>7. work' = KeepBest(t, depth)
    BY <1>3, <1>5 DEF Enqueue
<1>8. t[i] = job /\ t[k] = kept /\ i \in DOMAIN t /\ k \in DOMAIN t
    BY <1>1, <1>4
<1>9. Ahead(t, k, i)
    BY <1>2, <1>6, <1>7, <1>8, CutIsServedLater
<1>10. Ahead(work, k, i)
    BY <1>1, <1>8, <1>9 DEF Ahead
<1> QED
    BY <1>1, <1>10, RanksOrder

LEMMA EpochsDropTheLeast ==
    ASSUME Queued(work), NEW n \in Nat, work' = KeepBest(Aged(work), n)
    PROVE  DropsTheLeast
<1> SUFFICES ASSUME NEW job \in ToSet(work), \A j \in ToSet(work') : j.tx # job.tx,
                    NEW kept \in ToSet(work') \cap ToSet(work)
             PROVE  Rank(work, kept) < Rank(work, job)
    BY DEF DropsTheLeast
<1>1. PICK i \in DOMAIN work, k \in DOMAIN work : job = work[i] /\ kept = work[k]
    BY DEF ToSet
<1>2. PICK t : t = Aged(work)
    OBVIOUS
<1>3. /\ Queued(t) /\ DOMAIN t = DOMAIN work
      /\ \A m \in DOMAIN work : t[m].tx = work[m].tx /\ t[m].prio = work[m].prio
    BY <1>2, AgedIsQueued
<1>4. ToSet(work') \subseteq ToSet(t)
    BY <1>2, <1>3, BestAreKept
<1>5. t[k] = kept
    <2>1. PICK m \in DOMAIN work : kept = t[m]
        BY <1>3, <1>4 DEF ToSet
    <2>2. work[m].tx = work[k].tx
        BY <1>1, <1>3, <2>1
    <2>3. m = k
        BY <2>2 DEF Queued
    <2> QED
        BY <2>1, <2>3
<1>6. t[i] \notin ToSet(work')
    BY <1>1, <1>3
<1>7. Ahead(t, k, i)
    BY <1>2, <1>3, <1>5, <1>6, CutIsServedLater
<1>8. Ahead(work, k, i)
    BY <1>3, <1>7 DEF Ahead
<1> QED
    BY <1>1, <1>8, RanksOrder

LEMMA StayingDropsNothing == ASSUME work' = work PROVE DropsTheLeast
BY DEF DropsTheLeast

\* For want of room the least important goes, and the youngest of those.
THEOREM TheLeastImportantGoes == MempoolSpec => LeastImportantGoes
<1>1. MempoolInv /\ [MempoolNext]_mempoolVars => [Drain \/ DropsTheLeast]_mempoolVars
    <2> SUFFICES ASSUME MempoolInv, MempoolNext, ~Drain PROVE DropsTheLeast
        OBVIOUS
    <2>0. Queued(work) /\ depth \in Nat
        <3>1. depth \in QueueFloor..QueueCapacity /\ QueueFloor \in Nat /\ QueueCapacity \in Nat
            BY MempoolAssumption DEF MempoolInv
        <3> QED
            BY <3>1 DEF MempoolInv, QueueInv
    <2>1. CASE Arrive
        <3>1. PICK s \in Submissions, fromPeer \in BOOLEAN : Offer(s[1], s[2], fromPeer)
            BY <2>1 DEF Arrive
        <3>2. PICK new : new = [prio |-> IF fromPeer THEN PeerPriority
                                         ELSE IF Suspect(pool, s[1]) THEN AnonPriority
                                         ELSE OwnerPriority,
                                tx |-> s[1], proof |-> s[2], age |-> 0]
            OBVIOUS
        <3>3. new \in Job
            <4>1. 0 \in 0..MaxEpochsQueued /\ s[1] \in Txs
                BY MempoolAssumption
            <4>2. s[2] \in {x[2] : x \in Submissions}
                OBVIOUS
            <4> QED
                BY <3>2, <4>1, <4>2 DEF Job, PeerPriority, OwnerPriority, AnonPriority
        <3>4. work' = Enqueue(work, new)
            BY <3>1, <3>2 DEF Offer
        <3> QED
            BY <2>0, <3>3, <3>4, ArrivalsDropTheLeast
    <2>2. CASE OpenEpoch
        <3>1. PICK s \in Slacks : work' = KeepBest(Aged(work), Servable(s))
            BY <2>2 DEF OpenEpoch, Aged
        <3>2. PICK n : n = Servable(s) /\ n \in Nat
            <4>1. Servable(s) \in QueueFloor..QueueCapacity /\ QueueFloor \in Nat
                BY DepthInRange, MempoolAssumption
            <4> QED
                BY <4>1, MempoolAssumption
        <3>3. work' = KeepBest(Aged(work), n)
            BY <3>1, <3>2
        <3> QED
            BY <2>0, <3>2, <3>3, EpochsDropTheLeast
    <2>3. CASE ~Arrive /\ ~OpenEpoch
        <3>1. work' = work
            BY <2>3 DEF MempoolNext, TimePasses, ApplyBlock, Reroute, NewLedger
        <3> QED
            BY <3>1, StayingDropsNothing
    <2> QED
        BY <2>1, <2>2, <2>3
<1>2. [Drain \/ DropsTheLeast]_mempoolVars =>
      [Drain \/ \A job \in ToSet(work) :
         (\A j \in ToSet(work') : j.tx # job.tx) =>
            \A kept \in ToSet(work') \cap ToSet(work) : Rank(work, kept) < Rank(work, job)]_mempoolVars
    BY DEF DropsTheLeast
<1> QED
    BY <1>1, <1>2, MempoolInvariance, PTL DEF MempoolSpec, LeastImportantGoes

-----------------------------------------------------------------------------
(* The era-0 p.                                                         *)

\* Sums: each is the one before it and its number.
LEMMA SumsAddUp ==
    ASSUME NEW c, NEW n \in Nat, Len(c) = n, \A i \in 1..n : c[i] \in Int
    PROVE  /\ Sums(c) \in [0..n -> Int]
           /\ Sums(c)[0] = 0
           /\ \A i \in 1..n : Sums(c)[i] = Sums(c)[i - 1] + c[i]
<1> DEFINE Goes(g) == g = [i \in 0..n |-> IF i = 0 THEN 0 ELSE g[i - 1] + c[i]]
           sum == CHOOSE g : Goes(g)
<1>1. PICK step : step = [i \in 1..n |-> [x \in Int |-> x + c[i]]]
    OBVIOUS
<1>2. step \in [1..n -> [Int -> Int]]
    BY <1>1
<1>3. PICK f \in [0..n -> Int] : InTurn(f, n, 0, step)
    <2>1. 0 \in Int
        OBVIOUS
    <2> QED
        BY <1>2, <2>1, StepsInTurn
<1>4. \A i \in 0..n : i # 0 => i \in 1..n /\ i - 1 \in 0..n
    OBVIOUS
<1>5. Goes(f)
    <2>1. \A i \in 0..n : i # 0 => step[i][f[i - 1]] = f[i - 1] + c[i]
        BY <1>1, <1>3, <1>4
    <2>2. \A i \in 0..n : f[i] = IF i = 0 THEN 0 ELSE f[i - 1] + c[i]
        BY <1>3, <2>1 DEF InTurn
    <2>3. f = [i \in 0..n |-> f[i]]
        BY <1>3
    <2> QED
        BY <2>2, <2>3
<1>6. Goes(sum)
    BY <1>5
<1>7. Sums(c) = sum
    BY DEF Sums
<1> HIDE DEF sum
<1>8. DOMAIN sum = 0..n /\ sum[0] = 0 /\ \A i \in 1..n : sum[i] = sum[i - 1] + c[i]
    BY <1>4, <1>6
<1> DEFINE Good == {i \in 0..n : sum[i] \in Int}
<1>9. Good = 0..n
    <2>1. 0 \in Good /\ \A i \in 1..n : i - 1 \in Good => i \in Good
        BY <1>8
    <2>2. Good \in SUBSET (0..n)
        OBVIOUS
    <2> HIDE DEF Good
    <2> QED
        BY <2>1, <2>2, CarriedAlong
<1> QED
    BY <1>6, <1>7, <1>8, <1>9

\* What numbers that are not negative add up to does not fall.
LEMMA SumsClimb ==
    ASSUME NEW n \in Nat, NEW c, \A m \in 1..n : c[m] \in Nat,
           NEW sum, sum[0] = 0, \A m \in 1..n : sum[m] = sum[m - 1] + c[m],
           NEW i \in 0..n
    PROVE  sum[i] \in Nat /\ \A k \in i..n : sum[i] <= sum[k]
<1> DEFINE Above == {m \in 0..n : sum[m] \in Nat}
           From == {m \in 0..n : sum[m] \in Nat /\ (m >= i => sum[i] <= sum[m])}
<1>1. ASSUME NEW m \in 1..n, sum[m - 1] \in Nat
      PROVE  m \in 0..n /\ sum[m] \in Nat /\ sum[m - 1] <= sum[m]
    <2>1. sum[m - 1] \in Nat /\ c[m] \in Nat /\ sum[m] = sum[m - 1] + c[m] /\ m \in 0..n
        BY <1>1
    <2> QED
        BY ONLY <2>1
<1>2. Above = 0..n
    <2>1. Above \in SUBSET (0..n) /\ 0 \in Above /\ \A m \in 1..n : m - 1 \in Above => m \in Above
        BY <1>1
    <2> HIDE DEF Above
    <2> QED
        BY <2>1, CarriedAlong
<1>3. ASSUME NEW m \in 1..n, m - 1 \in From PROVE m \in From
    <2>1. sum[i] \in Nat /\ sum[m - 1] \in Nat /\ m \in 0..n /\ sum[m] \in Nat /\ sum[m - 1] <= sum[m]
        BY <1>1, <1>2, <1>3
    <2>2. m >= i => sum[i] <= sum[m]
        <3>1. CASE m - 1 >= i
            BY <1>3, <2>1, <3>1
        <3>2. CASE m = i
            BY <2>1, <3>2
        <3> QED
            BY <3>1, <3>2
    <2> QED
        BY <2>1, <2>2
<1>4. From = 0..n
    <2>1. 0 \in From
        BY <1>2
    <2>2. From \in SUBSET (0..n)
        OBVIOUS
    <2> HIDE DEF From
    <2> QED
        BY <1>3, <2>1, <2>2, CarriedAlong
<1> QED
    BY <1>4

\* Sorted by where they begin: all of them, each once.
LEMMA ByFirstSorts ==
    ASSUME NEW cs, NEW n \in Nat, DOMAIN cs = 1..n, \A i \in 1..n : cs[i].first \in Int
    PROVE  \E p \in [1..n -> 1..n] :
              /\ ByFirst(cs) = [k \in 1..n |-> cs[p[k]]]
              /\ \A i \in 1..n : \E k \in 1..n : p[k] = i
              /\ \A k, m \in 1..n : k < m => p[k] # p[m] /\ cs[p[k]].first <= cs[p[m]].first
<1> DEFINE D == 1..n
           R == {e \in D \X D : cs[e[1]].first < cs[e[2]].first
                                \/ (cs[e[1]].first = cs[e[2]].first /\ e[1] < e[2])}
           earlier == [i \in DOMAIN cs |->
                         {j \in DOMAIN cs : cs[j].first < cs[i].first \/ (cs[j].first = cs[i].first /\ j < i)}]
<1>1. IsFiniteSet(D) /\ Cardinality(D) = n
    BY FS_Interval
<1> PICK rank : rank = Ranks(D, R)
    OBVIOUS
<1>2. \A i \in D : rank[i] = Cardinality(earlier[i])
    <2> SUFFICES ASSUME NEW i \in D PROVE rank[i] = Cardinality(earlier[i])
        OBVIOUS
    <2>1. earlier[i] = {j \in D : <<j, i>> \in R}
        OBVIOUS
    <2> QED
        BY <2>1 DEF Ranks
<1>3. \A i, j \in D : <<i, j>> \in R <=> (cs[i].first < cs[j].first \/ (cs[i].first = cs[j].first /\ i < j))
    OBVIOUS
<1>4. R \in SUBSET (D \X D)
    OBVIOUS
<1> HIDE DEF R
<1>5. /\ \A g \in D : <<g, g>> \notin R
      /\ \A g, h, i \in D : <<g, h>> \in R /\ <<h, i>> \in R => <<g, i>> \in R
      /\ \A g, h \in D : g # h => <<g, h>> \in R \/ <<h, g>> \in R
    BY <1>3
<1> HIDE DEF D, earlier
<1>6. /\ rank \in [D -> 0..(n - 1)]
      /\ \A g, h \in D : rank[g] = rank[h] => g = h
      /\ {rank[g] : g \in D} = 0..(n - 1)
      /\ \A g, h \in D : <<g, h>> \in R => rank[g] < rank[h]
    BY <1>1, <1>4, <1>5, RanksFill
<1>7. PICK p : p = [k \in D |-> CHOOSE i \in D : rank[i] = k - 1]
    OBVIOUS
<1>8. \A k \in D : k - 1 \in 0..(n - 1)
    BY DEF D
<1>9. \A k \in D : p[k] \in D /\ rank[p[k]] = k - 1
    BY <1>6, <1>7, <1>8
<1>10. p \in [D -> D]
    BY <1>7, <1>9
<1>11. ByFirst(cs) = [k \in D |-> cs[p[k]]]
    <2>1. ByFirst(cs) = [k \in D |-> cs[CHOOSE i \in D : Cardinality(earlier[i]) = k - 1]]
        BY DEF ByFirst, D, earlier
    <2>2. \A k \in D : (CHOOSE i \in D : Cardinality(earlier[i]) = k - 1) = p[k]
        BY <1>2, <1>7
    <2> QED
        BY <2>1, <2>2
<1>12. \A i \in D : \E k \in D : p[k] = i
    <2> SUFFICES ASSUME NEW i \in D PROVE \E k \in D : p[k] = i
        OBVIOUS
    <2>1. rank[i] \in 0..(n - 1)
        BY <1>6
    <2>2. rank[i] + 1 \in D /\ (rank[i] + 1) - 1 = rank[i]
        BY <2>1 DEF D
    <2>3. rank[p[rank[i] + 1]] = rank[i] /\ p[rank[i] + 1] \in D
        BY <1>9, <2>2
    <2> QED
        BY <1>6, <2>2, <2>3
<1>13. ASSUME NEW k \in D, NEW m \in D, k < m
       PROVE  p[k] # p[m] /\ cs[p[k]].first <= cs[p[m]].first
    <2>1. rank[p[k]] = k - 1 /\ rank[p[m]] = m - 1 /\ p[k] \in D /\ p[m] \in D
        BY <1>9
    <2>2. k \in Int /\ m \in Int
        BY DEF D
    <2>3. rank[p[k]] < rank[p[m]] /\ ~(rank[p[m]] < rank[p[k]]) /\ p[k] # p[m]
        BY <1>13, <2>1, <2>2
    <2>4. <<p[k], p[m]>> \in R
        BY <1>5, <1>6, <2>1, <2>3
    <2>5. cs[p[k]].first \in Int /\ cs[p[m]].first \in Int
        BY <2>1 DEF D
    <2> QED
        BY <1>3, <2>1, <2>3, <2>4, <2>5, SMTT(30)
<1> QED
    BY <1>10, <1>11, <1>12, <1>13 DEF D

\* A list made of n values has n of them.
LEMMA LenOfList ==
    ASSUME NEW n \in Nat, NEW S, NEW c, c \in [1..n -> S]
    PROVE  Len(c) = n
OBVIOUS

\* How many turns each of n slices has.
Counts(s, n) == [k \in 1..n |-> s[k].count]

\* Each begins where the one before it ended, at says where.
Abut(s, n, at) ==
    /\ at[0] = 0
    /\ \A k \in 1..n : /\ s[k].count \in Nat \ {0} /\ s[k].first = at[k - 1]
                       /\ at[k] = at[k - 1] + s[k].count

\* The slices of the first so many are the turns up to where the next begins.
PartUpTo(s, n, at) ==
    /\ \A m \in 0..n : at[m] \in Nat
    /\ \A k \in 1..n : Slice(s[k]) = at[k - 1]..at[k] - 1 /\ at[k - 1] < at[k]
    /\ \A m \in 0..n : UNION {Slice(s[k]) : k \in 1..m} = 0..at[m] - 1
    /\ \A k, m \in 1..n : k # m => Slice(s[k]) \cap Slice(s[m]) = {}

\* Slices that each begin where the one before ended part the turns there are up to the last.
LEMMA EndToEnd ==
    ASSUME NEW n \in Nat, NEW s, NEW at, Abut(s, n, at)
    PROVE  PartUpTo(s, n, at)
<1> PICK c : c = Counts(s, n)
    OBVIOUS
<1>1. /\ \A k \in 1..n : c[k] = s[k].count /\ c[k] \in Nat /\ c[k] > 0 /\ s[k].first = at[k - 1]
      /\ at[0] = 0 /\ \A k \in 1..n : at[k] = at[k - 1] + c[k]
    BY DEF Abut, Counts
<1>4. \A i \in 0..n : at[i] \in Nat /\ \A k \in i..n : at[i] <= at[k]
    <2> SUFFICES ASSUME NEW i \in 0..n PROVE at[i] \in Nat /\ \A k \in i..n : at[i] <= at[k]
        OBVIOUS
    <2>1. \A k \in 1..n : c[k] \in Nat
        BY <1>1
    <2>2. at[0] = 0 /\ \A k \in 1..n : at[k] = at[k - 1] + c[k]
        BY <1>1
    <2> QED
        BY ONLY n \in Nat, i \in 0..n, <2>1, <2>2, SumsClimb
<1>5. \A i \in 0..n : at[i] \in Nat
    BY <1>4
<1>6. ASSUME NEW k \in 1..n
      PROVE  Slice(s[k]) = at[k - 1]..at[k] - 1 /\ at[k - 1] < at[k] /\ k - 1 \in 0..n /\ k \in 0..n
    <2>1. k - 1 \in 0..n /\ k \in 0..n
        OBVIOUS
    <2>2. at[k - 1] \in Nat /\ at[k] = at[k - 1] + c[k] /\ c[k] \in Nat /\ c[k] > 0
        BY <1>1, <1>5, <2>1
    <2>3. Slice(s[k]) = at[k - 1]..at[k - 1] + c[k] - 1
        BY <1>1 DEF Slice
    <2> QED
        BY <2>1, <2>2, <2>3
<1> DEFINE upTo(m) == UNION {Slice(s[k]) : k \in 1..m}
           Full == {m \in 0..n : upTo(m) = 0..at[m] - 1}
<1>7. 0 \in Full
    BY <1>1
<1>8. ASSUME NEW m \in 1..n, m - 1 \in Full PROVE m \in Full
    <2>1. upTo(m) = upTo(m - 1) \cup Slice(s[m])
        <3>1. 1..m = (1..m - 1) \cup {m}
            OBVIOUS
        <3> QED
            BY <3>1
    <2>2. upTo(m - 1) = 0..at[m - 1] - 1
        BY <1>8
    <2>3. Slice(s[m]) = at[m - 1]..at[m] - 1 /\ at[m - 1] < at[m]
        BY <1>6
    <2>4. at[m - 1] \in Nat /\ at[m] \in Nat
        BY <1>5, <1>6
    <2> HIDE DEF upTo
    <2>5. PICK x, y : x = at[m - 1] /\ y = at[m]
        OBVIOUS
    <2>6. (0..x - 1) \cup (x..y - 1) = 0..y - 1
        <3>1. x \in Nat /\ y \in Nat /\ x < y
            BY <2>3, <2>4, <2>5
        <3> QED
            BY ONLY <3>1
    <2>7. upTo(m) = 0..at[m] - 1
        BY ONLY <2>1, <2>2, <2>3, <2>5, <2>6
    <2> QED
        BY <2>7
<1>9. Full = 0..n
    <2>1. Full \in SUBSET (0..n)
        OBVIOUS
    <2> HIDE DEF Full
    <2> QED
        BY <1>7, <1>8, <2>1, CarriedAlong
<1>10. ASSUME NEW k \in 1..n, NEW m \in 1..n, k < m PROVE Slice(s[k]) \cap Slice(s[m]) = {}
    <2>1. m - 1 \in k..n /\ k \in 0..n /\ k - 1 \in 0..n /\ m \in 0..n /\ m - 1 \in 0..n
        BY <1>10
    <2>2. at[k] <= at[m - 1]
        BY <1>4, <2>1
    <2>3. at[k] \in Nat /\ at[m] \in Nat /\ at[k - 1] \in Nat /\ at[m - 1] \in Nat
        BY <1>5, <2>1
    <2>4. Slice(s[k]) = at[k - 1]..at[k] - 1 /\ Slice(s[m]) = at[m - 1]..at[m] - 1
        BY <1>6
    <2>5. PICK w, x, y, z : w = at[k - 1] /\ x = at[k] /\ y = at[m - 1] /\ z = at[m]
        OBVIOUS
    <2>6. {w, x, y, z} \subseteq Nat /\ x <= y
        BY <2>2, <2>3, <2>5
    <2>7. (w..x - 1) \cap (y..z - 1) = {}
        BY ONLY <2>6
    <2> QED
        BY ONLY <2>4, <2>5, <2>7
<1>11. \A k, m \in 1..n : k # m => Slice(s[k]) \cap Slice(s[m]) = {}
    <2>1. \A k, m \in 1..n : k # m => k < m \/ m < k
        OBVIOUS
    <2> QED
        BY <1>10, <2>1
<1> QED
    BY <1>5, <1>6, <1>9, <1>11 DEF PartUpTo


\* Slices as a list of them: of numbers, and as many as it has places.
Slices(cs, n) ==
    /\ n \in Nat /\ DOMAIN cs = 1..n /\ Len(cs) = n
    /\ \A i \in 1..n : cs[i].first \in Int /\ cs[i].count \in Int

\* Each has a turn, every turn is in one, and none is in two.
Part(cs, n, turns) ==
    /\ \A i \in 1..n : cs[i].count >= 1
    /\ UNION {Slice(cs[i]) : i \in 1..n} = 0..turns - 1
    /\ \A i, j \in 1..n : i # j => Slice(cs[i]) \cap Slice(cs[j]) = {}

\* Covers, of the list that is sorted.
LEMMA CoversInOrder ==
    ASSUME NEW cs, NEW n, Slices(cs, n), NEW turns \in Nat,
           NEW s, s = ByFirst(cs), NEW at, at = Sums(Counts(s, n)),
           \A k \in 1..n : s[k].count \in Int
    PROVE  Covers(cs, turns) <=> Abut(s, n, at) /\ at[n] = turns
<1>1. DOMAIN cs = 1..n /\ Len(cs) = n /\ n \in Nat
    BY DEF Slices
<1>2. \A k \in 1..n : s[k].count >= 1 <=> s[k].count \in Nat \ {0}
    OBVIOUS
<1>3. [i \in DOMAIN cs |-> s[i].count] = Counts(s, n)
    BY <1>1 DEF Counts
<1>4. at[0] = 0 /\ \A k \in 1..n : at[k] = at[k - 1] + s[k].count
    <2> PICK c : c = Counts(s, n)
        OBVIOUS
    <2>1. c \in [1..n -> Int] /\ \A k \in 1..n : c[k] = s[k].count
        BY DEF Counts
    <2>2. Len(c) = n
        BY <1>1, <2>1, LenOfList
    <2>3. Sums(c)[0] = 0 /\ \A k \in 1..n : Sums(c)[k] = Sums(c)[k - 1] + c[k]
        BY <1>1, <2>1, <2>2, SumsAddUp
    <2> QED
        BY <2>1, <2>3
<1>5. Covers(cs, turns) <=> (\A i \in 1..n : s[i].count >= 1 /\ s[i].first = at[i - 1]) /\ at[n] = turns
    BY <1>1, <1>3 DEF Covers
<1> QED
    BY <1>2, <1>4, <1>5 DEF Abut

\* What check_coverage lets pass parts the turns.
LEMMA CoversParts ==
    ASSUME NEW cs, NEW n, Slices(cs, n), NEW turns \in Nat, Covers(cs, turns)
    PROVE  Part(cs, n, turns)
<1>1. n \in Nat /\ DOMAIN cs = 1..n /\ \A i \in 1..n : cs[i].first \in Int
    BY DEF Slices
<1>2. PICK p \in [1..n -> 1..n] :
              /\ ByFirst(cs) = [k \in 1..n |-> cs[p[k]]]
              /\ \A i \in 1..n : \E k \in 1..n : p[k] = i
              /\ \A k, m \in 1..n : k < m => p[k] # p[m] /\ cs[p[k]].first <= cs[p[m]].first
    BY ONLY <1>1, ByFirstSorts
<1> PICK s : s = ByFirst(cs)
    OBVIOUS
<1> PICK at : at = Sums(Counts(s, n))
    OBVIOUS
<1>3. Abut(s, n, at) /\ at[n] = turns
    <2>1. \A k \in 1..n : s[k].count \in Int
        BY <1>2, SMTT(30) DEF Slices
    <2>2. Covers(cs, turns) <=> Abut(s, n, at) /\ at[n] = turns
        BY <2>1, CoversInOrder
    <2> QED
        BY <2>2
<1>4. /\ UNION {Slice(s[k]) : k \in 1..n} = 0..at[n] - 1
      /\ \A k, m \in 1..n : k # m => Slice(s[k]) \cap Slice(s[m]) = {}
    <2>1. n \in 0..n
        BY <1>1
    <2>2. PartUpTo(s, n, at)
        BY <1>1, <1>3, EndToEnd
    <2> QED
        BY <2>1, <2>2 DEF PartUpTo
<1>5. \A k \in 1..n : s[k] = cs[p[k]] /\ p[k] \in 1..n
    BY <1>2
<1>6. ASSUME NEW i \in 1..n PROVE cs[i].count >= 1
    <2>1. PICK k \in 1..n : p[k] = i
        BY <1>2
    <2>2. s[k] = cs[i] /\ s[k].count \in Nat \ {0}
        BY <1>3, <1>5, <2>1 DEF Abut
    <2> QED
        BY <2>2
<1>7. UNION {Slice(cs[i]) : i \in 1..n} = UNION {Slice(s[k]) : k \in 1..n}
    BY ONLY <1>2, <1>5, SMTT(30)
<1>8. ASSUME NEW i \in 1..n, NEW j \in 1..n, i # j PROVE Slice(cs[i]) \cap Slice(cs[j]) = {}
    <2>1. PICK k \in 1..n : p[k] = i
        BY <1>2
    <2>2. PICK m \in 1..n : p[m] = j
        BY <1>2
    <2>3. s[k] = cs[i] /\ s[m] = cs[j] /\ k # m
        BY <1>5, <1>8, <2>1, <2>2
    <2>4. Slice(s[k]) \cap Slice(s[m]) = {}
        BY <1>4, <2>3
    <2> QED
        BY <2>3, <2>4
<1> QED
    BY <1>3, <1>4, <1>6, <1>7, <1>8 DEF Part


\* And what parts them it lets pass.
LEMMA PartsCover ==
    ASSUME NEW cs, NEW n, Slices(cs, n), NEW turns \in Nat, Part(cs, n, turns)
    PROVE  Covers(cs, turns)
<1>1. n \in Nat /\ DOMAIN cs = 1..n /\ \A i \in 1..n : cs[i].first \in Int /\ cs[i].count \in Int
    BY DEF Slices
<1>2. PICK p \in [1..n -> 1..n] :
              /\ ByFirst(cs) = [k \in 1..n |-> cs[p[k]]]
              /\ \A i \in 1..n : \E k \in 1..n : p[k] = i
              /\ \A k, m \in 1..n : k < m => p[k] # p[m] /\ cs[p[k]].first <= cs[p[m]].first
    <2>1. \A i \in 1..n : cs[i].first \in Int
        BY <1>1
    <2> QED
        BY ONLY <1>1, <2>1, ByFirstSorts
<1> PICK s : s = ByFirst(cs)
    OBVIOUS
<1> PICK c : c = Counts(s, n)
    OBVIOUS
<1> PICK at : at = Sums(c)
    OBVIOUS
<1>3. \A k \in 1..n : s[k] = cs[p[k]] /\ p[k] \in 1..n
    BY <1>2
<1>4. \A k \in 1..n : c[k] = s[k].count /\ c[k] \in Nat \ {0} /\ s[k].first \in Int
    BY <1>1, <1>3, SMTT(30) DEF Counts, Part
<1>5. at[0] = 0 /\ \A k \in 1..n : at[k] = at[k - 1] + c[k]
    <2>1. c \in [1..n -> Int]
        BY <1>4 DEF Counts
    <2>2. Len(c) = n
        BY <1>1, <2>1, LenOfList
    <2> QED
        BY <1>1, <2>1, <2>2, SumsAddUp
<1> DEFINE Good == {m \in 0..n : \A k \in 1..m : s[k].first = at[k - 1]}
<1>6. ASSUME NEW m \in 0..n, m \in Good PROVE PartUpTo(s, m, at)
    <2>1. m \in Nat /\ 1..m \subseteq 1..n
        BY <1>1
    <2>2. Abut(s, m, at)
        BY <1>4, <1>5, <1>6, <2>1 DEF Abut
    <2> QED
        BY <2>1, <2>2, EndToEnd
<1>7. ASSUME NEW m \in 1..n, m - 1 \in Good PROVE m \in Good
    <2> PICK o, f, a : o = m - 1 /\ f = s[m].first /\ a = at[o]
        OBVIOUS
    <2>1. o \in 0..n /\ o \in Nat /\ m \in 0..n /\ 1..m = (1..o) \cup {m} /\ \A k \in 1..n : k \in 1..o \/ k = m \/ m < k
        <3>1. n \in Nat /\ m \in 1..n /\ o = m - 1
            BY <1>1
        <3>2. o \in 0..n /\ o \in Nat /\ m \in 0..n
            BY ONLY <3>1
        <3>3. 1..m = (1..o) \cup {m}
            BY ONLY <3>1
        <3>4. \A k \in 1..n : k \in 1..o \/ k = m \/ m < k
            BY ONLY <3>1
        <3> QED
            BY ONLY <3>2, <3>3, <3>4
    <2>2. a \in Nat /\ UNION {Slice(s[k]) : k \in 1..o} = 0..a - 1
        <3>1. PartUpTo(s, o, at)
            BY <1>6, <1>7, <2>1
        <3>2. o \in 0..o
            BY <2>1
        <3> QED
            BY <3>1, <3>2 DEF PartUpTo
    <2>3. ASSUME NEW k \in 1..n PROVE Slice(s[k]) \subseteq 0..turns - 1 /\ s[k].first \in Slice(s[k])
        <3>1. Slice(s[k]) \subseteq UNION {Slice(cs[i]) : i \in 1..n}
            BY <1>3
        <3>2. s[k].first \in Int /\ s[k].count \in Nat \ {0}
            BY <1>4
        <3> QED
            BY <3>1, <3>2 DEF Part, Slice
    <2>4. f \in 0..turns - 1 /\ f \in Int
        BY <1>4, <2>3
    <2>5. \A k \in 1..o : f \notin Slice(s[k])
        <3> SUFFICES ASSUME NEW k \in 1..o PROVE f \notin Slice(s[k])
            OBVIOUS
        <3>1. k \in 1..n /\ k < m
            <4>1. k \in 1..o /\ o = m - 1 /\ m \in 1..n /\ n \in Nat
                BY <1>1
            <4> QED
                BY ONLY <4>1
        <3>2. p[k] # p[m] /\ p[k] \in 1..n /\ p[m] \in 1..n /\ s[k] = cs[p[k]] /\ s[m] = cs[p[m]]
            BY <1>2, <1>3, <3>1
        <3>3. Slice(s[k]) \cap Slice(s[m]) = {}
            BY <3>2 DEF Part
        <3> QED
            BY <2>3, <3>3
    <2>6. f \notin 0..a - 1
        BY <2>2, <2>5
    <2>7. a <= f /\ a \in 0..turns - 1
        BY <2>2, <2>4, <2>6
    <2>8. PICK j \in 1..n : a \in Slice(s[j])
        <3>1. PICK i \in 1..n : a \in Slice(cs[i])
            BY <2>7 DEF Part
        <3>2. PICK j \in 1..n : p[j] = i
            BY <1>2
        <3> QED
            BY <1>3, <3>1, <3>2
    <2>9. j = m \/ m < j
        <3>1. a \notin 0..a - 1
            BY <2>2
        <3>2. j \notin 1..o
            BY <2>2, <2>8, <3>1
        <3> QED
            BY <2>1, <3>2
    <2>10. f <= s[j].first
        <3>1. CASE j = m
            <4>1. f \in Int /\ f = s[m].first
                BY <1>4
            <4> QED
                BY ONLY <3>1, <4>1
        <3>2. CASE m < j
            <4>1. cs[p[m]].first <= cs[p[j]].first
                BY ONLY <1>2, <3>2, m \in 1..n, j \in 1..n
            <4>2. s[m].first = cs[p[m]].first /\ s[j].first = cs[p[j]].first /\ f = s[m].first
                BY <1>3
            <4> QED
                BY ONLY <4>1, <4>2
        <3> QED
            BY ONLY <2>9, <3>1, <3>2
    <2>11. f \in Int /\ s[j].first \in Int /\ a \in Int
        BY <1>4, <2>2
    <2>12. s[j].first <= a
        <3>1. s[j].count \in Int
            BY <1>4
        <3> QED
            BY ONLY <2>8, <2>11, <3>1 DEF Slice
    <2>13. f = a
        BY ONLY <2>7, <2>10, <2>11, <2>12
    <2> QED
        BY <1>7, <2>1, <2>13
<1>8. n \in Good
    <2>1. Good \in SUBSET (0..n) /\ 0 \in Good /\ n \in 0..n
        BY <1>1
    <2> HIDE DEF Good
    <2>2. Good = 0..n
        BY <1>1, <1>7, <2>1, CarriedAlong
    <2> QED
        BY <2>1, <2>2
<1>9. PartUpTo(s, n, at)
    BY <1>1, <1>6, <1>8
<1>10. at[n] = turns
    <2> PICK a : a = at[n]
        OBVIOUS
    <2>1. a \in Nat /\ UNION {Slice(s[k]) : k \in 1..n} = 0..a - 1
        <3>1. n \in 0..n
            BY <1>1
        <3> QED
            BY <1>9, <3>1 DEF PartUpTo
    <2>2. UNION {Slice(cs[i]) : i \in 1..n} = UNION {Slice(s[k]) : k \in 1..n}
        BY ONLY <1>2, <1>3, SMTT(30)
    <2>3. 0..a - 1 = 0..turns - 1
        BY <2>1, <2>2 DEF Part
    <2>4. a = turns
        BY ONLY <2>1, <2>3, turns \in Nat
    <2> QED
        BY <2>4
<1>11. Abut(s, n, at)
    BY <1>1, <1>4, <1>5, <1>8 DEF Abut
<1> QED
    BY <1>4, <1>10, <1>11, CoversInOrder


\* A deal: everybody's slice, the turns in it as many as anybody's or one fewer.
LEMMA DealParts ==
    ASSUME NEW order, NEW n \in Nat, Len(order) = n, DOMAIN order = 1..n, n > 0,
           NEW turns \in Nat, turns >= n, NEW d, d = Deal(order, turns)
    PROVE  /\ Slices(d, n) /\ Part(d, n, turns)
           /\ \A i \in 1..n : d[i].holder = order[i]
           /\ \A i, j \in 1..n : d[i].count <= d[j].count + 1
<1> PICK q, r : q = turns \div n /\ r = turns % n
    OBVIOUS
<1>1. q \in Nat /\ q > 0 /\ r \in 0..n - 1 /\ turns = n * q + r
    <2>1. turns = n * (turns \div n) + (turns % n) /\ turns % n \in 0..n - 1 /\ turns \div n \in Int
        OBVIOUS
    <2>2. turns = n * q + r /\ r \in 0..n - 1 /\ q \in Int
        BY <2>1
    <2>3. q > 0
        <3>1. CASE q <= 0
            <4>1. n * q <= 0
                BY ONLY <2>2, <3>1, n \in Nat
            <4> QED
                BY <2>2, <4>1
        <3> QED
            BY <2>2, <3>1
    <2> QED
        BY <2>2, <2>3
<1> PICK c : c = [i \in 1..n |-> q + (IF i <= r THEN 1 ELSE 0)]
    OBVIOUS
<1>2. /\ c \in [1..n -> Int]
      /\ \A i \in 1..n : c[i] \in Nat \ {0} /\ c[i] = q + (IF i <= r THEN 1 ELSE 0)
    BY <1>1
<1> PICK at : at = Sums(c)
    OBVIOUS
<1>3. d = [i \in 1..n |-> [holder |-> order[i], first |-> at[i - 1], count |-> c[i]]]
    BY DEF Deal
<1>4. at \in [0..n -> Int] /\ at[0] = 0 /\ \A i \in 1..n : at[i] = at[i - 1] + c[i]
    <2>1. Len(c) = n
        BY <1>2, LenOfList
    <2>2. \A i \in 1..n : c[i] \in Int
        BY <1>2
    <2> QED
        BY ONLY <2>1, <2>2, n \in Nat, at = Sums(c), SumsAddUp
<1>5. /\ DOMAIN d = 1..n
      /\ \A i \in 1..n : d[i].holder = order[i] /\ d[i].first = at[i - 1] /\ d[i].count = c[i]
    BY <1>3
<1>6. Slices(d, n)
    <2>1. Len(d) = n
        <3>1. d \in [1..n -> {d[i] : i \in 1..n}]
            BY <1>3
        <3> QED
            BY <3>1, LenOfList
    <2>2. \A i \in 1..n : i - 1 \in 0..n
        OBVIOUS
    <2>3. \A i \in 1..n : d[i].first \in Int /\ d[i].count \in Int
        BY ONLY <1>2, <1>4, <1>5, <2>2, SMTT(30)
    <2> QED
        BY <1>5, <2>1, <2>3 DEF Slices
<1>7. at[n] = turns
    <2> DEFINE S == {m \in 0..n : at[m] = m * q + (IF m <= r THEN m ELSE r)}
    <2>1. 0 \in S
        BY <1>1, <1>4
    <2>2. ASSUME NEW m \in 1..n, m - 1 \in S PROVE m \in S
        <3> PICK o : o = m - 1
            OBVIOUS
        <3>1. at[m] = at[o] + c[m] /\ at[o] = o * q + (IF o <= r THEN o ELSE r)
            BY <1>4, <2>2
        <3>2. c[m] = q + (IF m <= r THEN 1 ELSE 0)
            BY <1>2
        <3>3. o * q + q = m * q
            <4>1. o \in Int /\ m \in Int /\ m = o + 1 /\ q \in Nat
                BY <1>1
            <4> QED
                BY ONLY <4>1
        <3> PICK x, y : x = o * q /\ y = m * q
            OBVIOUS
        <3>4. x \in Int /\ y \in Int /\ x + q = y /\ q \in Int
            BY <1>1, <3>3
        <3>5. at[m] = x + (IF o <= r THEN o ELSE r) + (q + (IF m <= r THEN 1 ELSE 0))
            BY <3>1, <3>2
        <3>6. (IF o <= r THEN o ELSE r) + (IF m <= r THEN 1 ELSE 0) = (IF m <= r THEN m ELSE r)
            BY <1>1
        <3>7. at[m] = y + (IF m <= r THEN m ELSE r)
            <4> PICK u, v, w : /\ u = (IF o <= r THEN o ELSE r) /\ v = (IF m <= r THEN 1 ELSE 0)
                               /\ w = (IF m <= r THEN m ELSE r)
                OBVIOUS
            <4>1. u \in Int /\ v \in Int /\ w \in Int
                BY <1>1
            <4>2. at[m] = x + u + (q + v) /\ u + v = w
                BY <3>5, <3>6
            <4>3. at[m] = y + w
                BY ONLY <3>4, <4>1, <4>2
            <4> QED
                BY <4>3
        <3> QED
            BY <3>7
    <2>3. S \in SUBSET (0..n) /\ n \in 0..n
        OBVIOUS
    <2>4. n \in S
        <3> HIDE DEF S
        <3> QED
            BY <2>1, <2>2, <2>3, CarriedAlong
    <2>5. at[n] = n * q + (IF n <= r THEN n ELSE r)
        BY <2>4
    <2>6. ~(n <= r)
        BY <1>1
    <2> QED
        BY <1>1, <2>5, <2>6
<1>8. Abut(d, n, at)
    BY ONLY <1>2, <1>4, <1>5 DEF Abut
<1>9. PartUpTo(d, n, at)
    BY <1>8, EndToEnd
<1>10. Part(d, n, turns)
    <2>1. \A i \in 1..n : d[i].count >= 1
        BY <1>2, <1>5
    <2>2. n \in 0..n
        OBVIOUS
    <2> QED
        BY <1>7, <1>9, <2>1, <2>2 DEF Part, PartUpTo
<1>11. ASSUME NEW i \in 1..n, NEW j \in 1..n PROVE d[i].count <= d[j].count + 1
    <2>1. /\ d[i].count = q + (IF i <= r THEN 1 ELSE 0) /\ d[j].count = q + (IF j <= r THEN 1 ELSE 0)
          /\ q \in Nat
        BY ONLY <1>1, <1>2, <1>5
    <2> QED
        BY ONLY <2>1
<1> QED
    BY <1>5, <1>6, <1>10, <1>11


\* Slices cover exactly when they part the turns (check_coverage), whatever order they are
\* in; and those of a deal do, as evenly as can be (deal), for any number of holders and of
\* turns.
LEMMA SlicesPart == ASSUME PoolAssumption, asked \in Asked PROVE SlicesPartThePool
<1> DEFINE k == asked.holders
           t == asked.turns
           cs == asked.claimed
           order == [i \in 1..k |-> i]
           d == Deal(order, t)
           n == Len(cs)
<1>1. k \in Nat /\ t \in Nat /\ cs \in Seq([first : Int, count : Int])
    BY DEF PoolAssumption
<1>2. order \in [1..k -> Int] /\ DOMAIN order = 1..k
    BY <1>1
<1>3. ASSUME Divisible(order, t)
      PROVE  /\ UNION {Slice(d[i]) : i \in DOMAIN d} = 0..t - 1
             /\ Covers(d, t)
             /\ \A i, j \in DOMAIN d : d[i].count <= d[j].count + 1
    <2>1. Len(order) = k
        <3> HIDE DEF k, order
        <3> QED
            BY <1>1, <1>2, LenOfList
    <2>2. k > 0 /\ t >= k
        <3>1. order # <<>> /\ t >= Len(order)
            BY <1>3 DEF Divisible
        <3>2. CASE k = 0
            <4>1. order = [i \in 1..0 |-> i]
                BY <3>2
            <4>2. order = <<>>
                BY <4>1
            <4> QED
                BY <3>1, <4>2
        <3> HIDE DEF k, t, order
        <3> QED
            BY <1>1, <2>1, <3>1, <3>2
    <2> HIDE DEF k, t, order, d
    <2>3. Slices(d, k) /\ Part(d, k, t) /\ \A i, j \in 1..k : d[i].count <= d[j].count + 1
        BY <1>1, <1>2, <2>1, <2>2, DealParts DEF d
    <2>4. Covers(d, t)
        BY <1>1, <2>3, PartsCover
    <2>5. DOMAIN d = 1..k
        BY <2>3 DEF Slices
    <2>6. UNION {Slice(d[i]) : i \in 1..k} = 0..t - 1
        BY <2>3 DEF Part
    <2> QED
        BY ONLY <2>3, <2>4, <2>5, <2>6
<1>4. DealIsFair
    BY ONLY <1>3 DEF DealIsFair
<1>5. n \in Nat /\ Slices(cs, n)
    <2> HIDE DEF cs
    <2> PICK S : S = [first : Int, count : Int]
        OBVIOUS
    <2>1. cs \in Seq(S)
        BY <1>1
    <2>2. n \in Nat /\ DOMAIN cs = 1..n /\ Len(cs) = n /\ \A i \in 1..n : cs[i] \in S
        BY ONLY <2>1
    <2> QED
        BY ONLY <2>2, S = [first : Int, count : Int] DEF Slices
<1>6. Covers(cs, t) <=>
        /\ \A i \in DOMAIN cs : Slice(cs[i]) # {}
        /\ UNION {Slice(cs[i]) : i \in DOMAIN cs} = 0..t - 1
        /\ \A i, j \in DOMAIN cs : i # j => Slice(cs[i]) \cap Slice(cs[j]) = {}
    <2> HIDE DEF cs, t, n
    <2>1. Covers(cs, t) <=> Part(cs, n, t)
        BY <1>1, <1>5, CoversParts, PartsCover
    <2>2. DOMAIN cs = 1..n
        BY <1>5 DEF Slices
    <2>3. ASSUME NEW i \in 1..n PROVE Slice(cs[i]) # {} <=> cs[i].count >= 1
        <3> PICK a, b : a = cs[i].first /\ b = cs[i].count
            OBVIOUS
        <3>1. a \in Int /\ b \in Int /\ Slice(cs[i]) = a..a + b - 1
            BY <1>5 DEF Slices, Slice
        <3>2. b >= 1 => a \in a..a + b - 1
            BY <3>1
        <3>3. (a..a + b - 1 # {}) <=> b >= 1
            BY <3>1, <3>2
        <3> QED
            BY <3>1, <3>3
    <2> QED
        BY ONLY <2>1, <2>2, <2>3 DEF Part
<1>7. CoverageIsAPartition
    BY ONLY <1>6 DEF CoverageIsAPartition
<1> QED
    BY <1>4, <1>7 DEF SlicesPartThePool

-----------------------------------------------------------------------------
(* Claims.                                                                  *)

\* Honestly made: by whom, over its own leaves, for the tree there was.
ClaimOK(c) ==
    /\ c.holder \in Honest /\ c.first \in Int /\ c.count \in Int
    /\ c.signed.root = c.under
    /\ c.digest = LeavesOf(c.holder, c.signed.network, c)

EraPoolInv ==
    /\ asked \in Asked
    /\ DOMAIN ceremony = {"network", "parts", "published", "tree"}
    /\ \A i \in DOMAIN ceremony.parts : ceremony.parts[i].first \in Int /\ ceremony.parts[i].count \in Int
    /\ IsFiniteSet(claims) /\ \A c \in claims : ClaimOK(c)

LEMMA PoolStep == ASSUME PoolAssumption, EraPoolInv, [PoolNext]_poolVars PROVE EraPoolInv'
<1>1. ASSUME NEW network \in Networks, NEW order \in Orders, BeginCeremony(network, order) PROVE EraPoolInv'
    <2> PICK n, d : n = Len(order) /\ d = Deal(order, Turns)
        OBVIOUS
    <2>1. n \in Nat /\ DOMAIN order = 1..n /\ Turns \in Nat /\ order # <<>> /\ Turns >= n
        BY <1>1 DEF BeginCeremony, Divisible, PoolAssumption
    <2>2. n > 0
        <3>1. CASE n = 0
            <4>1. DOMAIN order = {}
                BY <2>1, <3>1
            <4>2. order = <<>>
                BY <4>1, <2>1
            <4> QED
                BY <2>1, <4>2
        <3> QED
            BY <2>1, <3>1
    <2>3. Slices(d, n)
        BY <2>1, <2>2, DealParts
    <2>4. ceremony' = [network |-> network, parts |-> d, published |-> {}, tree |-> NoTree]
          /\ UNCHANGED <<claims, asked>>
        BY <1>1 DEF BeginCeremony
    <2>5. \A i \in DOMAIN d : d[i].first \in Int /\ d[i].count \in Int
        BY <2>3 DEF Slices
    <2> QED
        BY <2>4, <2>5 DEF EraPoolInv, ClaimOK
<1>2. ASSUME NEW i \in DOMAIN ceremony.parts, PublishLeaves(i) PROVE EraPoolInv'
    <2>1. UNCHANGED <<claims, asked>> /\ DOMAIN ceremony' = DOMAIN ceremony /\ ceremony'.parts = ceremony.parts
        BY <1>2 DEF PublishLeaves, EraPoolInv
    <2> QED
        BY <2>1 DEF EraPoolInv, ClaimOK
<1>3. ASSUME NEW i \in DOMAIN ceremony.parts, SignClaim(i) PROVE EraPoolInv'
    <2> DEFINE slice == ceremony.parts[i]
               own == LeavesOf(slice.holder, ceremony.network, slice)
    <2> PICK c : c = Claim(ceremony.network, slice, own, ceremony.tree)
        OBVIOUS
    <2>1. claims' = claims \cup {c} /\ slice.holder \in Honest /\ UNCHANGED <<ceremony, asked>>
        BY <1>3 DEF SignClaim
    <2>2. /\ c.holder = slice.holder /\ c.first = slice.first /\ c.count = slice.count
          /\ c.digest = own /\ c.under = ceremony.tree
          /\ c.signed.root = ceremony.tree /\ c.signed.network = ceremony.network
        BY DEF Claim, Message
    <2>3. LeavesOf(c.holder, c.signed.network, c) = own
        BY <2>2 DEF LeavesOf
    <2>4. ClaimOK(c)
        BY <2>1, <2>2, <2>3 DEF ClaimOK, EraPoolInv
    <2>5. IsFiniteSet(claims \cup {c})
        BY FS_AddElement DEF EraPoolInv
    <2> HIDE DEF own, slice
    <2> QED
        BY <2>1, <2>4, <2>5 DEF EraPoolInv, ClaimOK
<1>4. ASSUME NEW replaced \in SUBSET DOMAIN ceremony.parts, AssembleTree(replaced) PROVE EraPoolInv'
    <2>1. UNCHANGED <<claims, asked>> /\ DOMAIN ceremony' = DOMAIN ceremony /\ ceremony'.parts = ceremony.parts
        BY <1>4 DEF AssembleTree, EraPoolInv
    <2> QED
        BY <2>1 DEF EraPoolInv, ClaimOK
<1>5. CASE UNCHANGED poolVars
    BY <1>5 DEF poolVars, EraPoolInv, ClaimOK
<1> QED
    BY <1>1, <1>2, <1>3, <1>4, <1>5 DEF PoolNext

THEOREM EraPoolInvariance == PoolSpec => []EraPoolInv
<1>1. PoolInit => EraPoolInv
    <2> SUFFICES ASSUME PoolInit PROVE EraPoolInv
        OBVIOUS
    <2>1. claims = {} /\ asked \in Asked /\ ceremony = [network |-> "", parts |-> <<>>, published |-> {}, tree |-> NoTree]
        BY DEF PoolInit
    <2>2. DOMAIN ceremony.parts = {}
        <3>1. ceremony.parts = <<>>
            BY <2>1
        <3>2. <<>> \in Seq({}) /\ Len(<<>>) = 0
            OBVIOUS
        <3>3. ceremony.parts \in Seq({}) /\ Len(ceremony.parts) = 0
            BY ONLY <3>1, <3>2
        <3>4. DOMAIN ceremony.parts = 1..0
            BY ONLY <3>3
        <3> QED
            BY <3>4
    <2> QED
        BY <2>1, <2>2, FS_EmptySet DEF EraPoolInv
<1>2. EraPoolInv /\ [PoolNext]_poolVars => EraPoolInv'
    BY PoolAssumption, PoolStep
<1> QED
    BY <1>1, <1>2, PTL DEF PoolSpec

THEOREM SlicesHold == PoolSpec => []SlicesPartThePool
<1>1. EraPoolInv => SlicesPartThePool
    BY PoolAssumption, SlicesPart DEF EraPoolInv
<1> QED
    BY <1>1, EraPoolInvariance, PTL


\* A finite set as a list is a list of its members.
LEMMA ListOfSet == ASSUME NEW S, IsFiniteSet(S) PROVE SetToSeq(S) \in Seq(S)
<1> DEFINE n == Cardinality(S)
<1>1. n \in Nat /\ ExistsBijection(1..n, S)
    BY FS_CardinalityType
<1>2. \E f \in [1..n -> S] : IsInjective(f)
    BY <1>1 DEF ExistsBijection, Bijection, Injection, IsInjective
<1>3. SetToSeq(S) \in [1..n -> S]
    BY <1>2 DEF SetToSeq
<1> QED
    BY <1>1, <1>3

\* A claim the schemer may sign beside this p.
BySchemer(p) == SchemersClaims(p, 0..Turns - 1)

\* Its claims are its own, each for one turn.
LEMMA SchemersOwn ==
    ASSUME NEW p, NEW c \in BySchemer(p)
    PROVE  c.holder = Schemer /\ c.first \in Int /\ c.count = 1
<1>1. PICK t \in 0..Turns - 1 :
        c = Claim(p.network, [holder |-> Schemer, first |-> t, count |-> 1], <<p.tree[t + 1]>>, p.tree)
    BY DEF BySchemer, SchemersClaims
<1> PICK network, leaves : c = Claim(network, [holder |-> Schemer, first |-> t, count |-> 1], leaves, p.tree)
    BY ONLY <1>1
<1>2. t \in Int
    OBVIOUS
<1> QED
    BY <1>2 DEF Claim

\* Whatever the drafter lists beside the p is a claim honestly made or its own.
LEMMA ListsAreOfClaims ==
    ASSUME PoolAssumption, EraPoolInv, NEW p, NEW cs \in ClaimLists(p)
    PROVE  cs \in Seq(claims \cup BySchemer(p))
<1> DEFINE X == claims \cup BySchemer(p)
<1>1. PICK A, B, T : /\ A \in SUBSET claims /\ B \in {{}} \cup {{c} : c \in claims}
                     /\ T \in SUBSET (0..Turns - 1)
                     /\ cs = SetToSeq(A) \o SetToSeq(B) \o SetToSeq(SchemersClaims(p, T))
    BY DEF ClaimLists
<1>2. IsFiniteSet(A) /\ SetToSeq(A) \in Seq(A)
    BY <1>1, FS_Subset, ListOfSet DEF EraPoolInv
<1>3. B \in SUBSET claims
    BY <1>1
<1>4. SetToSeq(B) \in Seq(B)
    BY <1>3, FS_Subset, ListOfSet DEF EraPoolInv
<1> DEFINE mine(t) == Claim(p.network, [holder |-> Schemer, first |-> t, count |-> 1],
                            <<p.tree[t + 1]>>, p.tree)
           C == SchemersClaims(p, T)
<1>5. C = {mine(t) : t \in T} /\ C \in SUBSET BySchemer(p)
    BY <1>1 DEF SchemersClaims, BySchemer
<1>6. IsFiniteSet(T)
    <2>1. IsFiniteSet(0..Turns - 1)
        BY FS_Interval DEF PoolAssumption
    <2> QED
        BY <1>1, <2>1, FS_Subset
<1>7. IsFiniteSet(C)
    <2> PICK f : f = [t \in T |-> mine(t)]
        OBVIOUS
    <2> HIDE DEF mine
    <2>1. f \in Surjection(T, C)
        BY <1>5 DEF Surjection
    <2> QED
        BY <1>6, <2>1, FS_Surjection
<1>8. SetToSeq(C) \in Seq(C)
    BY <1>7, ListOfSet
<1> HIDE DEF C
<1>9. A \in SUBSET X /\ B \in SUBSET X /\ C \in SUBSET X
    BY <1>1, <1>3, <1>5
<1> HIDE DEF X
<1>10. SetToSeq(A) \in Seq(X) /\ SetToSeq(B) \in Seq(X) /\ SetToSeq(C) \in Seq(X)
    BY <1>2, <1>4, <1>8, <1>9
<1>11. cs = SetToSeq(A) \o SetToSeq(B) \o SetToSeq(C)
    BY <1>1 DEF C
<1>12. cs \in Seq(X)
    BY ONLY <1>10, <1>11
<1> QED
    BY <1>12 DEF X

\* What one holder holds is at least as many turns as there are in its slices.
LEMMA HeldIsEnough ==
    ASSUME NEW cs, NEW n \in Nat, Slices(cs, n), \A i \in 1..n : cs[i].count >= 1,
           NEW h, NEW U, \A t \in U : \E i \in 1..n : cs[i].holder = h /\ t \in Slice(cs[i])
    PROVE  HeldBy(h, cs) \in Nat /\ Cardinality(U) \in Nat /\ Cardinality(U) <= HeldBy(h, cs)
<1> PICK held : held = [i \in DOMAIN cs |-> IF cs[i].holder = h THEN cs[i].count ELSE 0]
    OBVIOUS
<1> PICK at : at = Sums(held)
    OBVIOUS
<1>1. DOMAIN cs = 1..n /\ Len(cs) = n /\ \A i \in 1..n : cs[i].first \in Int /\ cs[i].count \in Nat
    BY DEF Slices
<1>2. held \in [1..n -> Nat]
    BY <1>1
<1>3. at[0] = 0 /\ \A i \in 1..n : at[i] = at[i - 1] + held[i]
    <2>1. Len(held) = n /\ \A i \in 1..n : held[i] \in Int
        BY <1>2, LenOfList
    <2> QED
        BY <2>1, SumsAddUp
<1> PICK T : T = [m \in 0..n |-> UNION {Slice(cs[i]) : i \in {j \in 1..m : cs[j].holder = h}}]
    OBVIOUS
<1> DEFINE M == {m \in 0..n : at[m] \in Nat /\ IsFiniteSet(T[m]) /\ Cardinality(T[m]) <= at[m]}
<1>4. 0 \in M
    <2>1. T[0] = {}
        OBVIOUS
    <2>2. IsFiniteSet(T[0]) /\ Cardinality(T[0]) = 0
        BY ONLY <2>1, FS_EmptySet
    <2> QED
        BY ONLY <1>3, <2>2, n \in Nat
<1>5. ASSUME NEW m \in 1..n, m - 1 \in M PROVE m \in M
    <2> PICK o : o = m - 1
        OBVIOUS
    <2>1. o \in 0..n /\ m \in 0..n /\ 1..m = 1..o \cup {m}
        OBVIOUS
    <2>2. at[o] \in Nat /\ IsFiniteSet(T[o]) /\ Cardinality(T[o]) <= at[o] /\ Cardinality(T[o]) \in Nat
        BY <1>5, FS_CardinalityType
    <2>3. at[m] = at[o] + held[m]
        BY <1>3
    <2>4. CASE cs[m].holder = h
        <3> PICK s : s = Slice(cs[m])
            OBVIOUS
        <3>1. T[m] = T[o] \cup s
            BY <2>1, <2>4
        <3>2. IsFiniteSet(s) /\ Cardinality(s) = cs[m].count
            <4> PICK a, b : a = cs[m].first /\ b = cs[m].first + cs[m].count - 1
                OBVIOUS
            <4>1. a \in Int /\ b \in Int /\ s = a..b /\ b - a + 1 = cs[m].count /\ ~(a > b)
                BY <1>1 DEF Slice
            <4> QED
                BY <4>1, FS_Interval
        <3>3. IsFiniteSet(T[m]) /\ Cardinality(T[m]) = Cardinality(T[o]) + Cardinality(s) - Cardinality(T[o] \cap s)
            <4>1. IsFiniteSet(T[o] \cup s) /\ Cardinality(T[o] \cup s) = Cardinality(T[o]) + Cardinality(s) - Cardinality(T[o] \cap s)
                BY ONLY <2>2, <3>2, FS_Union
            <4> QED
                BY ONLY <3>1, <4>1
        <3>4. Cardinality(T[o] \cap s) \in Nat
            BY <2>2, FS_Intersection, FS_CardinalityType
        <3>5. held[m] = cs[m].count /\ cs[m].count \in Nat
            BY <1>1, <2>4
        <3>6. at[m] \in Nat /\ IsFiniteSet(T[m]) /\ Cardinality(T[m]) <= at[m]
            <4> PICK u, v, w : u = Cardinality(T[o]) /\ v = Cardinality(T[o] \cap s) /\ w = cs[m].count
                OBVIOUS
            <4>1. u \in Nat /\ v \in Nat /\ w \in Nat /\ at[o] \in Nat /\ u <= at[o]
                  /\ at[m] = at[o] + w /\ IsFiniteSet(T[m]) /\ Cardinality(T[m]) = u + w - v
                BY ONLY <2>2, <2>3, <3>2, <3>3, <3>4, <3>5, u = Cardinality(T[o]), v = Cardinality(T[o] \cap s), w = cs[m].count
            <4> QED
                BY ONLY <4>1
        <3> QED
            BY ONLY <2>1, <3>6
    <2>5. CASE cs[m].holder # h
        <3>1. {j \in 1..m : cs[j].holder = h} = {j \in 1..o : cs[j].holder = h}
            BY <2>1, <2>5
        <3>2. T[m] = T[o]
            BY <2>1, <3>1
        <3>3. held[m] = 0
            BY <1>1, <2>5
        <3> QED
            BY ONLY <2>1, <2>2, <2>3, <3>2, <3>3
    <2> QED
        BY <2>4, <2>5
<1>6. n \in M
    <2>1. M \in SUBSET (0..n) /\ n \in 0..n
        OBVIOUS
    <2> HIDE DEF M
    <2> QED
        BY <1>4, <1>5, <2>1, CarriedAlong
<1>7. U \in SUBSET T[n]
    <2> SUFFICES ASSUME NEW t \in U PROVE t \in T[n]
        OBVIOUS
    <2>1. PICK i \in 1..n : cs[i].holder = h /\ t \in Slice(cs[i])
        OBVIOUS
    <2> QED
        BY <2>1
<1>8. Cardinality(U) \in Nat /\ Cardinality(U) <= Cardinality(T[n]) /\ Cardinality(T[n]) \in Nat
    BY <1>6, <1>7, FS_Subset, FS_CardinalityType
<1>9. HeldBy(h, cs) = at[n]
    BY <1>1 DEF HeldBy
<1> QED
    BY <1>6, <1>8, <1>9

\* What is read out of a list is what stands there.
LEMMA InSubSeq ==
    ASSUME NEW s, NEW m \in Int, NEW n \in Int, NEW j \in 1..1 + n - m
    PROVE  SubSeq(s, m, n)[j] = s[m + j - 1]
OBVIOUS

\* The document and its transcript passed: an honest holder's turns in the tree are its own.
LEMMA HonestTurns ==
    ASSUME PoolAssumption, EraPoolInv, NEW p, NEW cs \in ClaimLists(p),
           DocumentAccepts(p.network, cs, p.tree), TranscriptHolds(cs, p.tree, p.tree),
           NEW i \in DOMAIN cs, cs[i].holder \in Honest, NEW t \in Slice(cs[i])
    PROVE  p.tree[t + 1] = Leaf(cs[i].holder, p.network, t)
<1>1. cs \in Seq(claims \cup BySchemer(p))
    BY ListsAreOfClaims
<1> PICK c : c = cs[i]
    OBVIOUS
<1>2. c \in claims
    <2>1. c \in claims \cup BySchemer(p)
        BY <1>1
    <2>2. c \in BySchemer(p) => c.holder = Schemer
        BY SchemersOwn
    <2> QED
        BY <2>1, <2>2 DEF Honest
<1>3. /\ c.first \in Int /\ c.count \in Int
      /\ c.digest = LeavesOf(c.holder, c.signed.network, c)
    BY <1>2 DEF EraPoolInv, ClaimOK
<1>4. c.signed.network = p.network
    <2>1. c.signed = Message(p.network, c, p.tree)
        BY DEF DocumentAccepts
    <2> QED
        BY ONLY <2>1 DEF Message
<1>5. SubSeq(p.tree, c.first + 1, c.first + c.count) = c.digest
    BY DEF TranscriptHolds
<1> PICK a, b : a = c.first /\ b = c.count
    OBVIOUS
<1>6. a \in Int /\ b \in Int /\ t \in a..a + b - 1
    BY <1>3 DEF Slice
<1> PICK j : j = t - a + 1
    OBVIOUS
<1>7. j \in 1..b /\ a + j = t + 1 /\ a + j - 1 = t
    BY <1>6
<1>8. c.digest[j] = Leaf(c.holder, p.network, t)
    BY <1>3, <1>4, <1>7 DEF LeavesOf
<1>9. c.digest[j] = p.tree[t + 1]
    <2> PICK w : w = p.tree
        OBVIOUS
    <2>1. j \in 1..1 + (a + b) - (a + 1)
        BY <1>6, <1>7
    <2>2. SubSeq(w, a + 1, a + b)[j] = w[a + 1 + j - 1]
        BY ONLY <1>6, <2>1, InSubSeq
    <2>3. a + 1 + j - 1 = t + 1
        BY <1>6, <1>7
    <2> QED
        BY <1>5, <2>2, <2>3
<1> QED
    BY <1>8, <1>9

\* And a turn in the tree that is the schemer's is one of the turns its claims say it holds.
LEMMA CeilingHolds == ASSUME PoolAssumption, EraPoolInv PROVE CeilingIsTheShare
<1> SUFFICES ASSUME NEW p \in pools, NEW cs \in ClaimLists(p),
                    DocumentAccepts(p.network, cs, p.tree), TranscriptHolds(cs, p.tree, p.tree)
             PROVE  LET spendable == {t \in 0..Turns - 1 : p.tree[t + 1][1] = Schemer}
                    IN /\ \A i \in DOMAIN cs : \A t \in Slice(cs[i]) :
                              cs[i].holder \in Honest => p.tree[t + 1] = Leaf(cs[i].holder, p.network, t)
                       /\ Cardinality(spendable) <= HeldBy(Schemer, cs) /\ 3 * Cardinality(spendable) <= Turns
    BY DEF CeilingIsTheShare
<1> DEFINE spendable == {t \in 0..Turns - 1 : p.tree[t + 1][1] = Schemer}
<1>1. \A i \in DOMAIN cs : \A t \in Slice(cs[i]) :
          cs[i].holder \in Honest => p.tree[t + 1] = Leaf(cs[i].holder, p.network, t)
    BY HonestTurns
<1> PICK n : n = Len(cs)
    OBVIOUS
<1>2. Slices(cs, n)
    <2> PICK X : X = claims \cup BySchemer(p)
        OBVIOUS
    <2>1. cs \in Seq(X)
        BY ListsAreOfClaims
    <2>2. n \in Nat /\ DOMAIN cs = 1..n /\ Len(cs) = n /\ \A i \in 1..n : cs[i] \in X
        BY ONLY <2>1, n = Len(cs)
    <2>3. \A c \in X : c.first \in Int /\ c.count \in Int
        BY SchemersOwn DEF EraPoolInv, ClaimOK
    <2> QED
        BY ONLY <2>2, <2>3 DEF Slices
<1>3. n \in Nat /\ DOMAIN cs = 1..n /\ Turns \in Nat
    BY <1>2 DEF Slices, PoolAssumption
<1>4. Part(cs, n, Turns)
    <2>1. Covers(cs, Turns)
        BY DEF DocumentAccepts
    <2> QED
        BY <1>2, <1>3, <2>1, CoversParts
<1>5. \A t \in spendable : \E i \in 1..n : cs[i].holder = Schemer /\ t \in Slice(cs[i])
    <2> SUFFICES ASSUME NEW t \in spendable PROVE \E i \in 1..n : cs[i].holder = Schemer /\ t \in Slice(cs[i])
        OBVIOUS
    <2>1. PICK i \in 1..n : t \in Slice(cs[i])
        <3>1. t \in UNION {Slice(cs[i]) : i \in 1..n}
            BY <1>4 DEF Part
        <3> QED
            BY ONLY <3>1
    <2>2. cs[i].holder \in PoolHolders
        BY <1>3 DEF DocumentAccepts
    <2>3. CASE cs[i].holder \in Honest
        <3>1. p.tree[t + 1] = <<cs[i].holder, p.network, t>>
            BY <1>1, <1>3, <2>1, <2>3 DEF Leaf
        <3>2. p.tree[t + 1][1] = cs[i].holder
            BY ONLY <3>1
        <3> QED
            BY <2>3, <3>2 DEF Honest
    <2> QED
        BY <2>1, <2>2, <2>3 DEF Honest
<1> PICK U : U = spendable
    OBVIOUS
<1>6. HeldBy(Schemer, cs) \in Nat /\ Cardinality(U) \in Nat /\ Cardinality(U) <= HeldBy(Schemer, cs)
    <2>1. \A i \in 1..n : cs[i].count >= 1
        BY <1>4 DEF Part
    <2>2. \A t \in U : \E i \in 1..n : cs[i].holder = Schemer /\ t \in Slice(cs[i])
        BY <1>5
    <2> QED
        BY ONLY <1>2, <1>3, <2>1, <2>2, HeldIsEnough
<1>7. 3 * Cardinality(U) <= Turns
    <2>1. CASE U = {}
        <3>1. Cardinality(U) = 0
            BY <2>1, FS_EmptySet
        <3> QED
            BY ONLY <1>3, <3>1
    <2>2. CASE U # {}
        <3>1. PICK i \in 1..n : cs[i].holder = Schemer
            BY <1>5, <2>2
        <3>2. ~MoreThanAThird(Schemer, cs, Turns)
            BY <1>3, <3>1 DEF DocumentAccepts
        <3>3. ~(HeldBy(Schemer, cs) * 3 > Turns)
            BY <3>2 DEF MoreThanAThird
        <3> QED
            BY ONLY <1>3, <1>6, <3>3
    <2> QED
        BY <2>1, <2>2
<1> QED
    BY <1>1, <1>6, <1>7

\* An honest claim names the tree there was when it was signed.
LEMMA OfOnePool == ASSUME EraPoolInv PROVE ClaimsAreOfOnePool
<1> SUFFICES ASSUME NEW c \in claims, NEW p \in pools, NEW cs \in ClaimLists(p),
                    c \in ToSet(cs), DocumentAccepts(p.network, cs, p.tree)
             PROVE  c.under = p.tree
    BY DEF ClaimsAreOfOnePool
<1>1. PICK i \in DOMAIN cs : c = cs[i]
    BY DEF ToSet
<1>2. c.signed = Message(p.network, c, p.tree)
    BY <1>1 DEF DocumentAccepts
<1>3. c.signed.root = p.tree
    BY ONLY <1>2 DEF Message
<1> QED
    BY <1>3 DEF EraPoolInv, ClaimOK

THEOREM TurnsHold == PoolSpec => []TurnsAreTheirs
<1>1. EraPoolInv => TurnsAreTheirs
    BY PoolAssumption, CeilingHolds, OfOnePool DEF TurnsAreTheirs
<1> QED
    BY <1>1, EraPoolInvariance, PTL

====
