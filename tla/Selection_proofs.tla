-------------------------- MODULE Selection_proofs --------------------------
(***************************************************************************)
(* Lemmas about Selection: what is selected is there, in the order it had;   *)
(* a run of positions is a run of the sequence; a least one can be found.    *)
(***************************************************************************)
EXTENDS Selection, Sequences, FiniteSetTheorems, WellFoundedInduction, TLAPS

\* A set of numbers that is not empty has a least one.
LEMMA LeastOfSome ==
    ASSUME NEW T \in SUBSET Nat, T # {}
    PROVE  \E m \in T : \A k \in T : m <= k
<1>1. PICK m \in T : \A k \in T : <<k, m>> \notin OpToRel(<, Nat)
    BY NatLessThanWellFounded, WFMin
<1>2. \A k \in T : ~(k < m)
    BY <1>1 DEF OpToRel
<1> QED
    BY <1>2

\* A bounded one has a largest.
LEMMA LargestBelow ==
    ASSUME NEW T \in SUBSET Nat, NEW b \in Nat, T # {}, \A k \in T : k <= b
    PROVE  \E m \in T : \A k \in T : m >= k
<1> DEFINE U == {j \in Nat : \E k \in T : j = b - k}
<1>1. U # {} /\ U \in SUBSET Nat
    <2>1. PICK k \in T : TRUE
        OBVIOUS
    <2>2. b - k \in Nat
        BY <2>1
    <2> QED
        BY <2>1, <2>2
<1>2. PICK j \in U : \A i \in U : j <= i
    BY <1>1, LeastOfSome
<1>3. PICK m \in T : j = b - m
    BY <1>2
<1>4. \A k \in T : m >= k
    <2> SUFFICES ASSUME NEW k \in T PROVE m >= k
        OBVIOUS
    <2>1. b - k \in U
        OBVIOUS
    <2>2. b - m <= b - k /\ k \in Nat /\ m \in Nat
        BY <1>2, <1>3, <2>1
    <2> QED
        BY <2>2
<1> QED
    BY <1>4

\* A function that each step makes of its last value.
InTurn(f, n, base, step) == \A i \in 0..n : f[i] = IF i = 0 THEN base ELSE step[i][f[i - 1]]

LEMMA StepsInTurn ==
    ASSUME NEW X, NEW base \in X, NEW n \in Nat, NEW step \in [1..n -> [X -> X]]
    PROVE  \E f \in [0..n -> X] : InTurn(f, n, base, step)
<1> DEFINE Reaches(f, m) == \A i \in 0..n : i <= m => f[i] = IF i = 0 THEN base ELSE step[i][f[i - 1]]
           Fails == {m \in Nat : ~\E f \in [0..n -> X] : Reaches(f, m)}
<1>1. 0 \notin Fails
    <2>1. PICK f \in [0..n -> X] : f = [i \in 0..n |-> base]
        OBVIOUS
    <2>2. Reaches(f, 0)
        BY <2>1
    <2> QED
        BY <2>2
<1>2. \A m \in Nat : m \notin Fails => m + 1 \notin Fails
    <2> SUFFICES ASSUME NEW m \in Nat, m \notin Fails PROVE m + 1 \notin Fails
        OBVIOUS
    <2>1. PICK f \in [0..n -> X] : Reaches(f, m)
        OBVIOUS
    <2>2. PICK g : g = [i \in 0..n |-> IF i = 0 THEN base ELSE step[i][f[i - 1]]]
        OBVIOUS
    <2>3. \A i \in 0..n : i = 0 \/ (i \in 1..n /\ i - 1 \in 0..n /\ i - 1 < i)
        OBVIOUS
    <2>4. g \in [0..n -> X]
        BY <2>1, <2>2, <2>3
    <2>5. ASSUME NEW i \in 0..n, i <= m + 1 PROVE g[i] = IF i = 0 THEN base ELSE step[i][g[i - 1]]
        <3>1. CASE i = 0
            BY <2>2, <3>1
        <3>2. CASE i # 0
            <4>1. i - 1 \in 0..n /\ i - 1 <= m
                BY <2>5, <3>2
            <4>2. g[i - 1] = f[i - 1]
                BY <2>1, <2>2, <4>1
            <4> QED
                BY <2>2, <3>2, <4>2
        <3> QED
            BY <3>1, <3>2
    <2> QED
        BY <2>4, <2>5
<1>3. Fails = {}
    <2> SUFFICES ASSUME Fails # {} PROVE FALSE
        OBVIOUS
    <2>0. Fails \in SUBSET Nat
        OBVIOUS
    <2> HIDE DEF Fails
    <2>1. PICK m \in Fails : \A k \in Fails : m <= k
        BY <2>0, LeastOfSome
    <2>2. m - 1 \in Nat /\ m - 1 \notin Fails
        BY <1>1, <2>0, <2>1
    <2>3. (m - 1) + 1 \notin Fails
        BY <1>2, <2>2
    <2> QED
        BY <2>0, <2>1, <2>3
<1>4. PICK f \in [0..n -> X] : Reaches(f, n)
    BY <1>3
<1> QED
    BY <1>4 DEF InTurn

\* The positions of a run.
LEMMA NthOfRun ==
    ASSUME NEW a \in Int, NEW b \in Int, NEW k \in 1 .. b - a + 1
    PROVE  Nth(a .. b, k) = a + k - 1
<1> DEFINE upTo(i) == {j \in a .. b : j <= i}
<1>1. \A i \in a .. b : Cardinality(upTo(i)) = i - a + 1
    <2> SUFFICES ASSUME NEW i \in a .. b PROVE Cardinality(upTo(i)) = i - a + 1
        OBVIOUS
    <2>1. upTo(i) = a .. i
        OBVIOUS
    <2>2. Cardinality(a .. i) = i - a + 1
        BY FS_Interval
    <2> QED
        BY <2>1, <2>2
<1> HIDE DEF upTo
<1>2. a + k - 1 \in a .. b /\ Cardinality(upTo(a + k - 1)) = k
    <2>1. a + k - 1 \in a .. b /\ (a + k - 1) - a + 1 = k
        OBVIOUS
    <2> QED
        BY <1>1, <2>1
<1>3. \A i \in a .. b : Cardinality(upTo(i)) = k => i = a + k - 1
    BY <1>1
<1>4. Nth(a .. b, k) = CHOOSE i \in a .. b : Cardinality(upTo(i)) = k
    BY DEF Nth, upTo
<1> QED
    BY <1>2, <1>3, <1>4

\* What is selected at a run of positions.
LEMMA SelectedRun ==
    ASSUME NEW S, NEW s \in Seq(S), NEW a \in 1 .. Len(s) + 1, NEW b \in a - 1 .. Len(s)
    PROVE  Selected(s, a .. b) = SubSeq(s, a, b)
<1>0. /\ Len(s) \in Nat /\ a \in Int /\ b \in Int /\ b - a + 1 \in Nat
      /\ b <= Len(s) /\ 1 <= a
    OBVIOUS
<1>1. Cardinality(a .. b) = b - a + 1
    <2>1. a > b => b - a + 1 = 0
        BY <1>0
    <2>2. Cardinality(a .. b) = IF a > b THEN 0 ELSE b - a + 1
        BY <1>0, FS_Interval
    <2> QED
        BY <2>1, <2>2
<1>2. SubSeq(s, a, b) = [k \in 1 .. b - a + 1 |-> s[a + k - 1]]
    OBVIOUS
<1>3. Selected(s, a .. b) = [k \in 1 .. b - a + 1 |-> s[Nth(a .. b, k)]]
    BY <1>1 DEF Selected
<1>4. \A k \in 1 .. b - a + 1 : Nth(a .. b, k) = a + k - 1
    BY <1>0, NthOfRun
<1>5. Selected(s, a .. b) = [k \in 1 .. b - a + 1 |-> s[a + k - 1]]
    BY <1>3, <1>4
<1> QED
    BY <1>2, <1>5

\* What is left of a sequence from a position on.
LEMMA SuffixOf ==
    ASSUME NEW S, NEW s \in Seq(S), NEW c \in 0 .. Len(s)
    PROVE  /\ SubSeq(s, c + 1, Len(s)) \in Seq(S) /\ Len(SubSeq(s, c + 1, Len(s))) = Len(s) - c
           /\ \A i \in 1 .. Len(s) - c : SubSeq(s, c + 1, Len(s))[i] = s[c + i]
<1> PICK m, n, t : m = Len(s) - c /\ n = Len(s) /\ t = [i \in 1 .. m |-> s[c + i]]
    OBVIOUS
<1>1. m \in Nat /\ n \in Nat /\ c \in Nat /\ n - (c + 1) + 1 = m
    OBVIOUS
<1>2. \A i \in 1 .. m : (c + 1) + i - 1 = c + i /\ c + i \in 1 .. n
    BY <1>1
<1>3. SubSeq(s, c + 1, n) = t
    BY <1>1, <1>2
<1>4. t \in Seq(S) /\ Len(t) = m /\ \A i \in 1 .. m : t[i] = s[c + i]
    <2>1. \A i \in 1 .. m : s[c + i] \in S
        BY <1>2
    <2> QED
        BY <1>1, <2>1
<1> QED
    BY <1>3, <1>4

\* The k-th of a finite set of positions, for every k there is, and each of them once.
LEMMA NthCounts ==
    ASSUME NEW where \in SUBSET Int, IsFiniteSet(where)
    PROVE  /\ Cardinality(where) \in Nat
           /\ \A k \in 1 .. Cardinality(where) : Nth(where, k) \in where
           /\ \A k, m \in 1 .. Cardinality(where) : k < m => Nth(where, k) < Nth(where, m)
           /\ \A i \in where : \E k \in 1 .. Cardinality(where) : Nth(where, k) = i
<1> DEFINE upTo(i) == {j \in where : j <= i}
           n == Cardinality(where)
           f == [i \in where |-> Cardinality(upTo(i))]
<1>1. n \in Nat
    BY FS_CardinalityType
<1>2. \A i \in where : IsFiniteSet(upTo(i)) /\ Cardinality(upTo(i)) \in 1 .. n
    <2> SUFFICES ASSUME NEW i \in where
                 PROVE  IsFiniteSet(upTo(i)) /\ Cardinality(upTo(i)) \in 1 .. n
        OBVIOUS
    <2>1. upTo(i) \subseteq where /\ i \in upTo(i)
        OBVIOUS
    <2> HIDE DEF upTo
    <2>2. IsFiniteSet(upTo(i)) /\ Cardinality(upTo(i)) <= n
        BY <2>1, FS_Subset
    <2>3. Cardinality(upTo(i)) \in Nat /\ Cardinality(upTo(i)) # 0
        BY <2>1, <2>2, FS_CardinalityType, FS_EmptySet
    <2> QED
        BY <1>1, <2>2, <2>3
<1>3. \A i, j \in where : i < j => f[i] < f[j]
    <2> SUFFICES ASSUME NEW i \in where, NEW j \in where, i < j
                 PROVE  Cardinality(upTo(i)) < Cardinality(upTo(j))
        OBVIOUS
    <2>1. upTo(i) \cup {j} \subseteq upTo(j) /\ j \notin upTo(i)
        <3>1. i \in Int /\ j \in Int /\ \A k \in where : k \in Int
            OBVIOUS
        <3>2. (\A k \in where : k <= i => k <= j) /\ j <= j /\ ~(j <= i)
            BY <3>1
        <3>3. \A k \in where : k \in upTo(i) => k \in upTo(j)
            BY <3>2
        <3>4. j \in upTo(j) /\ j \notin upTo(i)
            BY <3>2
        <3>5. upTo(i) \subseteq where
            OBVIOUS
        <3> HIDE DEF upTo
        <3> QED
            BY <3>3, <3>4, <3>5
    <2>2. /\ IsFiniteSet(upTo(i)) /\ Cardinality(upTo(i)) \in 1 .. n
          /\ IsFiniteSet(upTo(j)) /\ Cardinality(upTo(j)) \in 1 .. n
        BY <1>2
    <2> HIDE DEF upTo, n
    <2>3. Cardinality(upTo(i) \cup {j}) = Cardinality(upTo(i)) + 1
        BY <2>1, <2>2, FS_AddElement
    <2>4. Cardinality(upTo(i) \cup {j}) <= Cardinality(upTo(j))
        BY <2>1, <2>2, FS_Subset
    <2> QED
        BY <2>2, <2>3, <2>4
<1>4. f \in Injection(where, 1 .. n)
    <2>1. f \in [where -> 1 .. n]
        BY <1>2
    <2> HIDE DEF f
    <2>2. \A i, j \in where : f[i] \in Int /\ i \in Int /\ (f[i] = f[j] => i = j)
        BY <1>3, <2>1
    <2> QED
        BY <2>1, <2>2 DEF Injection, IsInjective
<1>5. f \in Surjection(where, 1 .. n)
    <2>1. IsFiniteSet(1 .. n) /\ Cardinality(1 .. n) = n
        BY <1>1, FS_Interval
    <2> HIDE DEF f
    <2> QED
        BY <1>4, <2>1, FS_Injection
<1>6. \A k \in 1 .. n : \E i \in where : f[i] = k
    <2> HIDE DEF f
    <2> QED
        BY <1>5 DEF Surjection
<1>7. \A k \in 1 .. n : Nth(where, k) \in where /\ f[Nth(where, k)] = k
    <2> SUFFICES ASSUME NEW k \in 1 .. n PROVE Nth(where, k) \in where /\ f[Nth(where, k)] = k
        OBVIOUS
    <2>1. Nth(where, k) = CHOOSE i \in where : f[i] = k
        BY DEF Nth
    <2> HIDE DEF f, n
    <2> QED
        BY <1>6, <2>1
<1>8. \A i \in where : f[i] \in 1 .. n
    BY <1>2
<1> HIDE DEF f, upTo
<1>9. \A k, m \in 1 .. n : k < m => Nth(where, k) < Nth(where, m)
    <2> SUFFICES ASSUME NEW k \in 1 .. n, NEW m \in 1 .. n, k < m PROVE Nth(where, k) < Nth(where, m)
        OBVIOUS
    <2> DEFINE x == Nth(where, k)
               y == Nth(where, m)
    <2>1. x \in where /\ y \in where /\ f[x] = k /\ f[y] = m
        BY <1>7
    <2> HIDE DEF x, y
    <2>2. x < y
        <3>1. x \in Int /\ y \in Int /\ ~(f[y] < f[x]) /\ f[x] # f[y]
            BY <1>1, <2>1
        <3> QED
            BY <1>3, <2>1, <3>1
    <2> QED
        BY <2>2 DEF x, y
<1>10. \A i \in where : \E k \in 1 .. n : Nth(where, k) = i
    <2> SUFFICES ASSUME NEW i \in where PROVE Nth(where, f[i]) = i /\ f[i] \in 1 .. n
        OBVIOUS
    <2>1. f[i] \in 1 .. n
        BY <1>8
    <2>2. Nth(where, f[i]) \in where /\ f[Nth(where, f[i])] = f[i]
        BY <1>7, <2>1
    <2> QED
        BY <1>4, <2>1, <2>2 DEF Injection, IsInjective
<1> QED
    BY <1>1, <1>7, <1>9, <1>10

\* What is selected: the elements at these positions, in the order they had, and no others.
LEMMA SelectedFacts ==
    ASSUME NEW S, NEW s \in Seq(S), NEW where \in SUBSET (1 .. Len(s))
    PROVE  /\ Cardinality(where) \in 0 .. Len(s)
           /\ Selected(s, where) \in Seq(S) /\ Len(Selected(s, where)) = Cardinality(where)
           /\ \A k \in 1 .. Cardinality(where) :
                /\ Nth(where, k) \in where /\ Selected(s, where)[k] = s[Nth(where, k)]
           /\ \A k, m \in 1 .. Cardinality(where) : k < m => Nth(where, k) < Nth(where, m)
           /\ \A i \in where : \E k \in 1 .. Cardinality(where) : Selected(s, where)[k] = s[i]
<1> DEFINE n == Cardinality(where)
<1>1. IsFiniteSet(where) /\ n \in 0 .. Len(s)
    <2>1. Len(s) \in Nat /\ 1 \in Int /\ Len(s) \in Int
        OBVIOUS
    <2>2. IsFiniteSet(1 .. Len(s)) /\ Cardinality(1 .. Len(s)) = Len(s)
        <3> DEFINE m == Len(s)
        <3> HIDE DEF m
        <3>1. m \in Nat /\ m \in Int /\ 1 \in Int
            BY <2>1 DEF m
        <3>2. /\ IsFiniteSet(1 .. m)
              /\ Cardinality(1 .. m) = IF 1 > m THEN 0 ELSE m - 1 + 1
            BY <3>1, FS_Interval
        <3>3. (IF 1 > m THEN 0 ELSE m - 1 + 1) = m
            BY <3>1
        <3> QED
            BY <3>2, <3>3 DEF m
    <2>3. IsFiniteSet(where) /\ n <= Len(s)
        BY <2>2, FS_Subset
    <2> QED
        BY <2>1, <2>3, FS_CardinalityType
<1>2. /\ \A k \in 1 .. n : Nth(where, k) \in where
      /\ \A k, m \in 1 .. n : k < m => Nth(where, k) < Nth(where, m)
      /\ \A i \in where : \E k \in 1 .. n : Nth(where, k) = i
    <2>1. where \in SUBSET Int
        OBVIOUS
    <2> QED
        BY <1>1, <2>1, NthCounts
<1> HIDE DEF n
<1>3. Selected(s, where) = [k \in 1 .. n |-> s[Nth(where, k)]]
    BY DEF Selected, n
<1>4. \A k \in 1 .. n : s[Nth(where, k)] \in S
    <2>1. \A i \in where : s[i] \in S
        OBVIOUS
    <2> QED
        BY <1>2, <2>1
<1>5. Selected(s, where) \in Seq(S) /\ Len(Selected(s, where)) = n
    BY <1>1, <1>3, <1>4
<1> QED
    BY <1>1, <1>2, <1>3, <1>5 DEF n

\* What holds at the start and is carried one further holds all along.
LEMMA CarriedAlong ==
    ASSUME NEW n \in Nat, NEW S \in SUBSET (0..n), 0 \in S, \A i \in 1..n : i - 1 \in S => i \in S
    PROVE  S = 0..n
<1> DEFINE T == (0..n) \ S
<1>1. CASE T = {}
    BY <1>1
<1>2. CASE T # {}
    <2>1. T \in SUBSET Nat
        OBVIOUS
    <2> HIDE DEF T
    <2>2. PICK m \in T : \A k \in T : m <= k
        BY <1>2, <2>1, LeastOfSome
    <2>3. m \in 1..n /\ m \notin S
        BY DEF T
    <2>4. m - 1 \in 0..n /\ m - 1 < m
        BY <2>3
    <2>5. m - 1 \in S
        BY <2>2, <2>4 DEF T
    <2> QED
        BY <2>3, <2>5
<1> QED
    BY <1>1, <1>2

\* How many of G come before each in the order R.
Ranks(G, R) == [g \in G |-> Cardinality({h \in G : <<h, g>> \in R})]

\* In a total order each of n has a rank of its own, and the ranks are 0 .. n - 1.
LEMMA RanksFill ==
    ASSUME NEW G, IsFiniteSet(G), NEW R \in SUBSET (G \X G),
           \A g \in G : <<g, g>> \notin R,
           \A g, h, i \in G : <<g, h>> \in R /\ <<h, i>> \in R => <<g, i>> \in R,
           \A g, h \in G : g # h => <<g, h>> \in R \/ <<h, g>> \in R,
           NEW rank, rank = Ranks(G, R)
    PROVE  /\ rank \in [G -> 0..(Cardinality(G) - 1)]
           /\ \A g, h \in G : rank[g] = rank[h] => g = h
           /\ {rank[g] : g \in G} = 0..(Cardinality(G) - 1)
           /\ \A g, h \in G : <<g, h>> \in R => rank[g] < rank[h]
<1>0. rank = [g \in G |-> Cardinality({h \in G : <<h, g>> \in R})]
    BY DEF Ranks
<1> PICK below : below = [g \in G |-> {h \in G : <<h, g>> \in R}]
    OBVIOUS
<1> PICK n : n = Cardinality(G)
    OBVIOUS
<1> DEFINE T == 0..(n - 1)
<1>1. n \in Nat
    BY FS_CardinalityType
<1>2. /\ \A g \in G : below[g] \in SUBSET G /\ rank[g] = Cardinality(below[g])
      /\ \A g, h \in G : h \in below[g] <=> <<h, g>> \in R
    BY <1>0
<1>a. ASSUME NEW g \in G PROVE IsFiniteSet(below[g]) /\ Cardinality(below[g]) \in Nat
    <2>1. IsFiniteSet(below[g])
        BY <1>2, FS_Subset
    <2> QED
        BY <2>1, FS_CardinalityType
<1>3. ASSUME NEW g \in G, NEW h \in G, <<g, h>> \in R PROVE rank[g] < rank[h]
    <2>1. below[g] \in SUBSET below[h] /\ g \in below[h] /\ g \notin below[g]
        BY <1>2, <1>3
    <2>2. below[g] # below[h]
        BY <2>1
    <2>3. Cardinality(below[g]) <= Cardinality(below[h]) /\ Cardinality(below[g]) # Cardinality(below[h])
        BY <1>a, <2>1, <2>2, FS_Subset
    <2>4. Cardinality(below[g]) \in Nat /\ Cardinality(below[h]) \in Nat
        BY <1>a
    <2>5. Cardinality(below[g]) < Cardinality(below[h])
        BY ONLY <2>3, <2>4
    <2> QED
        BY <1>2, <2>5
<1>4. ASSUME NEW g \in G PROVE rank[g] \in T
    <2>1. below[g] \in SUBSET G /\ g \notin below[g]
        BY <1>2
    <2>2. below[g] # G
        BY <2>1
    <2>3. Cardinality(below[g]) <= n /\ Cardinality(below[g]) # n
        BY <2>1, <2>2, FS_Subset
    <2>4. Cardinality(below[g]) \in Nat
        BY <1>a
    <2>5. Cardinality(below[g]) \in 0..(n - 1)
        BY ONLY <1>1, <2>3, <2>4
    <2> QED
        BY <1>2, <2>5
<1>5. rank \in [G -> T]
    BY <1>0, <1>4
<1>6. \A g, h \in G : rank[g] = rank[h] => g = h
    <2> SUFFICES ASSUME NEW g \in G, NEW h \in G, rank[g] = rank[h], g # h PROVE FALSE
        OBVIOUS
    <2>1. rank[g] \in Int /\ rank[h] \in Int
        BY <1>1, <1>4
    <2>2. <<g, h>> \in R \/ <<h, g>> \in R
        OBVIOUS
    <2>3. rank[g] < rank[h] \/ rank[h] < rank[g]
        BY <1>3, <2>2
    <2> QED
        BY ONLY <2>1, <2>3, rank[g] = rank[h]
<1>7. IsFiniteSet(T) /\ Cardinality(T) = Cardinality(G)
    <2> DEFINE m == n - 1
    <2>1. m \in Int /\ 0 \in Int
        BY <1>1
    <2> HIDE DEF m
    <2>2. IsFiniteSet(0..m) /\ Cardinality(0..m) = IF 0 > m THEN 0 ELSE m - 0 + 1
        BY <2>1, FS_Interval
    <2>3. (IF 0 > m THEN 0 ELSE m - 0 + 1) = n
        BY <1>1 DEF m
    <2> QED
        BY <2>2, <2>3 DEF m
<1> HIDE DEF T
<1>8. rank \in Injection(G, T)
    BY <1>5, <1>6 DEF Injection, IsInjective
<1>9. rank \in Surjection(G, T)
    BY <1>7, <1>8, FS_Injection
<1>10. \A t \in T : \E g \in G : rank[g] = t
    BY <1>9 DEF Surjection
<1>11. {rank[g] : g \in G} = T
    <2>1. \A g \in G : rank[g] \in T
        BY <1>4
    <2> QED
        BY ONLY <1>10, <2>1
<1> QED
    BY <1>3, <1>5, <1>6, <1>11 DEF T
=============================================================================
