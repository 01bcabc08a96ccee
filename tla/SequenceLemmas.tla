--------------------------- MODULE SequenceLemmas ---------------------------
(***************************************************************************)
(* Facts about naturals, sequences and sums that proofs rest on.  What     *)
(* would be an induction is a least counterexample here.                    *)
(***************************************************************************)
EXTENDS Naturals, Sequences, SequencesExt, SequenceTheorems, FiniteSetTheorems,
        WellFoundedInduction, TLAPS

(* Every inhabited set of naturals has a least element. *)
LEMMA LeastNatural ==
    ASSUME NEW T \in SUBSET Nat, T # {}
    PROVE  \E n \in T : \A m \in T : n <= m
<1> DEFINE R == {ss \in Nat \X Nat : ss[1] < ss[2]}
<1>1. IsWellFoundedOn(R, Nat)
    BY NatLessThanWellFounded, Zenon DEF OpToRel
<1> HIDE DEF R
<1>2. PICK n \in T : \A m \in T : <<m, n>> \notin R
    BY <1>1, WFMin
<1>3. \A m \in T : ~(m < n)
    BY <1>2 DEF R
<1> QED BY <1>3

(* And every inhabited set of indices a greatest.                           *)
LEMMA GreatestIndex ==
    ASSUME NEW n \in Nat, NEW T \in SUBSET (1..n), T # {}
    PROVE  \E i \in T : \A k \in T : k <= i
<1> DEFINE U == {m \in Nat : \E i \in T : m = n - i}
<1>1. U # {}
    <2>1. PICK i \in T : TRUE
        OBVIOUS
    <2>2. n - i \in Nat
        OBVIOUS
    <2> QED BY <2>2
<1>2. PICK m \in U : \A k \in U : m <= k
    BY <1>1, LeastNatural
<1>3. PICK i \in T : m = n - i
    OBVIOUS
<1>4. ASSUME NEW k \in T PROVE k <= i
    <2>1. n - k \in U
        OBVIOUS
    <2>2. n - i <= n - k
        BY <1>2, <1>3, <2>1
    <2> QED BY <2>2
<1> QED BY <1>4

-----------------------------------------------------------------------------
(* What a suffix of s holds. *)
HeldFrom(s, i, l) == \E k \in i..Len(s) : s[k] = l

LEMMA SuffixElements ==
    ASSUME NEW S, NEW s \in Seq(S), NEW i \in 1..Len(s) + 1, NEW r, r = SubSeq(s, i, Len(s))
    PROVE  /\ Len(r) = Len(s) + 1 - i
           /\ \A l : HeldFrom(r, 1, l) <=> HeldFrom(s, i, l)
<1> DEFINE n == Len(s)
<1>1. n \in Nat /\ i \in 1..n + 1 /\ \A j \in 1..n : s[j] \in S
    BY ElementOfSeq, LenProperties
<1>2. r = SubSeq(s, i, n)
    OBVIOUS
<1> HIDE DEF n
<1>3. i \in Int /\ n \in Int /\ \A j \in i..n : s[j] \in S
    BY <1>1
<1>4. /\ Len(r) = IF i <= n THEN n - i + 1 ELSE 0
      /\ \A k \in 1..(n - i + 1) : r[k] = s[i + k - 1]
    BY <1>2, <1>3, SubSeqProperties
<1>5. Len(r) = n + 1 - i
    BY <1>1, <1>4
<1>6. ASSUME NEW l, NEW k \in 1..Len(r), r[k] = l PROVE \E j \in i..n : s[j] = l
    <2>1. i + k - 1 \in i..n /\ s[i + k - 1] = l
        BY <1>1, <1>4, <1>5, <1>6
    <2> QED BY <2>1
<1>7. ASSUME NEW l, NEW j \in i..n, s[j] = l PROVE \E k \in 1..Len(r) : r[k] = l
    <2>1. j - i + 1 \in 1..Len(r) /\ i + (j - i + 1) - 1 = j
        BY <1>1, <1>5
    <2>2. r[j - i + 1] = s[i + (j - i + 1) - 1]
        BY <1>4, <1>5, <1>1, <2>1
    <2> QED BY <1>7, <2>1, <2>2
<1>8. ASSUME NEW l PROVE HeldFrom(r, 1, l) <=> HeldFrom(s, i, l)
    BY <1>6, <1>7 DEF n, HeldFrom
<1> QED BY <1>5, <1>8 DEF n

LEMMA ToSetConcat ==
    ASSUME NEW S, NEW s \in Seq(S), NEW t \in Seq(S)
    PROVE  /\ s \o t \in Seq(S)
           /\ ToSet(s \o t) = ToSet(s) \cup ToSet(t)
<1>1. /\ s \o t \in Seq(S)
      /\ Len(s \o t) = Len(s) + Len(t)
      /\ \A i \in 1..(Len(s) + Len(t)) :
             (s \o t)[i] = IF i <= Len(s) THEN s[i] ELSE t[i - Len(s)]
    BY ConcatProperties
<1>2. /\ ToSet(s \o t) = {(s \o t)[i] : i \in 1..(Len(s) + Len(t))}
      /\ ToSet(s) = {s[i] : i \in 1..Len(s)}
      /\ ToSet(t) = {t[i] : i \in 1..Len(t)}
      /\ Len(s) \in Nat /\ Len(t) \in Nat
    <2>1. DOMAIN (s \o t) = 1..(Len(s) + Len(t))
        BY <1>1
    <2>2. DOMAIN s = 1..Len(s) /\ DOMAIN t = 1..Len(t)
        OBVIOUS
    <2>3. ToSet(s \o t) = {(s \o t)[i] : i \in 1..(Len(s) + Len(t))}
        BY <2>1, Zenon DEF ToSet
    <2>4. ToSet(s) = {s[i] : i \in 1..Len(s)} /\ ToSet(t) = {t[i] : i \in 1..Len(t)}
        BY <2>2, Zenon DEF ToSet
    <2> QED BY <2>3, <2>4
<1>3. ASSUME NEW i \in 1..Len(s) PROVE s[i] \in ToSet(s \o t)
    BY <1>1, <1>2
<1>4. ASSUME NEW i \in 1..Len(t) PROVE t[i] \in ToSet(s \o t)
    <2>1. /\ i + Len(s) \in 1..(Len(s) + Len(t)) /\ ~(i + Len(s) <= Len(s))
          /\ i + Len(s) - Len(s) = i
        BY <1>2
    <2> QED BY <1>1, <1>2, <2>1
<1>5. ASSUME NEW i \in 1..(Len(s) + Len(t)) PROVE (s \o t)[i] \in ToSet(s) \cup ToSet(t)
    BY <1>1, <1>2
<1>6. ToSet(s \o t) \subseteq ToSet(s) \cup ToSet(t)
    BY <1>2, <1>5
<1>7. ToSet(s) \cup ToSet(t) \subseteq ToSet(s \o t)
    BY <1>2, <1>3, <1>4
<1> QED BY <1>1, <1>6, <1>7

LEMMA ConcatRegroups ==
    \A S : \A a, b, c \in Seq(S) : (a \o b) \o c = a \o (b \o c)
BY ConcatAssociative

(* What occurs once in a concatenation.                                     *)
NoTwice(s) == \A j, k \in 1..Len(s) : s[j] = s[k] => j = k

LEMMA NoTwiceConcat ==
    ASSUME NEW S, NEW s \in Seq(S), NEW t \in Seq(S)
    PROVE  NoTwice(s \o t) <=> NoTwice(s) /\ NoTwice(t) /\ ToSet(s) \cap ToSet(t) = {}
<1>1. /\ Len(s \o t) = Len(s) + Len(t) /\ Len(s) \in Nat /\ Len(t) \in Nat
      /\ \A i \in 1..Len(s) : i \in 1..Len(s \o t) /\ (s \o t)[i] = s[i]
      /\ \A i \in 1..Len(t) : Len(s) + i \in 1..Len(s \o t) /\ (s \o t)[Len(s) + i] = t[i]
    OBVIOUS
<1>2. /\ ToSet(s) = {s[i] : i \in 1..Len(s)} /\ ToSet(t) = {t[i] : i \in 1..Len(t)}
    <2>1. DOMAIN s = 1..Len(s) /\ DOMAIN t = 1..Len(t)
        OBVIOUS
    <2> QED BY <2>1, Zenon DEF ToSet
<1>3. ASSUME NoTwice(s \o t) PROVE NoTwice(s) /\ NoTwice(t) /\ ToSet(s) \cap ToSet(t) = {}
    <2>1. NoTwice(s)
        BY <1>1, <1>3 DEF NoTwice
    <2>2. ASSUME NEW j \in 1..Len(t), NEW k \in 1..Len(t), t[j] = t[k] PROVE j = k
        <3>1. Len(s) + j = Len(s) + k
            BY <1>1, <1>3, <2>2 DEF NoTwice
        <3> QED BY <1>1, <3>1
    <2>3. ASSUME NEW j \in 1..Len(s), NEW k \in 1..Len(t), s[j] = t[k] PROVE FALSE
        <3>1. j = Len(s) + k
            BY <1>1, <1>3, <2>3 DEF NoTwice
        <3> QED BY <1>1, <3>1
    <2> QED BY <1>2, <2>1, <2>2, <2>3 DEF NoTwice
<1>4. ASSUME NoTwice(s), NoTwice(t), ToSet(s) \cap ToSet(t) = {} PROVE NoTwice(s \o t)
    <2> SUFFICES ASSUME NEW j \in 1..Len(s \o t), NEW k \in 1..Len(s \o t),
                        (s \o t)[j] = (s \o t)[k]
                 PROVE  j = k
        BY DEF NoTwice
    <2>1. \A i \in 1..Len(s \o t) : i \in 1..Len(s) \/ \E m \in 1..Len(t) : i = Len(s) + m
        <3> SUFFICES ASSUME NEW i \in 1..Len(s \o t), i \notin 1..Len(s)
                     PROVE  \E m \in 1..Len(t) : i = Len(s) + m
            OBVIOUS
        <3>1. i - Len(s) \in 1..Len(t) /\ i = Len(s) + (i - Len(s))
            BY <1>1
        <3> QED BY <3>1
    <2>2. CASE j \in 1..Len(s) /\ k \in 1..Len(s)
        BY <1>1, <1>4, <2>2 DEF NoTwice
    <2>3. CASE j \in 1..Len(s) /\ k \notin 1..Len(s)
        <3>1. PICK m \in 1..Len(t) : k = Len(s) + m
            BY <2>1, <2>3
        <3>2. s[j] = t[m]
            BY <1>1, <2>3, <3>1
        <3> QED BY <1>2, <1>4, <2>3, <3>2
    <2>4. CASE j \notin 1..Len(s) /\ k \in 1..Len(s)
        <3>1. PICK m \in 1..Len(t) : j = Len(s) + m
            BY <2>1, <2>4
        <3>2. s[k] = t[m]
            BY <1>1, <2>4, <3>1
        <3> QED BY <1>2, <1>4, <2>4, <3>2
    <2>5. CASE j \notin 1..Len(s) /\ k \notin 1..Len(s)
        <3>1. PICK l \in 1..Len(t), m \in 1..Len(t) : j = Len(s) + l /\ k = Len(s) + m
            BY <2>1, <2>5
        <3>2. t[l] = t[m]
            BY <1>1, <3>1
        <3> QED BY <1>4, <3>1, <3>2 DEF NoTwice
    <2> QED BY <2>2, <2>3, <2>4, <2>5
<1> QED BY <1>3, <1>4

-----------------------------------------------------------------------------
(* FlattenSeq is a recursive function over the indices.                     *)
LEMMA FlattenExists ==
    ASSUME NEW s, NEW n \in Nat
    PROVE  \E f : f = [i \in 1..n |-> IF i = 1 THEN s[i] ELSE f[i - 1] \o s[i]]
<1> DEFINE Builds(m) == \E f : f = [i \in 1..m |-> IF i = 1 THEN s[i] ELSE f[i - 1] \o s[i]]
           T == {m \in Nat : ~Builds(m)}
<1>1. SUFFICES ASSUME T # {} PROVE FALSE
    OBVIOUS
<1>2. PICK m \in T : \A k \in T : m <= k
    <2> HIDE DEF Builds
    <2> QED BY <1>1, LeastNatural
<1>3. CASE m = 0
    <2> DEFINE g == [i \in 1..0 |-> s[i]]
    <2>1. g = [i \in 1..0 |-> IF i = 1 THEN s[i] ELSE g[i - 1] \o s[i]]
        OBVIOUS
    <2> QED BY <1>2, <1>3, <2>1
<1>4. CASE m # 0
    <2>1. m - 1 \in Nat /\ m - 1 \notin T
        <3> HIDE DEF Builds
        <3>1. m \in Nat
            OBVIOUS
        <3> QED BY <1>2, <1>4, <3>1
    <2>2. PICK f : f = [i \in 1..(m - 1) |-> IF i = 1 THEN s[i] ELSE f[i - 1] \o s[i]]
        BY <2>1
    <2> DEFINE g == [i \in 1..m |-> IF i = 1 THEN s[i] ELSE f[i - 1] \o s[i]]
    <2>3. ASSUME NEW i \in 1..m PROVE g[i] = IF i = 1 THEN s[i] ELSE g[i - 1] \o s[i]
        <3>1. CASE i = 1
            BY <3>1
        <3>2. CASE i # 1
            <4>1. i - 1 \in 1..(m - 1) /\ i - 1 \in 1..m
                BY <3>2
            <4>2. g[i - 1] = IF i - 1 = 1 THEN s[i - 1] ELSE f[i - 1 - 1] \o s[i - 1]
                BY <4>1
            <4>3. f[i - 1] = IF i - 1 = 1 THEN s[i - 1] ELSE f[i - 1 - 1] \o s[i - 1]
                BY <2>2, <4>1
            <4> QED BY <3>2, <4>2, <4>3
        <3> QED BY <3>1, <3>2
    <2>4. g = [i \in 1..m |-> IF i = 1 THEN s[i] ELSE g[i - 1] \o s[i]]
        BY <2>3
    <2> HIDE DEF g
    <2> QED BY <1>2, <2>4
<1> QED BY <1>3, <1>4

(* It is a sequence of the elements, and has all those of every part.       *)
LEMMA FlattenProperties ==
    ASSUME NEW S, NEW s \in Seq(Seq(S))
    PROVE  /\ FlattenSeq(s) \in Seq(S)
           /\ \A i \in 1..Len(s) : ToSet(s[i]) \subseteq ToSet(FlattenSeq(s))
<1>1. CASE Len(s) = 0
    BY <1>1 DEF FlattenSeq
<1>2. CASE Len(s) # 0
    <2> DEFINE f == CHOOSE f : f = [i \in 1..Len(s) |->
                                      IF i = 1 THEN s[i] ELSE f[i - 1] \o s[i]]
    <2>1. Len(s) \in Nat \ {0} /\ \A i \in 1..Len(s) : s[i] \in Seq(S)
        BY <1>2
    <2>2. f = [i \in 1..Len(s) |-> IF i = 1 THEN s[i] ELSE f[i - 1] \o s[i]]
        BY <2>1, FlattenExists
    <2>3. FlattenSeq(s) = f[Len(s)]
        BY <1>2 DEF FlattenSeq
    <2> HIDE DEF f
    <2> DEFINE Fine(i) == /\ f[i] \in Seq(S)
                          /\ \A k \in 1..i : ToSet(s[k]) \subseteq ToSet(f[i])
               T == {i \in Nat : i \in 1..Len(s) /\ ~Fine(i)}
    <2>4. T = {}
        <3>1. SUFFICES ASSUME T # {} PROVE FALSE
            OBVIOUS
        <3>2. PICK m \in T : \A k \in T : m <= k
            <4> HIDE DEF Fine
            <4> QED BY <3>1, LeastNatural
        <3>3. CASE m = 1
            <4>1. f[1] = s[1] /\ s[1] \in Seq(S) /\ \A k \in 1..1 : k = 1
                BY <2>1, <2>2, <3>2, <3>3
            <4>2. Fine(1)
                BY <4>1
            <4> QED BY <3>2, <3>3, <4>2
        <3>4. CASE m # 1
            <4>1. m - 1 \in 1..Len(s) /\ m - 1 \notin T /\ m \in 1..Len(s)
                <5> HIDE DEF Fine
                <5>1. m \in 1..Len(s) /\ m - 1 \in Nat /\ m - 1 < m
                    BY <2>1, <3>4
                <5> QED BY <2>1, <3>2, <3>4, <5>1
            <4>2. Fine(m - 1)
                BY <4>1
            <4>3. f[m] = f[m - 1] \o s[m] /\ s[m] \in Seq(S)
                BY <2>1, <2>2, <3>4, <4>1
            <4>4. f[m] \in Seq(S) /\ ToSet(f[m]) = ToSet(f[m - 1]) \cup ToSet(s[m])
                BY <4>2, <4>3, ToSetConcat
            <4>5. \A k \in 1..m : k \in 1..(m - 1) \/ k = m
                BY <4>1
            <4>6. Fine(m)
                BY <4>2, <4>4, <4>5
            <4> QED BY <3>2, <4>6
        <3> QED BY <3>3, <3>4
    <2>5. Len(s) \in 1..Len(s)
        BY <2>1
    <2>6. Fine(Len(s))
        <3> HIDE DEF Fine
        <3> QED BY <2>1, <2>4, <2>5
    <2> QED BY <2>3, <2>6
<1> QED BY <1>1, <1>2

-----------------------------------------------------------------------------
(* What a sum over the subset s is, when g has the sums of smaller ones. *)
SumOf(f, g, s) == IF s = {} THEN 0
                  ELSE LET x == CHOOSE x \in s : TRUE IN f[x] + g[s \ {x}]

(* g has the sums over the members of D. *)
SumsOver(D, f, g) == g = [s \in D |-> SumOf(f, g, s)]

Upto(S, n) == {s \in SUBSET S : Cardinality(s) <= n}

LEMMA SmallerSubset ==
    ASSUME NEW S, IsFiniteSet(S), NEW s \in SUBSET S, s # {}
    PROVE  LET x == CHOOSE x \in s : TRUE
           IN  /\ x \in s /\ s \ {x} \in SUBSET S
               /\ Cardinality(s) \in Nat
               /\ Cardinality(s \ {x}) = Cardinality(s) - 1
<1>1. IsFiniteSet(s)
    BY FS_Subset
<1> QED BY <1>1, FS_RemoveElement, FS_CardinalityType

LEMMA SumsExist ==
    ASSUME NEW S, IsFiniteSet(S), NEW f, NEW n \in Nat
    PROVE  \E g : SumsOver(Upto(S, n), f, g)
<1> DEFINE D(m) == Upto(S, m)
           T == {m \in Nat : ~ \E g : SumsOver(D(m), f, g)}
<1> USE DEF SumsOver, Upto
<1>1. SUFFICES ASSUME T # {} PROVE FALSE
    OBVIOUS
<1>2. PICK m \in T : \A k \in T : m <= k
    BY <1>1, LeastNatural
<1>3. CASE m = 0
    <2> DEFINE h == [s \in D(0) |-> 0]
    <2>1. \A s \in D(0) : s = {}
        <3> TAKE s \in D(0)
        <3> QED BY SmallerSubset, FS_EmptySet
    <2>2. h = [s \in D(0) |-> SumOf(f, h, s)]
        BY <2>1 DEF SumOf
    <2> QED BY <1>2, <1>3, <2>2
<1>4. CASE m # 0
    <2>1. m - 1 \in Nat /\ m - 1 \notin T
        <3>1. m \in Nat
            OBVIOUS
        <3> HIDE DEF T
        <3> QED BY <1>2, <1>4, <3>1
    <2>2. PICK g : g = [s \in D(m - 1) |-> SumOf(f, g, s)]
        BY <2>1
    <2> DEFINE h == [s \in D(m) |-> SumOf(f, g, s)]
    <2>3. ASSUME NEW s \in D(m) PROVE SumOf(f, g, s) = SumOf(f, h, s)
        <3>1. CASE s = {}
            BY <3>1 DEF SumOf
        <3>2. CASE s # {}
            <4> DEFINE x == CHOOSE x \in s : TRUE
            <4>1. s \ {x} \in D(m - 1)
                BY <3>2, SmallerSubset
            <4>2. s \ {x} \in D(m)
                BY <3>2, SmallerSubset
            <4>3. h[s \ {x}] = g[s \ {x}]
                BY <2>2, <4>1, <4>2
            <4> QED BY <3>2, <4>3 DEF SumOf
        <3> QED BY <3>1, <3>2
    <2>4. h = [s \in D(m) |-> SumOf(f, h, s)]
        BY <2>3
    <2> QED BY <1>2, <2>4
<1> QED BY <1>3, <1>4

(* The values of a function on a finite set add up to a natural number,     *)
(* whatever the order they are taken in.                                     *)
LEMMA SumNatural ==
    ASSUME NEW S, IsFiniteSet(S), NEW f \in [S -> Nat]
    PROVE  FoldFunction(+, 0, f) \in Nat
<1> DEFINE sum == CHOOSE g : SumsOver(SUBSET S, f, g)
<1>1. FoldFunction(+, 0, f) = sum[S]
    BY DEF FoldFunction, FoldFunctionOnSet, MapThenFoldSet, SumsOver, SumOf
<1>2. sum = [s \in SUBSET S |-> SumOf(f, sum, s)]
    <2>1. PICK n \in Nat : n = Cardinality(S)
        BY FS_CardinalityType
    <2>2. Upto(S, n) = SUBSET S
        BY <2>1, FS_Subset DEF Upto
    <2>3. \E g : SumsOver(SUBSET S, f, g)
        <3>1. \E g : SumsOver(Upto(S, n), f, g)
            BY SumsExist, Zenon
        <3> QED BY <2>2, <3>1
    <2> QED BY <2>3 DEF SumsOver
<1> HIDE DEF sum
<1> DEFINE T == {n \in Nat : \E s \in SUBSET S : Cardinality(s) = n /\ sum[s] \notin Nat}
<1>3. T = {}
    <2>1. SUFFICES ASSUME T # {} PROVE FALSE
        OBVIOUS
    <2>2. PICK n \in T : \A k \in T : n <= k
        BY <2>1, LeastNatural
    <2>3. PICK s \in SUBSET S : Cardinality(s) = n /\ sum[s] \notin Nat
        BY <2>2
    <2>4. s # {}
        BY <1>2, <2>3 DEF SumOf
    <2> DEFINE x == CHOOSE x \in s : TRUE
    <2>5. sum[s] = f[x] + sum[s \ {x}]
        BY <1>2, <2>4 DEF SumOf
    <2>6. x \in S /\ s \ {x} \in SUBSET S /\ Cardinality(s \ {x}) = n - 1
        BY <2>3, <2>4, SmallerSubset
    <2>7. sum[s \ {x}] \in Nat
        <3>1. n \in Nat /\ n - 1 \in Nat
            BY <2>2, <2>3, <2>4, SmallerSubset, <2>6, FS_Subset, FS_CardinalityType
        <3> HIDE DEF x
        <3> QED BY <2>2, <2>6, <3>1
    <2> QED BY <2>3, <2>5, <2>6, <2>7
<1>4. Cardinality(S) \in Nat
    BY FS_CardinalityType
<1> QED BY <1>1, <1>3, <1>4
=============================================================================
