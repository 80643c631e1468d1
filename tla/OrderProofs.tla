---------------------------- MODULE OrderProofs ----------------------------
(***************************************************************************)
(* Sequences that hold every member of a set once: parts of them, and      *)
(* sequences made of them.  Sums of functions on finite sets.              *)
(***************************************************************************)
EXTENDS Positions, SequencesExt, FiniteSetsExt, Functions,
        SequenceTheorems, FiniteSetTheorems, TLAPS

-----------------------------------------------------------------------------
(* Extrema.                                                                *)

\* Min is the least member of a nonempty set of naturals.
LEMMA MinOf ==
    ASSUME NEW T \in SUBSET Nat, T # {}
    PROVE  Min(T) \in T /\ \A j \in T : Min(T) <= j
<1>1. PICK x \in T : \A y \in T : ~ (<<y, x>> \in OpToRel(<, Nat))
  BY WFMin, NatLessThanWellFounded
<1>2. ASSUME NEW y \in T PROVE x <= y
  <2>1. x \in Nat /\ y \in Nat
    OBVIOUS
  <2>2. ~ (<<y, x>> \in OpToRel(<, Nat))
    BY <1>1
  <2>3. ~ (y < x)
    BY <2>1, <2>2, Zenon DEF OpToRel
  <2> QED  BY <2>1, <2>3
<1> QED  BY <1>2 DEF Min

\* The values of a function on a finite set are finitely many.
LEMMA FiniteImage ==
    ASSUME NEW S, IsFiniteSet(S), NEW f, DOMAIN f = S
    PROVE  IsFiniteSet({f[x] : x \in S})
<1> DEFINE T == {f[x] : x \in S}
           g == [x \in S |-> f[x]]
<1>1. g \in Surjection(S, T)
  BY DEF Surjection
<1> HIDE DEF g
<1>2. IsFiniteSet(T)
  BY <1>1, FS_Surjection
<1> QED  BY <1>2

\* A strict order on a finite set has a least member, one that nothing comes before.
LEMMA LeastOf ==
    ASSUME NEW S, IsFiniteSet(S), S # {}, NEW R,
           \A x \in S : <<x, x>> \notin R,
           \A x, y, z \in S : <<x, y>> \in R /\ <<y, z>> \in R => <<x, z>> \in R
    PROVE  \E m \in S : \A y \in S : <<y, m>> \notin R
<1> DEFINE below(x) == {y \in S : <<y, x>> \in R}
           counts == {Cardinality(below(x)) : x \in S}
<1>1. \A x \in S : IsFiniteSet(below(x)) /\ Cardinality(below(x)) \in Nat
  BY FS_Subset, FS_CardinalityType
<1> HIDE DEF below
<1>2. counts \in SUBSET Nat /\ counts # {}
  BY <1>1
<1> DEFINE least == Min(counts)
<1>3. least \in counts /\ \A j \in counts : least <= j
  BY <1>2, MinOf
<1> HIDE DEF least
<1>4. PICK m \in S : \A x \in S : Cardinality(below(m)) <= Cardinality(below(x))
  BY <1>3
<1> USE DEF below
<1>5. ASSUME NEW y \in S, <<y, m>> \in R PROVE FALSE
  <2>1. y \in below(m) /\ y \notin below(y)
    BY <1>5
  <2>2. below(y) \in SUBSET (below(m) \ {y})
    BY <1>5, <2>1
  <2> HIDE DEF below
  <2>3. IsFiniteSet(below(m) \ {y}) /\ Cardinality(below(m) \ {y}) = Cardinality(below(m)) - 1
    BY <1>1, <2>1, FS_RemoveElement
  <2>4. Cardinality(below(y)) <= Cardinality(below(m)) - 1
    BY <2>2, <2>3, FS_Subset
  <2> QED  BY <1>1, <1>4, <2>4
<1> QED  BY <1>5

\* Max is a member of a nonempty set of naturals that has an upper bound.
LEMMA MaxIn ==
    ASSUME NEW n \in Nat, NEW T \in SUBSET (0 .. n), T # {}
    PROVE  Max(T) \in T
<1> DEFINE U == {m \in 0 .. n : \A j \in T : j <= m}
<1>1. U \in SUBSET Nat /\ n \in U
  OBVIOUS
<1>2. PICK u \in U : \A m \in U : u <= m
  BY <1>1, MinOf
<1>3. u \in T
  <2>1. SUFFICES ASSUME u \notin T PROVE FALSE
    OBVIOUS
  <2>2. PICK j \in T : j \in 0 .. n
    OBVIOUS
  <2>3. u \in 0 .. n /\ \A i \in T : i <= u /\ i # u /\ i \in 0 .. n
    BY <1>2, <2>1
  <2>4. u - 1 \in 0 .. n /\ \A i \in T : i <= u - 1
    BY <2>2, <2>3
  <2>5. u - 1 \in U
    BY <2>4
  <2> QED  BY <1>2, <2>3, <2>5
<1>4. \A j \in T : u >= j
  BY <1>2
<1> QED  BY <1>3, <1>4 DEF Max

-----------------------------------------------------------------------------
(* Recursion.                                                              *)

\* What holds at 0, and at i + 1 if at i, holds up to n.
LEMMA Climb ==
    ASSUME NEW n \in Nat, NEW S, 0 \in S, \A i \in 0 .. n : i \in S /\ i < n => i + 1 \in S
    PROVE  \A i \in 0 .. n : i \in S
<1> DEFINE T == {i \in 0 .. n : i \notin S}
<1>1. SUFFICES ASSUME T # {} PROVE FALSE
  OBVIOUS
<1>2. PICK m \in T : \A j \in T : m <= j
  <2>1. T \in SUBSET Nat
    OBVIOUS
  <2> QED  BY <1>1, <2>1, MinOf
<1>3. m \in 0 .. n /\ m # 0 /\ m \notin S
  OBVIOUS
<1>4. m - 1 \in 0 .. n /\ m - 1 < n /\ m - 1 < m /\ (m - 1) + 1 = m
  BY <1>3
<1>5. m - 1 \notin T
  BY <1>2, <1>4
<1> QED  BY <1>3, <1>4, <1>5

\* From base, n steps within X; and what they lead through.
Moves(n, X) == [1 .. n -> [X -> X]]
Runs(n, X, base, step) ==
    {f \in [0 .. n -> X] : f[0] = base /\ \A i \in 1 .. n : f[i] = step[i][f[i - 1]]}

\* A function may be defined by recursion on the naturals up to n.
LEMMA Iterates ==
    ASSUME NEW n \in Nat, NEW X, NEW base \in X, NEW step \in Moves(n, X)
    PROVE  Runs(n, X, base, step) # {}
<1>0. step \in [1 .. n -> [X -> X]]
  BY DEF Moves
<1> DEFINE Upto(m, f) == f[0] = base /\ \A i \in 1 .. m : f[i] = step[i][f[i - 1]]
           S == {m \in 0 .. n : \E f \in [0 .. n -> X] : Upto(m, f)}
<1>1. 0 \in S
  <2>1. [i \in 0 .. n |-> base] \in [0 .. n -> X] /\ Upto(0, [i \in 0 .. n |-> base])
    OBVIOUS
  <2>2. 0 \in 0 .. n
    OBVIOUS
  <2> HIDE DEF Upto
  <2> QED  BY <2>1, <2>2
<1>2. ASSUME NEW m \in 0 .. n, m \in S, m < n PROVE m + 1 \in S
  <2>1. PICK f \in [0 .. n -> X] : Upto(m, f)
    BY <1>2
  <2>2. m + 1 \in 1 .. n /\ m \in 0 .. n /\ f[m] \in X
    BY <1>2
  <2>3. step[m + 1][f[m]] \in X
    BY <1>0, <2>2
  <2> DEFINE g == [f EXCEPT ![m + 1] = step[m + 1][f[m]]]
  <2>4. g \in [0 .. n -> X]
    BY <2>2, <2>3
  <2>5. \A i \in 0 .. m : g[i] = f[i]
    BY <2>2
  <2>6. g[m + 1] = step[m + 1][f[m]]
    BY <2>2
  <2>7. ASSUME NEW i \in 1 .. m + 1 PROVE g[i] = step[i][g[i - 1]]
    <3>1. CASE i \in 1 .. m
      <4>1. i \in 0 .. m /\ i - 1 \in 0 .. m
        BY <2>2, <3>1
      <4> QED  BY <2>1, <2>5, <3>1, <4>1
    <3>2. CASE i = m + 1
      <4>1. i - 1 = m
        BY <2>2, <3>2
      <4> QED  BY <2>2, <2>5, <2>6, <3>2, <4>1
    <3> QED  BY <2>2, <3>1, <3>2
  <2>8. Upto(m + 1, g)
    BY <2>1, <2>2, <2>5, <2>7
  <2>9. m + 1 \in 0 .. n
    BY <2>2
  <2> HIDE DEF Upto, g
  <2> QED  BY <2>4, <2>8, <2>9
<1>3. n \in S
  <2> HIDE DEF S
  <2>1. \A i \in 0 .. n : i \in S
    BY <1>1, <1>2, Climb
  <2> QED  BY <2>1
<1> QED  BY <1>3 DEF Runs

-----------------------------------------------------------------------------
(* Orders.                                                                 *)

\* s holds each member of D once, and nothing else.
Lists(s, D) ==
    /\ s \in Seq(D)
    /\ \A f \in D : \E i \in 1 .. Len(s) : s[i] = f
    /\ \A i, j \in 1 .. Len(s) : s[i] = s[j] => i = j

\* Such an order is as long as the set is large.
LEMMA ListsLength ==
    ASSUME NEW D, NEW s, Lists(s, D)
    PROVE  Range(s) = D /\ Len(s) \in Nat /\ Cardinality(D) = Len(s)
<1>1. s \in Seq(D) /\ Len(s) \in Nat /\ DOMAIN s = 1 .. Len(s)
  BY DEF Lists
<1>2. Range(s) = D
  BY <1>1 DEF Lists, Range
<1>3. s \in Injection(1 .. Len(s), D) /\ s \in Surjection(1 .. Len(s), D)
  BY <1>1 DEF Lists, Injection, IsInjective, Surjection
<1>4. ExistsBijection(1 .. Len(s), D)
  BY <1>3 DEF ExistsBijection, Bijection
<1>5. Cardinality(D) = Len(s)
  BY <1>1, <1>4, FS_CountingElements
<1> QED  BY <1>1, <1>2, <1>5

\* The sequence made of a finite set.
LEMMA SetToSeqOf ==
    ASSUME NEW S, IsFiniteSet(S)
    PROVE  Lists(SetToSeq(S), S) /\ Len(SetToSeq(S)) = Cardinality(S)
<1> DEFINE n == Cardinality(S)
           s == SetToSeq(S)
<1>1. n \in Nat /\ \E f \in [1 .. n -> S] : IsInjective(f)
  BY FS_CardinalityType DEF ExistsBijection, Bijection, Injection
<1>2. s \in [1 .. n -> S] /\ IsInjective(s)
  BY <1>1 DEF SetToSeq
<1> HIDE DEF s
<1>3. IsFiniteSet(1 .. n) /\ Cardinality(1 .. n) = n
  BY <1>1, FS_Interval
<1>4. s \in Surjection(1 .. n, S)
  BY <1>2, <1>3, FS_Injection DEF Injection
<1>5. s \in Seq(S) /\ Len(s) = n
  BY <1>1, <1>2
<1>6. \A f \in S : \E i \in 1 .. n : s[i] = f
  BY <1>4 DEF Surjection
<1> QED  BY <1>2, <1>5, <1>6 DEF Lists, IsInjective, s

\* Two orders that share nothing, one after the other.
LEMMA ConcatLists ==
    ASSUME NEW A, NEW B, NEW s, NEW t, Lists(s, A), Lists(t, B), A \cap B = {}
    PROVE  Lists(s \o t, A \cup B)
<1> DEFINE m == Len(s)
           n == Len(t)
<1>1. s \in Seq(A) /\ t \in Seq(B) /\ m \in Nat /\ n \in Nat
  BY DEF Lists
<1>2. s \in Seq(A \cup B) /\ t \in Seq(A \cup B)
  BY <1>1
<1>3. s \o t \in Seq(A \cup B) /\ Len(s \o t) = m + n
  BY <1>2
<1>4. \A i \in 1 .. m : (s \o t)[i] = s[i] /\ s[i] \in A
  BY <1>1, <1>2
<1>5. \A i \in m + 1 .. m + n : (s \o t)[i] = t[i - m] /\ i - m \in 1 .. n /\ t[i - m] \in B
  BY <1>1, <1>2
<1>6. \A j \in 1 .. n : j + m \in m + 1 .. m + n /\ (s \o t)[j + m] = t[j]
  BY <1>1, <1>5
<1>7. ASSUME NEW f \in A \cup B PROVE \E i \in 1 .. m + n : (s \o t)[i] = f
  <2>1. CASE f \in A
    <3>1. PICK i \in 1 .. m : s[i] = f
      BY <2>1 DEF Lists
    <3> QED  BY <1>1, <1>4, <3>1
  <2>2. CASE f \in B
    <3>1. PICK j \in 1 .. n : t[j] = f
      BY <2>2 DEF Lists
    <3>2. j + m \in 1 .. m + n
      BY <1>1
    <3> QED  BY <1>6, <3>1, <3>2
  <2> QED  BY <2>1, <2>2
<1>8. ASSUME NEW i \in 1 .. m + n, NEW j \in 1 .. m + n, (s \o t)[i] = (s \o t)[j] PROVE i = j
  <2>1. CASE i \in 1 .. m /\ j \in 1 .. m
    BY <1>4, <1>8, <2>1 DEF Lists
  <2>2. CASE i \in m + 1 .. m + n /\ j \in m + 1 .. m + n
    <3>1. t[i - m] = t[j - m] /\ i - m \in 1 .. n /\ j - m \in 1 .. n
      BY <1>5, <1>8, <2>2
    <3>2. i - m = j - m
      BY <3>1 DEF Lists
    <3> QED  BY <1>1, <2>2, <3>2
  <2>3. CASE i \in 1 .. m /\ j \in m + 1 .. m + n
    BY <1>4, <1>5, <1>8, <2>3
  <2>4. CASE i \in m + 1 .. m + n /\ j \in 1 .. m
    BY <1>4, <1>5, <1>8, <2>4
  <2>5. i \in 1 .. m \/ i \in m + 1 .. m + n
    BY <1>1
  <2>6. j \in 1 .. m \/ j \in m + 1 .. m + n
    BY <1>1
  <2> QED  BY <2>1, <2>2, <2>3, <2>4, <2>5, <2>6
<1> QED  BY <1>3, <1>7, <1>8 DEF Lists

\* A part of an order lists what stands in it.
LEMMA PartLists ==
    ASSUME NEW D, NEW s, Lists(s, D), NEW a \in Nat, NEW b \in Nat, 1 <= a, b <= Len(s)
    PROVE  /\ Lists(SubSeq(s, a, b), ToSet(SubSeq(s, a, b)))
           /\ ToSet(SubSeq(s, a, b)) = {s[i] : i \in a .. b}
<1> DEFINE t == SubSeq(s, a, b)
<1>1. s \in Seq(D) /\ Len(s) \in Nat /\ DOMAIN s = 1 .. Len(s)
  BY DEF Lists
<1>2. t \in Seq(D) /\ Len(t) = (IF a <= b THEN b - a + 1 ELSE 0) /\ DOMAIN t = 1 .. Len(t)
  BY <1>1
<1>3. \A k \in 1 .. Len(t) : t[k] = s[a + k - 1] /\ a + k - 1 \in a .. b /\ a + k - 1 \in 1 .. Len(s)
  BY <1>1, <1>2
<1>4. \A i \in a .. b : i - a + 1 \in 1 .. Len(t) /\ a + (i - a + 1) - 1 = i
  BY <1>2
<1> HIDE DEF t
<1>5. ToSet(t) = {t[k] : k \in 1 .. Len(t)}
  BY <1>2 DEF ToSet
<1>6. t \in Seq(ToSet(t))
  <2>1. t = [k \in 1 .. Len(t) |-> t[k]] /\ Len(t) \in Nat
    BY <1>1, <1>2
  <2> QED  BY <1>5, <2>1
<1>7. ASSUME NEW k \in 1 .. Len(t), NEW l \in 1 .. Len(t), t[k] = t[l] PROVE k = l
  <2>1. a + k - 1 = a + l - 1
    BY <1>3, <1>7 DEF Lists
  <2> QED  BY <1>1, <1>2, <2>1
<1>8. ToSet(t) = {s[i] : i \in a .. b}
  <2>1. \A k \in 1 .. Len(t) : t[k] \in {s[i] : i \in a .. b}
    BY <1>3
  <2>2. \A i \in a .. b : s[i] \in {t[k] : k \in 1 .. Len(t)}
    BY <1>3, <1>4
  <2> QED  BY <1>5, <2>1, <2>2
<1> QED  BY <1>5, <1>6, <1>7, <1>8 DEF Lists, t

\* The rank of a member of a finite set of naturals: each from 1 to the size of the
\* set is the rank of one member.
LEMMA RankOf ==
    ASSUME NEW I \in SUBSET Nat, IsFiniteSet(I)
    PROVE  /\ Cardinality(I) \in Nat
           /\ \A i \in I : Cardinality({j \in I : j <= i}) \in 1 .. Cardinality(I)
           /\ \A i, k \in I : Cardinality({j \in I : j <= i}) = Cardinality({j \in I : j <= k}) => i = k
           /\ \A k \in 1 .. Cardinality(I) : \E i \in I : Cardinality({j \in I : j <= i}) = k
<1> DEFINE n == Cardinality(I)
           below(i) == {j \in I : j <= i}
           rank == [i \in I |-> Cardinality(below(i))]
<1>1. n \in Nat
  BY FS_CardinalityType
<1>2. ASSUME NEW i \in I
      PROVE  below(i) \in SUBSET I /\ i \in below(i) /\ IsFiniteSet(below(i))
  <2>1. below(i) \in SUBSET I /\ i \in below(i)
    OBVIOUS
  <2> QED  BY <2>1, FS_Subset
<1>3. ASSUME NEW i \in I PROVE Cardinality(below(i)) \in 1 .. n
  <2>1. Cardinality(below(i)) \in Nat /\ Cardinality(below(i)) # 0
    BY <1>2, FS_CardinalityType, FS_EmptySet
  <2>2. Cardinality(below(i)) <= n
    BY <1>2, FS_Subset
  <2> QED  BY <1>1, <2>1, <2>2
<1>4. ASSUME NEW i \in I, NEW j \in I, i < j PROVE Cardinality(below(i)) # Cardinality(below(j))
  <2>1. below(i) \in SUBSET below(j) /\ j \notin below(i) /\ j \in below(j)
    <3>1. ~ (j <= i) /\ j <= j /\ \A l \in I : l <= i => l <= j
      BY <1>4
    <3> QED  BY <3>1, Zenon
  <2>2. below(i) # below(j)
    BY <2>1
  <2> QED  BY <1>2, <2>1, <2>2, FS_Subset
<1>5. \A i, j \in I : Cardinality(below(i)) = Cardinality(below(j)) => i = j
  <2>1. \A i, j \in I : i < j \/ j < i \/ i = j
    OBVIOUS
  <2> QED  BY <1>4, <2>1
<1>6. IsFiniteSet(1 .. n) /\ Cardinality(1 .. n) = n
  BY <1>1, FS_Interval
<1> HIDE DEF below
<1>7. rank \in Injection(I, 1 .. n)
  BY <1>3, <1>5 DEF Injection, IsInjective
<1>8. rank \in Surjection(I, 1 .. n)
  BY <1>6, <1>7, FS_Injection
<1>9. \A k \in 1 .. n : \E i \in I : Cardinality(below(i)) = k
  BY <1>8 DEF Surjection
<1> QED  BY <1>1, <1>3, <1>5, <1>9 DEF below

\* What is picked is what stands at the positions; and no position twice.
LEMMA PickedAt ==
    ASSUME NEW S, NEW s, NEW I \in SUBSET Nat, IsFiniteSet(I), \A i \in I : s[i] \in S
    PROVE  /\ Picked(s, I) \in Seq(S)
           /\ Len(Picked(s, I)) \in Nat
           /\ \A k \in 1 .. Len(Picked(s, I)) : \E i \in I : Picked(s, I)[k] = s[i]
           /\ \A i \in I : \E k \in 1 .. Len(Picked(s, I)) : Picked(s, I)[k] = s[i]
           /\ (\A i, j \in I : s[i] = s[j] => i = j) =>
                 \A k, l \in 1 .. Len(Picked(s, I)) : Picked(s, I)[k] = Picked(s, I)[l] => k = l
<1> DEFINE n == Cardinality(I)
           below(i) == {j \in I : j <= i}
           at(k) == CHOOSE i \in I : Cardinality(below(i)) = k
           t == Picked(s, I)
<1>2. /\ n \in Nat
      /\ \A i \in I : Cardinality(below(i)) \in 1 .. n
      /\ \A i, k \in I : Cardinality(below(i)) = Cardinality(below(k)) => i = k
      /\ \A k \in 1 .. n : \E i \in I : Cardinality(below(i)) = k
  BY RankOf
<1>3. t = [k \in 1 .. n |-> s[at(k)]]
  BY DEF Picked
<1> HIDE DEF below, n, t
<1>4. \A k \in 1 .. n : at(k) \in I /\ Cardinality(below(at(k))) = k
  BY <1>2
<1> HIDE DEF at
<1>5. t \in Seq(S) /\ Len(t) = n
  <2>1. \A k \in 1 .. n : s[at(k)] \in S
    BY <1>4
  <2> QED  BY <1>2, <1>3, <2>1
<1>6. ASSUME NEW i \in I PROVE \E k \in 1 .. n : at(k) = i
  <2>1. Cardinality(below(i)) \in 1 .. n
    BY <1>2
  <2>2. at(Cardinality(below(i))) = i
    BY <1>2, <1>4, <2>1
  <2> QED  BY <2>1, <2>2
<1>7. /\ \A k \in 1 .. Len(t) : \E i \in I : t[k] = s[i]
      /\ \A i \in I : \E k \in 1 .. Len(t) : t[k] = s[i]
  BY <1>3, <1>4, <1>5, <1>6
<1>8. ASSUME \A i, j \in I : s[i] = s[j] => i = j,
             NEW k \in 1 .. n, NEW l \in 1 .. n, t[k] = t[l]
      PROVE  k = l
  <2>1. at(k) = at(l)
    BY <1>3, <1>4, <1>8
  <2> QED  BY <1>4, <2>1
<1> QED  BY <1>2, <1>5, <1>7, <1>8 DEF t

\* The same for positions of a sequence.
LEMMA PickedOf ==
    ASSUME NEW S, NEW s \in Seq(S), NEW I \in SUBSET (1 .. Len(s))
    PROVE  /\ Picked(s, I) \in Seq(S)
           /\ Len(Picked(s, I)) \in Nat
           /\ \A k \in 1 .. Len(Picked(s, I)) : \E i \in I : Picked(s, I)[k] = s[i]
           /\ \A i \in I : \E k \in 1 .. Len(Picked(s, I)) : Picked(s, I)[k] = s[i]
           /\ (\A i, j \in I : s[i] = s[j] => i = j) =>
                 \A k, l \in 1 .. Len(Picked(s, I)) : Picked(s, I)[k] = Picked(s, I)[l] => k = l
<1>1. Len(s) \in Nat /\ IsFiniteSet(1 .. Len(s))
  BY FS_Interval
<1>2. I \in SUBSET Nat /\ IsFiniteSet(I)
  <2>1. IsFiniteSet(I)
    BY <1>1, FS_Subset
  <2> QED  BY <1>1, <2>1
<1>3. \A i \in I : s[i] \in S
  BY <1>1
<1> QED  BY <1>2, <1>3, PickedAt

\* What is picked, by its places.
LEMMA PickedIndex ==
    ASSUME NEW s, NEW I \in SUBSET Nat, IsFiniteSet(I)
    PROVE  /\ Cardinality(I) \in Nat
           /\ \E at \in [1 .. Cardinality(I) -> I] :
                 /\ Picked(s, I) = [k \in 1 .. Cardinality(I) |-> s[at[k]]]
                 /\ \A k, l \in 1 .. Cardinality(I) : at[k] = at[l] => k = l
                 /\ \A i \in I : \E k \in 1 .. Cardinality(I) : at[k] = i
<1> DEFINE n == Cardinality(I)
           below(i) == {j \in I : j <= i}
           at == [k \in 1 .. n |-> CHOOSE i \in I : Cardinality(below(i)) = k]
<1>2. /\ n \in Nat
      /\ \A i \in I : Cardinality(below(i)) \in 1 .. n
      /\ \A i, k \in I : Cardinality(below(i)) = Cardinality(below(k)) => i = k
      /\ \A k \in 1 .. n : \E i \in I : Cardinality(below(i)) = k
  BY RankOf
<1>3. Picked(s, I) = [k \in 1 .. n |-> s[at[k]]]
  BY DEF Picked
<1> HIDE DEF below, n
<1>4. \A k \in 1 .. n : at[k] \in I /\ Cardinality(below(at[k])) = k
  BY <1>2
<1>5. at \in [1 .. n -> I]
  BY <1>4
<1> HIDE DEF at
<1>6. ASSUME NEW i \in I PROVE \E k \in 1 .. n : at[k] = i
  <2>1. Cardinality(below(i)) \in 1 .. n
    BY <1>2
  <2>2. at[Cardinality(below(i))] = i
    BY <1>2, <1>4, <2>1
  <2> QED  BY <2>1, <2>2
<1>7. \A k, l \in 1 .. n : at[k] = at[l] => k = l
  BY <1>4
<1> QED  BY <1>2, <1>3, <1>5, <1>6, <1>7 DEF n

\* The elements at some positions of an order, in their order.
LEMMA PickedLists ==
    ASSUME NEW D, NEW s, Lists(s, D), NEW I \in SUBSET (1 .. Len(s))
    PROVE  Lists(Picked(s, I), {s[i] : i \in I})
<1> DEFINE E == {s[i] : i \in I}
           t == Picked(s, I)
<1>1. s \in Seq(D) /\ \A i, j \in I : s[i] = s[j] => i = j
  BY DEF Lists
<1>2. /\ t \in Seq(D) /\ Len(t) \in Nat
      /\ \A k \in 1 .. Len(t) : \E i \in I : t[k] = s[i]
      /\ \A i \in I : \E k \in 1 .. Len(t) : t[k] = s[i]
      /\ \A k, l \in 1 .. Len(t) : t[k] = t[l] => k = l
  BY <1>1, PickedOf
<1> HIDE DEF t
<1>3. t \in Seq(E)
  <2>1. t = [k \in 1 .. Len(t) |-> t[k]] /\ \A k \in 1 .. Len(t) : t[k] \in E
    BY <1>2
  <2> QED  BY <1>2, <2>1
<1>4. \A f \in E : \E k \in 1 .. Len(t) : t[k] = f
  BY <1>2
<1> HIDE DEF E
<1>5. Lists(t, E)
  BY <1>2, <1>3, <1>4 DEF Lists
<1> QED  BY <1>5 DEF t, E

\* Some of an order before the rest of it.
LEMMA PartedLists ==
    ASSUME NEW D, NEW s, Lists(s, D), NEW I \in SUBSET (1 .. Len(s)), NEW J,
           J = (1 .. Len(s)) \ I
    PROVE  Lists(Picked(s, J) \o Picked(s, I), D)
<1> DEFINE A == {s[i] : i \in I}
           B == {s[i] : i \in J}
<1>1. s \in Seq(D) /\ Len(s) \in Nat
  BY DEF Lists
<1>2. Lists(Picked(s, I), A) /\ Lists(Picked(s, J), B)
  BY PickedLists
<1>3. A \cap B = {}
  BY DEF Lists
<1>4. Lists(Picked(s, J) \o Picked(s, I), B \cup A)
  <2> HIDE DEF A, B
  <2> QED  BY <1>2, <1>3, ConcatLists
<1>5. B \cup A = D
  <2>1. \A i \in 1 .. Len(s) : s[i] \in D
    BY <1>1
  <2>2. \A f \in D : \E i \in 1 .. Len(s) : s[i] = f
    BY DEF Lists
  <2> QED  BY <2>1, <2>2
<1> QED  BY <1>4, <1>5

\* All positions are the sequence.
LEMMA PickedAll ==
    ASSUME NEW S, NEW s \in Seq(S)
    PROVE  Picked(s, 1 .. Len(s)) = s
<1> DEFINE n == Len(s)
           rank(i) == Cardinality({j \in 1 .. n : j <= i})
           t == Picked(s, 1 .. n)
<1>1. n \in Nat /\ s = [k \in 1 .. n |-> s[k]]
  OBVIOUS
<1> HIDE DEF n
<1>2. Cardinality(1 .. n) = n
  <2>1. 1 \in Int /\ n \in Int /\ n \in Nat
    BY <1>1
  <2>2. Cardinality(1 .. n) = IF 1 > n THEN 0 ELSE n - 1 + 1
    BY <2>1, FS_Interval
  <2> QED  BY <2>1, <2>2
<1>3. \A i \in 1 .. n : rank(i) = i
  <2> TAKE i \in 1 .. n
  <2>1. {j \in 1 .. n : j <= i} = 1 .. i /\ i \in Int /\ 1 \in Int /\ i >= 1
    BY <1>1
  <2>2. Cardinality(1 .. i) = IF 1 > i THEN 0 ELSE i - 1 + 1
    BY <2>1, FS_Interval
  <2>3. Cardinality(1 .. i) = i
    BY <2>1, <2>2
  <2> QED  BY <2>1, <2>3 DEF rank
<1> HIDE DEF rank
<1>4. ASSUME NEW k \in 1 .. n PROVE (CHOOSE i \in 1 .. n : rank(i) = k) = k
  BY <1>3
<1>5. t = [k \in 1 .. n |-> s[CHOOSE i \in 1 .. n : rank(i) = k]]
  BY <1>2 DEF Picked, rank
<1>6. t = [k \in 1 .. n |-> s[k]]
  BY <1>4, <1>5
<1> QED  BY <1>1, <1>6 DEF t, n

-----------------------------------------------------------------------------
(* Parts put one after the other.                                         *)

\* Parts are put one after the other.
LEMMA FlattenSeqGrows ==
    ASSUME NEW S, NEW seqs \in Seq(Seq(S))
    PROVE  \E f \in [0 .. Len(seqs) -> Seq(S)] :
              /\ f[0] = <<>> /\ \A i \in 1 .. Len(seqs) : f[i] = f[i - 1] \o seqs[i]
              /\ FlattenSeq(seqs) = f[Len(seqs)]
<1> DEFINE n == Len(seqs)
           X == Seq(S)
           step == [i \in 1 .. n |-> [s \in X |-> s \o seqs[i]]]
           Rec(f) == f = [i \in 1 .. n |-> IF i = 1 THEN seqs[i] ELSE f[i - 1] \o seqs[i]]
           flat == CHOOSE f : Rec(f)
<1>1. n \in Nat /\ <<>> \in X /\ \A i \in 1 .. n : seqs[i] \in X
  OBVIOUS
<1>2. step \in Moves(n, X)
  BY <1>1 DEF Moves
<1>3. n = 0 => FlattenSeq(seqs) = <<>>
  BY DEF FlattenSeq
<1>4. n # 0 => FlattenSeq(seqs) = flat[n]
  BY DEF FlattenSeq
<1>5. \A x \in X : <<>> \o x = x
  OBVIOUS
<1>6. \A i \in 1 .. n : \A x \in X : step[i][x] = x \o seqs[i]
  OBVIOUS
<1> HIDE DEF n, X, step
<1>7. Runs(n, X, <<>>, step) # {}
  BY <1>1, <1>2, Iterates
<1>8. PICK f \in [0 .. n -> X] : f[0] = <<>> /\ \A i \in 1 .. n : f[i] = step[i][f[i - 1]]
  BY <1>7 DEF Runs
<1>9. ASSUME NEW i \in 1 .. n
      PROVE  f[i] = f[i - 1] \o seqs[i] /\ f[i - 1] \in X /\ i - 1 \in 0 .. n
  <2>1. i - 1 \in 0 .. n
    BY <1>1
  <2> QED  BY <1>6, <1>8, <2>1
<1> DEFINE g == [i \in 1 .. n |-> f[i]]
<1>10. Rec(g)
  <2>1. ASSUME NEW i \in 1 .. n PROVE f[i] = IF i = 1 THEN seqs[i] ELSE g[i - 1] \o seqs[i]
    <3>1. CASE i = 1
      <4>1. f[i - 1] = <<>>
        BY <1>8, <3>1
      <4> QED  BY <1>1, <1>5, <1>9, <3>1, <4>1
    <3>2. CASE i # 1
      <4>1. i - 1 \in 1 .. n
        BY <1>1, <3>2
      <4> QED  BY <1>9, <3>2, <4>1
    <3> QED  BY <3>1, <3>2
  <2> QED  BY <2>1
<1>11. Rec(flat)
  <2> HIDE DEF Rec, g
  <2> QED  BY <1>10
<1> HIDE DEF flat
<1>12. \A i \in 1 .. n : flat[i] = IF i = 1 THEN seqs[i] ELSE flat[i - 1] \o seqs[i]
  BY <1>11
<1> DEFINE T == {i \in 0 .. n : i = 0 \/ flat[i] = f[i]}
<1>13. 0 \in T
  BY <1>1
<1>14. ASSUME NEW m \in 0 .. n, m \in T, m < n PROVE m + 1 \in T
  <2>1. m + 1 \in 1 .. n /\ m + 1 \in 0 .. n /\ (m + 1) - 1 = m
    BY <1>1, <1>14
  <2>2. CASE m = 0
    <3>1. m + 1 = 1
      BY <2>2
    <3>2. flat[m + 1] = seqs[m + 1]
      BY <1>12, <2>1, <3>1
    <3>3. f[m + 1] = seqs[m + 1]
      BY <1>1, <1>5, <1>8, <1>9, <2>1, <2>2
    <3> QED  BY <2>1, <3>2, <3>3
  <2>3. CASE m # 0
    <3>1. m + 1 # 1
      BY <1>1, <2>3
    <3>2. flat[m + 1] = flat[m] \o seqs[m + 1]
      BY <1>12, <2>1, <3>1
    <3>3. f[m + 1] = f[m] \o seqs[m + 1]
      BY <1>9, <2>1
    <3> QED  BY <1>14, <2>1, <2>3, <3>2, <3>3
  <2> QED  BY <2>2, <2>3
<1>15. FlattenSeq(seqs) = f[n]
  <2>1. \A i \in 0 .. n : i \in T
    <3> HIDE DEF T
    <3> QED  BY <1>1, <1>13, <1>14, Climb
  <2>2. n \in 0 .. n
    BY <1>1
  <2> QED  BY <1>3, <1>4, <1>8, <2>1, <2>2
<1>16. \A i \in 1 .. n : f[i] = f[i - 1] \o seqs[i]
  BY <1>9
<1> QED  BY <1>8, <1>15, <1>16 DEF n, X

\* s holds what the first m of the parts hold.
Holds(s, seqs, m) ==
    \A b \in 1 .. m : \A o \in DOMAIN seqs[b] : \E i \in DOMAIN s : s[i] = seqs[b][o]

\* An element of s is one of the first m parts, and what is before it there is before
\* it in s.
Follows(s, i, seqs, b) ==
    \E o \in DOMAIN seqs[b] : /\ s[i] = seqs[b][o]
                              /\ \A p \in 1 .. o - 1 : \E j \in 1 .. i - 1 : s[j] = seqs[b][p]
InOrderOf(s, seqs, m) == \A i \in DOMAIN s : \E b \in 1 .. m : Follows(s, i, seqs, b)

\* One more part.
LEMMA PartAdded ==
    ASSUME NEW S, NEW seqs \in Seq(Seq(S)), NEW m \in Nat, m < Len(seqs),
           NEW r \in Seq(S), Holds(r, seqs, m), InOrderOf(r, seqs, m)
    PROVE  /\ r \o seqs[m + 1] \in Seq(S)
           /\ Holds(r \o seqs[m + 1], seqs, m + 1)
           /\ InOrderOf(r \o seqs[m + 1], seqs, m + 1)
<1> DEFINE k == m + 1
           t == seqs[k]
           s == r \o t
<1>1. k \in 1 .. Len(seqs) /\ t \in Seq(S)
  OBVIOUS
<1>2. k \in 1 .. k /\ \A b \in 1 .. k : b = k \/ b \in 1 .. m
  OBVIOUS
<1>3. \A b \in 1 .. m : b \in 1 .. k
  OBVIOUS
<1> HIDE DEF k, t
<1>4. Len(r) \in Nat /\ Len(t) \in Nat /\ DOMAIN r = 1 .. Len(r) /\ DOMAIN t = 1 .. Len(t)
  BY <1>1
<1>5. s \in Seq(S) /\ Len(s) = Len(r) + Len(t) /\ DOMAIN s = 1 .. Len(s)
  BY <1>1, <1>4
<1>6. \A i \in 1 .. Len(r) : s[i] = r[i] /\ i \in DOMAIN s
  BY <1>1, <1>4, <1>5
<1>7. \A o \in 1 .. Len(t) : s[Len(r) + o] = t[o] /\ Len(r) + o \in DOMAIN s
  BY <1>1, <1>4, <1>5
<1> HIDE DEF s
<1>8. Holds(s, seqs, k)
  <2> SUFFICES ASSUME NEW b \in 1 .. k, NEW o \in DOMAIN seqs[b]
               PROVE  \E i \in DOMAIN s : s[i] = seqs[b][o]
    BY DEF Holds
  <2>1. CASE b = k
    BY <1>4, <1>7, <2>1 DEF t
  <2>2. CASE b \in 1 .. m
    <3>1. PICK i \in DOMAIN r : r[i] = seqs[b][o]
      BY <2>2 DEF Holds
    <3> QED  BY <1>4, <1>6, <3>1
  <2> QED  BY <1>2, <2>1, <2>2
<1>9. InOrderOf(s, seqs, k)
  <2> SUFFICES ASSUME NEW i \in DOMAIN s
               PROVE  \E b \in 1 .. k : Follows(s, i, seqs, b)
    BY DEF InOrderOf
  <2>1. CASE i \in 1 .. Len(r)
    <3>1. PICK b \in 1 .. m : Follows(r, i, seqs, b)
      BY <1>4, <2>1 DEF InOrderOf
    <3>2. \A j \in 1 .. i - 1 : s[j] = r[j]
      BY <1>4, <1>6, <2>1
    <3>3. s[i] = r[i]
      BY <1>6, <2>1
    <3>4. Follows(s, i, seqs, b)
      BY <3>1, <3>2, <3>3 DEF Follows
    <3> QED  BY <1>3, <3>4
  <2>2. CASE i \notin 1 .. Len(r)
    <3> DEFINE o == i - Len(r)
    <3>1. o \in 1 .. Len(t) /\ Len(r) + o = i
      BY <1>4, <1>5, <2>2
    <3>2. ASSUME NEW p \in 1 .. o - 1
          PROVE  \E j \in 1 .. i - 1 : s[j] = t[p]
      <4>1. p \in 1 .. Len(t) /\ Len(r) + p \in 1 .. i - 1
        BY <1>4, <3>1
      <4> QED  BY <1>7, <4>1
    <3>3. o \in DOMAIN t /\ s[i] = t[o]
      BY <1>4, <1>7, <3>1
    <3> HIDE DEF o
    <3>4. Follows(s, i, seqs, k)
      BY <3>2, <3>3 DEF Follows, t
    <3> QED  BY <1>2, <3>4
  <2> QED  BY <2>1, <2>2
<1> QED  BY <1>5, <1>8, <1>9 DEF s, t, k

\* The elements of the whole are those of the parts, and what is before an element in
\* its part is before it in the whole.
LEMMA FlattenSeqOf ==
    ASSUME NEW S, NEW seqs \in Seq(Seq(S))
    PROVE  /\ FlattenSeq(seqs) \in Seq(S)
           /\ Holds(FlattenSeq(seqs), seqs, Len(seqs))
           /\ InOrderOf(FlattenSeq(seqs), seqs, Len(seqs))
<1> DEFINE n == Len(seqs)
           Good(s, m) == s \in Seq(S) /\ Holds(s, seqs, m) /\ InOrderOf(s, seqs, m)
<1>1. n \in Nat
  OBVIOUS
<1>2. PICK f \in [0 .. n -> Seq(S)] :
         /\ f[0] = <<>> /\ \A i \in 1 .. n : f[i] = f[i - 1] \o seqs[i]
         /\ FlattenSeq(seqs) = f[n]
  BY FlattenSeqGrows
<1> DEFINE T == {m \in 0 .. n : Good(f[m], m)}
<1>3. 0 \in T
  <2>1. Good(<<>>, 0)
    BY DEF Holds, InOrderOf
  <2> HIDE DEF Good
  <2> QED  BY <1>1, <1>2, <2>1
<1>4. ASSUME NEW m \in 0 .. n, m \in T, m < n PROVE m + 1 \in T
  <2>1. m \in Nat /\ m + 1 \in 1 .. n /\ m + 1 \in 0 .. n /\ (m + 1) - 1 = m
    BY <1>1, <1>4
  <2>2. f[m + 1] = f[m] \o seqs[m + 1]
    BY <1>2, <2>1
  <2>3. Good(f[m] \o seqs[m + 1], m + 1)
    BY <1>4, <2>1, PartAdded
  <2> HIDE DEF Good
  <2> QED  BY <2>1, <2>2, <2>3
<1>5. n \in T
  <2> HIDE DEF T
  <2>1. \A i \in 0 .. n : i \in T
    BY <1>1, <1>3, <1>4, Climb
  <2> QED  BY <1>1, <2>1
<1> QED  BY <1>2, <1>5

-----------------------------------------------------------------------------
(* Sequences, whatever they hold.                                          *)

\* What a sequence is, whatever it holds.
Sequence(s) == s \in Seq(ToSet(s))

\* A sequence over some set is one.
LEMMA SequenceOf ==
    ASSUME NEW s, NEW S, s \in Seq(S)
    PROVE  Sequence(s)
<1>1. Len(s) \in Nat /\ s = [i \in 1 .. Len(s) |-> s[i]] /\ DOMAIN s = 1 .. Len(s)
  OBVIOUS
<1>2. \A i \in 1 .. Len(s) : s[i] \in ToSet(s)
  BY <1>1 DEF ToSet
<1> QED  BY <1>1, <1>2 DEF Sequence

\* So is the empty one.
LEMMA EmptySequence == Sequence(<<>>) /\ DOMAIN <<>> = {}
<1>1. <<>> \in Seq(ToSet(<<>>))
  OBVIOUS
<1>2. DOMAIN <<>> = {}
  OBVIOUS
<1> QED  BY <1>1, <1>2 DEF Sequence

\* Its places are the first numbers.
LEMMA DomainSequence ==
    ASSUME NEW s, Sequence(s)
    PROVE  Len(s) \in Nat /\ DOMAIN s = 1 .. Len(s)
BY DEF Sequence

\* A function on the first numbers is a sequence.
LEMMA FunctionSequence ==
    ASSUME NEW n \in Nat, NEW s, DOMAIN s = 1 .. n, s = [i \in 1 .. n |-> s[i]]
    PROVE  Sequence(s) /\ Len(s) = n
<1>1. \A i \in 1 .. n : s[i] \in ToSet(s)
  BY DEF ToSet
<1> QED  BY <1>1 DEF Sequence

\* A function on the first numbers is a sequence of its values.
LEMMA FunctionInto ==
    ASSUME NEW S, NEW n \in Nat, NEW s, DOMAIN s = 1 .. n, s = [i \in 1 .. n |-> s[i]],
           \A i \in 1 .. n : s[i] \in S
    PROVE  s \in Seq(S) /\ Len(s) = n
OBVIOUS

\* A sequence with one more element.
LEMMA AppendSequence ==
    ASSUME NEW s, Sequence(s), NEW x
    PROVE  /\ Sequence(Append(s, x)) /\ Len(Append(s, x)) = Len(s) + 1 /\ Len(s) \in Nat
           /\ \A o \in 1 .. Len(s) : Append(s, x)[o] = s[o]
           /\ Append(s, x)[Len(s) + 1] = x
<1> DEFINE S == ToSet(s) \cup {x}
<1>1. s \in Seq(ToSet(s)) /\ Len(s) \in Nat
  BY DEF Sequence
<1>2. s \in Seq(S)
  BY <1>1, SeqMonotonic
<1>3. x \in S
  OBVIOUS
<1> HIDE DEF S
<1>4. Append(s, x) \in Seq(S) /\ Len(Append(s, x)) = Len(s) + 1
  BY <1>2, <1>3
<1>5. Sequence(Append(s, x))
  BY <1>4, SequenceOf
<1> QED  BY <1>1, <1>2, <1>3, <1>4, <1>5

\* One sequence and another after it.
Joins(w, s, u) ==
    /\ Len(w) = Len(s) + Len(u)
    /\ \A i \in 1 .. Len(s) : w[i] = s[i]
    /\ \A i \in 1 .. Len(u) : w[Len(s) + i] = u[i]
    /\ ToSet(w) = ToSet(s) \cup ToSet(u)

\* That it holds them both, and in their order.
LEMMA Joined ==
    ASSUME NEW S, NEW s \in Seq(S), NEW u \in Seq(S), NEW w, w = s \o u
    PROVE  w \in Seq(S) /\ Joins(w, s, u)
<1>1. /\ s \o u \in Seq(S) /\ Len(s) \in Nat /\ Len(u) \in Nat
      /\ Len(s \o u) = Len(s) + Len(u)
      /\ DOMAIN (s \o u) = 1 .. Len(s) + Len(u) /\ DOMAIN s = 1 .. Len(s) /\ DOMAIN u = 1 .. Len(u)
      /\ \A i \in 1 .. Len(s) : (s \o u)[i] = s[i]
      /\ \A i \in 1 .. Len(u) : (s \o u)[Len(s) + i] = u[i]
  OBVIOUS
<1>2. ASSUME NEW i \in 1 .. Len(s) + Len(u)
      PROVE  i \in 1 .. Len(s) \/ \E j \in 1 .. Len(u) : i = Len(s) + j
  <2>1. CASE i \in 1 .. Len(s)
    BY <2>1
  <2>2. CASE i \notin 1 .. Len(s)
    <3>1. i - Len(s) \in 1 .. Len(u) /\ i = Len(s) + (i - Len(s))
      BY <1>1, <2>2
    <3> QED  BY <3>1
  <2> QED  BY <2>1, <2>2
<1>3. /\ \A i \in 1 .. Len(s) : i \in 1 .. Len(s) + Len(u)
      /\ \A j \in 1 .. Len(u) : Len(s) + j \in 1 .. Len(s) + Len(u)
  BY <1>1
<1>4. ToSet(s \o u) \subseteq ToSet(s) \cup ToSet(u)
  BY <1>1, <1>2 DEF ToSet
<1>5. ToSet(s) \subseteq ToSet(s \o u) /\ ToSet(u) \subseteq ToSet(s \o u)
  BY <1>1, <1>3 DEF ToSet
<1> QED  BY <1>1, <1>4, <1>5 DEF Joins

\* Sequences one after the other are a sequence of what they hold, in their order.
LEMMA FlattenSequence ==
    ASSUME NEW seqs, Sequence(seqs), \A i \in DOMAIN seqs : Sequence(seqs[i])
    PROVE  /\ Sequence(FlattenSeq(seqs))
           /\ Holds(FlattenSeq(seqs), seqs, Len(seqs))
           /\ InOrderOf(FlattenSeq(seqs), seqs, Len(seqs))
<1> DEFINE S == UNION {ToSet(seqs[i]) : i \in DOMAIN seqs}
           all == FlattenSeq(seqs)
<1>1. Len(seqs) \in Nat /\ DOMAIN seqs = 1 .. Len(seqs) /\ seqs = [i \in 1 .. Len(seqs) |-> seqs[i]]
  BY DEF Sequence
<1>2. ASSUME NEW i \in DOMAIN seqs PROVE seqs[i] \in Seq(S)
  <2>1. seqs[i] \in Seq(ToSet(seqs[i])) /\ ToSet(seqs[i]) \subseteq S
    BY DEF Sequence
  <2> HIDE DEF S
  <2> QED  BY <2>1, SeqMonotonic
<1> HIDE DEF S
<1>3. seqs \in Seq(Seq(S))
  BY <1>1, <1>2
<1>4. all \in Seq(S) /\ Holds(all, seqs, Len(seqs)) /\ InOrderOf(all, seqs, Len(seqs))
  BY <1>3, FlattenSeqOf
<1> HIDE DEF all
<1>5. Sequence(all)
  BY <1>4, SequenceOf
<1> QED  BY <1>4, <1>5 DEF all

-----------------------------------------------------------------------------
(* Parts put together.                                                     *)

\* Sequences with the same elements are the same.
LEMMA SameSeq ==
    ASSUME NEW S, NEW s \in Seq(S), NEW t \in Seq(S), Len(s) = Len(t),
           \A i \in 1 .. Len(s) : s[i] = t[i]
    PROVE  s = t
  OBVIOUS

\* What a concatenation holds.
LEMMA JoinOf ==
    ASSUME NEW S, NEW s \in Seq(S), NEW t \in Seq(S)
    PROVE  /\ s \o t \in Seq(S) /\ Len(s \o t) = Len(s) + Len(t)
           /\ \A i \in 1 .. Len(s) : (s \o t)[i] = s[i]
           /\ \A i \in 1 .. Len(t) : (s \o t)[Len(s) + i] = t[i]
  OBVIOUS

\* One element is a part of the sequence.
LEMMA SubSeqOne ==
    ASSUME NEW S, NEW m \in Seq(S), NEW k \in 1 .. Len(m)
    PROVE  SubSeq(m, k, k) = <<m[k]>>
<1> DEFINE s == SubSeq(m, k, k)
           t == <<m[k]>>
<1>1. k \in Int /\ k \in Nat /\ k - k + 1 = 1 /\ m[k] \in S
  OBVIOUS
<1>2. s \in Seq(S) /\ Len(s) = 1 /\ s[1] = m[k]
  <2>1. \A i \in k .. k : i \in 1 .. Len(m)
    BY <1>1
  <2>2. /\ s \in Seq(S)
        /\ Len(s) = IF k <= k THEN k - k + 1 ELSE 0
        /\ \A i \in 1 .. k - k + 1 : s[i] = m[k + i - 1]
    BY <1>1, <2>1, SubSeqProperties
  <2>3. 1 \in 1 .. k - k + 1 /\ k + 1 - 1 = k
    BY <1>1
  <2> QED  BY <1>1, <2>2, <2>3
<1>3. t \in Seq(S) /\ Len(t) = 1 /\ t[1] = m[k]
  BY <1>1
<1> HIDE DEF s, t
<1>4. s = t
  BY <1>2, <1>3
<1> QED  BY <1>4 DEF s, t

\* One part is what it is.
LEMMA FlattenSeqOne ==
    ASSUME NEW S, NEW s \in Seq(S)
    PROVE  FlattenSeq(<<s>>) = s
<1> DEFINE seqs == <<s>>
<1>1. seqs \in Seq(Seq(S)) /\ Len(seqs) = 1 /\ seqs[1] = s
  OBVIOUS
<1> HIDE DEF seqs
<1>2. PICK f \in [0 .. Len(seqs) -> Seq(S)] :
         /\ f[0] = <<>> /\ \A i \in 1 .. Len(seqs) : f[i] = f[i - 1] \o seqs[i]
         /\ FlattenSeq(seqs) = f[Len(seqs)]
  BY <1>1, FlattenSeqGrows
<1>3. f[1] = f[1 - 1] \o seqs[1] /\ f[1 - 1] = <<>>
  BY <1>1, <1>2
<1>4. <<>> \o s = s
  OBVIOUS
<1> QED  BY <1>1, <1>2, <1>3, <1>4 DEF seqs

\* Parts and more parts are put together one after the other.
LEMMA FlattenSeqJoin ==
    ASSUME NEW S, NEW seqs \in Seq(Seq(S)), NEW more \in Seq(Seq(S))
    PROVE  FlattenSeq(seqs \o more) = FlattenSeq(seqs) \o FlattenSeq(more)
<1> DEFINE n == Len(seqs)
           m == Len(more)
           all == seqs \o more
<1>1. /\ n \in Nat /\ m \in Nat /\ all \in Seq(Seq(S)) /\ Len(all) = n + m
  OBVIOUS
<1>a. /\ \A i \in 1 .. n : all[i] = seqs[i] /\ seqs[i] \in Seq(S)
      /\ \A i \in 1 .. m : all[n + i] = more[i] /\ more[i] \in Seq(S)
  OBVIOUS
<1>2. PICK f \in [0 .. n -> Seq(S)] :
         f[0] = <<>> /\ (\A i \in 1 .. n : f[i] = f[i - 1] \o seqs[i]) /\ FlattenSeq(seqs) = f[n]
  BY FlattenSeqGrows
<1>3. PICK g \in [0 .. m -> Seq(S)] :
         g[0] = <<>> /\ (\A i \in 1 .. m : g[i] = g[i - 1] \o more[i]) /\ FlattenSeq(more) = g[m]
  BY FlattenSeqGrows
<1> HIDE DEF n, m, all
<1>4. PICK h \in [0 .. n + m -> Seq(S)] :
         h[0] = <<>> /\ (\A i \in 1 .. n + m : h[i] = h[i - 1] \o all[i]) /\ FlattenSeq(all) = h[n + m]
  <2>1. PICK h \in [0 .. Len(all) -> Seq(S)] :
           h[0] = <<>> /\ (\A i \in 1 .. Len(all) : h[i] = h[i - 1] \o all[i]) /\ FlattenSeq(all) = h[Len(all)]
    BY <1>1, FlattenSeqGrows
  <2> QED  BY <1>1, <2>1
<1> DEFINE T == {i \in 0 .. n : h[i] = f[i]}
<1>5. 0 \in T
  BY <1>1, <1>2, <1>4
<1>6. ASSUME NEW i \in 0 .. n, i \in T, i < n PROVE i + 1 \in T
  <2>1. i + 1 \in 1 .. n /\ i + 1 \in 1 .. n + m /\ i + 1 \in 0 .. n /\ (i + 1) - 1 = i
    BY <1>1, <1>6
  <2>2. h[i + 1] = h[i] \o all[i + 1] /\ f[i + 1] = f[i] \o seqs[i + 1] /\ all[i + 1] = seqs[i + 1]
    BY <1>2, <1>4, <1>a, <2>1
  <2> QED  BY <1>6, <2>1, <2>2
<1>7. h[n] = f[n]
  <2>1. \A i \in 0 .. n : i \in T
    <3> HIDE DEF T
    <3> QED  BY <1>1, <1>5, <1>6, Climb
  <2> QED  BY <1>1, <2>1
<1> HIDE DEF T
<1>8. f[n] \in Seq(S) /\ \A j \in 0 .. m : g[j] \in Seq(S)
  BY <1>1, <1>2, <1>3
<1> DEFINE U == {j \in 0 .. m : h[n + j] = f[n] \o g[j]}
<1>9. 0 \in U
  <2>1. f[n] \o <<>> = f[n]
    BY <1>8
  <2>2. n + 0 = n /\ 0 \in 0 .. m
    BY <1>1
  <2>3. h[n + 0] = f[n] \o g[0]
    BY <1>3, <1>7, <2>1, <2>2
  <2> QED  BY <2>2, <2>3
<1>10. ASSUME NEW j \in 0 .. m, j \in U, j < m PROVE j + 1 \in U
  <2>1. /\ j + 1 \in 1 .. m /\ j + 1 \in 0 .. m /\ n + (j + 1) \in 1 .. n + m
        /\ (j + 1) - 1 = j /\ (n + (j + 1)) - 1 = n + j
    BY <1>1, <1>10
  <2>2. h[n + (j + 1)] = h[n + j] \o all[n + (j + 1)] /\ g[j + 1] = g[j] \o more[j + 1]
    BY <1>3, <1>4, <2>1
  <2>3. all[n + (j + 1)] = more[j + 1] /\ more[j + 1] \in Seq(S)
    BY <1>a, <2>1
  <2> DEFINE x == f[n]
             y == g[j]
             z == more[j + 1]
  <2>4. x \in Seq(S) /\ y \in Seq(S) /\ z \in Seq(S)
    BY <1>8, <2>1, <2>3
  <2> HIDE DEF x, y, z
  <2>5. (x \o y) \o z = x \o (y \o z)
    BY <2>4, ConcatAssociative
  <2>6. h[n + j] = x \o y
    BY <1>10 DEF x, y
  <2> QED  BY <2>1, <2>2, <2>3, <2>5, <2>6 DEF x, y, z
<1>11. h[n + m] = f[n] \o g[m]
  <2>1. \A j \in 0 .. m : j \in U
    <3> HIDE DEF U
    <3> QED  BY <1>1, <1>9, <1>10, Climb
  <2>2. m \in 0 .. m
    BY <1>1
  <2> QED  BY <2>1, <2>2
<1> QED  BY <1>2, <1>3, <1>4, <1>11 DEF all

\* One part more.
LEMMA FlattenSeqAppend ==
    ASSUME NEW S, NEW seqs \in Seq(Seq(S)), NEW s \in Seq(S)
    PROVE  FlattenSeq(Append(seqs, s)) = FlattenSeq(seqs) \o s
<1>1. <<s>> \in Seq(Seq(S)) /\ Append(seqs, s) = seqs \o <<s>>
  OBVIOUS
<1>2. FlattenSeq(seqs \o <<s>>) = FlattenSeq(seqs) \o FlattenSeq(<<s>>)
  BY <1>1, FlattenSeqJoin
<1>3. FlattenSeq(<<s>>) = s
  BY FlattenSeqOne
<1> QED  BY <1>1, <1>2, <1>3

-----------------------------------------------------------------------------
(* Sums.                                                                   *)

\* g sums w over the parts of S, as the sum of a function is defined.
Adds(g, w, S) ==
    \A s \in SUBSET S :
        g[s] = IF s = {} THEN 0 ELSE LET x == CHOOSE x \in s : TRUE IN w[x] + g[s \ {x}]

\* It is the sum.
LEMMA SumIs ==
    ASSUME NEW S, IsFiniteSet(S), NEW w, NEW g, Adds(g, w, S)
    PROVE  SumFunctionOnSet(w, S) = g[S]
<1> DEFINE Value(h, s) == IF s = {} THEN 0 ELSE LET x == CHOOSE x \in s : TRUE IN w[x] + h[s \ {x}]
           Rec(h) == h = [s \in SUBSET S |-> Value(h, s)]
           iter == CHOOSE h : Rec(h)
           n == Cardinality(S)
<1>1. SumFunctionOnSet(w, S) = iter[S]
  BY DEF SumFunctionOnSet, FoldFunctionOnSet, MapThenFoldSet
<1>2. ASSUME NEW s \in SUBSET S, s # {} PROVE s \ {CHOOSE x \in s : TRUE} \in SUBSET S
  OBVIOUS
<1>3. Rec([s \in SUBSET S |-> g[s]])
  <2> DEFINE G == [s \in SUBSET S |-> g[s]]
  <2>1. ASSUME NEW s \in SUBSET S PROVE G[s] = Value(G, s)
    <3>1. g[s] = Value(g, s)
      BY DEF Adds
    <3>2. s # {} => G[s \ {CHOOSE x \in s : TRUE}] = g[s \ {CHOOSE x \in s : TRUE}]
      BY <1>2
    <3> QED  BY <3>1, <3>2
  <2> HIDE DEF Value
  <2> QED  BY <2>1
<1>4. Rec(iter)
  <2> HIDE DEF Rec
  <2> QED  BY <1>3
<1> HIDE DEF iter
<1>5. \A s \in SUBSET S : iter[s] = Value(iter, s)
  <2> HIDE DEF Value
  <2> QED  BY <1>4
<1> HIDE DEF Rec
<1>6. n \in Nat /\ \A s \in SUBSET S : IsFiniteSet(s) /\ Cardinality(s) \in 0 .. n
  BY FS_CardinalityType, FS_Subset
<1> DEFINE T == {m \in 0 .. n : \A s \in SUBSET S : Cardinality(s) = m => iter[s] = g[s]}
<1>7. 0 \in T
  <2>1. ASSUME NEW s \in SUBSET S, Cardinality(s) = 0 PROVE iter[s] = g[s]
    <3>1. s = {}
      BY <1>6, <2>1, FS_EmptySet
    <3> QED  BY <1>5, <3>1 DEF Adds
  <2> QED  BY <1>6, <2>1
<1>8. \A m \in 0 .. n : m \in T /\ m < n => m + 1 \in T
  <2> TAKE m \in 0 .. n
  <2> HAVE m \in T /\ m < n
  <2>1. ASSUME NEW s \in SUBSET S, Cardinality(s) = m + 1 PROVE iter[s] = g[s]
    <3> DEFINE x == CHOOSE x \in s : TRUE
    <3>1. s # {}
      BY <1>6, <2>1, FS_EmptySet
    <3>2. x \in s
      BY <3>1
    <3>3. iter[s] = w[x] + iter[s \ {x}] /\ g[s] = w[x] + g[s \ {x}]
      BY <1>5, <3>1 DEF Adds
    <3> HIDE DEF x
    <3>4. Cardinality(s \ {x}) = m /\ s \ {x} \in SUBSET S
      <4> HIDE DEF T, n
      <4>1. IsFiniteSet(s) /\ m \in Nat
        BY <1>6
      <4>2. Cardinality(s \ {x}) = Cardinality(s) - 1
        BY <3>2, <4>1, FS_RemoveElement
      <4> QED  BY <2>1, <4>1, <4>2
    <3> QED  BY <3>3, <3>4
  <2>2. m + 1 \in 0 .. n
    BY <1>6
  <2> QED  BY <2>1, <2>2
<1>9. n \in T
  <2> HIDE DEF T
  <2>1. \A i \in 0 .. n : i \in T
    BY <1>6, <1>7, <1>8, Climb
  <2> QED  BY <1>6, <2>1
<1> QED  BY <1>1, <1>9

\* Some function has the sums of all parts of a finite set.
Totals(T, w, U) ==
    /\ T \in [SUBSET U -> Nat] /\ T[{}] = 0
    /\ \A s \in SUBSET U : \A x \in s : T[s] = w[x] + T[s \ {x}]

\* There are such totals.
LEMMA TotalsExist ==
    ASSUME NEW U, IsFiniteSet(U), NEW w, \A x \in U : w[x] \in Nat
    PROVE  \E T : Totals(T, w, U)
<1> DEFINE e == SetToSeq(U)
           n == Len(e)
           Value(s, i) == IF e[i] \in s THEN w[e[i]] ELSE 0
           step(s) == [i \in 1 .. n |-> [sum \in Nat |-> sum + Value(s, i)]]
           prefix(s) == CHOOSE p \in Runs(n, Nat, 0, step(s)) : TRUE
           T == [s \in SUBSET U |-> prefix(s)[n]]
<1>1. Lists(e, U)
  BY SetToSeqOf
<1> HIDE DEF e
<1>2. n \in Nat /\ (\A i \in 1 .. n : e[i] \in U) /\ (\A x \in U : \E i \in 1 .. n : e[i] = x)
      /\ (\A i, j \in 1 .. n : e[i] = e[j] => i = j)
  BY <1>1 DEF Lists
<1> HIDE DEF n
<1>3. \A s \in SUBSET U : \A i \in 1 .. n : Value(s, i) \in Nat
  BY <1>2
<1>4. ASSUME NEW s \in SUBSET U
      PROVE  /\ prefix(s) \in [0 .. n -> Nat] /\ prefix(s)[0] = 0
             /\ \A i \in 1 .. n : prefix(s)[i] = prefix(s)[i - 1] + Value(s, i)
  <2> HIDE DEF Value
  <2>1. step(s) \in Moves(n, Nat)
    BY <1>3 DEF Moves
  <2>2. \A i \in 1 .. n : \A sum \in Nat : step(s)[i][sum] = sum + Value(s, i)
    OBVIOUS
  <2> HIDE DEF step
  <2>3. prefix(s) \in Runs(n, Nat, 0, step(s))
    BY <1>2, <2>1, Iterates
  <2> HIDE DEF prefix
  <2>4. /\ prefix(s) \in [0 .. n -> Nat] /\ prefix(s)[0] = 0
        /\ \A i \in 1 .. n : prefix(s)[i] = step(s)[i][prefix(s)[i - 1]]
    BY <2>3 DEF Runs
  <2>5. \A i \in 1 .. n : i - 1 \in 0 .. n
    BY <1>2
  <2> QED  BY <2>2, <2>4, <2>5
<1> HIDE DEF prefix, step
<1>5. T \in [SUBSET U -> Nat]
  <2>1. \A s \in SUBSET U : prefix(s)[n] \in Nat
    BY <1>2, <1>4
  <2> QED  BY <2>1
<1>6. T[{}] = 0
  <2> DEFINE p == prefix({})
             Z == {i \in 0 .. n : p[i] = 0}
  <2>1. /\ p \in [0 .. n -> Nat] /\ p[0] = 0
        /\ \A i \in 1 .. n : p[i] = p[i - 1] + Value({}, i)
    BY <1>4
  <2> HIDE DEF p
  <2>2. 0 \in Z
    BY <1>2, <2>1
  <2>3. \A i \in 0 .. n : i \in Z /\ i < n => i + 1 \in Z
    <3> TAKE i \in 0 .. n
    <3> HAVE i \in Z /\ i < n
    <3>1. i + 1 \in 1 .. n /\ i + 1 \in 0 .. n /\ (i + 1) - 1 = i
      BY <1>2
    <3> QED  BY <2>1, <3>1
  <2>4. n \in Z
    <3> HIDE DEF Z
    <3>1. \A i \in 0 .. n : i \in Z
      BY <1>2, <2>2, <2>3, Climb
    <3> QED  BY <1>2, <3>1
  <2> QED  BY <2>4 DEF p
<1>7. ASSUME NEW s \in SUBSET U, NEW x \in s PROVE T[s] = w[x] + T[s \ {x}]
  <2> DEFINE r == s \ {x}
             p == prefix(s)
             q == prefix(r)
  <2>1. r \in SUBSET U
    OBVIOUS
  <2>2. /\ p \in [0 .. n -> Nat] /\ p[0] = 0
        /\ \A i \in 1 .. n : p[i] = p[i - 1] + Value(s, i)
    BY <1>4
  <2>3. /\ q \in [0 .. n -> Nat] /\ q[0] = 0
        /\ \A i \in 1 .. n : q[i] = q[i - 1] + Value(r, i)
    BY <1>4, <2>1
  <2>4. PICK k \in 1 .. n : e[k] = x
    BY <1>2
  <2>5. \A i \in 1 .. n : i # k => Value(s, i) = Value(r, i)
    BY <1>2, <2>4
  <2>6. Value(s, k) = w[x] /\ Value(r, k) = 0 /\ w[x] \in Nat
    BY <2>4
  <2>7. \A i \in 1 .. n : Value(r, i) \in Nat /\ Value(s, i) \in Nat
    BY <1>3, <2>1
  <2> HIDE DEF p, q, r, Value
  <2> DEFINE Z == {i \in 0 .. n : p[i] = q[i] + (IF k <= i THEN w[x] ELSE 0)}
  <2>8. 0 \in Z
    BY <1>2, <2>2, <2>3
  <2>9. \A i \in 0 .. n : i \in Z /\ i < n => i + 1 \in Z
    <3> TAKE i \in 0 .. n
    <3> HAVE i \in Z /\ i < n
    <3>1. i + 1 \in 1 .. n /\ i + 1 \in 0 .. n /\ (i + 1) - 1 = i /\ i \in Nat
      BY <1>2
    <3>2. /\ p[i + 1] = p[i] + Value(s, i + 1) /\ q[i + 1] = q[i] + Value(r, i + 1)
          /\ p[i] \in Nat /\ q[i] \in Nat
      BY <2>2, <2>3, <3>1
    <3>3. p[i] = q[i] + (IF k <= i THEN w[x] ELSE 0)
      OBVIOUS
    <3>4. CASE i + 1 = k
      <4>1. ~(k <= i) /\ k <= i + 1
        BY <3>1, <3>4
      <4>2. p[i + 1] = q[i + 1] + w[x]
        BY <2>6, <3>2, <3>3, <3>4, <4>1
      <4> QED  BY <3>1, <4>1, <4>2
    <3>5. CASE i + 1 # k
      <4>1. (k <= i) <=> (k <= i + 1)
        BY <3>1, <3>5
      <4>2. Value(s, i + 1) = Value(r, i + 1) /\ Value(r, i + 1) \in Nat
        BY <2>5, <2>7, <3>1, <3>5
      <4>3. p[i + 1] = q[i + 1] + (IF k <= i + 1 THEN w[x] ELSE 0)
        BY <2>6, <3>2, <3>3, <4>1, <4>2
      <4> QED  BY <3>1, <4>3
    <3> QED  BY <3>4, <3>5
  <2>10. n \in Z
    <3> HIDE DEF Z
    <3>1. \A i \in 0 .. n : i \in Z
      BY <1>2, <2>8, <2>9, Climb
    <3> QED  BY <1>2, <3>1
  <2>11. p[n] = q[n] + w[x] /\ q[n] \in Nat
    BY <1>2, <2>3, <2>4, <2>10
  <2> QED  BY <2>1, <2>6, <2>11 DEF p, q, r
<1> QED  BY <1>5, <1>6, <1>7 DEF Totals

\* The sum of natural numbers: of none it is 0, and each adds what it is.
LEMMA SumOf ==
    ASSUME NEW U, IsFiniteSet(U), NEW w, \A x \in U : w[x] \in Nat
    PROVE  Totals([s \in SUBSET U |-> SumFunctionOnSet(w, s)], w, U)
<1>1. PICK T : Totals(T, w, U)
  BY TotalsExist
<1>2. ASSUME NEW S \in SUBSET U PROVE SumFunctionOnSet(w, S) = T[S]
  <2>1. IsFiniteSet(S)
    BY FS_Subset
  <2>2. Adds(T, w, S)
    <3> SUFFICES ASSUME NEW s \in SUBSET S
                 PROVE  T[s] = IF s = {} THEN 0 ELSE LET x == CHOOSE x \in s : TRUE IN w[x] + T[s \ {x}]
      BY DEF Adds
    <3>1. CASE s = {}
      BY <1>1, <3>1 DEF Totals
    <3>2. CASE s # {}
      <4> DEFINE x == CHOOSE x \in s : TRUE
      <4>1. x \in s /\ s \in SUBSET U
        BY <3>2
      <4> HIDE DEF x
      <4>2. T[s] = w[x] + T[s \ {x}]
        BY <1>1, <4>1 DEF Totals
      <4> QED  BY <3>2, <4>2 DEF x
    <3> QED  BY <3>1, <3>2
  <2> QED  BY <2>1, <2>2, SumIs
<1>3. T = [s \in SUBSET U |-> SumFunctionOnSet(w, s)]
  <2>1. T = [s \in SUBSET U |-> T[s]]
    BY <1>1 DEF Totals
  <2> QED  BY <1>2, <2>1
<1> QED  BY <1>1, <1>3

\* It is positive when one of them is.
LEMMA SumPositive ==
    ASSUME NEW U, IsFiniteSet(U), NEW w, \A x \in U : w[x] \in Nat
    PROVE  /\ SumFunctionOnSet(w, U) \in Nat
           /\ SumFunctionOnSet(w, U) > 0 <=> \E x \in U : w[x] > 0
           /\ \A x \in U : w[x] <= SumFunctionOnSet(w, U)
<1> DEFINE T == [s \in SUBSET U |-> SumFunctionOnSet(w, s)]
           n == Cardinality(U)
<1>1. Totals(T, w, U) /\ T[U] = SumFunctionOnSet(w, U)
  BY SumOf
<1> HIDE DEF T
<1>2. T[U] \in Nat /\ T[{}] = 0 /\ \A s \in SUBSET U : T[s] \in Nat
  BY <1>1 DEF Totals
<1>3. ASSUME NEW x \in U PROVE w[x] <= T[U]
  <2>1. T[U] = w[x] + T[U \ {x}]
    BY <1>1 DEF Totals
  <2>2. T[U \ {x}] \in Nat /\ w[x] \in Nat
    BY <1>2
  <2> QED  BY <2>1, <2>2
<1>4. ASSUME \A x \in U : ~(w[x] > 0) PROVE T[U] = 0
  <2>1. \A x \in U : w[x] = 0
    BY <1>4
  <2>2. n \in Nat /\ \A s \in SUBSET U : IsFiniteSet(s) /\ Cardinality(s) \in 0 .. n
    BY FS_CardinalityType, FS_Subset
  <2> DEFINE Z == {m \in 0 .. n : \A s \in SUBSET U : Cardinality(s) = m => T[s] = 0}
  <2>3. 0 \in Z
    <3>1. ASSUME NEW s \in SUBSET U, Cardinality(s) = 0 PROVE T[s] = 0
      <4>1. s = {}
        BY <2>2, <3>1, FS_EmptySet
      <4> QED  BY <1>2, <4>1
    <3> QED  BY <2>2, <3>1
  <2>4. \A m \in 0 .. n : m \in Z /\ m < n => m + 1 \in Z
    <3> TAKE m \in 0 .. n
    <3> HAVE m \in Z /\ m < n
    <3>1. ASSUME NEW s \in SUBSET U, Cardinality(s) = m + 1 PROVE T[s] = 0
      <4>1. s # {}
        BY <2>2, <3>1, FS_EmptySet
      <4>2. PICK x \in s : TRUE
        BY <4>1
      <4>3. Cardinality(s \ {x}) = m /\ s \ {x} \in SUBSET U
        BY <2>2, <3>1, FS_RemoveElement
      <4>4. T[s] = w[x] + T[s \ {x}] /\ w[x] = 0 /\ T[s \ {x}] = 0
        BY <1>1, <2>1, <4>3 DEF Totals
      <4> QED  BY <4>4
    <3>2. m + 1 \in 0 .. n
      BY <2>2
    <3> QED  BY <3>1, <3>2
  <2>5. n \in Z
    <3> HIDE DEF Z
    <3>1. \A i \in 0 .. n : i \in Z
      BY <2>2, <2>3, <2>4, Climb
    <3> QED  BY <2>2, <3>1
  <2> QED  BY <2>5
<1>5. (\E x \in U : w[x] > 0) => T[U] > 0
  BY <1>2, <1>3
<1> QED  BY <1>1, <1>2, <1>3, <1>4, <1>5
=============================================================================
