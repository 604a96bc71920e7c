---------------------------- MODULE AsrTaskProofs ----------------------------
(***************************************************************************)
(* Theorems about AsrTask, for every recording, every way it is cut into   *)
(* frames, every cut of the segments into parts and every answer of the    *)
(* models and the recall service; and, at the end, about EnrollmentStores, *)
(* where the enrolments come from, for every TTL and every limit.          *)
(***************************************************************************)
EXTENDS AsrTask, EnrollmentStores, FiniteSetTheorems, WellFoundedInduction, TLAPS

-----------------------------------------------------------------------------
(* Numbers and finite sets of them. *)

\* Every set of naturals has a least member.
LEMMA LeastOf ==
  ASSUME NEW S \in SUBSET Nat, S # {}
  PROVE  \E m \in S : \A n \in S : m <= n
<1> DEFINE R == OpToRel(<, Nat)
<1>1. IsWellFoundedOn(R, Nat)
  BY NatLessThanWellFounded, Zenon
<1> HIDE DEF R
<1>2. PICK m \in S : \A n \in S : ~(<<n, m>> \in R)
  BY <1>1, WFMin, Zenon
<1>3. ASSUME NEW n \in S, ~(m <= n) PROVE FALSE
  <2>1. n \in Nat /\ m \in Nat /\ n < m
    BY <1>3
  <2>2. <<n, m>> \in R
    BY <2>1 DEF R, OpToRel
  <2> QED
    BY <2>2, <1>2
<1> QED
  BY <1>2, <1>3

\* Induction: a set with 0 that is closed under successor has every natural.
LEMMA AllNaturals ==
  ASSUME NEW S, 0 \in S, \A n \in Nat : n \in S => n + 1 \in S
  PROVE  \A n \in Nat : n \in S
<1> DEFINE T == {n \in Nat : n \notin S}
<1> SUFFICES ASSUME T # {} PROVE FALSE
  OBVIOUS
<1>1. T \in SUBSET Nat
  OBVIOUS
<1>2. PICK m \in T : \A n \in T : m <= n
  BY <1>1, LeastOf
<1>3. m \in Nat /\ m # 0 /\ m - 1 \in Nat /\ m - 1 \notin T
  BY <1>2
<1> QED
  BY <1>3

\* What a step applied n times to x0 yields is a function of n.
IsIteration(h, X, F, x0) ==
    h \in [Nat -> X] /\ h[0] = x0 /\ \A n \in Nat : h[n + 1] = F[h[n]]

\* Such a function exists, for every step F that stays in X.
LEMMA Iterates ==
  ASSUME NEW X, NEW F \in [X -> X], NEW x0 \in X
  PROVE  \E h : IsIteration(h, X, F, x0)
<1> DEFINE Upto(n) == {g \in [0..n -> X] : g[0] = x0 /\ \A i \in 1..n : g[i] = F[g[i - 1]]}
           S == {n \in Nat : Upto(n) # {}}
<1>1. \A n \in Nat : n \in S
  <2>1. 0 \in S
    <3>1. [i \in 0..0 |-> x0] \in Upto(0)
      OBVIOUS
    <3> QED
      BY <3>1
  <2>2. ASSUME NEW n \in Nat, n \in S PROVE n + 1 \in S
    <3>1. PICK g : g \in Upto(n)
      BY <2>2
    <3>2. [i \in 0..n + 1 |-> IF i = n + 1 THEN F[g[n]] ELSE g[i]] \in Upto(n + 1)
      BY <3>1
    <3> QED
      BY <3>2
  <2> HIDE DEF S
  <2> QED
    BY <2>1, <2>2, AllNaturals
<1>2. \A n \in Nat : \E g : g \in Upto(n)
  BY <1>1
<1> DEFINE G(n) == CHOOSE g : g \in Upto(n)
           h == [n \in Nat |-> G(n)[n]]
<1>3. \A n \in Nat : G(n) \in Upto(n)
  <2> HIDE DEF Upto
  <2> QED
    BY <1>2, Zenon
<1>4. ASSUME NEW n \in Nat PROVE G(n + 1)[n] = G(n)[n]
  <2> DEFINE A == {i \in Nat : i <= n => G(n + 1)[i] = G(n)[i]}
  <2>0. G(n + 1) \in Upto(n + 1) /\ G(n) \in Upto(n)
    <3> HIDE DEF Upto, G
    <3>1. n + 1 \in Nat
      OBVIOUS
    <3> QED
      BY <1>3, <3>1
  <2> HIDE DEF G
  <2>1. 0 \in A
    BY <2>0
  <2>2. ASSUME NEW i \in Nat, i \in A PROVE i + 1 \in A
    BY <2>0, <2>2
  <2>3. n \in A
    <3> HIDE DEF A
    <3> QED
      BY <2>1, <2>2, AllNaturals
  <2> QED
    BY <2>3
<1>5. h \in [Nat -> X]
  <2> HIDE DEF G
  <2> QED
    BY <1>3
<1>6. h[0] = x0 /\ \A n \in Nat : h[n + 1] = F[h[n]]
  <2> HIDE DEF G
  <2>1. h[0] = x0
    BY <1>3
  <2>2. ASSUME NEW n \in Nat PROVE h[n + 1] = F[h[n]]
    <3>1. G(n + 1)[n + 1] = F[G(n + 1)[n]]
      BY <1>3
    <3> QED
      BY <3>1, <1>4
  <2> QED
    BY <2>1, <2>2
<1> HIDE DEF h
<1> QED
  BY <1>5, <1>6 DEF IsIteration

\* A finite set has a member for which a measure is greatest.
LEMMA Greatest ==
  ASSUME NEW A, IsFiniteSet(A), A # {}, NEW f \in [A -> Int]
  PROVE  \E x \in A : \A y \in A : f[y] <= f[x]
<1> DEFINE Above(x) == {y \in A : f[x] < f[y]}
           C == {Cardinality(Above(x)) : x \in A}
<1>1. \A x \in A : Above(x) \in SUBSET A
  OBVIOUS
<1>2. \A x \in A : IsFiniteSet(Above(x)) /\ Cardinality(Above(x)) \in Nat
  BY <1>1, FS_Subset, FS_CardinalityType, Zenon
<1>3. C \in SUBSET Nat /\ C # {}
  BY <1>2
<1>4. PICK m \in C : \A n \in C : m <= n
  <2> HIDE DEF C
  <2> QED
    BY <1>3, LeastOf
<1>5. PICK x \in A : m = Cardinality(Above(x))
  BY <1>4
<1>6. ASSUME NEW y \in A, ~(f[y] <= f[x]) PROVE FALSE
  <2>1. f[x] < f[y]
    BY <1>6
  <2>2. Above(y) \in SUBSET Above(x) /\ y \in Above(x) /\ y \notin Above(y)
    BY <2>1
  <2>3. Cardinality(Above(y)) <= Cardinality(Above(x)) /\ Cardinality(Above(y)) # Cardinality(Above(x))
    <3> HIDE DEF Above
    <3> QED
      BY <2>2, <1>2, FS_Subset
  <2>4. Cardinality(Above(y)) \in C
    OBVIOUS
  <2> HIDE DEF Above, C
  <2> QED
    BY <2>3, <2>4, <1>2, <1>4, <1>5
<1> QED
  BY <1>6

\* A part of a finite set has no more members than the whole.
LEMMA Counted ==
  ASSUME NEW S, IsFiniteSet(S), NEW T \in SUBSET S
  PROVE  IsFiniteSet(T) /\ Cardinality(T) \in Nat /\ Cardinality(T) <= Cardinality(S)
  BY FS_Subset, FS_CardinalityType

\* Ascending: every member, once, the smaller first.
LEMMA AscendingIs ==
  ASSUME NEW S, \A x \in S : x \in Int, IsFiniteSet(S)
  PROVE  /\ Ascending(S) \in Seq(S) /\ Len(Ascending(S)) = Cardinality(S)
         /\ \A i, j \in 1..Cardinality(S) : i < j => Ascending(S)[i] < Ascending(S)[j]
         /\ \A x \in S : \E i \in 1..Cardinality(S) : Ascending(S)[i] = x
<1> DEFINE Below(x) == {y \in S : y < x}
           Rank(x) == Cardinality(Below(x))
           n == Cardinality(S)
           q == Ascending(S)
<1>1. n \in Nat
  BY FS_CardinalityType
<1>2. ASSUME NEW x \in S PROVE IsFiniteSet(Below(x)) /\ Rank(x) \in Nat /\ Rank(x) < n
  <2>1. Below(x) \in SUBSET S /\ x \notin Below(x)
    OBVIOUS
  <2> HIDE DEF Below
  <2>2. IsFiniteSet(Below(x)) /\ Rank(x) \in Nat /\ Rank(x) <= n
    BY <2>1, Counted
  <2>3. Rank(x) # n
    BY <2>1, FS_Subset, Zenon
  <2> HIDE DEF n, Rank
  <2> QED
    BY <1>1, <2>2, <2>3
<1>4. ASSUME NEW x \in S, NEW y \in S, x < y PROVE Rank(x) < Rank(y)
  <2>1. Below(x) \in SUBSET Below(y) /\ x \in Below(y) /\ x \notin Below(x)
    BY <1>1, <1>4
  <2>2. IsFiniteSet(Below(y)) /\ Rank(x) \in Nat /\ Rank(y) \in Nat
    BY <1>2
  <2> HIDE DEF Below
  <2>3. Rank(x) <= Rank(y)
    BY <2>1, <2>2, FS_Subset
  <2>4. Rank(x) # Rank(y)
    BY <2>1, <2>2, FS_Subset, Zenon
  <2> HIDE DEF Rank
  <2> QED
    BY <2>2, <2>3, <2>4
<1>5. ASSUME NEW k \in 0..n - 1 PROVE \E x \in S : Rank(x) = k
  <2> SUFFICES ASSUME \A x \in S : Rank(x) # k PROVE FALSE
    OBVIOUS
  <2> DEFINE T == 0..n - 1
             f == [x \in S |-> Rank(x)]
  <2>1. IsFiniteSet(T) /\ Cardinality(T) = n
    <3> HIDE DEF n
    <3>1. 0 \in Int /\ n - 1 \in Int /\ ~(0 > n - 1) /\ (n - 1) - 0 + 1 = n
      BY <1>1
    <3> QED
      BY <3>1, FS_Interval
  <2>2. IsFiniteSet(T \ {k}) /\ Cardinality(T \ {k}) = n - 1
    BY <2>1, FS_RemoveElement
  <2>3. f \in [S -> T \ {k}]
    <3>1. \A x \in S : Rank(x) \in T \ {k}
      <4> HIDE DEF Rank, n, Below
      <4> QED
        BY <1>1, <1>2, \A x \in S : Rank(x) # k
    <3> HIDE DEF Rank, T
    <3> QED
      BY <3>1
  <2>4. PICK x \in S, y \in S : x # y /\ f[x] = f[y]
    <3>1. Cardinality(T \ {k}) < Cardinality(S)
      BY <1>1, <2>2
    <3> HIDE DEF T, f
    <3> QED
      BY <2>2, <2>3, <3>1, FS_PigeonHole
  <2>5. Rank(x) = Rank(y)
    <3> HIDE DEF Rank
    <3> QED
      BY <2>4
  <2>6. x < y \/ y < x
    BY <1>1, <2>4
  <2> HIDE DEF Rank, Below, n
  <2> QED
    BY <1>2, <1>4, <2>5, <2>6
<1>6. \A k \in 1..n : q[k] \in S /\ Rank(q[k]) = k - 1
  <2> SUFFICES ASSUME NEW k \in 1..n PROVE q[k] \in S /\ Rank(q[k]) = k - 1
    OBVIOUS
  <2>1. q[k] = CHOOSE x \in S : Rank(x) = k - 1
    BY DEF Ascending
  <2>2. \E x \in S : Rank(x) = k - 1
    <3>1. k - 1 \in 0..n - 1
      <4> HIDE DEF n
      <4> QED
        BY <1>1
    <3> HIDE DEF Rank
    <3> QED
      BY <3>1, <1>5
  <2> HIDE DEF Rank, q
  <2> QED
    BY <2>1, <2>2, Zenon
<1> DEFINE Nth(k) == CHOOSE x \in S : Rank(x) = k - 1
<1>7. q = [k \in 1..n |-> Nth(k)]
  BY Zenon DEF Ascending
<1> HIDE DEF q, Rank, n, Below, Nth
<1>8. q \in Seq(S) /\ Len(q) = n
  <2>1. \A k \in 1..n : Nth(k) \in S
    BY <1>6, <1>7
  <2> QED
    BY <1>1, <1>7, <2>1
<1>9. ASSUME NEW i \in 1..n, NEW j \in 1..n, i < j PROVE q[i] < q[j]
  <2>1. q[i] \in S /\ q[j] \in S /\ Rank(q[i]) = i - 1 /\ Rank(q[j]) = j - 1
    BY <1>6
  <2>2. q[i] # q[j] /\ ~(q[j] < q[i])
    BY <1>1, <1>4, <1>9, <2>1
  <2> QED
    BY <2>1, <2>2
<1>10. ASSUME NEW x \in S PROVE \E i \in 1..n : q[i] = x
  <2>1. Rank(x) + 1 \in 1..n
    BY <1>1, <1>2
  <2>2. PICK i \in 1..n : i = Rank(x) + 1
    BY <2>1
  <2>3. q[i] \in S /\ Rank(q[i]) = Rank(x)
    BY <1>2, <1>6, <2>2
  <2>4. ~(q[i] < x) /\ ~(x < q[i])
    BY <1>2, <1>4, <2>3
  <2> QED
    BY <2>3, <2>4
<1> QED
  BY <1>8, <1>9, <1>10 DEF q, n

-----------------------------------------------------------------------------
(* The cut of a segment. *)

\* L covers [0, length) without a gap, in order, for speakers of W.
Tiles(L, length, W) ==
    /\ L \in Seq([from : Int, to : Int, who : W]) /\ Len(L) \in Nat \ {0}
    /\ L[1].from = 0 /\ L[Len(L)].to = length
    /\ \A i \in 1..Len(L) : L[i].from < L[i].to
    /\ \A i, j \in 1..Len(L) : i < j => L[i].to <= L[j].from
    /\ \A i \in 2..Len(L) : L[i].from = L[i - 1].to

Alternates(L) == \A i \in 2..Len(L) : L[i].who # L[i - 1].who

\* The elements of a sequence are members of its set.
LEMMA MemberOf ==
  ASSUME NEW R, NEW s \in Seq(R), NEW i \in 1..Len(s)
  PROVE  s[i] \in R
  OBVIOUS

\* _merge_adjacent() covers what its intervals cover, and no two neighbours of
\* the result are of one speaker.
LEMMA MergedTiles ==
  ASSUME NEW W, NEW length \in Int, NEW L, Tiles(L, length, W)
  PROVE  /\ Tiles(Merged(L), length, W) /\ Alternates(Merged(L))
         /\ Len(Merged(L)) <= Len(L)
<1> DEFINE n == Len(L)
           S == {i \in DOMAIN L : i = 1 \/ L[i].who # L[i - 1].who}
           q == Ascending(S)
           m == Len(q)
           last(k) == IF k = m THEN n ELSE q[k + 1] - 1
           M == Merged(L)
<1>1. n \in Nat \ {0} /\ DOMAIN L = 1..n
  BY DEF Tiles
<1>0. \A i \in 1..n : L[i] \in [from : Int, to : Int, who : W]
  <2>1. L \in Seq([from : Int, to : Int, who : W])
    BY DEF Tiles
  <2> QED
    BY <2>1, MemberOf
<1>2. /\ \A i \in S : i \in 1..n
      /\ 1 \in S
      /\ \A i \in 2..n : i \in S \/ L[i].who = L[i - 1].who
      /\ \A i \in S : i = 1 \/ L[i].who # L[i - 1].who
  BY <1>1
<1>3. M = [k \in DOMAIN q |-> [from |-> L[q[k]].from, to |-> L[last(k)].to, who |-> L[q[k]].who]]
  BY Zenon DEF Merged
<1> HIDE DEF n, S, M
<1>4. IsFiniteSet(S) /\ Cardinality(S) <= n /\ Cardinality(S) \in Nat
  <2>1. IsFiniteSet(1..n) /\ Cardinality(1..n) = n
    BY <1>1, FS_Interval
  <2>2. S \in SUBSET (1..n)
    BY <1>2
  <2> QED
    BY <2>1, <2>2, Counted
<1>5. /\ q \in Seq(S) /\ m = Cardinality(S)
      /\ \A i, j \in 1..m : i < j => q[i] < q[j]
      /\ \A x \in S : \E i \in 1..m : q[i] = x
  <2>1. \A i \in S : i \in Int
    BY <1>2
  <2> QED
    BY <1>4, <2>1, AscendingIs
<1> HIDE DEF q
<1>6. m \in Nat /\ m <= n /\ 1 <= m /\ q[1] = 1 /\ \A k \in 1..m : q[k] \in S /\ q[k] \in 1..n
  <2>1. \A k \in 1..m : q[k] \in S /\ q[k] \in 1..n
    BY <1>2, <1>5
  <2>2. PICK i \in 1..m : q[i] = 1
    BY <1>2, <1>5
  <2>3. m \in Nat /\ m <= n
    BY <1>4, <1>5
  <2>4. 1 \in 1..m
    BY <2>2, <2>3
  <2>5. ~(1 < i)
    BY <1>5, <2>1, <2>2, <2>4
  <2>6. i = 1
    BY <2>2, <2>5
  <2> QED
    BY <2>1, <2>2, <2>3, <2>4, <2>6
<1>7. \A k \in 1..m : last(k) \in q[k]..n
  <2> SUFFICES ASSUME NEW k \in 1..m, k # m PROVE q[k + 1] - 1 \in q[k]..n
    BY <1>1, <1>6
  <2>1. k + 1 \in 1..m /\ k < k + 1
    BY <1>6
  <2>2. q[k] < q[k + 1]
    BY <1>5, <2>1
  <2>3. q[k] \in 1..n /\ q[k + 1] \in 1..n
    BY <1>6, <2>1
  <2> QED
    BY <1>1, <2>2, <2>3
<1>8. ASSUME NEW k \in 1..m, NEW j \in q[k] + 1..last(k) PROVE j \notin S
  <2> SUFFICES ASSUME j \in S PROVE FALSE
    OBVIOUS
  <2>1. PICK i \in 1..m : q[i] = j
    BY <1>5
  <2>2. q[k] < q[i] /\ k \in Int /\ i \in Int
    BY <1>6, <2>1
  <2>3. k < i
    BY <1>5, <1>6, <2>1, <2>2
  <2>4. k # m /\ k + 1 \in 1..m /\ (k + 1 = i \/ k + 1 < i)
    BY <1>6, <2>3
  <2>5. q[k + 1] <= q[i]
    BY <1>5, <1>6, <2>4
  <2>6. q[i] <= q[k + 1] - 1
    BY <1>6, <2>1, <2>4
  <2> QED
    BY <1>6, <2>4, <2>5, <2>6
<1>9. ASSUME NEW k \in 1..m, NEW j \in q[k]..last(k) PROVE L[j].who = L[q[k]].who
  <2> DEFINE A == {d \in Nat : q[k] + d <= last(k) => L[q[k] + d].who = L[q[k]].who}
  <2>1. q[k] \in 1..n /\ last(k) \in q[k]..n
    BY <1>6, <1>7
  <2> HIDE DEF last
  <2>2. 0 \in A
    BY <2>1
  <2>3. ASSUME NEW d \in Nat, d \in A PROVE d + 1 \in A
    <3> SUFFICES ASSUME q[k] + (d + 1) <= last(k) PROVE L[q[k] + (d + 1)].who = L[q[k]].who
      OBVIOUS
    <3>0. PICK a, b \in 1..n : a = q[k] /\ b = last(k)
      BY <1>1, <2>1
    <3>1. PICK i \in Int : i = a + (d + 1)
      OBVIOUS
    <3>9. a + (d + 1) <= b
      BY <3>0
    <3>2. i \in a + 1..b /\ i \in 2..n /\ a + d = i - 1
      BY <1>1, <3>9, <3>1
    <3>3. L[i].who = L[i - 1].who
      BY <1>2, <1>8, <3>0, <3>2
    <3>4. L[a + d].who = L[a].who
      <4>1. a + d <= b
        BY <3>1, <3>2
      <4> QED
        BY <2>3, <3>0, <4>1
    <3> QED
      BY <3>0, <3>1, <3>2, <3>3, <3>4
  <2>4. \A d \in Nat : d \in A
    <3> HIDE DEF A
    <3> QED
      BY <2>2, <2>3, AllNaturals
  <2>5. PICK d \in Nat : d = j - q[k]
    BY <2>1
  <2>6. q[k] + d = j /\ q[k] + d <= last(k)
    BY <2>1, <2>5
  <2> QED
    BY <2>4, <2>6
<1>10. /\ M \in Seq([from : Int, to : Int, who : W]) /\ Len(M) = m
       /\ \A k \in 1..m : /\ M[k].from = L[q[k]].from
                          /\ M[k].to = L[last(k)].to
                          /\ M[k].who = L[q[k]].who
  <2>1. DOMAIN q = 1..m
    BY <1>5
  <2>2. \A k \in 1..m : last(k) \in 1..n
    BY <1>6, <1>7
  <2>3. \A k \in 1..m : /\ L[q[k]] \in [from : Int, to : Int, who : W]
                        /\ L[last(k)] \in [from : Int, to : Int, who : W]
    <3> HIDE DEF last, m
    <3> QED
      BY <1>0, <1>6, <2>2
  <2> HIDE DEF last, m
  <2> QED
    BY <1>3, <1>6, <2>1, <2>3
<1>11. ASSUME NEW k \in 2..m PROVE q[k] - 1 = last(k - 1)
  <2>1. k - 1 # m /\ (k - 1) + 1 = k
    BY <1>6
  <2> QED
    BY <2>1, Zenon
<1>12. Tiles(M, length, W)
  <2>1. M[1].from = 0
    BY <1>6, <1>10 DEF Tiles
  <2>2. M[m].to = length
    <3>1. m \in 1..m /\ last(m) = n
      BY <1>6
    <3>2. M[m].to = L[n].to
      BY <1>10, <3>1, Zenon
    <3> QED
      BY <3>2 DEF Tiles, n
  <2>3. ASSUME NEW k \in 1..m PROVE M[k].from < M[k].to
    <3>1. PICK a, b \in 1..n : a = q[k] /\ b = last(k) /\ a <= b
      <4> HIDE DEF last
      <4> QED
        BY <1>6, <1>7
    <3>2. M[k].from = L[a].from /\ M[k].to = L[b].to
      BY <1>10, <3>1
    <3>3. L[a].from < L[a].to /\ (a < b => L[a].to <= L[b].from) /\ L[b].from < L[b].to
      BY DEF Tiles, n
    <3>4. L[a].from \in Int /\ L[a].to \in Int /\ L[b].from \in Int /\ L[b].to \in Int
      <4>1. L[a] \in [from : Int, to : Int, who : W] /\ L[b] \in [from : Int, to : Int, who : W]
        BY <1>0
      <4> QED
        BY <4>1
    <3> QED
      BY <3>1, <3>2, <3>3, <3>4
  <2>4. ASSUME NEW i \in 1..m, NEW j \in 1..m, i < j PROVE M[i].to <= M[j].from
    <3>1. PICK a, b \in 1..n : a = last(i) /\ b = q[j]
      <4> HIDE DEF last
      <4> QED
        BY <1>6, <1>7
    <3>2. a < b
      <4>1. i # m /\ i + 1 \in 1..m /\ (i + 1 = j \/ i + 1 < j)
        BY <1>6, <2>4
      <4>2. q[i + 1] <= q[j]
        BY <1>5, <1>6, <4>1
      <4> QED
        BY <1>6, <3>1, <4>1, <4>2
    <3> QED
      BY <1>10, <3>1, <3>2 DEF Tiles, n
  <2>5. ASSUME NEW k \in 2..m PROVE M[k].from = M[k - 1].to
    <3>1. PICK a \in 2..n : a = q[k] /\ a - 1 = last(k - 1)
      <4>1. 1 \in 1..m /\ k \in 1..m /\ 1 < k
        BY <1>6
      <4>2. q[1] < q[k]
        BY <1>5, <4>1
      <4> QED
        BY <1>6, <1>11, <4>1, <4>2
    <3>2. k \in 1..m /\ k - 1 \in 1..m
      BY <1>6
    <3>3. M[k].from = L[a].from /\ M[k - 1].to = L[a - 1].to
      BY <1>10, <3>1, <3>2
    <3> QED
      BY <3>3 DEF Tiles, n
  <2> HIDE DEF m, last
  <2> QED
    BY <1>6, <1>10, <2>1, <2>2, <2>3, <2>4, <2>5 DEF Tiles
<1>13. Alternates(M)
  <2> SUFFICES ASSUME NEW k \in 2..m PROVE M[k].who # M[k - 1].who
    BY <1>10 DEF Alternates
  <2>1. k \in 1..m /\ k - 1 \in 1..m
    BY <1>6
  <2>2. PICK a \in Int : a = q[k] /\ a - 1 = last(k - 1) /\ a \in S /\ a # 1
    <3>1. 1 \in 1..m /\ 1 < k
      BY <1>6
    <3>2. q[1] < q[k]
      BY <1>5, <2>1, <3>1
    <3> QED
      BY <1>6, <1>11, <2>1, <3>2
  <2>3. L[a].who # L[a - 1].who
    BY <1>2, <2>2
  <2>4. a - 1 \in q[k - 1]..last(k - 1)
    <3>1. last(k - 1) \in q[k - 1]..n
      BY <1>7, <2>1
    <3>2. PICK b \in 1..n : b = q[k - 1]
      BY <1>6, <2>1
    <3> HIDE DEF last
    <3>3. a - 1 \in b..n
      BY <2>2, <3>1, <3>2
    <3>4. a - 1 \in b..a - 1
      BY <3>3
    <3> QED
      BY <2>2, <3>2, <3>4
  <2>5. L[a - 1].who = L[q[k - 1]].who
    BY <1>9, <2>1, <2>4
  <2>6. M[k].who = L[a].who /\ M[k - 1].who = L[q[k - 1]].who
    BY <1>10, <2>1, <2>2
  <2> QED
    BY <2>3, <2>5, <2>6
<1> QED
  BY <1>6, <1>10, <1>12, <1>13 DEF M, n

\* What a concatenation holds, and where.
LEMMA ConcatIs ==
  ASSUME NEW R, NEW a \in Seq(R), NEW b \in Seq(R)
  PROVE  /\ a \o b \in Seq(R) /\ Len(a \o b) = Len(a) + Len(b)
         /\ \A i \in 1..Len(a) : (a \o b)[i] = a[i]
         /\ \A i \in 1..Len(b) : (a \o b)[Len(a) + i] = b[i]
  OBVIOUS

\* Two neighbours of a sequence replaced by one element.
Joined(s, k, e) == SubSeq(s, 1, k - 1) \o <<e>> \o SubSeq(s, k + 2, Len(s))

IsJoined(M, s, k, e, R) ==
    /\ M \in Seq(R) /\ Len(M) = Len(s) - 1
    /\ \A i \in 1..Len(s) - 1 :
         /\ i < k => M[i] = s[i]
         /\ i = k => M[i] = e
         /\ i > k => M[i] = s[i + 1]

\* What Joined yields.
LEMMA JoinedIs ==
  ASSUME NEW R, NEW s \in Seq(R), NEW k \in 1..Len(s) - 1, NEW e \in R
  PROVE  IsJoined(Joined(s, k, e), s, k, e, R)
<1> DEFINE M == Joined(s, k, e)
           a == SubSeq(s, 1, k - 1)
           c == SubSeq(s, k + 2, Len(s))
           b == a \o <<e>>
<1>1. a \in Seq(R) /\ Len(a) = k - 1 /\ \A i \in 1..k - 1 : a[i] = s[i]
  OBVIOUS
<1>2. c \in Seq(R) /\ Len(c) = Len(s) - k - 1 /\ \A i \in 1..Len(s) - k - 1 : c[i] = s[i + k + 1]
  OBVIOUS
<1>3. <<e>> \in Seq(R) /\ Len(<<e>>) = 1 /\ <<e>>[1] = e
  OBVIOUS
<1> HIDE DEF a, c
<1>4. b \in Seq(R) /\ Len(b) = k /\ b[k] = e /\ \A i \in 1..k - 1 : b[i] = s[i]
  BY <1>1, <1>3
<1>5. M = b \o c
  BY Zenon DEF Joined, a, c
<1> HIDE DEF b, M
<1>6. /\ M \in Seq(R) /\ Len(M) = Len(b) + Len(c)
      /\ \A i \in 1..Len(b) : M[i] = b[i]
      /\ \A i \in 1..Len(c) : M[Len(b) + i] = c[i]
  <2>1. b \in Seq(R) /\ c \in Seq(R)
    BY <1>2, <1>4
  <2>2. /\ b \o c \in Seq(R) /\ Len(b \o c) = Len(b) + Len(c)
        /\ \A i \in 1..Len(b) : (b \o c)[i] = b[i]
        /\ \A i \in 1..Len(c) : (b \o c)[Len(b) + i] = c[i]
    BY ONLY <2>1, ConcatIs
  <2> QED
    BY ONLY <1>5, <2>2, Zenon
<1>7. Len(M) = Len(s) - 1
  <2>1. Len(s) \in Nat
    OBVIOUS
  <2> QED
    BY ONLY k \in 1..Len(s) - 1, <2>1, <1>2, <1>4, <1>6
<1>8. ASSUME NEW i \in 1..Len(s) - 1, i > k PROVE M[i] = s[i + 1]
  <2>1. PICK d \in Nat : d = i - k
    BY <1>8
  <2>2. d \in 1..Len(s) - k - 1 /\ d + k + 1 = i + 1 /\ k + d = i
    BY <1>8, <2>1
  <2>3. M[k + d] = c[d]
    BY <1>2, <1>4, <1>6, <2>2
  <2>4. c[d] = s[d + k + 1]
    BY <1>2, <2>2
  <2> QED
    BY <2>2, <2>3, <2>4
<1>9. ASSUME NEW i \in 1..Len(s) - 1, i <= k PROVE M[i] = b[i]
  <2>1. i \in 1..Len(b)
    BY <1>4, <1>9
  <2> QED
    BY <1>6, <2>1
<1>10. ASSUME NEW i \in 1..Len(s) - 1
       PROVE  /\ i < k => M[i] = s[i]
              /\ i = k => M[i] = e
              /\ i > k => M[i] = s[i + 1]
  <2>1. i < k => i \in 1..k - 1 /\ i <= k
    OBVIOUS
  <2>2. i = k => i <= k
    OBVIOUS
  <2> QED
    BY <1>4, <1>8, <1>9, <2>1, <2>2, Zenon
<1> QED
  BY <1>6, <1>7, <1>10, Zenon DEF M, IsJoined

\* Min is the least member.
LEMMA LeastMin ==
  ASSUME NEW S, \A x \in S : x \in Nat, S # {}
  PROVE  Min(S) \in S /\ \A y \in S : Min(S) <= y
<1>1. \E m \in S : \A n \in S : m <= n
  BY LeastOf
<1> QED
  BY <1>1, Zenon DEF Min

\* Absorbing a short interval leaves a tiling with fewer intervals.
LEMMA AbsorbTiles ==
  ASSUME NEW W, NEW length \in Int, NEW minimum \in Int, NEW L,
         Tiles(L, length, W), Alternates(L)
  PROVE  LET A == AbsorbFirst(L, minimum)
         IN  /\ Tiles(A, length, W) /\ Alternates(A)
             /\ \/ A = L /\ (Len(L) <= 1 \/ Short(L, minimum) = {})
                \/ Len(A) < Len(L)
<1> DEFINE n == Len(L)
           R == [from : Int, to : Int, who : W]
<1>1. n \in Nat \ {0} /\ DOMAIN L = 1..n /\ L \in Seq(R)
  BY DEF Tiles
<1>2. CASE n <= 1 \/ Short(L, minimum) = {}
  BY <1>2, Zenon DEF AbsorbFirst
<1>3. CASE ~(n <= 1 \/ Short(L, minimum) = {})
  <2> DEFINE i == Min(Short(L, minimum))
             low == Smaller(i, Target(L, i))
             e == [from |-> L[low].from, to |-> L[low + 1].to, who |-> L[Target(L, i)].who]
  <2>1. AbsorbFirst(L, minimum) = Merged(Joined(L, low, e))
    BY <1>3, Zenon DEF AbsorbFirst, Joined
  <2>2. i \in 1..n
    <3>1. \A x \in Short(L, minimum) : x \in Nat /\ x \in 1..n
      BY <1>1 DEF Short
    <3> QED
      BY <1>3, <3>1, LeastMin
  <2> HIDE DEF i
  <2>3. Target(L, i) \in 1..n /\ (Target(L, i) = i - 1 \/ Target(L, i) = i + 1)
    <3>1. n > 1
      BY <1>1, <1>3
    <3>2. PICK t : t = Target(L, i)
      OBVIOUS
    <3>3. t = IF i = 1 THEN 2
              ELSE IF i = n \/ Length(L[i - 1]) >= Length(L[i + 1]) THEN i - 1 ELSE i + 1
      BY <3>2, Zenon DEF Target
    <3>4. t \in 1..n /\ (t = i - 1 \/ t = i + 1)
      <4> HIDE DEF n
      <4> QED
        BY <1>1, <2>2, <3>1, <3>3
    <3> QED
      BY <3>2, <3>4
  <2>4. low \in 1..n - 1
    BY <1>1, <2>2, <2>3 DEF Smaller
  <2> HIDE DEF low
  <2>5. e \in R
    <3>1. /\ L[low] \in R /\ L[low + 1] \in R /\ L[Target(L, i)] \in R
      <4>1. low \in 1..n /\ low + 1 \in 1..n
        BY <1>1, <2>4
      <4> HIDE DEF R
      <4> QED
        BY <1>1, <2>3, <4>1, MemberOf
    <3> QED
      BY <3>1
  <2>6. PICK both \in R : /\ both.from = L[low].from /\ both.to = L[low + 1].to
                          /\ AbsorbFirst(L, minimum) = Merged(Joined(L, low, both))
    <3>1. e.from = L[low].from /\ e.to = L[low + 1].to
      OBVIOUS
    <3> HIDE DEF e, R
    <3> QED
      BY <2>1, <2>5, <3>1
  <2> HIDE DEF e
  <2>7. PICK M : M = Joined(L, low, both)
    OBVIOUS
  <2>20. /\ M \in Seq(R) /\ Len(M) = n - 1
         /\ \A k \in 1..n - 1 :
              /\ k < low => M[k] = L[k]
              /\ k = low => M[k] = both
              /\ k > low => M[k] = L[k + 1]
    <3> HIDE DEF R
    <3>1. L \in Seq(R) /\ both \in R
      BY <1>1
    <3>2. low \in 1..Len(L) - 1
      BY <2>4
    <3>3. IsJoined(M, L, low, both, R)
      BY ONLY <2>7, <3>1, <3>2, JoinedIs, Zenon
    <3> QED
      BY <3>3 DEF IsJoined
  <2> DEFINE g(k) == IF k <= low THEN k ELSE k + 1
             h(k) == IF k < low THEN k ELSE k + 1
  <2>8. \A k \in 1..n - 1 : M[k].from = L[g(k)].from /\ M[k].to = L[h(k)].to
    <3> SUFFICES ASSUME NEW k \in 1..n - 1 PROVE M[k].from = L[g(k)].from /\ M[k].to = L[h(k)].to
      OBVIOUS
    <3>1. CASE k < low
      <4>1. g(k) = k /\ h(k) = k
        BY <2>4, <3>1
      <4> QED
        BY <2>20, <3>1, <4>1
    <3>2. CASE k = low
      <4>1. g(k) = low /\ h(k) = low + 1
        BY <2>4, <3>2
      <4> QED
        BY <2>6, <2>20, <3>2, <4>1
    <3>3. CASE k > low
      <4>1. g(k) = k + 1 /\ h(k) = k + 1
        BY <2>4, <3>3
      <4> QED
        BY <2>20, <3>3, <4>1
    <3> QED
      BY <2>4, <3>1, <3>2, <3>3
  <2>9. Tiles(M, length, W)
    <3>0. n - 1 \in Nat \ {0}
      BY <1>1, <2>4
    <3>1. M[1].from = 0
      <4>1. 1 \in 1..n - 1 /\ g(1) = 1
        BY <1>1, <2>4
      <4> HIDE DEF n, g, h
      <4> QED
        BY <2>8, <4>1 DEF Tiles
    <3>2. M[n - 1].to = length
      <4>1. n - 1 \in 1..n - 1 /\ h(n - 1) = n
        <5>1. n - 1 \in 1..n - 1 /\ ~(n - 1 < low) /\ (n - 1) + 1 = n
          BY <1>1, <2>4
        <5> QED
          BY <5>1, Zenon
      <4> HIDE DEF g, h
      <4> QED
        BY <2>8, <4>1 DEF Tiles
    <3>3. ASSUME NEW k \in 1..n - 1 PROVE M[k].from < M[k].to
      <4>1. PICK a, b \in 1..n : a = g(k) /\ b = h(k) /\ a <= b
        <5>1. g(k) \in 1..n /\ h(k) \in 1..n /\ g(k) <= h(k)
          BY <1>1, <2>4
        <5> QED
          BY <5>1
      <4>2. M[k].from = L[a].from /\ M[k].to = L[b].to
        BY <2>8, <4>1
      <4>3. L[a].from < L[a].to /\ (a < b => L[a].to <= L[b].from) /\ L[b].from < L[b].to
        BY DEF Tiles
      <4>4. L[a].from \in Int /\ L[a].to \in Int /\ L[b].from \in Int /\ L[b].to \in Int
        <5>1. L[a] \in R /\ L[b] \in R
          <6> HIDE DEF R
          <6> QED
            BY <1>1, MemberOf
        <5> QED
          BY <5>1
      <4> QED
        BY <4>1, <4>2, <4>3, <4>4
    <3>4. ASSUME NEW k \in 1..n - 1, NEW j \in 1..n - 1, k < j PROVE M[k].to <= M[j].from
      <4>1. PICK a, b \in 1..n : a = h(k) /\ b = g(j) /\ a < b
        <5>1. h(k) \in 1..n /\ g(j) \in 1..n /\ h(k) < g(j)
          BY <1>1, <2>4, <3>4
        <5> QED
          BY <5>1
      <4> HIDE DEF g, h
      <4> QED
        BY <2>8, <4>1 DEF Tiles
    <3>5. ASSUME NEW k \in 2..n - 1 PROVE M[k].from = M[k - 1].to
      <4>1. PICK a \in 2..n : a = g(k) /\ a - 1 = h(k - 1)
        BY <1>1, <2>4
      <4>2. k \in 1..n - 1 /\ k - 1 \in 1..n - 1
        BY <1>1
      <4>3. M[k].from = L[a].from /\ M[k - 1].to = L[a - 1].to
        <5> HIDE DEF g, h
        <5> QED
          BY <2>8, <4>1, <4>2
      <4> QED
        BY <4>3 DEF Tiles
    <3> HIDE DEF n
    <3> QED
      BY <2>20, <3>0, <3>1, <3>2, <3>3, <3>4, <3>5 DEF Tiles
  <2>10. /\ Tiles(Merged(M), length, W) /\ Alternates(Merged(M))
         /\ Len(Merged(M)) <= n - 1
    <3> QED
      BY <2>20, <2>9, MergedTiles
  <2>11. Len(Merged(M)) \in Nat
    BY <2>10 DEF Tiles
  <2> QED
    BY <1>1, <2>6, <2>7, <2>10, <2>11
<1> QED
  BY <1>2, <1>3

\* Absorbing goes on until one interval is left or none is short.
LEMMA AbsorbedTiles ==
  ASSUME NEW W, NEW length \in Int, NEW minimum \in Int, NEW L,
         Tiles(L, length, W), Alternates(L)
  PROVE  LET A == Absorbed(L, minimum)
         IN  /\ Tiles(A, length, W) /\ Alternates(A)
             /\ Len(A) <= 1 \/ Short(A, minimum) = {}
<1> DEFINE X == {l \in Seq([from : Int, to : Int, who : W]) : Tiles(l, length, W) /\ Alternates(l)}
           F == [l \in X |-> AbsorbFirst(l, minimum)]
           Step(g) == [n \in Nat |-> IF n = 0 THEN L ELSE AbsorbFirst(g[n - 1], minimum)]
<1>1. L \in X /\ \A l : l \in X <=> Tiles(l, length, W) /\ Alternates(l)
  BY DEF Tiles
<1>2. F \in [X -> X]
  <2> SUFFICES ASSUME NEW l \in X PROVE AbsorbFirst(l, minimum) \in X
    OBVIOUS
  <2> HIDE DEF X
  <2> QED
    BY <1>1, AbsorbTiles
<1>12. PICK h : IsIteration(h, X, F, L)
  <2>1. L \in X
    BY <1>1
  <2> HIDE DEF X, F
  <2> QED
    BY ONLY <2>1, <1>2, Iterates, Zenon
<1>3. h \in [Nat -> X] /\ h[0] = L /\ \A n \in Nat : h[n + 1] = F[h[n]]
  BY <1>12, Zenon DEF IsIteration
<1>4. h = Step(h)
  <2> SUFFICES ASSUME NEW n \in Nat PROVE h[n] = IF n = 0 THEN L ELSE AbsorbFirst(h[n - 1], minimum)
    <3> HIDE DEF X
    <3> QED
      BY <1>3
  <2>1. CASE n = 0
    BY <1>3, <2>1
  <2>2. CASE n # 0
    <3>1. PICK m \in Nat : m = n - 1
      BY <2>2
    <3>2. m + 1 = n
      BY <3>1
    <3>3. h[m] \in X
      <4> HIDE DEF X
      <4> QED
        BY <1>3
    <3>4. F[h[m]] = AbsorbFirst(h[m], minimum)
      <4> HIDE DEF X
      <4> QED
        BY <3>3
    <3>5. h[m + 1] = F[h[m]]
      BY <1>3
    <3> QED
      BY <2>2, <3>1, <3>2, <3>4, <3>5, Zenon
  <2> QED
    BY <2>1, <2>2
<1>5. PICK after : after = Step(after) /\ Absorbed(L, minimum) = after[Len(L)]
  <2> DEFINE a == CHOOSE g : g = Step(g)
  <2>1. a = Step(a)
    <3> HIDE DEF Step
    <3> QED
      BY <1>4, Zenon
  <2>2. Absorbed(L, minimum) = a[Len(L)]
    BY Zenon DEF Absorbed
  <2> HIDE DEF a, Step
  <2> QED
    BY <2>1, <2>2
<1>6. after[0] = L /\ \A n \in Nat : after[n + 1] = AbsorbFirst(after[n], minimum)
  <2>1. \A n \in Nat : after[n] = IF n = 0 THEN L ELSE AbsorbFirst(after[n - 1], minimum)
    BY <1>5, Zenon
  <2>2. after[0] = L
    BY <2>1
  <2>3. ASSUME NEW n \in Nat PROVE after[n + 1] = AbsorbFirst(after[n], minimum)
    <3>1. n + 1 \in Nat /\ n + 1 # 0 /\ (n + 1) - 1 = n
      OBVIOUS
    <3>2. after[n + 1] = AbsorbFirst(after[(n + 1) - 1], minimum)
      BY <2>1, <3>1, Zenon
    <3> QED
      BY <3>1, <3>2
  <2> QED
    BY <2>2, <2>3
<1> HIDE DEF Step
<1> DEFINE Settled_(l) == Len(l) <= 1 \/ Short(l, minimum) = {}
           P == {n \in Nat : /\ Tiles(after[n], length, W) /\ Alternates(after[n])
                             /\ Settled_(after[n]) \/ Len(after[n]) <= Len(L) - n}
<1>7. 0 \in P
  <2>1. Len(L) <= Len(L) - 0
    BY DEF Tiles
  <2> HIDE DEF Settled_
  <2> QED
    BY <1>6, <2>1
<1>8. ASSUME NEW n \in Nat, n \in P PROVE n + 1 \in P
  <2> DEFINE l == after[n]
             A == after[n + 1]
  <2>1. Tiles(l, length, W) /\ Alternates(l) /\ (Settled_(l) \/ Len(l) <= Len(L) - n)
    BY <1>8
  <2>2. A = AbsorbFirst(l, minimum)
    BY <1>6
  <2> HIDE DEF l, A
  <2>3. /\ Tiles(A, length, W) /\ Alternates(A)
        /\ (A = l /\ Settled_(l)) \/ Len(A) < Len(l)
    BY <2>1, <2>2, AbsorbTiles
  <2>5. Len(l) \in Nat /\ Len(A) \in Nat /\ Len(L) \in Nat
    BY <2>1, <2>3 DEF Tiles
  <2>6. Settled_(l) => A = l
    BY <2>2, Zenon DEF AbsorbFirst
  <2>7. Settled_(A) \/ Len(A) <= Len(L) - (n + 1)
    <3> HIDE DEF Settled_
    <3>1. CASE Settled_(l)
      BY <2>6, <3>1, Zenon
    <3>2. CASE ~Settled_(l)
      BY <2>1, <2>3, <2>5, <3>2
    <3> QED
      BY <3>1, <3>2
  <2> QED
    BY <2>3, <2>7 DEF A
<1>9. Len(L) \in P
  <2>1. Len(L) \in Nat
    BY DEF Tiles
  <2> HIDE DEF P
  <2> QED
    BY <1>7, <1>8, <2>1, AllNaturals
<1> DEFINE B == Absorbed(L, minimum)
<1>10. Tiles(B, length, W) /\ Alternates(B) /\ (Settled_(B) \/ Len(B) <= Len(L) - Len(L))
  BY <1>5, <1>9, Zenon
<1>11. Len(B) \in Nat \ {0} /\ Len(L) \in Nat
  BY <1>10 DEF Tiles
<1> HIDE DEF B
<1> QED
  BY <1>10, <1>11 DEF B

Turns == [from : Int, to : Int, who : Int]
Speakers(turns, length) == {t.who : t \in Inside(turns, length)}

\* The turns that reach into the segment.
LEMMA InsideIs ==
  ASSUME NEW turns, turns \subseteq Turns, NEW length \in Int
  PROVE  \A t \in Inside(turns, length) :
            /\ t \in turns /\ t.from \in Int /\ t.to \in Int /\ t.who \in Nat
            /\ t.to > 0 /\ t.from < length
  BY SpeakersAssumption DEF Turns, Inside, SpeakersAssumption

\* What is left of them lies in it.
LEMMA ClippedIs ==
  ASSUME NEW turns, turns \subseteq Turns, NEW length \in Nat \ {0}
  PROVE  /\ \A c \in Clipped(turns, length) :
               /\ c.from \in 0..length - 1 /\ c.to \in 1..length
               /\ c.who \in Speakers(turns, length) /\ c.who \in Nat
         /\ Clipped(turns, length) = {} <=> Inside(turns, length) = {}
<1> DEFINE Cut(t) == [t EXCEPT !.from = Larger(0, @), !.to = Smaller(length, @)]
<1>1. Clipped(turns, length) = {Cut(t) : t \in Inside(turns, length)}
  BY Zenon DEF Clipped
<1>2. ASSUME NEW t \in Inside(turns, length)
      PROVE  /\ Cut(t).from \in 0..length - 1 /\ Cut(t).to \in 1..length
             /\ Cut(t).who \in Speakers(turns, length) /\ Cut(t).who \in Nat
  <2>1. t \in turns /\ t.from \in Int /\ t.to \in Int /\ t.who \in Nat /\ t.to > 0 /\ t.from < length
    BY InsideIs
  <2>2. t \in Turns
    BY <2>1
  <2>3. Cut(t).from = Larger(0, t.from) /\ Cut(t).to = Smaller(length, t.to) /\ Cut(t).who = t.who
    BY <2>2 DEF Turns
  <2>4. t.who \in Speakers(turns, length)
    BY DEF Speakers
  <2> HIDE DEF Cut
  <2> QED
    BY <2>1, <2>3, <2>4 DEF Larger, Smaller
<1> HIDE DEF Cut
<1>3. Clipped(turns, length) = {} <=> Inside(turns, length) = {}
  BY <1>1
<1>4. ASSUME NEW c \in Clipped(turns, length)
      PROVE  /\ c.from \in 0..length - 1 /\ c.to \in 1..length
             /\ c.who \in Speakers(turns, length) /\ c.who \in Nat
  <2>1. PICK t \in Inside(turns, length) : c = Cut(t)
    BY <1>1
  <2> QED
    BY <2>1, <1>2
<1> QED
  BY <1>3, <1>4

\* A function on 1..r is a sequence.
LEMMA SequenceOf ==
  ASSUME NEW R, NEW r \in Nat, NEW f \in [1..r -> R]
  PROVE  f \in Seq(R) /\ Len(f) = r
  OBVIOUS

\* A sequence of a set is one of every larger set.
LEMMA WiderSequence ==
  ASSUME NEW A, NEW B, A \subseteq B, NEW s \in Seq(A)
  PROVE  s \in Seq(B)
<1>1. \A i \in 1..Len(s) : s[i] \in B
  BY MemberOf
<1> QED
  BY <1>1

\* How long a speaker is heard is a number.
LEMMA HeardIsNat ==
  ASSUME NEW inside, IsFiniteSet(inside), NEW who, NEW from \in Int, NEW to \in Int
  PROVE  Heard(inside, who, from, to) \in Nat
<1> DEFINE A == inside \X (from..to - 1)
           B == {h \in A : h[1].who = who /\ h[1].from <= h[2] /\ h[2] < h[1].to}
<1>1. IsFiniteSet(from..to - 1)
  BY FS_Interval
<1>2. IsFiniteSet(A)
  BY <1>1, FS_Product, Zenon
<1>3. B \in SUBSET A
  OBVIOUS
<1>4. Cardinality(B) \in Nat
  <2> HIDE DEF A, B
  <2> QED
    BY <1>2, <1>3, Counted
<1> QED
  BY <1>4, Zenon DEF Heard

\* Of the speakers that are active one dominates the others.
LEMMA OneDominates ==
  ASSUME NEW inside, IsFiniteSet(inside), NEW length \in Int, NEW from \in Int, NEW to \in Int,
         NEW A, \A w \in A : w \in Nat, IsFiniteSet(A), A # {}
  PROVE  \E w \in A : \A v \in A : Dominates(inside, length, from, to, w, v)
<1> DEFINE here == [x \in A |-> Heard(inside, x, from, to)]
           total == [x \in A |-> Heard(inside, x, 0, length)]
<1>1. here \in [A -> Int] /\ total \in [A -> Int]
  BY HeardIsNat
<1>2. \A w, v \in A : Dominates(inside, length, from, to, w, v) <=>
                         \/ here[w] > here[v]
                         \/ here[w] = here[v] /\ total[w] > total[v]
                         \/ here[w] = here[v] /\ total[w] = total[v] /\ w <= v
  BY DEF Dominates
<1> HIDE DEF here, total
<1>3. PICK x \in A : \A y \in A : here[y] <= here[x]
  BY <1>1, Greatest
<1> DEFINE B == {w \in A : here[w] = here[x]}
           totalB == [w \in B |-> total[w]]
<1>4. PICK y \in B : \A z \in B : total[z] <= total[y]
  <2>1. IsFiniteSet(B)
    BY FS_Subset
  <2>2. B # {} /\ totalB \in [B -> Int]
    BY <1>1
  <2>3. PICK y \in B : \A z \in B : totalB[z] <= totalB[y]
    <3> HIDE DEF B, totalB
    <3> QED
      BY <2>1, <2>2, Greatest
  <2> QED
    BY <2>3
<1> DEFINE C == {w \in B : total[w] = total[y]}
<1>5. PICK w \in C : \A v \in C : w <= v
  <2>1. C \in SUBSET Nat /\ C # {}
    OBVIOUS
  <2> HIDE DEF C
  <2> QED
    BY <2>1, LeastOf
<1>6. ASSUME NEW v \in A PROVE Dominates(inside, length, from, to, w, v)
  <2>1. w \in A /\ here[w] = here[x] /\ total[w] = total[y]
    OBVIOUS
  <2>2. here[v] <= here[w] /\ here[v] \in Int /\ here[w] \in Int /\ total[v] \in Int /\ total[w] \in Int
    BY <1>1, <1>3, <2>1
  <2>3. here[v] = here[w] => total[v] <= total[w]
    BY <1>4, <2>1
  <2>4. here[v] = here[w] /\ total[v] = total[w] => w <= v
    BY <1>5, <2>1
  <2> QED
    BY <1>2, <2>1, <2>2, <2>3, <2>4
<1> QED
  BY <1>6

\* Whoever an interval is given to was reported for the segment.
LEMMA SpeakerIsReported ==
  ASSUME NEW turns, turns \subseteq Turns, IsFiniteSet(turns), NEW length \in Nat \ {0},
         NEW from \in Int, NEW to \in Int, Inside(turns, length) # {}
  PROVE  SpeakerOf(turns, length, from, to) \in Speakers(turns, length)
<1> DEFINE inside == Inside(turns, length)
           active == {t.who : t \in {t \in inside : Overlap(t, from, to) > 0}}
           clipped == Clipped(turns, length)
<1>1. \A w \in active : w \in Speakers(turns, length)
  BY DEF Speakers
<1>2. CASE active # {}
  <2>1. \A w \in active : w \in 0..MaxSpeakers - 1
    BY DEF Inside
  <2>2. IsFiniteSet(active)
    <3>1. active \in SUBSET (0..MaxSpeakers - 1)
      BY <2>1
    <3>2. IsFiniteSet(0..MaxSpeakers - 1)
      BY SpeakersAssumption, FS_Interval DEF SpeakersAssumption
    <3> HIDE DEF active
    <3> QED
      BY <3>1, <3>2, FS_Subset
  <2>3. IsFiniteSet(inside)
    <3>1. inside \in SUBSET turns
      BY DEF Inside
    <3> HIDE DEF inside
    <3> QED
      BY <3>1, FS_Subset
  <2>4. \E w \in active : \A v \in active : Dominates(inside, length, from, to, w, v)
    <3>1. \A w \in active : w \in Nat
      BY <2>1
    <3>2. length \in Int
      OBVIOUS
    <3> HIDE DEF active, inside
    <3> QED
      BY ONLY <1>2, <2>2, <2>3, <3>1, <3>2, from \in Int, to \in Int, OneDominates
  <2>5. SpeakerOf(turns, length, from, to) =
           CHOOSE w \in active : \A v \in active : Dominates(inside, length, from, to, w, v)
    BY <1>2, Zenon DEF SpeakerOf
  <2> HIDE DEF active, inside
  <2> QED
    BY <1>1, <2>4, <2>5, Zenon
<1>3. CASE active = {}
  <2> DEFINE D == {Distance(t, from, to) : t \in clipped}
             nearest == Min(D)
             N == {t.who : t \in {t \in clipped : Distance(t, from, to) = nearest}}
  <2>1. SpeakerOf(turns, length, from, to) = Min(N)
    BY <1>3, Zenon DEF SpeakerOf, NearestSpeaker
  <2>2. clipped # {}
    BY ClippedIs
  <2>3. \A d \in D : d \in Nat
    <3> SUFFICES ASSUME NEW t \in clipped PROVE Distance(t, from, to) \in Nat
      OBVIOUS
    <3>1. t.from \in Int /\ t.to \in Int
      BY ClippedIs
    <3> QED
      BY <3>1 DEF Distance, Smaller, Abs
  <2>4. nearest \in D
    <3>1. D # {}
      BY <2>2
    <3> HIDE DEF D
    <3> QED
      BY <2>3, <3>1, LeastMin
  <2>5. N # {} /\ \A w \in N : w \in Nat /\ w \in Speakers(turns, length)
    <3> HIDE DEF nearest
    <3> QED
      BY <2>4, ClippedIs
  <2>6. Min(N) \in N
    <3> HIDE DEF N
    <3> QED
      BY <2>5, LeastMin
  <2> HIDE DEF N
  <2> QED
    BY <2>1, <2>5, <2>6
<1> QED
  BY <1>2, <1>3

\* split_segment_by_speaker() covers the segment, whatever the turns are.
LEMMA SplitTiles ==
  ASSUME NEW turns, turns \subseteq Turns, IsFiniteSet(turns),
         NEW length \in Nat \ {0}, NEW minimum \in Int
  PROVE  LET p == Split(turns, length, minimum)
         IN  /\ Tiles(p, length, Speakers(turns, length) \cup {Nobody}) /\ Alternates(p)
             /\ Len(p) <= 1 \/ Short(p, minimum) = {}
             /\ IF Inside(turns, length) = {} THEN \A i \in 1..Len(p) : p[i].who = Nobody
                ELSE Tiles(p, length, Speakers(turns, length))
<1> DEFINE clipped == Clipped(turns, length)
           W == Speakers(turns, length)
           edges == {0, length} \cup {t.from : t \in clipped} \cup {t.to : t \in clipped}
           q == Ascending(edges)
           m == Len(q)
           raw == [k \in 1..m - 1 |-> [from |-> q[k], to |-> q[k + 1],
                                       who |-> SpeakerOf(turns, length, q[k], q[k + 1])]]
           R == [from : Int, to : Int, who : W]
<1>1. CASE Inside(turns, length) = {}
  <2> DEFINE p == <<[from |-> 0, to |-> length, who |-> Nobody]>>
  <2>1. Clipped(turns, length) = {}
    BY <1>1, ClippedIs
  <2>2. Split(turns, length, minimum) = p
    BY <2>1, Zenon DEF Split, Normalized
  <2>3. Len(p) = 1 /\ p[1] = [from |-> 0, to |-> length, who |-> Nobody]
    OBVIOUS
  <2>4. Tiles(p, length, W \cup {Nobody}) /\ Alternates(p)
    BY DEF Tiles, Alternates
  <2>5. p[1].who = Nobody
    BY <2>3
  <2> HIDE DEF p, W
  <2>6. /\ Tiles(p, length, W \cup {Nobody}) /\ Alternates(p)
        /\ Len(p) <= 1 /\ \A i \in 1..Len(p) : p[i].who = Nobody
    BY <2>3, <2>4, <2>5
  <2> QED
    BY ONLY <1>1, <2>2, <2>6, Zenon DEF W
<1>2. CASE Inside(turns, length) # {}
  <2>1. clipped # {}
    BY <1>2, ClippedIs
  <2>2. 0 \in edges /\ length \in edges /\ \A x \in edges : x \in 0..length
    <3>1. \A c \in clipped : c.from \in 0..length - 1 /\ c.to \in 1..length
      BY ClippedIs
    <3>2. \A c \in clipped : c.from \in 0..length /\ c.to \in 0..length
      BY <3>1
    <3>3. 0 \in 0..length /\ length \in 0..length
      OBVIOUS
    <3> HIDE DEF clipped
    <3> QED
      BY ONLY <3>2, <3>3
  <2>3. IsFiniteSet(edges) /\ \A x \in edges : x \in Int
    <3>1. IsFiniteSet(0..length) /\ edges \in SUBSET (0..length)
      <4> HIDE DEF edges
      <4>1. 0 \in Int /\ length \in Int
        OBVIOUS
      <4> QED
        BY <4>1, <2>2, FS_Interval
    <3> HIDE DEF edges
    <3>2. IsFiniteSet(edges)
      BY <3>1, FS_Subset, Zenon
    <3>3. \A x \in 0..length : x \in Int
      OBVIOUS
    <3> QED
      BY ONLY <2>2, <3>2, <3>3, Zenon
  <2> HIDE DEF edges
  <2>4. /\ q \in Seq(edges) /\ m = Cardinality(edges)
        /\ \A i, j \in 1..m : i < j => q[i] < q[j]
        /\ \A x \in edges : \E i \in 1..m : q[i] = x
    BY <2>3, AscendingIs
  <2> HIDE DEF q
  <2>5. m \in Nat /\ \A k \in 1..m : q[k] \in edges /\ q[k] \in 0..length /\ q[k] \in Int
    <3>1. m \in Nat
      BY <2>4
    <3>2. ASSUME NEW k \in 1..m PROVE q[k] \in edges
      BY <2>4, MemberOf
    <3>3. \A x \in 0..length : x \in Int
      OBVIOUS
    <3> HIDE DEF m
    <3> QED
      BY ONLY <3>1, <3>2, <3>3, <2>2, Zenon
  <2>6. 2 <= m /\ q[1] = 0 /\ q[m] = length
    <3>1. PICK i \in 1..m : q[i] = 0
      BY <2>2, <2>4
    <3>2. PICK j \in 1..m : q[j] = length
      BY <2>2, <2>4
    <3>3. i # j /\ 2 <= m /\ 1 \in 1..m /\ m \in 1..m
      BY <2>5, <3>1, <3>2
    <3>4. ~(1 < i)
      BY <2>4, <2>5, <3>1, <3>3
    <3>5. ~(j < m)
      BY <2>4, <2>5, <3>2, <3>3
    <3>6. i = 1 /\ j = m
      BY <2>5, <3>4, <3>5
    <3> QED
      BY <3>1, <3>2, <3>3, <3>6
  <2>7. /\ raw \in Seq(R) /\ Len(raw) = m - 1
        /\ \A k \in 1..m - 1 : raw[k].from = q[k] /\ raw[k].to = q[k + 1]
    <3>1. ASSUME NEW k \in 1..m - 1 PROVE q[k] \in Int /\ q[k + 1] \in Int
      <4>1. k \in 1..m /\ k + 1 \in 1..m
        BY <2>5
      <4> QED
        BY <2>5, <4>1
    <3>2. ASSUME NEW k \in 1..m - 1 PROVE SpeakerOf(turns, length, q[k], q[k + 1]) \in W
      <4> HIDE DEF m
      <4> QED
        BY <1>2, <3>1, SpeakerIsReported
    <3>3. PICK r \in Nat : r = m - 1
      BY <2>5, <2>6
    <3> DEFINE e(k) == [from |-> q[k], to |-> q[k + 1], who |-> SpeakerOf(turns, length, q[k], q[k + 1])]
    <3>4. \A k \in 1..r : e(k) \in R /\ e(k).from = q[k] /\ e(k).to = q[k + 1]
      <4> HIDE DEF m, W
      <4> QED
        BY <3>1, <3>2, <3>3
    <3>5. raw = [k \in 1..r |-> e(k)]
      BY <3>3
    <3> HIDE DEF m, W, R, e
    <3>6. [k \in 1..r |-> e(k)] \in [1..r -> R]
      BY <3>4
    <3>7. raw \in [1..r -> R]
      BY ONLY <3>5, <3>6
    <3>8. \A k \in 1..r : raw[k] = e(k)
      BY ONLY <3>5
    <3> HIDE DEF raw
    <3>9. raw \in Seq(R) /\ Len(raw) = r
      BY <3>7, SequenceOf
    <3> QED
      BY <3>3, <3>4, <3>8, <3>9
  <2>8. Tiles(raw, length, W)
    <3> HIDE DEF raw
    <3>1. PICK r \in Nat \ {0} : r = m - 1
      BY <2>5, <2>6
    <3>2. Len(raw) = r /\ r + 1 = m /\ 1 \in 1..r /\ r \in 1..r
      BY <2>5, <2>7, <3>1
    <3>3. raw[1].from = 0 /\ raw[r].to = length
      BY <2>6, <2>7, <3>1, <3>2
    <3>4. ASSUME NEW i \in 1..r PROVE raw[i].from < raw[i].to
      <4>1. i \in 1..m /\ i + 1 \in 1..m /\ i < i + 1
        BY <3>2
      <4> QED
        BY <2>4, <2>7, <3>1, <4>1
    <3>5. ASSUME NEW i \in 1..r, NEW j \in 1..r, i < j PROVE raw[i].to <= raw[j].from
      <4>1. i + 1 \in 1..m /\ j \in 1..m /\ (i + 1 = j \/ i + 1 < j)
        BY <3>2, <3>5
      <4>2. q[i + 1] <= q[j]
        BY <2>4, <2>5, <4>1
      <4> QED
        BY <2>7, <3>1, <4>2
    <3>6. ASSUME NEW i \in 2..r PROVE raw[i].from = raw[i - 1].to
      <4>1. i \in 1..r /\ i - 1 \in 1..r /\ (i - 1) + 1 = i
        OBVIOUS
      <4>2. raw[i - 1].to = q[(i - 1) + 1] /\ raw[i].from = q[i]
        BY <2>7, <3>1, <4>1
      <4> QED
        BY <4>1, <4>2
    <3> HIDE DEF W, m
    <3> QED
      BY <2>7, <3>2, <3>3, <3>4, <3>5, <3>6 DEF Tiles
  <2>9. Normalized(turns, length, minimum) = Absorbed(Merged(raw), minimum)
    BY <2>1, Zenon DEF Normalized, q, edges
  <2> HIDE DEF raw, W
  <2>10. Tiles(Merged(raw), length, W) /\ Alternates(Merged(raw))
    BY <2>8, MergedTiles
  <2> DEFINE p == Normalized(turns, length, minimum)
  <2>11. Tiles(p, length, W) /\ Alternates(p) /\ (Len(p) <= 1 \/ Short(p, minimum) = {})
    <3>1. PICK L : L = Merged(raw)
      OBVIOUS
    <3>2. length \in Int /\ minimum \in Int /\ Tiles(L, length, W) /\ Alternates(L)
      BY <2>10, <3>1
    <3>3. p = Absorbed(L, minimum)
      BY <2>9, <3>1, Zenon
    <3> HIDE DEF p
    <3> QED
      BY ONLY <3>2, <3>3, AbsorbedTiles
  <2>12. p # <<>>
    BY <2>11 DEF Tiles
  <2>13. Split(turns, length, minimum) = p
    BY <2>12, Zenon DEF Split
  <2>14. Tiles(p, length, W \cup {Nobody})
    <3> HIDE DEF p
    <3>1. R \subseteq [from : Int, to : Int, who : W \cup {Nobody}]
      OBVIOUS
    <3>2. p \in Seq(R)
      BY <2>11 DEF Tiles
    <3>3. p \in Seq([from : Int, to : Int, who : W \cup {Nobody}])
      <4> HIDE DEF R
      <4> QED
        BY ONLY <3>1, <3>2, WiderSequence
    <3> QED
      BY <2>11, <3>3 DEF Tiles
  <2> HIDE DEF p
  <2> QED
    BY <1>2, <2>11, <2>13, <2>14 DEF W
<1> QED
  BY <1>1, <1>2

-----------------------------------------------------------------------------
(* The parts. *)

\* The segment that is handled was cut by split_segment_by_speaker().
CutInv == task # "idle" => cut \in Cuts /\ at \in 1..Len(cut.parts)

\* Every cut tiles the segment, for the speakers that were reported.
LEMMA CutIs ==
  ASSUME NEW c \in Cuts
  PROVE  /\ Tiles(c.parts, SegmentLength, c.speakers \cup {Nobody}) /\ Alternates(c.parts)
         /\ Len(c.parts) > 1 => Short(c.parts, c.minimum) = {}
         /\ IF c.speakers = {} THEN \A i \in 1..Len(c.parts) : c.parts[i].who = Nobody
            ELSE Tiles(c.parts, SegmentLength, c.speakers)
         /\ \A w \in c.speakers : w \in 0..MaxSpeakers - 1
         /\ c.minimum \in Int
<1>1. PICK turns \in TurnSets, minimum \in Minimums :
         /\ c.parts = Split(turns, SegmentLength, minimum)
         /\ c.speakers = Speakers(turns, SegmentLength)
         /\ c.minimum = minimum
  BY DEF Cuts, Speakers
<1>2. turns \subseteq Turns /\ IsFiniteSet(turns) /\ minimum \in Int /\ SegmentLength \in Nat \ {0}
  BY TaskAssumption DEF TaskAssumption, Turns
<1>3. c.speakers = {} <=> Inside(turns, SegmentLength) = {}
  BY <1>1 DEF Speakers
<1>4. \A w \in c.speakers : w \in 0..MaxSpeakers - 1
  BY <1>1 DEF Speakers, Inside
<1>5. PICK p : p = Split(turns, SegmentLength, minimum)
  OBVIOUS
<1>6. /\ Tiles(p, SegmentLength, c.speakers \cup {Nobody}) /\ Alternates(p)
      /\ Len(p) <= 1 \/ Short(p, minimum) = {}
      /\ IF Inside(turns, SegmentLength) = {} THEN \A i \in 1..Len(p) : p[i].who = Nobody
         ELSE Tiles(p, SegmentLength, c.speakers)
  <2>1. LET P == Split(turns, SegmentLength, minimum)
        IN  /\ Tiles(P, SegmentLength, Speakers(turns, SegmentLength) \cup {Nobody}) /\ Alternates(P)
            /\ Len(P) <= 1 \/ Short(P, minimum) = {}
            /\ IF Inside(turns, SegmentLength) = {} THEN \A i \in 1..Len(P) : P[i].who = Nobody
               ELSE Tiles(P, SegmentLength, Speakers(turns, SegmentLength))
    BY ONLY <1>2, SplitTiles
  <2> QED
    BY <1>1, <1>5, <2>1, Zenon
<1>7. Len(p) \in Nat
  BY <1>6 DEF Tiles
<1>8. Len(p) > 1 => Short(p, minimum) = {}
  BY <1>6, <1>7
<1> QED
  BY <1>1, <1>2, <1>3, <1>4, <1>5, <1>6, <1>8, Zenon

\* Nothing but BeginSegment makes a cut, and the parts are handled in order.
LEMMA NextCut == CutInv /\ [Next]_vars => CutInv'
<1> SUFFICES ASSUME CutInv, [Next]_vars PROVE CutInv'
  OBVIOUS
<1>1. CASE BeginSegment
  <2>1. cut' \in Cuts /\ at' = 1
    BY <1>1 DEF BeginSegment
  <2>2. Len(cut'.parts) \in Nat \ {0}
    BY <2>1, CutIs DEF Tiles
  <2> QED
    BY <2>1, <2>2 DEF CutInv
<1>2. ASSUME NextPart, task # "idle" PROVE CutInv'
  <2>1. cut \in Cuts /\ at \in 1..Len(cut.parts)
    BY <1>2 DEF CutInv
  <2>2. Len(cut.parts) \in Nat
    BY <2>1, CutIs DEF Tiles
  <2> QED
    BY <1>2, <2>1, <2>2 DEF NextPart, CutInv
<1>3. CASE RaiseError
  BY <1>3 DEF RaiseError, CutInv
<1>4. CASE /\ UNCHANGED <<cut, at>>
           /\ task' = "idle" => task = "idle"
           /\ task = "idle" => task' = "idle"
  BY <1>4 DEF CutInv
<1>5. CASE ReceiveFrame \/ EndSession \/ UNCHANGED vars
  BY <1>4, <1>5 DEF ReceiveFrame, EndSession, engine, vars
<1>6. CASE PreparePart \/ AskModels
  BY <1>4, <1>6 DEF PreparePart, AskModels
<1>7. CASE RecallReturns \/ PrimaryAnswers \/ PrimaryRetries \/ PrimaryFails \/ SecondaryAnswers
  BY <1>4, <1>7 DEF RecallReturns, PrimaryAnswers, PrimaryRetries, PrimaryFails, SecondaryAnswers,
                    UnchangedButCalls
<1>8. CASE SkipGated \/ SendFinal \/ SkipSilent
  BY <1>2, <1>8 DEF SkipGated, SendFinal, SkipSilent
<1> QED
  BY <1>1, <1>3, <1>5, <1>6, <1>7, <1>8, Zenon DEF Next

\* The segment being handled is always one of the cuts.
LEMMA AlwaysCut == Spec => []CutInv
<1>1. Init => CutInv
  BY DEF Init, CutInv
<1> QED
  BY <1>1, NextCut, PTL DEF Spec

\* However the turns of the sidecar overlap, leave gaps or reach beyond the
\* segment, and however long it is, the parts cover it exactly and in order, no
\* two neighbours are of one speaker, every speaker was reported, and only a
\* segment left whole is shorter than the minimum (turns.py:70-170).
THEOREM PartsCoverTheSegment == Spec => []PartsPartition
<1>1. CutInv => PartsPartition
  <2> SUFFICES ASSUME CutInv, task # "idle" PROVE PartsPartition
    BY DEF PartsPartition
  <2>1. cut \in Cuts
    BY DEF CutInv
  <2>2. PICK p : p = cut.parts
    OBVIOUS
  <2>3. PICK S : S = cut.speakers
    OBVIOUS
  <2>4. /\ Tiles(p, SegmentLength, S \cup {Nobody}) /\ Alternates(p)
        /\ Len(p) > 1 => Short(p, cut.minimum) = {}
        /\ IF S = {} THEN \A i \in 1..Len(p) : p[i].who = Nobody ELSE Tiles(p, SegmentLength, S)
        /\ cut.minimum \in Int
    BY <2>1, <2>2, <2>3, CutIs
  <2>5. DOMAIN p = 1..Len(p)
    BY <2>4 DEF Tiles
  <2>6. \A i \in DOMAIN p : p[i].who \in S \/ (S = {} /\ p[i].who = Nobody)
    <3>1. CASE S = {}
      BY <2>4, <2>5, <3>1
    <3>2. CASE S # {}
      <4>1. p \in Seq([from : Int, to : Int, who : S])
        BY <2>4, <3>2 DEF Tiles
      <4>2. \A i \in 1..Len(p) : p[i] \in [from : Int, to : Int, who : S]
        BY <4>1, MemberOf
      <4> QED
        BY <2>5, <4>2
    <3> QED
      BY <3>1, <3>2
  <2>7. Len(p) > 1 => \A i \in DOMAIN p : Length(p[i]) >= cut.minimum
    <3>1. \A i \in 1..Len(p) : p[i].from \in Int /\ p[i].to \in Int
      <4>1. p \in Seq([from : Int, to : Int, who : S \cup {Nobody}])
        BY <2>4 DEF Tiles
      <4>2. \A i \in 1..Len(p) : p[i] \in [from : Int, to : Int, who : S \cup {Nobody}]
        BY <4>1, MemberOf
      <4> QED
        BY <4>2
    <3> QED
      BY <2>4, <2>5, <3>1 DEF Short, Length
  <2>8. /\ p[1].from = 0 /\ p[Len(p)].to = SegmentLength
        /\ \A i \in DOMAIN p : p[i].from < p[i].to
        /\ \A i \in 2..Len(p) : p[i].from = p[i - 1].to /\ p[i].who # p[i - 1].who
    BY <2>4, <2>5 DEF Tiles, Alternates
  <2> QED
    BY <2>2, <2>3, <2>6, <2>7, <2>8, Zenon DEF PartsPartition
<1> QED
  BY <1>1, AlwaysCut, PTL

-----------------------------------------------------------------------------
(* The audio of a part. *)

\* An increasing sequence of numbers spreads at least as fast as its indices.
LEMMA Spread ==
  ASSUME NEW n \in Nat, NEW q, \A i \in 1..n : q[i] \in Int,
         \A i, j \in 1..n : i < j => q[i] < q[j],
         NEW i \in 1..n, NEW j \in 1..n, i <= j
  PROVE  j - i <= q[j] - q[i]
<1> DEFINE S == {d \in Nat : i + d \in 1..n => d <= q[i + d] - q[i]}
<1>1. 0 \in S
  OBVIOUS
<1>2. ASSUME NEW d \in Nat, d \in S PROVE d + 1 \in S
  <2> SUFFICES ASSUME i + (d + 1) \in 1..n PROVE d + 1 <= q[i + (d + 1)] - q[i]
    OBVIOUS
  <2>1. i + d \in 1..n /\ i + d < i + (d + 1)
    OBVIOUS
  <2>2. q[i + d] < q[i + (d + 1)] /\ d <= q[i + d] - q[i]
    BY <1>2, <2>1
  <2>3. q[i + d] \in Int /\ q[i + (d + 1)] \in Int /\ q[i] \in Int
    BY <2>1
  <2> QED
    BY <2>2, <2>3
<1> HIDE DEF S
<1>3. \A d \in Nat : d \in S
  BY <1>1, <1>2, AllNaturals
<1>4. j - i \in Nat /\ i + (j - i) = j
  OBVIOUS
<1>5. j - i \in S
  BY <1>3, <1>4
<1> QED
  BY <1>4, <1>5 DEF S

\* A member that no other exceeds is the maximum.
LEMMA MaxIs ==
  ASSUME NEW S, \A x \in S : x \in Int, NEW m \in S, \A y \in S : y <= m
  PROVE  Max(S) = m
<1>1. \A x \in S : (\A y \in S : x >= y) => x = m
  OBVIOUS
<1>2. \A y \in S : m >= y
  OBVIOUS
<1> QED
  BY <1>1, <1>2 DEF Max

\* The greatest of some numbers up to n.
LEMMA MaxUpto ==
  ASSUME NEW n \in Nat, NEW S, \A x \in S : x \in 0..n, S # {}
  PROVE  Max(S) \in S
<1> DEFINE f == [x \in S |-> x]
<1>1. IsFiniteSet(S)
  <2>1. IsFiniteSet(0..n) /\ S \in SUBSET (0..n)
    BY FS_Interval
  <2> QED
    BY <2>1, FS_Subset, Zenon
<1>2. f \in [S -> Int]
  OBVIOUS
<1>3. PICK m \in S : \A y \in S : f[y] <= f[m]
  <2> HIDE DEF f
  <2> QED
    BY <1>1, <1>2, Greatest
<1>4. \A y \in S : y <= m
  BY <1>3
<1> QED
  BY <1>4, MaxIs

\* The ends of a run are numbers.
LEMMA RunIs ==
  ASSUME NEW n \in Nat, NEW f \in [1..n -> BOOLEAN], NEW p \in 1..n
  PROVE  RunOf(f, p).from \in Int /\ RunOf(f, p).to \in Int
<1> DEFINE A == {0} \cup {q \in 1..p : f[q]}
           B == {Len(f) + 1} \cup {q \in p..Len(f) : f[q]}
<1>1. Len(f) = n
  OBVIOUS
<1>2. Max(A) \in A
  <2>1. A # {} /\ \A x \in A : x \in 0..n
    OBVIOUS
  <2> HIDE DEF A
  <2> QED
    BY <2>1, MaxUpto
<1>3. Min(B) \in B
  <2>1. B # {} /\ \A x \in B : x \in Nat
    BY <1>1
  <2> HIDE DEF B
  <2> QED
    BY <2>1, LeastMin
<1>4. (\A x \in A : x \in Int) /\ \A x \in B : x \in Int
  BY <1>1
<1>5. RunOf(f, p).from = Max(A) /\ RunOf(f, p).to = Min(B)
  BY DEF RunOf
<1> QED
  BY <1>2, <1>3, <1>4, <1>5

\* Where a frame is silent, in a pause that is removed.
Paused(f, q) ==
    /\ ~f[q]
    /\ RunOf(f, q).from # 0 /\ RunOf(f, q).to # Len(f) + 1
    /\ RunOf(f, q).to - RunOf(f, q).from > MinSilence

\* The indices that stay of a set of indices, in order.
LEMMA Kept ==
  ASSUME NEW n \in Nat, NEW A, \A x \in A : x \in 1..n
  PROVE  /\ Ascending(A) \in Seq(A) /\ Len(Ascending(A)) \in Nat
         /\ \A k \in 1..Len(Ascending(A)) : Ascending(A)[k] \in A
         /\ \A i, j \in 1..Len(Ascending(A)) : i < j => Ascending(A)[i] < Ascending(A)[j]
         /\ \A x \in A : \E i \in 1..Len(Ascending(A)) : Ascending(A)[i] = x
<1>1. IsFiniteSet(A)
  <2>1. IsFiniteSet(1..n) /\ A \in SUBSET (1..n)
    BY FS_Interval
  <2> QED
    BY <2>1, FS_Subset, Zenon
<1>2. \A x \in A : x \in Int
  OBVIOUS
<1>3. PICK q : q = Ascending(A)
  OBVIOUS
<1>4. /\ q \in Seq(A) /\ Len(q) = Cardinality(A)
      /\ \A i, j \in 1..Len(q) : i < j => q[i] < q[j]
      /\ \A x \in A : \E i \in 1..Len(q) : q[i] = x
  BY <1>1, <1>2, <1>3, AscendingIs
<1>5. \A k \in 1..Len(q) : q[k] \in A
  BY <1>4, MemberOf
<1>6. Len(q) \in Nat
  BY <1>4
<1> QED
  BY <1>3, <1>4, <1>5, <1>6

\* What the two passes leave of a part.
LEMMA PassesKeepSpeech ==
  ASSUME NEW n \in Nat, NEW f \in [1..n -> BOOLEAN], NEW s, s = Trimmed(f),
         NEW r, r = Filtered(f, s)
  PROVE  /\ \A p \in 1..n : f[p] =>
              \A q \in 1..n : (p - PreFrames <= q /\ q <= p + TailFrames) =>
                 (\E k \in DOMAIN r : r[k] = q) \/ Paused(f, q)
         /\ \A k \in 2..Len(r) : r[k - 1] < r[k]
<1> DEFINE A == {p \in DOMAIN f : \/ f[p]
                                  \/ RunOf(f, p).from = 0 \/ RunOf(f, p).to = Len(f) + 1
                                  \/ RunOf(f, p).to - RunOf(f, p).from <= MinSilence}
           voice == \E j \in DOMAIN s : f[s[j]]
           near(k) == \E j \in DOMAIN s : f[s[j]] /\ j - PreFrames <= k /\ k <= j + TailFrames
           B == {k \in DOMAIN s : near(k)}
           t == Ascending(B)
<1>1. \A x \in A : x \in 1..n
  OBVIOUS
<1>2. s = Ascending(A)
  BY Zenon DEF Trimmed
<1>3. PreFrames \in Nat /\ TailFrames \in Nat /\ MinSilence \in Nat
  BY TaskAssumption DEF TaskAssumption
<1>4. PICK m : m = Len(s)
  OBVIOUS
<1>5. /\ s \in Seq(A) /\ m \in Nat
      /\ \A k \in 1..m : s[k] \in A /\ s[k] \in 1..n
      /\ \A i, j \in 1..m : i < j => s[i] < s[j]
      /\ \A x \in A : \E i \in 1..m : s[i] = x
  <2> HIDE DEF A
  <2>1. /\ s \in Seq(A) /\ m \in Nat
        /\ \A k \in 1..m : s[k] \in A
        /\ \A i, j \in 1..m : i < j => s[i] < s[j]
        /\ \A x \in A : \E i \in 1..m : s[i] = x
    BY <1>1, <1>2, <1>4, Kept
  <2> QED
    BY <1>1, <2>1
<1>6. DOMAIN s = 1..m
  BY <1>4, <1>5
<1>7. /\ \A k \in 1..Len(t) : t[k] \in B /\ t[k] \in 1..m
      /\ Len(t) \in Nat /\ DOMAIN t = 1..Len(t)
      /\ \A i, j \in 1..Len(t) : i < j => t[i] < t[j]
      /\ \A x \in B : \E i \in 1..Len(t) : t[i] = x
  <2>1. \A x \in B : x \in 1..m
    BY <1>6
  <2> HIDE DEF B
  <2>2. PICK u : u = Ascending(B)
    OBVIOUS
  <2>3. /\ u \in Seq(B) /\ Len(u) \in Nat
        /\ \A k \in 1..Len(u) : u[k] \in B
        /\ \A i, j \in 1..Len(u) : i < j => u[i] < u[j]
        /\ \A x \in B : \E i \in 1..Len(u) : u[i] = x
    <3>1. m \in Nat
      BY <1>5
    <3> QED
      BY ONLY <2>1, <2>2, <3>1, Kept
  <2>4. DOMAIN u = 1..Len(u)
    BY <2>3
  <2> QED
    BY <2>1, <2>2, <2>3, <2>4
<1>8. r = IF voice THEN [k \in DOMAIN t |-> s[t[k]]] ELSE s
  BY Zenon DEF Filtered
<1> HIDE DEF t
<1>9. ASSUME NEW p \in 1..n, f[p], NEW q \in 1..n, p - PreFrames <= q, q <= p + TailFrames
      PROVE  (\E k \in DOMAIN r : r[k] = q) \/ Paused(f, q)
  <2>1. CASE q \notin A
    <3>1. RunOf(f, q).from \in Int /\ RunOf(f, q).to \in Int
      BY RunIs
    <3>2. /\ ~f[q] /\ RunOf(f, q).from # 0 /\ RunOf(f, q).to # Len(f) + 1
          /\ ~(RunOf(f, q).to - RunOf(f, q).from <= MinSilence)
      BY <2>1
    <3> QED
      BY <1>3, <3>1, <3>2 DEF Paused
  <2>2. CASE q \in A
    <3>1. p \in A
      BY <1>9
    <3> HIDE DEF A
    <3>2. PICK j \in 1..m : s[j] = p
      BY <1>5, <3>1
    <3>3. PICK k \in 1..m : s[k] = q
      BY <1>5, <2>2
    <3>4. \A i \in 1..m : s[i] \in Int
      BY <1>5
    <3>5. j - PreFrames <= k /\ k <= j + TailFrames
      <4>1. CASE k <= j
        <5>1. j - k <= p - q
          BY ONLY <1>5, <3>2, <3>3, <3>4, <4>1, Spread
        <5> QED
          BY <1>3, <1>5, <1>9, <4>1, <5>1
      <4>2. CASE j <= k
        <5>1. k - j <= q - p
          BY ONLY <1>5, <3>2, <3>3, <3>4, <4>2, Spread
        <5> QED
          BY <1>3, <1>5, <1>9, <4>2, <5>1
      <4> QED
        BY <1>5, <4>1, <4>2
    <3>6. k \in B /\ voice
      BY <1>6, <1>9, <3>2, <3>5
    <3> HIDE DEF B, voice
    <3>7. PICK i \in 1..Len(t) : t[i] = k
      BY <1>7, <3>6
    <3>8. i \in DOMAIN r /\ r[i] = q
      BY <1>7, <1>8, <3>3, <3>6, <3>7
    <3> QED
      BY <3>8
  <2> QED
    BY <2>1, <2>2
<1>10. ASSUME NEW k \in 2..Len(r) PROVE r[k - 1] < r[k]
  <2> HIDE DEF A, B
  <2>1. CASE voice
    <3> HIDE DEF voice
    <3>1. r = [i \in 1..Len(t) |-> s[t[i]]]
      BY <1>7, <1>8, <2>1
    <3>2. PICK h : h = Len(t)
      OBVIOUS
    <3>3. h \in Nat /\ r = [i \in 1..h |-> s[t[i]]]
      BY <1>7, <3>1, <3>2
    <3>4. Len(r) = h
      BY ONLY <3>3
    <3>5. k \in 1..h /\ k - 1 \in 1..h /\ k - 1 < k
      BY <3>3, <3>4
    <3>6. t[k - 1] < t[k] /\ t[k - 1] \in 1..m /\ t[k] \in 1..m
      BY <1>7, <3>2, <3>5
    <3>7. r[k - 1] = s[t[k - 1]] /\ r[k] = s[t[k]]
      BY <3>3, <3>5
    <3> QED
      BY <1>5, <3>6, <3>7
  <2>2. CASE ~voice
    <3> HIDE DEF voice
    <3>1. r = s
      BY <1>8, <2>2
    <3>2. k \in 1..m /\ k - 1 \in 1..m /\ k - 1 < k
      BY <1>4, <1>5, <3>1
    <3> QED
      BY <1>5, <3>1, <3>2
  <2> QED
    BY <2>1, <2>2
<1> QED
  BY <1>9, <1>10

Prepared ==
    task = "prepared" => /\ \E n \in Nat : flags \in [1..n -> BOOLEAN]
                         /\ kept = Filtered(flags, Trimmed(flags))

\* The part that is handled has a length.
LEMMA PartLengthIs ==
  ASSUME CutInv, task # "idle"
  PROVE  Length(Part) \in Nat
<1>1. cut \in Cuts /\ at \in 1..Len(cut.parts)
  BY DEF CutInv
<1>2. PICK p : p = cut.parts
  OBVIOUS
<1>3. Tiles(p, SegmentLength, cut.speakers \cup {Nobody}) /\ at \in 1..Len(p)
  BY <1>1, <1>2, CutIs
<1>4. p \in Seq([from : Int, to : Int, who : cut.speakers \cup {Nobody}])
  BY <1>3 DEF Tiles
<1>5. p[at] \in [from : Int, to : Int, who : cut.speakers \cup {Nobody}]
  BY <1>3, <1>4, MemberOf
<1>6. p[at].from < p[at].to
  BY <1>3 DEF Tiles
<1>7. Part = p[at]
  BY <1>2 DEF Part
<1> QED
  BY <1>5, <1>6, <1>7 DEF Length

\* The frames prepared stay those that the two passes left.
LEMMA NextPrepared == CutInv /\ Prepared /\ [Next]_vars => Prepared'
<1> SUFFICES ASSUME CutInv, Prepared, [Next]_vars PROVE Prepared'
  OBVIOUS
<1>1. CASE PreparePart
  <2>1. task = "part" /\ flags' \in [1..Length(Part) -> BOOLEAN]
        /\ kept' = Filtered(flags', Trimmed(flags'))
    BY <1>1, Zenon DEF PreparePart
  <2>2. Length(Part) \in Nat
    BY <2>1, PartLengthIs
  <2>3. \E n \in Nat : flags' \in [1..n -> BOOLEAN]
    BY <2>1, <2>2, Zenon
  <2> QED
    BY <2>1, <2>3, Zenon DEF Prepared
<1>2. CASE UNCHANGED <<task, flags, kept>>
  BY <1>2, Zenon DEF Prepared
<1>3. CASE task' # "prepared"
  BY <1>3 DEF Prepared
<1>4. CASE BeginSegment \/ AskModels \/ RaiseError
  BY <1>3, <1>4 DEF BeginSegment, AskModels, RaiseError
<1>5. CASE SkipGated \/ SendFinal \/ SkipSilent
  <2>1. NextPart
    BY <1>5, Zenon DEF SkipGated, SendFinal, SkipSilent
  <2> QED
    BY <1>3, <2>1 DEF NextPart
<1>6. CASE ReceiveFrame \/ EndSession \/ UNCHANGED vars
  BY <1>2, <1>6, Zenon DEF ReceiveFrame, EndSession, engine, vars
<1>7. CASE RecallReturns \/ PrimaryAnswers \/ PrimaryRetries \/ PrimaryFails \/ SecondaryAnswers
  BY <1>2, <1>7, Zenon DEF RecallReturns, PrimaryAnswers, PrimaryRetries, PrimaryFails, SecondaryAnswers,
                    UnchangedButCalls
<1> QED
  BY <1>1, <1>4, <1>5, <1>6, <1>7, Zenon DEF Next

\* Removing long silences and then filtering by voice costs no voice, for every
\* part and every voice activity in it: what is asked of the models has every
\* voiced frame, in order, and around each the promised margin, except where a
\* long pause was taken out whole (vad.py:307-596).
THEOREM NoVoiceIsCut == Spec => []SpeechSurvives
<1>1. Init => Prepared
  BY DEF Init, Prepared
<1>2. Prepared => SpeechSurvives
  <2> SUFFICES ASSUME Prepared, task = "prepared" PROVE SpeechSurvives
    BY DEF SpeechSurvives
  <2>1. PICK n \in Nat : flags \in [1..n -> BOOLEAN]
    BY DEF Prepared
  <2>2. kept = Filtered(flags, Trimmed(flags))
    BY DEF Prepared
  <2>3. /\ \A p \in 1..n : flags[p] =>
             \A q \in 1..n : (p - PreFrames <= q /\ q <= p + TailFrames) =>
                (\E k \in DOMAIN kept : kept[k] = q) \/ Paused(flags, q)
        /\ \A k \in 2..Len(kept) : kept[k - 1] < kept[k]
    BY <2>1, <2>2, PassesKeepSpeech
  <2>4. ASSUME NEW p \in Voiced(flags), NEW q \in DOMAIN flags \cap p - PreFrames..p + TailFrames
        PROVE  q \in {kept[k] : k \in DOMAIN kept} \/ InLongPause(q)
    <3>1. p \in 1..n /\ flags[p] /\ q \in 1..n
      BY <2>1 DEF Voiced
    <3>2. p - PreFrames <= q /\ q <= p + TailFrames
      BY TaskAssumption, <3>1 DEF TaskAssumption
    <3>3. (\E k \in DOMAIN kept : kept[k] = q) \/ Paused(flags, q)
      BY <2>3, <3>1, <3>2
    <3> QED
      BY <3>3, Zenon DEF Paused, InLongPause
  <2> QED
    BY <2>3, <2>4, Zenon DEF SpeechSurvives
<1> QED
  BY <1>1, <1>2, AlwaysCut, NextPrepared, PTL DEF Spec

-----------------------------------------------------------------------------
(* The audio of a session. *)

\* Once the first bytes are understood, what was passed on is whole samples and
\* ends with the bytes received, but for one.
Passes ==
    /\ received \in Nat /\ marker \in Nat
    /\ resolved => /\ base \in Nat \ {0} /\ passed \in Nat /\ base <= passed + 1
                   /\ (passed - base + 1) % 2 = 0
                   /\ received - passed \in 0..1

\* The sizes of a header are numbers.
LEMMA Sizes == /\ Magic \in Nat /\ SizeField \in Nat /\ ScanLimit \in Nat /\ Bytes \in Nat
               /\ Markers \subseteq Nat
  BY ProtocolAssumption DEF ProtocolAssumption

\* At most one byte is kept for the next chunk.
LEMMA Whole ==
  ASSUME NEW f \in Nat \ {0}, NEW l \in Nat, f <= l + 1
  PROVE  /\ WholeSamples(f, l) \in Nat /\ f <= WholeSamples(f, l) + 1
         /\ (WholeSamples(f, l) - f + 1) % 2 = 0 /\ l - WholeSamples(f, l) \in 0..1
<1>1. CASE (l - f + 1) % 2 = 0
  BY <1>1 DEF WholeSamples
<1>2. CASE (l - f + 1) % 2 = 1
  BY <1>2 DEF WholeSamples
<1> QED
  BY <1>1, <1>2

\* Before the first frame nothing is passed on.
LEMMA InitPasses == Init => Passes
  BY Sizes DEF Init, ProtocolInit, Passes

\* _extract_pcm() passes on whole samples.
LEMMA ExtractPasses ==
  ASSUME Passes, NEW n \in Nat, ExtractPcm(n), marker' = marker
  PROVE  Passes'
<1>1. received' \in Nat /\ received' >= received /\ received' = received + n
  BY DEF Passes, ExtractPcm
<1>2. CASE resolved
  <2>1. resolved' = resolved /\ base' = base /\ passed' = WholeSamples(base, received')
    BY <1>2 DEF ExtractPcm
  <2>2. base \in Nat \ {0} /\ base <= received' + 1
    BY <1>1, <1>2 DEF Passes
  <2> QED
    BY <1>1, <2>1, <2>2, Whole DEF Passes
<1>3. CASE ~resolved /\ ~resolved'
  BY <1>1, <1>3 DEF Passes
<1>4. CASE ~resolved /\ resolved'
  <2>1. /\ base' = IF wav /\ HeaderFound(received')
                   THEN (IF received' < marker + SizeField THEN received' ELSE marker + SizeField) + 1
                   ELSE 1
        /\ passed' = IF base' > received' THEN base' - 1 ELSE WholeSamples(base', received')
    BY <1>4, Zenon DEF ExtractPcm
  <2>2. base' \in Nat \ {0} /\ base' <= received' + 1
    BY <1>1, <2>1, Sizes DEF Passes
  <2>3. CASE base' > received'
    BY <1>1, <2>1, <2>2, <2>3 DEF Passes
  <2>4. CASE ~(base' > received')
    BY <1>1, <2>1, <2>2, <2>4, Whole DEF Passes
  <2> QED
    BY <2>3, <2>4
<1> QED
  BY <1>2, <1>3, <1>4

\* So does every step.
LEMMA NextPasses == Passes /\ [Next]_vars => Passes'
<1> SUFFICES ASSUME Passes, [Next]_vars PROVE Passes'
  OBVIOUS
<1>1. ASSUME NEW n \in 0..Bytes, NEW last \in BOOLEAN, Frame(n, last)
      PROVE  Passes'
  <2>1. n \in Nat
    BY Sizes
  <2> QED
    BY <1>1, <2>1, ExtractPasses DEF Frame
<1>2. CASE FrameRefused
  BY <1>2 DEF FrameRefused, Passes
<1>3. CASE UNCHANGED decoder
  BY <1>3 DEF decoder, Passes
<1> QED
  BY <1>1, <1>2, <1>3, Zenon
     DEF Next, ReceiveFrame, EndSession, BeginSegment, PreparePart, SkipGated, AskModels,
         RecallReturns, PrimaryAnswers, PrimaryRetries, PrimaryFails, SecondaryAnswers,
         SendFinal, SkipSilent, RaiseError, UnchangedButCalls, vars

\* However a client cuts its recording into frames, and wherever the header of a
\* WAV file ends in them, the VAD is fed whole samples, none missing and none
\* twice (protocol.py:396-435).
THEOREM AudioStaysContiguous == Spec => []AudioIsContiguous
<1>1. Spec => []Passes
  BY InitPasses, NextPasses, PTL DEF Spec
<1>2. Passes => AudioIsContiguous
  BY DEF Passes, AudioIsContiguous
<1> QED
  BY <1>1, <1>2, PTL

-----------------------------------------------------------------------------
(* The enrolment. *)

Calls == [state : {"none", "recall", "post", "text", "empty", "failed"}, embeds : BOOLEAN,
          carries : BOOLEAN, applied : BOOLEAN, enrollment : Enrollments]

\* The call and its request never disagree on whether the enrolment is there.
FlagIsRight == primary \in Calls /\ primary.applied = primary.carries

SentencesSent == \E S : wire \in Seq(S)

\* A call that is not made carries no enrolment.
LEMMA NoCallIsRight == NoCall \in Calls /\ NoCall.applied = NoCall.carries
  BY DEF NoCall, Calls, Enrollments

\* Every step leaves the flag of the call and its request in agreement.
LEMMA NextFlag == FlagIsRight /\ [Next]_vars => FlagIsRight'
<1> SUFFICES ASSUME FlagIsRight, [Next]_vars PROVE FlagIsRight'
  OBVIOUS
<1>1. ASSUME AskModels PROVE FlagIsRight'
  <2>1. PICK enrollment \in Enrollments, recall \in BOOLEAN :
          primary' \in {[NoCall EXCEPT !.enrollment = enrollment], CallOf(enrollment, recall)}
    BY <1>1, Zenon DEF AskModels
  <2>2. CASE primary' = [NoCall EXCEPT !.enrollment = enrollment]
    BY <2>2, NoCallIsRight DEF FlagIsRight, Calls
  <2>3. CASE primary' = CallOf(enrollment, recall)
    BY <2>3 DEF CallOf, FlagIsRight, Calls
  <2> QED
    BY <2>1, <2>2, <2>3
<1>2. CASE RecallReturns
  <2>1. PICK r \in Recalled(primary.enrollment) :
          primary' = [primary EXCEPT !.state = "post", !.embeds = r.embeds,
                                     !.carries = @ \/ r.found, !.applied = @ \/ r.found]
    BY <1>2 DEF RecallReturns
  <2> QED
    BY <2>1 DEF Recalled, FlagIsRight, Calls
<1>3. CASE PrimaryAnswers \/ PrimaryRetries \/ PrimaryFails
  BY <1>3 DEF PrimaryAnswers, PrimaryRetries, PrimaryFails, Parsed, FlagIsRight, Calls
<1>4. CASE primary' = NoCall \/ primary' = primary
  BY <1>4, NoCallIsRight DEF FlagIsRight
<1> QED
  BY <1>1, <1>2, <1>3, <1>4, Zenon
     DEF Next, ReceiveFrame, EndSession, BeginSegment, PreparePart, SkipGated,
         SecondaryAnswers, SendFinal, SkipSilent, RaiseError, NextPart, engine, vars

\* Sentences are only ever appended, one at a time, by SendFinal.
LEMMA NextSent ==
  ASSUME SentencesSent, [Next]_vars
  PROVE  /\ SentencesSent'
         /\ wire' = wire \/ (SendFinal /\ wire' = Append(wire, Sentence(Part.who, EnrollmentApplied)))
<1>1. wire' = wire \/ (SendFinal /\ wire' = Append(wire, Sentence(Part.who, EnrollmentApplied)))
  BY Zenon
     DEF Next, ReceiveFrame, Frame, FrameRefused, EndSession, EncodeTerminal, BeginSegment,
         PreparePart, SkipGated, AskModels, RecallReturns, PrimaryAnswers, PrimaryRetries,
         PrimaryFails, SecondaryAnswers, SendFinal, EncodeSentence, SendAsIs, SkipSilent,
         RaiseError, UnchangedButCalls, encoder, vars
<1>2. PICK S : wire \in Seq(S)
  BY DEF SentencesSent
<1>3. \A e : Append(wire, e) \in Seq(S \cup {e})
  BY <1>2
<1> QED
  BY <1>1, <1>2, <1>3, Zenon DEF SentencesSent

\* Whatever the recall service returns and whatever the primary model makes the
\* client ask again, enrollment_applied says whether the request that was
\* answered carried the enrolment (client.py:558-590).
THEOREM EnrollmentFlagHolds == Spec => EnrollmentFlagIsHonest
<1>1. Init => FlagIsRight /\ SentencesSent
  <2> SUFFICES ASSUME Init PROVE FlagIsRight /\ SentencesSent
    OBVIOUS
  <2>1. primary = NoCall /\ wire = <<>>
    BY Zenon DEF Init, ProtocolInit
  <2>2. <<>> \in Seq({})
    OBVIOUS
  <2> QED
    BY <2>1, <2>2, NoCallIsRight DEF FlagIsRight, SentencesSent
<1>2. FlagIsRight /\ SentencesSent /\ [Next]_vars => (FlagIsRight /\ SentencesSent)'
  BY NextFlag, NextSent
<1>3. FlagIsRight /\ SentencesSent /\ [Next]_vars =>
         [(Len(wire') > Len(wire) /\ Answered) => Last(wire').applied = primary.carries]_vars
  <2> SUFFICES ASSUME FlagIsRight, SentencesSent, [Next]_vars,
                      Len(wire') > Len(wire), Answered
               PROVE  Last(wire').applied = primary.carries
    OBVIOUS
  <2>1. PICK S : wire \in Seq(S)
    BY DEF SentencesSent
  <2>2. PICK e : e = Sentence(Part.who, EnrollmentApplied)
    OBVIOUS
  <2>3. Len(wire) \in Nat /\ wire' = Append(wire, e)
    BY <2>1, <2>2, NextSent
  <2>4. Last(wire') = e
    BY <2>1, <2>3 DEF Last
  <2>5. e.applied = EnrollmentApplied
    BY <2>2 DEF Sentence
  <2> QED
    BY <2>4, <2>5, Zenon DEF EnrollmentApplied, FlagIsRight
<1> QED
  BY <1>1, <1>2, <1>3, PTL DEF Spec, EnrollmentFlagIsHonest

-----------------------------------------------------------------------------
(* What the endpoint forces. *)

\* Settling a configuration yields one.
LEMMA SettledIsConfig ==
  ASSUME NEW c \in Configs
  PROVE  Settled(c) \in Configs
  BY DEF Settled, Configs, Switches

\* So does overriding it.
LEMMA OverrideIsConfig ==
  ASSUME NEW c \in Configs, NEW o \in Overrides
  PROVE  Override(c, o) \in Configs
<1> DEFINE d == [s \in Switches |-> IF s \in DOMAIN o THEN o[s] ELSE c[s]]
<1>1. PICK S \in SUBSET Switches : o \in [S -> BOOLEAN]
  BY DEF Overrides
<1>2. d \in Configs
  BY <1>1 DEF Configs
<1> QED
  BY <1>2, SettledIsConfig DEF Override

\* An override that turns the secondary off turns the fusion off, whatever else
\* it or the configuration says.
LEMMA ForcedOff ==
  ASSUME NEW c \in Configs
  PROVE  Override(c, Forced("astv3"))["fusion"] = FALSE
<1> DEFINE o == Forced("astv3")
           d == [s \in Switches |-> IF s \in DOMAIN o THEN o[s] ELSE c[s]]
<1>1. DOMAIN o = {"secondary"} /\ o["secondary"] = FALSE
  BY DEF Forced
<1>2. d["secondary"] = FALSE /\ DOMAIN d = Switches
  BY <1>1 DEF Switches
<1>3. Settled(d)["fusion"] = FALSE
  BY <1>2 DEF Settled, Switches
<1> QED
  BY <1>3 DEF Override

\* What the endpoint forces is an override.
LEMMA ForcedIsOverride == Forced("astv3") \in Overrides
<1>1. Forced("astv3") \in [{"secondary"} -> BOOLEAN] /\ {"secondary"} \in SUBSET Switches
  BY DEF Forced, Switches
<1> QED
  BY <1>1, Zenon DEF Overrides

\* No configuration of an AST v3 session asks the secondary.
LEMMA AstConfigsHaveNoFusion ==
  ASSUME NEW c \in SessionConfigs("astv3")
  PROVE  "secondary" \notin Asked(c)
<1>1. PICK file \in Configs, client \in Overrides : c = SessionConfig(file, Forced("astv3"), client)
  BY DEF SessionConfigs
<1> DEFINE opened == Override(Settled(file), Forced("astv3"))
<1>2. opened \in Configs /\ opened["fusion"] = FALSE
  BY SettledIsConfig, OverrideIsConfig, ForcedIsOverride, ForcedOff
<1>3. Override(opened, client) \in Configs
  BY <1>2, OverrideIsConfig
<1>4. Override(Override(opened, client), Forced("astv3"))["fusion"] = FALSE
  BY <1>3, ForcedOff
<1>5. c["fusion"] = FALSE
  BY <1>1, <1>2, <1>4 DEF SessionConfig
<1> QED
  BY <1>5 DEF Asked

\* An AST v3 session never asks the secondary model, whatever the configuration
\* file says and whatever its client overrides: the endpoint's override is applied
\* again after the client's, and turns off the fusion with it (session.py:144-153,
\* 376-389, config.py:407).
SecondaryIsNeverAsked == endpoint = "astv3" => secondary = "none"

THEOREM EndpointForcesPrimaryOnly == Spec => []SecondaryIsNeverAsked
<1> DEFINE IInv == endpoint = "astv3" => "secondary" \notin models /\ secondary = "none"
<1>1. Init => IInv
  BY AstConfigsHaveNoFusion, Zenon DEF Init
<1>2. IInv /\ [Next]_vars => IInv'
  <2> SUFFICES ASSUME IInv, [Next]_vars PROVE IInv'
    OBVIOUS
  <2>1. UNCHANGED session
    BY Zenon
       DEF Next, ReceiveFrame, EndSession, BeginSegment, PreparePart, SkipGated, AskModels,
           RecallReturns, PrimaryAnswers, PrimaryRetries, PrimaryFails, SecondaryAnswers,
           SendFinal, SkipSilent, RaiseError, UnchangedButCalls, vars
  <2>2. CASE AskModels
    BY <2>1, <2>2 DEF AskModels, session
  <2>3. CASE SecondaryAnswers
    BY <2>1, <2>3 DEF SecondaryAnswers, session
  <2>4. CASE secondary' = secondary \/ secondary' = "none"
    BY <2>1, <2>4 DEF session
  <2> QED
    BY <2>2, <2>3, <2>4, Zenon
       DEF Next, ReceiveFrame, EndSession, BeginSegment, PreparePart, SkipGated,
           RecallReturns, PrimaryAnswers, PrimaryRetries, PrimaryFails, SendFinal,
           SkipSilent, RaiseError, NextPart, engine, vars
<1>3. IInv => SecondaryIsNeverAsked
  BY DEF SecondaryIsNeverAsked
<1> QED
  BY <1>1, <1>2, <1>3, PTL DEF Spec

-----------------------------------------------------------------------------
(* The roles. *)

\* The role told to a reader of the first k sentences of w.
RoleIn(w, k) ==
    LET told == {j \in 1..k : w[j].rl # 0}
    IN  IF told = {} THEN 0 ELSE w[Max(told)].rl

\* A sentence more changes no role read before it.
LEMMA RoleOfSame ==
  ASSUME NEW S, NEW w \in Seq(S), NEW e, NEW k \in 1..Len(w)
  PROVE  RoleIn(Append(w, e), k) = RoleIn(w, k)
<1> DEFINE v == Append(w, e)
           T(u) == {j \in 1..k : u[j].rl # 0}
<1>1. \A j \in 1..k : v[j] = w[j]
  OBVIOUS
<1> HIDE DEF v
<1>2. T(v) = T(w)
  BY <1>1
<1>3. ASSUME T(w) # {} PROVE v[Max(T(w))] = w[Max(T(w))]
  <2>1. k \in Nat /\ \A x \in T(w) : x \in 0..k
    OBVIOUS
  <2>2. Max(T(w)) \in T(w)
    <3> HIDE DEF T
    <3> QED
      BY <1>3, <2>1, MaxUpto
  <2> QED
    BY <1>1, <2>2
<1> HIDE DEF T
<1>4. /\ RoleIn(v, k) = IF T(v) = {} THEN 0 ELSE v[Max(T(v))].rl
      /\ RoleIn(w, k) = IF T(w) = {} THEN 0 ELSE w[Max(T(w))].rl
  BY Zenon DEF RoleIn, T
<1>5. RoleIn(v, k) = RoleIn(w, k)
  BY ONLY <1>2, <1>3, <1>4
<1> QED
  BY <1>5 DEF v

\* The role read at the new sentence is its own, if it has one.
LEMMA RoleOfLast ==
  ASSUME NEW S, NEW w \in Seq(S), NEW e
  PROVE  RoleIn(Append(w, e), Len(w) + 1) = IF e.rl = 0 THEN RoleIn(w, Len(w)) ELSE e.rl
<1> DEFINE v == Append(w, e)
           n == Len(w)
           T(u, k) == {j \in 1..k : u[j].rl # 0}
<1>1. /\ n \in Nat /\ v[n + 1] = e
      /\ \A j \in 1..n : v[j] = w[j]
  OBVIOUS
<1> HIDE DEF v
<1>2. /\ RoleIn(v, n + 1) = IF T(v, n + 1) = {} THEN 0 ELSE v[Max(T(v, n + 1))].rl
      /\ RoleIn(w, n) = IF T(w, n) = {} THEN 0 ELSE w[Max(T(w, n))].rl
  BY Zenon DEF RoleIn
<1>3. CASE e.rl = 0
  <2>1. T(v, n + 1) = T(w, n)
    <3> HIDE DEF n
    <3> QED
      BY <1>1, <1>3
  <2>2. ASSUME T(w, n) # {} PROVE v[Max(T(w, n))] = w[Max(T(w, n))]
    <3>1. \A x \in T(w, n) : x \in 0..n
      BY <1>1
    <3>2. Max(T(w, n)) \in T(w, n)
      <4> HIDE DEF T, n
      <4> QED
        BY <1>1, <2>2, <3>1, MaxUpto
    <3> HIDE DEF n
    <3> QED
      BY <1>1, <3>2
  <2> HIDE DEF T, n
  <2> QED
    BY <1>2, <1>3, <2>1, <2>2 DEF v, n
<1>4. CASE e.rl # 0
  <2> HIDE DEF n
  <2>1. n + 1 \in T(v, n + 1) /\ \A x \in T(v, n + 1) : x \in Int /\ x <= n + 1
    BY <1>1, <1>4
  <2>2. Max(T(v, n + 1)) = n + 1
    <3> HIDE DEF T
    <3> QED
      BY <2>1, MaxIs
  <2> HIDE DEF T
  <2> QED
    BY <1>1, <1>2, <1>4, <2>1, <2>2 DEF v, n
<1> QED
  BY <1>3, <1>4

Speaker == {Nobody} \cup 0..MaxSpeakers - 1

\* A reader that is told roles is right about every sentence, and holds the role
\* of the speaker the encoder holds.
Readable(w, last) ==
    /\ last \in Speaker
    /\ RoleIn(w, Len(w)) = last + 1
    /\ \A k \in 1..Len(w) : w[k].speaker # Nobody => RoleIn(w, k) = w[k].speaker + 1

RolesInv ==
    /\ SentencesSent /\ roles \in BOOLEAN
    /\ roles => Readable(wire, lastSpeaker)
    /\ endpoint = "native" => ~roles
    /\ endpoint = "astv3" /\ inbound = "fresh" =>
          /\ ~resolved /\ task = "idle" /\ wire = <<>> /\ lastSpeaker = Nobody

\* A reader of nothing holds no role.
LEMMA NothingSent == Readable(<<>>, Nobody)
<1>1. RoleIn(<<>>, 0) = 0 /\ Len(<<>>) = 0
  BY DEF RoleIn
<1> QED
  BY <1>1 DEF Readable, Speaker, Nobody

\* The speaker of a part is one that AST v3 can name, or nobody.
LEMMA PartSpeaker ==
  ASSUME CutInv, task # "idle"
  PROVE  Part.who \in Speaker
<1>1. cut \in Cuts /\ at \in 1..Len(cut.parts)
  BY DEF CutInv
<1>2. PICK p : p = cut.parts
  OBVIOUS
<1>3. /\ Tiles(p, SegmentLength, cut.speakers \cup {Nobody}) /\ at \in 1..Len(p)
      /\ \A w \in cut.speakers : w \in 0..MaxSpeakers - 1
  BY <1>1, <1>2, CutIs
<1>4. p \in Seq([from : Int, to : Int, who : cut.speakers \cup {Nobody}])
  BY <1>3 DEF Tiles
<1>5. p[at] \in [from : Int, to : Int, who : cut.speakers \cup {Nobody}]
  BY <1>3, <1>4, MemberOf
<1>6. Part = p[at]
  BY <1>2 DEF Part
<1> QED
  BY <1>3, <1>5, <1>6 DEF Speaker

\* A sentence more is read right as well.
LEMMA OneMoreSentence ==
  ASSUME NEW S, wire \in Seq(S), roles, Readable(wire, lastSpeaker),
         NEW speaker \in Speaker, NEW applied
  PROVE  Readable(Append(wire, Sentence(speaker, applied)),
                  IF Role(speaker) = 0 THEN lastSpeaker ELSE speaker)
<1> DEFINE n == Len(wire)
<1>1. PICK e : e = Sentence(speaker, applied)
  OBVIOUS
<1>2. PICK w : w = Append(wire, e)
  OBVIOUS
<1>3. e.rl = Role(speaker) /\ e.speaker = speaker
  BY <1>1 DEF Sentence
<1>4. n \in Nat /\ Len(w) = n + 1 /\ w[n + 1] = e /\ \A k \in 1..n : w[k] = wire[k]
  BY <1>2
<1>5. \A k \in 1..n : RoleIn(w, k) = RoleIn(wire, k)
  BY <1>2, RoleOfSame
<1>6. RoleIn(w, n + 1) = IF e.rl = 0 THEN RoleIn(wire, n) ELSE e.rl
  BY <1>2, RoleOfLast
<1>7. /\ lastSpeaker \in Speaker /\ RoleIn(wire, n) = lastSpeaker + 1
      /\ \A k \in 1..n : wire[k].speaker # Nobody => RoleIn(wire, k) = wire[k].speaker + 1
  BY DEF Readable
<1> DEFINE last == IF Role(speaker) = 0 THEN lastSpeaker ELSE speaker
<1>8. /\ Role(speaker) = 0 => speaker = Nobody \/ speaker = lastSpeaker
      /\ Role(speaker) # 0 => Role(speaker) = speaker + 1
  BY DEF Role, Speaker
<1> HIDE DEF n
<1>9. RoleIn(w, n + 1) = last + 1
  BY <1>3, <1>6, <1>7, <1>8
<1>10. last \in Speaker
  BY <1>7
<1>11. speaker # Nobody => last = speaker
  BY <1>8
<1> HIDE DEF last
<1>12. ASSUME NEW k \in 1..n + 1, w[k].speaker # Nobody
       PROVE  RoleIn(w, k) = w[k].speaker + 1
  <2>1. CASE k = n + 1
    BY <1>3, <1>4, <1>9, <1>11, <1>12, <2>1
  <2>2. CASE k \in 1..n
    BY <1>4, <1>5, <1>7, <1>12, <2>2
  <2> QED
    BY <1>4, <2>1, <2>2
<1>13. Readable(w, last)
  BY <1>4, <1>9, <1>10, <1>12 DEF Readable
<1> QED
  BY <1>1, <1>2, <1>13 DEF last

\* Every step keeps the reader right.
LEMMA NextRoles == CutInv /\ RolesInv /\ [Next]_vars => RolesInv'
<1> SUFFICES ASSUME CutInv, RolesInv, [Next]_vars PROVE RolesInv'
  OBVIOUS
<1>1. CASE SendFinal
  <2>1. Part.who \in Speaker
    BY <1>1, PartSpeaker DEF SendFinal
  <2>2. PICK S : wire \in Seq(S)
    BY DEF RolesInv, SentencesSent
  <2>3. PICK e : e = Sentence(Part.who, EnrollmentApplied)
    OBVIOUS
  <2>4. wire' = Append(wire, e) /\ roles' = roles /\ UNCHANGED <<endpoint, inbound, resolved>>
    BY <1>1, <2>3 DEF SendFinal, EncodeSentence, SendAsIs, session, decoder
  <2>5. SentencesSent'
    <3>1. Append(wire, e) \in Seq(S \cup {e})
      BY <2>2
    <3> QED
      BY <2>4, <3>1, Zenon DEF SentencesSent
  <2>6. roles => Readable(wire', lastSpeaker')
    <3> SUFFICES ASSUME roles PROVE Readable(wire', lastSpeaker')
      OBVIOUS
    <3>1. endpoint # "native"
      BY DEF RolesInv
    <3>2. lastSpeaker' = IF Role(Part.who) = 0 THEN lastSpeaker ELSE Part.who
      BY <1>1, <3>1 DEF SendFinal, EncodeSentence
    <3>3. Readable(wire, lastSpeaker)
      BY DEF RolesInv
    <3>4. Readable(Append(wire, Sentence(Part.who, EnrollmentApplied)),
                   IF Role(Part.who) = 0 THEN lastSpeaker ELSE Part.who)
      BY <2>1, <2>2, <3>3, OneMoreSentence
    <3> QED
      BY <2>3, <2>4, <3>2, <3>4, Zenon
  <2>7. ~(endpoint = "astv3" /\ inbound = "fresh")
    BY <1>1 DEF SendFinal, RolesInv
  <2> QED
    BY <2>4, <2>5, <2>6, <2>7, Zenon DEF RolesInv
<1>2. CASE ReceiveFrame
  <2>1. UNCHANGED <<endpoint, task, wire, lastSpeaker>> /\ endpoint = "astv3"
    BY <1>2 DEF ReceiveFrame, Frame, FrameRefused, session, engine
  <2>2. inbound' # "fresh"
    BY <1>2 DEF ReceiveFrame, Frame, FrameRefused
  <2>3. roles' \in BOOLEAN
    BY <1>2 DEF ReceiveFrame, Frame, FrameRefused, RolesInv
  <2>4. roles' => Readable(wire, lastSpeaker)
    <3>1. CASE inbound = "fresh"
      BY <2>1, <3>1, NothingSent DEF RolesInv
    <3>2. CASE inbound # "fresh"
      <4>1. roles' = roles
        BY <1>2, <3>2 DEF ReceiveFrame, Frame, FrameRefused
      <4> QED
        BY <4>1 DEF RolesInv
    <3> QED
      BY <3>1, <3>2
  <2> QED
    BY <2>1, <2>2, <2>3, <2>4 DEF RolesInv, SentencesSent
<1>3. CASE UNCHANGED <<endpoint, decoder, roles, lastSpeaker, wire>> /\ (task' = "idle" \/ task' = task)
  BY <1>3 DEF RolesInv, SentencesSent, decoder
<1>4. CASE BeginSegment \/ (UNCHANGED <<endpoint, decoder, roles, lastSpeaker, wire>> /\ task # "idle")
  BY <1>4 DEF BeginSegment, RolesInv, SentencesSent, decoder, encoder, session
<1>5. CASE SkipGated \/ SkipSilent \/ PreparePart \/ AskModels \/ RaiseError
  BY <1>4, <1>5 DEF SkipGated, SkipSilent, PreparePart, AskModels, RaiseError, encoder, session
<1>6. CASE RecallReturns \/ PrimaryAnswers \/ PrimaryRetries \/ PrimaryFails \/ SecondaryAnswers
  BY <1>3, <1>6 DEF RecallReturns, PrimaryAnswers, PrimaryRetries, PrimaryFails, SecondaryAnswers,
                    UnchangedButCalls, encoder, session
<1>7. CASE EndSession \/ UNCHANGED vars
  BY <1>3, <1>7 DEF EndSession, EncodeTerminal, encoder, engine, session, vars
<1> QED
  BY <1>1, <1>2, <1>4, <1>5, <1>6, <1>7, Zenon DEF Next

\* A client that keeps the last role it was told attributes every sentence of a
\* known speaker to that speaker, although the role is sent only when it changes
\* and sentences of unknown speakers come in between (protocol.py:543-559).
THEOREM ReadersKnowTheSpeaker == Spec => []RolesCanBeRead
<1>1. Init => RolesInv
  <2> SUFFICES ASSUME Init PROVE RolesInv
    OBVIOUS
  <2>1. /\ wire = <<>> /\ lastSpeaker = Nobody /\ roles \in BOOLEAN /\ ~resolved /\ task = "idle"
        /\ endpoint = "native" => ~roles
    BY DEF Init, ProtocolInit
  <2>2. <<>> \in Seq({})
    OBVIOUS
  <2>3. SentencesSent
    BY <2>1, <2>2, Zenon DEF SentencesSent
  <2> QED
    BY <2>1, <2>3, NothingSent, Zenon DEF RolesInv
<1>2. RolesInv => RolesCanBeRead
  <2> SUFFICES ASSUME RolesInv, roles PROVE RolesCanBeRead
    BY DEF RolesCanBeRead
  <2>1. PICK S : wire \in Seq(S)
    BY DEF RolesInv, SentencesSent
  <2>2. DOMAIN wire = 1..Len(wire)
    BY <2>1
  <2>3. \A k \in DOMAIN wire : RoleRead(k) = RoleIn(wire, k)
    BY Zenon DEF RoleRead, RoleIn
  <2> QED
    BY <2>2, <2>3, Zenon DEF RolesCanBeRead, RolesInv, Readable
<1> QED
  BY <1>1, <1>2, AlwaysCut, NextRoles, PTL DEF Spec

-----------------------------------------------------------------------------
(* EnrollmentStores: what evicting, forgetting and refreshing do to a store. *)

StoreEntries == [id : Ids, used : Nat]

\* No id is twice in a store.
Distinct(s) == \A p, q \in 1..Len(s) : s[p].id = s[q].id => p = q

\* Every entry of t is one of s.
Within(t, s) == \A k \in 1..Len(t) : \E p \in 1..Len(s) : t[k] = s[p]

\* The positions of a store.
LEMMA PositionsAre ==
  ASSUME NEW s \in Seq(StoreEntries)
  PROVE  /\ Len(s) \in Nat /\ DOMAIN s = 1..Len(s)
         /\ IsFiniteSet(1..Len(s)) /\ Cardinality(1..Len(s)) = Len(s)
         /\ \A p \in 1..Len(s) : s[p] \in StoreEntries /\ s[p].used \in Nat
<1>1. Len(s) \in Nat /\ DOMAIN s = 1..Len(s)
  OBVIOUS
<1>2. \A p \in 1..Len(s) : s[p] \in StoreEntries
  BY <1>1
<1>3. \A e \in StoreEntries : e.used \in Nat
  BY DEF StoreEntries
<1>4. IsFiniteSet(1..Len(s)) /\ Cardinality(1..Len(s)) = Len(s)
  BY <1>1, FS_Interval
<1> QED
  BY <1>1, <1>2, <1>3, <1>4

\* The ids of a store, by position.
LEMMA IdsAre ==
  ASSUME NEW s \in Seq(StoreEntries)
  PROVE  /\ \A p \in 1..Len(s) : s[p].id \in IdsOf(s) /\ s[p] \in StoreEntries
         /\ \A x \in IdsOf(s) : x \in Ids /\ \E p \in 1..Len(s) : s[p].id = x
<1>1. DOMAIN s = 1..Len(s) /\ \A p \in 1..Len(s) : s[p] \in StoreEntries
  OBVIOUS
<1>2. ToSet(s) = {s[p] : p \in 1..Len(s)}
  BY <1>1 DEF ToSet
<1> QED
  BY <1>1, <1>2 DEF IdsOf, StoreEntries

\* The entries at some positions: all of them, in a sequence as long as there
\* are positions, and none twice if none was.
LEMMA AtIs ==
  ASSUME NEW s \in Seq(StoreEntries), NEW I \in SUBSET (1..Len(s))
  PROVE  /\ At(s, I) \in Seq(StoreEntries) /\ Within(At(s, I), s)
         /\ Len(At(s, I)) = Cardinality(I) /\ Cardinality(I) \in Nat
         /\ \A k \in 1..Len(At(s, I)) : \E p \in I : At(s, I)[k] = s[p]
         /\ \A p \in I : \E k \in 1..Len(At(s, I)) : At(s, I)[k] = s[p]
         /\ Distinct(s) => Distinct(At(s, I))
<1> DEFINE n == Cardinality(I)
           q == Ascending(I)
<1>1. IsFiniteSet(1..Len(s)) /\ Len(s) \in Nat
  BY FS_Interval
<1>2. IsFiniteSet(I) /\ \A x \in I : x \in Int
  <2>1. IsFiniteSet(I)
    BY <1>1, FS_Subset, Zenon
  <2>2. \A x \in 1..Len(s) : x \in Int
    BY <1>1
  <2> QED
    BY <2>1, <2>2
<1>3. n \in Nat
  BY <1>2, FS_CardinalityType
<1>4. /\ q \in Seq(I) /\ Len(q) = n
      /\ \A i, j \in 1..n : i < j => q[i] < q[j]
      /\ \A x \in I : \E i \in 1..n : q[i] = x
  BY <1>2, AscendingIs, Zenon
<1>5. At(s, I) = [k \in 1..n |-> s[q[k]]]
  BY DEF At, Ascending
<1> HIDE DEF n, q
<1>6. \A k \in 1..n : q[k] \in I /\ q[k] \in 1..Len(s)
  <2>1. \A k \in 1..n : q[k] \in I
    BY <1>3, <1>4
  <2> QED
    BY <2>1
<1>7. At(s, I) \in Seq(StoreEntries) /\ Len(At(s, I)) = n
  BY <1>3, <1>5, <1>6
<1>8. \A k \in 1..n : At(s, I)[k] = s[q[k]]
  BY <1>5
<1>9. ASSUME Distinct(s), NEW i \in 1..n, NEW j \in 1..n, s[q[i]].id = s[q[j]].id PROVE i = j
  <2>1. q[i] = q[j]
    BY <1>6, <1>9 DEF Distinct
  <2> QED
    BY <1>3, <1>4, <1>6, <2>1
<1>10. Distinct(s) => Distinct(At(s, I))
  BY <1>7, <1>8, <1>9 DEF Distinct
<1>11. \A p \in I : \E k \in 1..n : At(s, I)[k] = s[p]
  BY <1>4, <1>8
<1>12. \A k \in 1..n : \E p \in I : At(s, I)[k] = s[p]
  BY <1>6, <1>8
<1> QED
  BY <1>3, <1>7, <1>10, <1>11, <1>12 DEF n, Within

AlivePlaces(s) == {p \in 1..Len(s) : Alive(s[p])}

\* _evict_expired_locked() drops what was unused for a TTL, nothing else.
LEMMA UnexpiredIs ==
  ASSUME NEW s \in Seq(StoreEntries)
  PROVE  /\ Unexpired(s) \in Seq(StoreEntries) /\ Within(Unexpired(s), s)
         /\ Len(Unexpired(s)) = Cardinality(AlivePlaces(s)) /\ Len(Unexpired(s)) \in Nat
         /\ Len(Unexpired(s)) <= Len(s)
         /\ \A p \in 1..Len(s) : Alive(s[p]) =>
               \E k \in 1..Len(Unexpired(s)) : Unexpired(s)[k] = s[p]
         /\ Distinct(s) => Distinct(Unexpired(s))
<1>1. DOMAIN s = 1..Len(s) /\ Len(s) \in Nat
  OBVIOUS
<1>2. AlivePlaces(s) \in SUBSET (1..Len(s))
  BY DEF AlivePlaces
<1>3. Unexpired(s) = At(s, AlivePlaces(s))
  BY <1>1 DEF Unexpired, AlivePlaces
<1>4. Cardinality(AlivePlaces(s)) <= Len(s)
  <2>1. IsFiniteSet(1..Len(s)) /\ Cardinality(1..Len(s)) = Len(s)
    BY <1>1, FS_Interval
  <2> QED
    BY <1>2, <2>1, FS_Subset
<1>5. \A p \in 1..Len(s) : Alive(s[p]) => p \in AlivePlaces(s)
  BY DEF AlivePlaces
<1> DEFINE u == At(s, AlivePlaces(s))
<1>6. /\ u \in Seq(StoreEntries) /\ Within(u, s)
      /\ Len(u) = Cardinality(AlivePlaces(s)) /\ Len(u) \in Nat
      /\ \A p \in AlivePlaces(s) : \E k \in 1..Len(u) : u[k] = s[p]
      /\ Distinct(s) => Distinct(u)
  BY <1>2, AtIs
<1> HIDE DEF u
<1>7. Unexpired(s) = u
  BY <1>3 DEF u
<1> QED
  BY <1>4, <1>5, <1>6, <1>7

\* The positions less recently used than p.
OlderThan(s, p) == {q \in 1..Len(s) : Older(s, q, p)}

\* No two positions have as many older ones, and the more recently used has more.
LEMMA OlderCounts ==
  ASSUME NEW s \in Seq(StoreEntries)
  PROVE  \A p \in 1..Len(s) :
            /\ Cardinality(OlderThan(s, p)) \in 0..Len(s) - 1
            /\ \A q \in 1..Len(s) : Older(s, q, p) =>
                  Cardinality(OlderThan(s, q)) < Cardinality(OlderThan(s, p))
<1>1. Len(s) \in Nat /\ \A p \in 1..Len(s) : s[p].used \in Nat
  BY PositionsAre
<1>2. IsFiniteSet(1..Len(s)) /\ Cardinality(1..Len(s)) = Len(s)
  BY PositionsAre
<1> TAKE p \in 1..Len(s)
<1>3. \A q \in 1..Len(s) : OlderThan(s, q) \in SUBSET (1..Len(s)) /\ q \notin OlderThan(s, q)
  BY <1>1 DEF OlderThan, Older
<1>4. \A q \in 1..Len(s) : /\ IsFiniteSet(OlderThan(s, q))
                           /\ Cardinality(OlderThan(s, q)) \in Nat
                           /\ Cardinality(OlderThan(s, q)) <= Len(s)
  BY <1>2, <1>3, FS_Subset, FS_CardinalityType
<1>5. Cardinality(OlderThan(s, p)) # Len(s)
  BY <1>2, <1>3, FS_Subset, Zenon
<1>6. ASSUME NEW q \in 1..Len(s), Older(s, q, p)
      PROVE  Cardinality(OlderThan(s, q)) < Cardinality(OlderThan(s, p))
  <2>1. OlderThan(s, q) \in SUBSET OlderThan(s, p) /\ q \in OlderThan(s, p)
    BY <1>1, <1>6 DEF OlderThan, Older
  <2>2. Cardinality(OlderThan(s, q)) <= Cardinality(OlderThan(s, p))
    BY <1>4, <2>1, FS_Subset
  <2>3. Cardinality(OlderThan(s, q)) # Cardinality(OlderThan(s, p))
    BY <1>3, <1>4, <2>1, FS_Subset, Zenon
  <2> QED
    BY <1>4, <2>2, <2>3
<1> QED
  BY <1>1, <1>4, <1>5, <1>6

StayPlaces(s, n) == {p \in 1..Len(s) : Cardinality(OlderThan(s, p)) >= Len(s) - n}

\* At most n positions have all but n older ones.
LEMMA StayCount ==
  ASSUME NEW s \in Seq(StoreEntries), NEW n \in Nat
  PROVE  Cardinality(StayPlaces(s, n)) <= n
<1> DEFINE I == StayPlaces(s, n)
           L == Len(s)
           f == [p \in I |-> Cardinality(OlderThan(s, p))]
           T == (IF L <= n THEN 0 ELSE L - n) .. L - 1
<1>1. L \in Nat /\ I \in SUBSET (1..L) /\ \A p \in 1..L : s[p].used \in Nat
  BY PositionsAre DEF StayPlaces
<1>2. \A p \in I : Cardinality(OlderThan(s, p)) \in T
  BY <1>1, OlderCounts DEF StayPlaces
<1>3. ASSUME NEW p \in I, NEW q \in I, Cardinality(OlderThan(s, p)) = Cardinality(OlderThan(s, q))
      PROVE  p = q
  <2> SUFFICES ASSUME p # q PROVE FALSE
    OBVIOUS
  <2>1. Older(s, p, q) \/ Older(s, q, p)
    BY <1>1 DEF Older
  <2>2. p \in 1..L /\ q \in 1..L
    BY <1>1
  <2>3. Cardinality(OlderThan(s, p)) \in Int /\ Cardinality(OlderThan(s, q)) \in Int
    BY <2>2, OlderCounts
  <2> QED
    BY <1>3, <2>1, <2>2, <2>3, OlderCounts
<1> HIDE DEF I
<1>4. f \in [I -> T] /\ \A p, q \in I : f[p] = f[q] => p = q
  BY <1>2, <1>3
<1>5. IsFiniteSet(T) /\ Cardinality(T) <= n
  <2> DEFINE b == IF L <= n THEN 0 ELSE L - n
  <2>1. b \in Int /\ L - 1 \in Int /\ b <= L /\ L - b <= n
    BY <1>1
  <2> HIDE DEF b, L
  <2>2. IsFiniteSet(b .. L - 1) /\ Cardinality(b .. L - 1) = IF b > L - 1 THEN 0 ELSE (L - 1) - b + 1
    BY <2>1, FS_Interval, Zenon
  <2>3. IsFiniteSet(b .. L - 1) /\ Cardinality(b .. L - 1) <= n
    BY <1>1, <2>1, <2>2
  <2> QED
    BY <2>3 DEF b, L
<1> HIDE DEF f, T
<1>6. f \in Injection(I, T)
  BY <1>4 DEF Injection, IsInjective
<1>7. IsFiniteSet(I) /\ Cardinality(I) <= Cardinality(T)
  BY <1>5, <1>6, FS_Injection
<1>8. Cardinality(I) \in Nat /\ Cardinality(T) \in Nat
  BY <1>5, <1>7, FS_CardinalityType
<1> QED
  BY <1>5, <1>7, <1>8 DEF I

\* _evict_overflow_locked(): at most n stay; what goes makes room for what is used
\* no less recently, and nothing goes while there is room.
LEMMA RecentIs ==
  ASSUME NEW s \in Seq(StoreEntries), NEW n \in Nat
  PROVE  /\ Recent(s, n) \in Seq(StoreEntries) /\ Within(Recent(s, n), s)
         /\ Len(Recent(s, n)) \in Nat /\ Len(Recent(s, n)) <= n
         /\ \A p \in 1..Len(s) :
               \/ \E k \in 1..Len(Recent(s, n)) : Recent(s, n)[k] = s[p]
               \/ /\ Len(s) > n
                  /\ \A k \in 1..Len(Recent(s, n)) : s[p].used <= Recent(s, n)[k].used
         /\ Distinct(s) => Distinct(Recent(s, n))
<1> DEFINE I == StayPlaces(s, n)
           r == Recent(s, n)
<1>1. Len(s) \in Nat /\ DOMAIN s = 1..Len(s) /\ \A p \in 1..Len(s) : s[p].used \in Nat
  BY PositionsAre
<1>2. I \in SUBSET (1..Len(s))
  BY DEF StayPlaces
<1>3. r = At(s, I)
  BY <1>1 DEF Recent, StayPlaces, OlderThan
<1>4. Cardinality(I) <= n
  BY StayCount
<1> HIDE DEF r
<1>5. ASSUME NEW p \in 1..Len(s), p \notin I
      PROVE  Len(s) > n /\ \A q \in I : s[p].used <= s[q].used
  <2>1. Cardinality(OlderThan(s, p)) \in Nat /\ ~(Cardinality(OlderThan(s, p)) >= Len(s) - n)
    BY <1>5, OlderCounts DEF StayPlaces
  <2>2. Len(s) > n
    BY <1>1, <2>1
  <2>3. ASSUME NEW q \in I PROVE s[p].used <= s[q].used
    <3>1. q \in 1..Len(s) /\ Cardinality(OlderThan(s, q)) >= Len(s) - n
      BY DEF StayPlaces
    <3>2. Cardinality(OlderThan(s, q)) \in Nat
      BY <3>1, OlderCounts
    <3>3. ~Older(s, q, p)
      BY <1>1, <2>1, <3>1, <3>2, OlderCounts
    <3> QED
      BY <1>1, <3>1, <3>3 DEF Older
  <2> QED
    BY <2>2, <2>3
<1> HIDE DEF I
<1>6. /\ r \in Seq(StoreEntries) /\ Within(r, s)
      /\ Len(r) = Cardinality(I) /\ Cardinality(I) \in Nat
      /\ \A k \in 1..Len(r) : \E p \in I : r[k] = s[p]
      /\ \A p \in I : \E k \in 1..Len(r) : r[k] = s[p]
      /\ Distinct(s) => Distinct(r)
  BY <1>2, <1>3, AtIs
<1>7. ASSUME NEW p \in 1..Len(s)
      PROVE  \/ \E k \in 1..Len(r) : r[k] = s[p]
             \/ Len(s) > n /\ \A k \in 1..Len(r) : s[p].used <= r[k].used
  <2>1. CASE p \in I
    BY <1>6, <2>1
  <2>2. CASE p \notin I
    BY <1>5, <1>6, <2>2
  <2> QED
    BY <2>1, <2>2
<1> QED
  BY <1>4, <1>6, <1>7 DEF r

\* A store within its limit, every entry stamped with when it was last used.
Store(s, touched, now) ==
    /\ s \in Seq(StoreEntries) /\ Len(s) <= MaxEntries /\ Distinct(s)
    /\ touched \in [Ids -> Nat]
    /\ \A p \in 1..Len(s) : s[p].used = touched[s[p].id] /\ s[p].used <= now

\* Evicts, with the history before and after and the ids being deleted.
Evicted(s, t, touched, after, gone) ==
    \A id \in Leaves(s, t) :
        \/ id \in gone
        \/ touched[id] < time - TTL
        \/ /\ Len(s) >= MaxEntries
           /\ \A other \in IdsOf(s) \cap IdsOf(t) : touched[id] <= after[other]
           /\ Cardinality({other \in IdsOf(s) : touched[other] >= time - TTL}) >= MaxEntries

\* t is a store s may become: it evicted rightly and has no other ids than new ones.
Follows(s, t, touched, after, gone, new) ==
    /\ Store(t, after, time)
    /\ Evicted(s, t, touched, after, gone)
    /\ IdsOf(t) \subseteq IdsOf(s) \cup new

\* A store's ids and their stamps.
LEMMA StoreIs ==
  ASSUME NEW s, NEW touched, NEW now, Store(s, touched, now)
  PROVE  /\ s \in Seq(StoreEntries) /\ Len(s) \in Nat
         /\ \A p \in 1..Len(s) : /\ s[p].id \in IdsOf(s) /\ s[p].id \in Ids /\ s[p].used \in Nat
                                 /\ s[p] \in StoreEntries /\ s[p].used = touched[s[p].id]
                                 /\ s[p].used <= now
         /\ \A x \in IdsOf(s) : \E p \in 1..Len(s) : s[p].id = x
<1>1. s \in Seq(StoreEntries)
  BY DEF Store
<1>2. \A e \in StoreEntries : e.id \in Ids
  BY DEF StoreEntries
<1> QED
  BY <1>1, <1>2, PositionsAre, IdsAre DEF Store

\* As many ids as positions are alive.
LEMMA AliveCount ==
  ASSUME time \in Nat, NEW s, NEW touched, Store(s, touched, time)
  PROVE  Cardinality({other \in IdsOf(s) : touched[other] >= time - TTL})
            = Cardinality(AlivePlaces(s))
<1> DEFINE I == AlivePlaces(s)
           T == {other \in IdsOf(s) : touched[other] >= time - TTL}
           f == [p \in I |-> s[p].id]
<1>1. I \in SUBSET (1..Len(s)) /\ IsFiniteSet(1..Len(s))
  BY StoreIs, PositionsAre DEF AlivePlaces
<1>2. IsFiniteSet(I)
  BY <1>1, FS_Subset, Zenon
<1>3. \A p \in I : s[p].id \in T
  BY StoreIs DEF AlivePlaces, Alive
<1>4. \A x \in T : \E p \in I : s[p].id = x
  BY StoreIs DEF AlivePlaces, Alive
<1>5. \A p, q \in I : s[p].id = s[q].id => p = q
  BY <1>1 DEF Store, Distinct
<1> HIDE DEF I, T
<1>6. f \in [I -> T] /\ (\A p, q \in I : f[p] = f[q] => p = q) /\ \A x \in T : \E p \in I : f[p] = x
  BY <1>3, <1>4, <1>5
<1> HIDE DEF f
<1>7. f \in Bijection(I, T)
  BY <1>6 DEF Bijection, Injection, Surjection, IsInjective
<1>8. ExistsBijection(I, T)
  BY <1>7 DEF ExistsBijection
<1>9. Cardinality(T) = Cardinality(I)
  BY <1>2, <1>8, FS_Bijection, Zenon
<1> QED
  BY <1>9 DEF I, T

\* What leaves, position by position.
LEMMA EvictedIs ==
  ASSUME time \in Nat, NEW s, NEW touched, Store(s, touched, time),
         NEW t, t \in Seq(StoreEntries), NEW after, NEW gone,
         \A p \in 1..Len(s) :
            \/ s[p].id \in IdsOf(t) \cup gone
            \/ ~Alive(s[p])
            \/ /\ Len(s) >= MaxEntries /\ Cardinality(AlivePlaces(s)) >= MaxEntries
               /\ \A k \in 1..Len(t) : t[k].id \in IdsOf(s) => s[p].used <= after[t[k].id]
  PROVE  Evicted(s, t, touched, after, gone)
<1> SUFFICES ASSUME NEW x \in Leaves(s, t), x \notin gone, ~(touched[x] < time - TTL)
             PROVE  /\ Len(s) >= MaxEntries
                    /\ \A other \in IdsOf(s) \cap IdsOf(t) : touched[x] <= after[other]
                    /\ Cardinality({other \in IdsOf(s) : touched[other] >= time - TTL}) >= MaxEntries
  BY DEF Evicted
<1>1. PICK p \in 1..Len(s) : s[p].id = x
  BY StoreIs DEF Leaves
<1>2. s[p].used = touched[x] /\ s[p].used \in Nat /\ x \notin IdsOf(t) \cup gone
  BY <1>1, StoreIs DEF Leaves
<1>3. Alive(s[p])
  BY <1>2, EnrollmentAssumption DEF Alive
<1>4. /\ Len(s) >= MaxEntries /\ Cardinality(AlivePlaces(s)) >= MaxEntries
      /\ \A k \in 1..Len(t) : t[k].id \in IdsOf(s) => touched[x] <= after[t[k].id]
  BY <1>1, <1>2, <1>3
<1>5. \A other \in IdsOf(t) : \E k \in 1..Len(t) : t[k].id = other
  BY IdsAre
<1> QED
  BY <1>4, <1>5, AliveCount

\* Forgetting an id takes its entry and no other.
LEMMA WithoutIs ==
  ASSUME NEW now, NEW s, NEW touched, Store(s, touched, now), NEW id
  PROVE  /\ Store(Without(s, id), touched, now)
         /\ IdsOf(Without(s, id)) = IdsOf(s) \ {id}
<1> DEFINE I == {p \in 1..Len(s) : s[p].id # id}
           t == At(s, I)
<1>1. s \in Seq(StoreEntries) /\ Len(s) \in Nat /\ I \in SUBSET (1..Len(s)) /\ IsFiniteSet(1..Len(s))
      /\ Cardinality(1..Len(s)) = Len(s) /\ DOMAIN s = 1..Len(s)
  BY StoreIs, PositionsAre
<1>2. Without(s, id) = t
  BY <1>1 DEF Without
<1>3. Cardinality(I) <= Len(s)
  BY <1>1, FS_Subset
<1>4. \A p \in 1..Len(s) : p \in I <=> s[p].id # id
  OBVIOUS
<1> HIDE DEF I
<1>5. /\ t \in Seq(StoreEntries) /\ Distinct(t)
      /\ Len(t) = Cardinality(I) /\ Cardinality(I) \in Nat
      /\ \A k \in 1..Len(t) : \E p \in I : t[k] = s[p]
      /\ \A p \in I : \E k \in 1..Len(t) : t[k] = s[p]
  BY <1>1, AtIs DEF Store
<1> HIDE DEF t
<1>6. Len(t) <= MaxEntries
  BY <1>1, <1>3, <1>5, EnrollmentAssumption DEF Store
<1>7. \A k \in 1..Len(t) : t[k].used = touched[t[k].id] /\ t[k].used <= now
  BY <1>1, <1>5 DEF Store
<1>8. Store(t, touched, now)
  BY <1>5, <1>6, <1>7 DEF Store
<1>9. ASSUME NEW x \in IdsOf(t) PROVE x \in IdsOf(s) \ {id}
  BY <1>1, <1>4, <1>5, <1>8, StoreIs
<1>10. ASSUME NEW x \in IdsOf(s) \ {id} PROVE x \in IdsOf(t)
  <2>1. PICK p \in 1..Len(s) : s[p].id = x
    BY StoreIs
  <2>2. PICK k \in 1..Len(t) : t[k] = s[p]
    BY <1>4, <1>5, <2>1
  <2> QED
    BY <2>1, <2>2, <1>8, StoreIs
<1> QED
  BY <1>2, <1>8, <1>9, <1>10

\* Entries of a sequence have its ids.
LEMMA WithinIds ==
  ASSUME NEW s \in Seq(StoreEntries), NEW t \in Seq(StoreEntries), Within(t, s)
  PROVE  IdsOf(t) \subseteq IdsOf(s)
<1> SUFFICES ASSUME NEW x \in IdsOf(t) PROVE x \in IdsOf(s)
  OBVIOUS
<1>1. PICK k \in 1..Len(t) : t[k].id = x
  BY IdsAre
<1>2. PICK p \in 1..Len(s) : t[k] = s[p]
  BY DEF Within
<1> QED
  BY <1>1, <1>2, IdsAre

\* A store nothing is done to.
LEMMA StaysTheSame ==
  ASSUME NEW s, NEW touched, Store(s, touched, time), NEW gone, NEW new
  PROVE  Follows(s, s, touched, touched, gone, new)
  BY DEF Follows, Evicted, Leaves

\* DELETE leaves out the id it is about.
LEMMA Forgets ==
  ASSUME NEW s, NEW touched, Store(s, touched, time), NEW id, NEW gone, id \in gone, NEW new
  PROVE  Follows(s, Without(s, id), touched, touched, gone, new)
  BY WithoutIs DEF Follows, Evicted, Leaves

\* Refreshing stamps the entries of some ids, and keeps them all.
LEMMA TouchIs ==
  ASSUME time \in Nat, NEW s, NEW touched, Store(s, touched, time), NEW c
  PROVE  /\ Store(Touch(s, c), Now(c, s, touched), time)
         /\ IdsOf(Touch(s, c)) = IdsOf(s)
         /\ Now(c, s, touched) \in [Ids -> Nat]
         /\ \A x \in IdsOf(s) : touched[x] <= Now(c, s, touched)[x]
<1> DEFINE t == Touch(s, c)
           after == Now(c, s, touched)
<1>1. s \in Seq(StoreEntries) /\ Len(s) \in Nat /\ DOMAIN s = 1..Len(s) /\ Len(s) <= MaxEntries
  BY StoreIs, PositionsAre DEF Store
<1>2. t = [k \in 1..Len(s) |-> IF s[k].id \in c THEN Entry(s[k].id) ELSE s[k]]
  BY <1>1 DEF Touch
<1>3. \A k \in 1..Len(s) : Entry(s[k].id) \in StoreEntries /\ Entry(s[k].id).id = s[k].id
                           /\ Entry(s[k].id).used = time
  BY StoreIs DEF Entry, StoreEntries
<1> HIDE DEF t
<1>4. t \in Seq(StoreEntries) /\ Len(t) = Len(s)
  <2>1. \A k \in 1..Len(s) : (IF s[k].id \in c THEN Entry(s[k].id) ELSE s[k]) \in StoreEntries
    BY <1>3, StoreIs
  <2> QED
    BY <1>1, <1>2, <2>1
<1>5. \A k \in 1..Len(s) : t[k].id = s[k].id /\ t[k].used = IF s[k].id \in c THEN time ELSE s[k].used
  BY <1>2, <1>3
<1>6. touched \in [Ids -> Nat]
  BY DEF Store
<1>7. after \in [Ids -> Nat] /\ \A x \in Ids : after[x] = IF x \in c \cap IdsOf(s) THEN time ELSE touched[x]
  BY <1>6 DEF Now
<1> HIDE DEF after
<1>8. \A k \in 1..Len(s) : t[k].used = after[t[k].id] /\ t[k].used <= time
  BY <1>5, <1>7, StoreIs
<1>9. Distinct(t)
  BY <1>4, <1>5 DEF Store, Distinct
<1>10. Store(t, after, time)
  BY <1>1, <1>4, <1>7, <1>8, <1>9 DEF Store
<1>11. \A x \in IdsOf(s) : x \in IdsOf(t)
  BY <1>4, <1>5, <1>10, StoreIs
<1>12. \A x \in IdsOf(t) : x \in IdsOf(s)
  BY <1>4, <1>5, <1>10, StoreIs
<1>13. \A x \in IdsOf(s) : touched[x] <= after[x]
  BY <1>7, StoreIs
<1> QED
  BY <1>7, <1>10, <1>11, <1>12, <1>13 DEF t, after

\* Eviction, then refreshing what is left.
LEMMA TouchFollows ==
  ASSUME time \in Nat, NEW s, NEW touched, Store(s, touched, time), NEW t, NEW c, NEW gone, NEW new,
         Follows(s, t, touched, touched, gone, new)
  PROVE  Follows(s, Touch(t, c), touched, Now(c, t, touched), gone, new)
<1>1. Store(t, touched, time)
  BY DEF Follows
<1> DEFINE after == Now(c, t, touched)
           u == Touch(t, c)
<1>2. /\ Store(u, after, time) /\ IdsOf(u) = IdsOf(t) /\ after \in [Ids -> Nat]
      /\ \A x \in IdsOf(t) : touched[x] <= after[x]
  BY <1>1, TouchIs
<1>3. \A x \in IdsOf(t) \cup IdsOf(s) : x \in Ids /\ touched[x] \in Nat
  <2>1. touched \in [Ids -> Nat]
    BY DEF Store
  <2>2. \A x \in IdsOf(t) : x \in Ids
    BY <1>1, StoreIs
  <2>3. \A x \in IdsOf(s) : x \in Ids
    BY StoreIs
  <2> QED
    BY <2>1, <2>2, <2>3
<1> HIDE DEF u, after
<1>4. ASSUME NEW id \in IdsOf(s), NEW other \in IdsOf(t), touched[id] <= touched[other]
      PROVE  touched[id] <= after[other]
  <2>1. after[other] \in Nat /\ touched[other] <= after[other]
    BY <1>2, <1>3
  <2> QED
    BY <1>3, <1>4, <2>1
<1>5. Evicted(s, u, touched, after, gone)
  BY <1>2, <1>4 DEF Follows, Evicted, Leaves
<1> QED
  BY <1>2, <1>5 DEF Follows, u, after

\* What is unexpired, evicted to a limit, is a store; what goes was used no later
\* than what stays, and nothing goes while there is room.
LEMMA LimitIs ==
  ASSUME NEW u \in Seq(StoreEntries), Distinct(u), NEW touched, touched \in [Ids -> Nat],
         \A p \in 1..Len(u) : u[p].used = touched[u[p].id] /\ u[p].used <= time,
         NEW n \in Nat, n <= MaxEntries
  PROVE  /\ Store(Recent(u, n), touched, time) /\ Len(Recent(u, n)) <= n
         /\ IdsOf(Recent(u, n)) \subseteq IdsOf(u)
         /\ \A p \in 1..Len(u) :
               \/ u[p].id \in IdsOf(Recent(u, n))
               \/ /\ Len(u) > n
                  /\ \A k \in 1..Len(Recent(u, n)) : u[p].used <= Recent(u, n)[k].used
<1> DEFINE r == Recent(u, n)
<1>1. /\ r \in Seq(StoreEntries) /\ Within(r, u) /\ Len(r) \in Nat /\ Len(r) <= n /\ Distinct(r)
      /\ \A p \in 1..Len(u) :
            \/ \E k \in 1..Len(r) : r[k] = u[p]
            \/ Len(u) > n /\ \A k \in 1..Len(r) : u[p].used <= r[k].used
  BY RecentIs
<1> HIDE DEF r
<1>2. Len(r) <= MaxEntries
  BY <1>1, EnrollmentAssumption
<1>3. \A k \in 1..Len(r) : r[k].used = touched[r[k].id] /\ r[k].used <= time
  BY <1>1 DEF Within
<1>4. Store(r, touched, time)
  BY <1>1, <1>2, <1>3 DEF Store
<1>5. IdsOf(r) \subseteq IdsOf(u)
  BY <1>1, WithinIds
<1>6. \A k \in 1..Len(r) : r[k].id \in IdsOf(r)
  BY <1>1, IdsAre
<1> QED
  BY <1>1, <1>4, <1>5, <1>6 DEF r

\* _evict_expired_locked() leaves a store, without what was unused for a TTL.
LEMMA UnexpiredStore ==
  ASSUME NEW s, NEW touched, Store(s, touched, time)
  PROVE  LET u == Unexpired(s)
         IN  /\ Store(u, touched, time) /\ IdsOf(u) \subseteq IdsOf(s)
             /\ Len(u) = Cardinality(AlivePlaces(s)) /\ Len(u) <= Len(s) /\ Len(u) \in Nat
             /\ \A p \in 1..Len(s) :
                   Alive(s[p]) => \E k \in 1..Len(u) : u[k] = s[p]
<1> DEFINE u == Unexpired(s)
<1>1. s \in Seq(StoreEntries) /\ Len(s) \in Nat /\ Distinct(s) /\ Len(s) <= MaxEntries
  BY StoreIs DEF Store
<1>2. /\ u \in Seq(StoreEntries) /\ Within(u, s) /\ Len(u) = Cardinality(AlivePlaces(s))
      /\ Len(u) \in Nat /\ Len(u) <= Len(s) /\ Distinct(u)
      /\ \A p \in 1..Len(s) : Alive(s[p]) => \E k \in 1..Len(u) : u[k] = s[p]
  BY <1>1, UnexpiredIs
<1> HIDE DEF u
<1>3. Len(u) <= MaxEntries
  BY <1>1, <1>2, EnrollmentAssumption
<1>4. \A k \in 1..Len(u) : u[k].used = touched[u[k].id] /\ u[k].used <= time
  BY <1>2, StoreIs DEF Within
<1>5. Store(u, touched, time)
  BY <1>2, <1>3, <1>4 DEF Store
<1>6. IdsOf(u) \subseteq IdsOf(s)
  BY <1>1, <1>2, WithinIds
<1> QED
  BY <1>2, <1>5, <1>6 DEF u

\* EvictVoices: within the limit, only what is expired goes.
LEMMA EvictFollows ==
  ASSUME time \in Nat, NEW s, NEW touched, Store(s, touched, time), NEW gone, NEW new
  PROVE  Follows(s, Recent(Unexpired(s), MaxEntries), touched, touched, gone, new)
<1> DEFINE r == Recent(Unexpired(s), MaxEntries)
<1>1. PICK u : u = Unexpired(s)
  OBVIOUS
<1>2. /\ Store(u, touched, time) /\ IdsOf(u) \subseteq IdsOf(s)
      /\ Len(u) = Cardinality(AlivePlaces(s)) /\ Len(u) <= Len(s) /\ Len(u) \in Nat
      /\ \A p \in 1..Len(s) : Alive(s[p]) => \E k \in 1..Len(u) : u[k] = s[p]
  BY <1>1, UnexpiredStore
<1>3. /\ Store(r, touched, time) /\ IdsOf(r) \subseteq IdsOf(u)
      /\ \A p \in 1..Len(u) : u[p].id \in IdsOf(r) \/ Len(u) > MaxEntries
  BY <1>1, <1>2, EnrollmentAssumption, LimitIs DEF Store
<1> HIDE DEF r
<1>4. Len(u) <= MaxEntries
  BY <1>2 DEF Store
<1>5. \A p \in 1..Len(u) : u[p].id \in IdsOf(r)
  BY <1>2, <1>3, <1>4, EnrollmentAssumption
<1>6. \A p \in 1..Len(s) : s[p].id \in IdsOf(r) \/ ~Alive(s[p])
  BY <1>2, <1>5
<1>7. r \in Seq(StoreEntries)
  BY <1>3 DEF Store
<1>8. Evicted(s, r, touched, touched, gone)
  BY <1>6, <1>7, EvictedIs
<1> QED
  BY <1>2, <1>3, <1>8 DEF Follows, r

\* An entry put behind a store that does not have its id.
LEMMA PutIs ==
  ASSUME time \in Nat, NEW s, NEW touched, Store(s, touched, time), NEW id \in Ids, id \notin IdsOf(s)
  PROVE  LET t == Append(s, Entry(id))
             after == [touched EXCEPT ![id] = time]
         IN  /\ t \in Seq(StoreEntries) /\ Distinct(t) /\ Len(t) = Len(s) + 1
             /\ after \in [Ids -> Nat] /\ \A x \in Ids : x # id => after[x] = touched[x]
             /\ after[id] = time
             /\ \A p \in 1..Len(t) : t[p].used = after[t[p].id] /\ t[p].used <= time
             /\ IdsOf(t) = IdsOf(s) \cup {id}
             /\ \A p \in 1..Len(s) : t[p] = s[p]
             /\ t[Len(s) + 1] = Entry(id)
<1> DEFINE t == Append(s, Entry(id))
           after == [touched EXCEPT ![id] = time]
<1>1. s \in Seq(StoreEntries) /\ Len(s) \in Nat /\ Distinct(s) /\ touched \in [Ids -> Nat]
  BY StoreIs DEF Store
<1>2. Entry(id) \in StoreEntries /\ Entry(id).id = id /\ Entry(id).used = time
  BY DEF Entry, StoreEntries
<1>3. /\ t \in Seq(StoreEntries) /\ Len(t) = Len(s) + 1
      /\ \A p \in 1..Len(s) : t[p] = s[p]
      /\ t[Len(s) + 1] = Entry(id)
  BY <1>1, <1>2
<1>4. after \in [Ids -> Nat] /\ (\A x \in Ids : x # id => after[x] = touched[x]) /\ after[id] = time
  BY <1>1
<1> HIDE DEF t, after
<1>5. \A p \in 1..Len(s) : s[p].id # id /\ s[p].id \in Ids /\ s[p].id \in IdsOf(s)
                           /\ s[p].used = touched[s[p].id] /\ s[p].used <= time
  BY StoreIs
<1>6. \A p \in 1..Len(t) : p \in 1..Len(s) \/ p = Len(s) + 1
  BY <1>1, <1>3
<1>7. Distinct(t)
  BY <1>1, <1>2, <1>3, <1>5, <1>6 DEF Distinct
<1>8. \A p \in 1..Len(t) : t[p].used = after[t[p].id] /\ t[p].used <= time
  BY <1>2, <1>3, <1>4, <1>5, <1>6
<1>9. ASSUME NEW x \in IdsOf(t) PROVE x \in IdsOf(s) \cup {id}
  BY <1>2, <1>3, <1>5, <1>6, IdsAre
<1>10. ASSUME NEW x \in IdsOf(s) PROVE x \in IdsOf(t)
  <2>1. PICK p \in 1..Len(s) : s[p].id = x
    BY StoreIs
  <2>2. p \in 1..Len(t) /\ t[p].id = x
    BY <1>1, <1>3, <2>1
  <2> QED
    BY <1>3, <2>2, IdsAre
<1>11. id \in IdsOf(t)
  <2>1. Len(s) + 1 \in 1..Len(t)
    BY <1>1, <1>3
  <2> QED
    BY <1>2, <1>3, <2>1, IdsAre
<1> QED
  BY <1>3, <1>4, <1>7, <1>8, <1>9, <1>10, <1>11 DEF t, after

\* put() of the enrolment store: room is made first.
LEMMA PutAudioFollows ==
  ASSUME time \in Nat, NEW touched, Store(audio, touched, time), NEW id \in Ids,
         id \notin IdsOf(audio), NEW gone, NEW new, id \in new
  PROVE  Follows(audio, PutAudio(id), touched, [touched EXCEPT ![id] = time], gone, new)
<1> DEFINE after == [touched EXCEPT ![id] = time]
<1>1. PICK u : u = Unexpired(audio)
  OBVIOUS
<1>2. PICK n : n = MaxEntries - 1
  OBVIOUS
<1>3. PICK r : r = Recent(u, n)
  OBVIOUS
<1>4. PICK t : t = Append(r, Entry(id))
  OBVIOUS
<1>5. t = PutAudio(id)
  BY <1>1, <1>2, <1>3, <1>4 DEF PutAudio
<1>6. MaxEntries \in Nat /\ n \in Nat /\ n + 1 = MaxEntries /\ n <= MaxEntries
  BY <1>2, EnrollmentAssumption
<1>7. /\ Store(u, touched, time) /\ IdsOf(u) \subseteq IdsOf(audio)
      /\ Len(u) = Cardinality(AlivePlaces(audio)) /\ Len(u) <= Len(audio) /\ Len(u) \in Nat
      /\ \A p \in 1..Len(audio) : Alive(audio[p]) => \E k \in 1..Len(u) : u[k] = audio[p]
  BY <1>1, UnexpiredStore
<1>8. /\ Store(r, touched, time) /\ Len(r) <= n /\ IdsOf(r) \subseteq IdsOf(u)
      /\ \A p \in 1..Len(u) :
            \/ u[p].id \in IdsOf(r)
            \/ Len(u) > n /\ \A k \in 1..Len(r) : u[p].used <= r[k].used
  <2>1. /\ u \in Seq(StoreEntries) /\ Distinct(u) /\ touched \in [Ids -> Nat]
        /\ \A p \in 1..Len(u) : u[p].used = touched[u[p].id] /\ u[p].used <= time
    BY <1>7 DEF Store
  <2> QED
    BY <1>3, <1>6, <2>1, LimitIs
<1>9. id \notin IdsOf(r) /\ Len(r) \in Nat
  BY <1>7, <1>8, StoreIs
<1>10. /\ t \in Seq(StoreEntries) /\ Distinct(t) /\ Len(t) = Len(r) + 1
       /\ after \in [Ids -> Nat] /\ \A x \in Ids : x # id => after[x] = touched[x]
       /\ after[id] = time
       /\ \A p \in 1..Len(t) : t[p].used = after[t[p].id] /\ t[p].used <= time
       /\ IdsOf(t) = IdsOf(r) \cup {id}
  BY <1>4, <1>8, <1>9, PutIs
<1> HIDE DEF after
<1>11. Store(t, after, time)
  BY <1>6, <1>8, <1>9, <1>10 DEF Store
<1>12. ASSUME NEW p \in 1..Len(audio), Alive(audio[p]), audio[p].id \notin IdsOf(t)
       PROVE  /\ Len(audio) >= MaxEntries /\ Cardinality(AlivePlaces(audio)) >= MaxEntries
              /\ \A x \in IdsOf(t) : x \in IdsOf(audio) => audio[p].used <= after[x]
  <2>1. PICK k \in 1..Len(u) : u[k] = audio[p]
    BY <1>7, <1>12
  <2>2. Len(u) > n /\ \A j \in 1..Len(r) : u[k].used <= r[j].used
    BY <1>8, <1>10, <1>12, <2>1
  <2>3. Len(audio) \in Nat /\ Len(audio) >= MaxEntries /\ Len(u) >= MaxEntries
    BY <1>6, <1>7, <2>2, StoreIs
  <2>4. ASSUME NEW x \in IdsOf(t), x \in IdsOf(audio) PROVE audio[p].used <= after[x]
    <3>1. x \in IdsOf(r) /\ x # id /\ x \in Ids
      BY <1>10, <2>4, StoreIs
    <3>2. PICK j \in 1..Len(r) : r[j].id = x
      BY <1>8, <3>1, StoreIs
    <3>3. r[j].used = touched[r[j].id]
      BY <1>8, StoreIs
    <3>4. r[j].used = after[x]
      BY <1>10, <3>1, <3>2, <3>3
    <3> QED
      BY <2>1, <2>2, <3>4
  <2> QED
    BY <1>7, <2>3, <2>4
<1>13. \A k \in 1..Len(t) : t[k].id \in IdsOf(t)
  BY <1>10, IdsAre
<1>14. Evicted(audio, t, touched, after, gone)
  BY <1>10, <1>12, <1>13, EvictedIs
<1>15. IdsOf(t) \subseteq IdsOf(audio) \cup new
  BY <1>7, <1>8, <1>10
<1> QED
  BY <1>5, <1>11, <1>14, <1>15 DEF Follows, after

\* put() of the identity store: the limit is enforced after.
LEMMA PutVoiceFollows ==
  ASSUME time \in Nat, NEW touched, Store(voices, touched, time), NEW id \in Ids,
         id \notin IdsOf(voices), NEW gone, NEW new, id \in new
  PROVE  Follows(voices, PutVoice(id), touched, [touched EXCEPT ![id] = time], gone, new)
<1> DEFINE after == [touched EXCEPT ![id] = time]
<1>1. PICK u : u = Unexpired(voices)
  OBVIOUS
<1>2. PICK t : t = Append(u, Entry(id))
  OBVIOUS
<1>3. PICK r : r = Recent(t, MaxEntries)
  OBVIOUS
<1>4. r = PutVoice(id)
  BY <1>1, <1>2, <1>3 DEF PutVoice
<1>5. MaxEntries \in Nat
  BY EnrollmentAssumption
<1>6. /\ Store(u, touched, time) /\ IdsOf(u) \subseteq IdsOf(voices)
      /\ Len(u) = Cardinality(AlivePlaces(voices)) /\ Len(u) <= Len(voices) /\ Len(u) \in Nat
      /\ \A p \in 1..Len(voices) : Alive(voices[p]) => \E k \in 1..Len(u) : u[k] = voices[p]
  BY <1>1, UnexpiredStore
<1>7. /\ t \in Seq(StoreEntries) /\ Distinct(t) /\ Len(t) = Len(u) + 1
      /\ after \in [Ids -> Nat] /\ \A x \in Ids : x # id => after[x] = touched[x]
      /\ after[id] = time
      /\ \A p \in 1..Len(t) : t[p].used = after[t[p].id] /\ t[p].used <= time
      /\ IdsOf(t) = IdsOf(u) \cup {id}
      /\ \A p \in 1..Len(u) : t[p] = u[p]
  BY <1>2, <1>6, PutIs
<1> HIDE DEF after
<1>8. /\ Store(r, after, time) /\ Len(r) <= MaxEntries /\ IdsOf(r) \subseteq IdsOf(t)
      /\ \A p \in 1..Len(t) :
            \/ t[p].id \in IdsOf(r)
            \/ Len(t) > MaxEntries /\ \A k \in 1..Len(r) : t[p].used <= r[k].used
  BY <1>3, <1>5, <1>7, LimitIs
<1>9. ASSUME NEW p \in 1..Len(voices), Alive(voices[p]), voices[p].id \notin IdsOf(r)
      PROVE  /\ Len(voices) >= MaxEntries /\ Cardinality(AlivePlaces(voices)) >= MaxEntries
             /\ \A k \in 1..Len(r) : voices[p].used <= after[r[k].id]
  <2>1. PICK k \in 1..Len(u) : u[k] = voices[p]
    BY <1>6, <1>9
  <2>2. k \in 1..Len(t) /\ t[k] = voices[p]
    BY <1>6, <1>7, <2>1
  <2>3. Len(t) > MaxEntries /\ \A j \in 1..Len(r) : voices[p].used <= r[j].used
    BY <1>8, <1>9, <2>2
  <2>4. Len(voices) \in Nat /\ Len(voices) >= MaxEntries /\ Len(u) >= MaxEntries
    BY <1>5, <1>6, <1>7, <2>3, StoreIs
  <2>5. \A j \in 1..Len(r) : r[j].used = after[r[j].id]
    BY <1>8, StoreIs
  <2> QED
    BY <1>6, <2>3, <2>4, <2>5
<1>10. r \in Seq(StoreEntries)
  BY <1>8 DEF Store
<1>11. Evicted(voices, r, touched, after, gone)
  BY <1>9, <1>10, EvictedIs
<1>12. IdsOf(r) \subseteq IdsOf(voices) \cup new
  BY <1>6, <1>7, <1>8
<1> QED
  BY <1>4, <1>8, <1>11, <1>12 DEF Follows, after

\* get() of the enrolment store drops its entry if it is expired, or refreshes it.
LEMMA GetAudioFollows ==
  ASSUME time \in Nat, NEW touched, Store(audio, touched, time), NEW id, NEW gone, NEW new
  PROVE  Follows(audio, GetAudio(id), touched, Now({id}, GetAudio(id), touched), gone, new)
<1>1. audio \in Seq(StoreEntries) /\ ToSet(audio) = {audio[p] : p \in 1..Len(audio)}
  BY StoreIs, PositionsAre DEF ToSet
<1>2. touched \in [Ids -> Nat] /\ Distinct(audio)
  BY DEF Store
<1>3. CASE \E e \in ToSet(audio) : e.id = id /\ ~Alive(e)
  <2>1. PICK p \in 1..Len(audio) : audio[p].id = id /\ ~Alive(audio[p])
    BY <1>1, <1>3
  <2>2. PICK t : t = Without(audio, id)
    OBVIOUS
  <2>3. GetAudio(id) = t
    BY <1>3, <2>2 DEF GetAudio
  <2>4. Store(t, touched, time) /\ IdsOf(t) = IdsOf(audio) \ {id}
    BY <2>2, WithoutIs
  <2>5. Now({id}, t, touched) = touched
    BY <1>2, <2>4 DEF Now
  <2>6. \A q \in 1..Len(audio) : audio[q].id \in IdsOf(t) \/ ~Alive(audio[q])
    <3>1. \A q \in 1..Len(audio) : audio[q].id \in IdsOf(audio)
      BY StoreIs
    <3> QED
      BY <1>2, <2>1, <2>4, <3>1 DEF Distinct
  <2>7. t \in Seq(StoreEntries)
    BY <2>4 DEF Store
  <2>8. Evicted(audio, t, touched, touched, gone)
    BY <2>6, <2>7, EvictedIs
  <2> QED
    BY <2>3, <2>4, <2>5, <2>8 DEF Follows
<1>4. CASE ~ \E e \in ToSet(audio) : e.id = id /\ ~Alive(e)
  <2>1. GetAudio(id) = Touch(audio, {id})
    BY <1>4 DEF GetAudio
  <2>2. IdsOf(Touch(audio, {id})) = IdsOf(audio)
    BY TouchIs
  <2>3. Now({id}, Touch(audio, {id}), touched) = Now({id}, audio, touched)
    BY <2>2 DEF Now
  <2>4. Follows(audio, audio, touched, touched, gone, new)
    BY StaysTheSame
  <2>5. Follows(audio, Touch(audio, {id}), touched, Now({id}, audio, touched), gone, new)
    BY <2>4, TouchFollows
  <2> QED
    BY <2>1, <2>3, <2>5
<1> QED
  BY <1>3, <1>4

-----------------------------------------------------------------------------
(* EnrollmentStores: the endpoints. *)

Creates == {"none", "extracting", "created", "refused"}

\* What a POST has not put is in no store, what it has not told is neither
\* identified nor deleted, and the audio is in one place.
StoresInv ==
    /\ time \in Nat /\ remote \in BOOLEAN /\ create \in [Ids -> Creates]
    /\ Store(audio, touchedAudio, time) /\ Store(voices, touchedVoice, time)
    /\ remote => audio = <<>>
    /\ deleting # {} => remote
    /\ \A id \in IdsOf(audio) : create[id] # "none"
    /\ \A id \in IdsOf(voices) \cup deleted \cup deleting : id \in Ids /\ create[id] = "created"
    /\ DeletedStaysGone

\* An endpoint's step: how it may leave both stores, and what it must not forget.
Endpoint(goneIds) ==
    /\ time' = time /\ remote' = remote
    /\ create' \in [Ids -> Creates]
    /\ \A id \in Ids : /\ create[id] # "none" => create'[id] # "none"
                       /\ create[id] = "created" => create'[id] = "created"
    /\ deleted' = deleted \cup goneIds
    /\ \A id \in goneIds \cup deleting' : id \in Ids /\ create[id] = "created"
    /\ goneIds \cap (IdsOf(audio') \cup IdsOf(voices')) = {}
    /\ remote => audio' = <<>>
    /\ deleting' # {} => remote
    /\ Follows(audio, audio', touchedAudio, touchedAudio', deleted',
               {id \in Ids : create[id] = "none" /\ create'[id] # "none"})
    /\ Follows(voices, voices', touchedVoice, touchedVoice', deleted',
               {id \in Ids : create[id] = "extracting" /\ create'[id] = "created"})

\* Such a step keeps the invariant, and evicts the right ones.
LEMMA EndpointKeeps ==
  ASSUME StoresInv, NEW goneIds, Endpoint(goneIds)
  PROVE  /\ StoresInv'
         /\ Evicts(audio, audio', touchedAudio) /\ Evicts(voices, voices', touchedVoice)
         /\ Len(audio') <= MaxEntries /\ Len(voices') <= MaxEntries
<1>1. /\ Store(audio', touchedAudio', time') /\ Store(voices', touchedVoice', time')
      /\ Evicted(audio, audio', touchedAudio, touchedAudio', deleted')
      /\ Evicted(voices, voices', touchedVoice, touchedVoice', deleted')
  BY DEF Endpoint, Follows
<1>2. /\ Evicts(audio, audio', touchedAudio) /\ Evicts(voices, voices', touchedVoice)
  BY <1>1 DEF Evicted, Evicts
<1>3. Len(audio') <= MaxEntries /\ Len(voices') <= MaxEntries
  BY <1>1 DEF Store
<1>4. \A id \in IdsOf(audio') : id \in Ids /\ create'[id] # "none"
                                /\ (id \in IdsOf(audio) \/ create[id] = "none")
  <2>1. \A id \in IdsOf(audio') : id \in Ids
    BY <1>1, StoreIs
  <2> QED
    BY <2>1 DEF Endpoint, Follows, StoresInv
<1>5. \A id \in IdsOf(voices') : id \in Ids /\ create'[id] = "created"
                                 /\ (id \in IdsOf(voices) \/ create[id] = "extracting")
  <2>1. \A id \in IdsOf(voices') : id \in Ids
    BY <1>1, StoreIs
  <2> QED
    BY <2>1 DEF Endpoint, Follows, StoresInv
<1>6. \A id \in deleted' \cup deleting' : id \in Ids /\ create[id] = "created" /\ create'[id] = "created"
  BY DEF Endpoint, StoresInv
<1>7. DeletedStaysGone'
  BY <1>4, <1>5 DEF Endpoint, StoresInv, DeletedStaysGone
<1>8. time' \in Nat /\ remote' \in BOOLEAN /\ create' \in [Ids -> Creates]
      /\ (remote' => audio' = <<>>) /\ (deleting' # {} => remote')
  BY DEF Endpoint, StoresInv
<1>9. StoresInv'
  BY <1>1, <1>4, <1>5, <1>6, <1>7, <1>8 DEF StoresInv
<1> QED
  BY <1>2, <1>3, <1>9

\* The stores begin empty.
LEMMA InitStores == StoresInit => StoresInv
<1> SUFFICES ASSUME StoresInit PROVE StoresInv
  OBVIOUS
<1>1. /\ time = 0 /\ remote \in BOOLEAN /\ audio = <<>> /\ voices = <<>> /\ deleting = {}
      /\ deleted = {} /\ create = [id \in Ids |-> "none"]
      /\ touchedAudio = [id \in Ids |-> 0] /\ touchedVoice = [id \in Ids |-> 0]
  BY DEF StoresInit
<1>2. Store(<<>>, touchedAudio, time) /\ Store(<<>>, touchedVoice, time)
  BY <1>1, EnrollmentAssumption DEF Store, Distinct
<1>3. IdsOf(<<>>) = {}
  BY <1>2, StoreIs
<1> QED
  BY <1>1, <1>2, <1>3 DEF StoresInv, DeletedStaysGone, Creates

\* Time passes.
LEMMA TickKeeps ==
  ASSUME StoresInv, Tick
  PROVE  StoresInv' /\ audio' = audio /\ voices' = voices
<1>1. /\ time' = time + 1 /\ remote' = remote /\ audio' = audio /\ voices' = voices
      /\ create' = create /\ deleting' = deleting /\ deleted' = deleted
      /\ touchedAudio' = touchedAudio /\ touchedVoice' = touchedVoice
  BY DEF Tick, history
<1>2. time \in Nat /\ time' \in Nat /\ \A n \in Nat : n <= time => n <= time'
  BY <1>1 DEF StoresInv
<1>3. ASSUME NEW s, NEW touched, Store(s, touched, time) PROVE Store(s, touched, time')
  BY <1>2, <1>3, StoreIs DEF Store
<1>4. Store(audio, touchedAudio, time') /\ Store(voices, touchedVoice, time')
  BY <1>3 DEF StoresInv
<1> QED
  BY <1>1, <1>2, <1>4 DEF StoresInv, DeletedStaysGone

\* No step of an endpoint forgets what another relies on.
LEMMA NextStores ==
  ASSUME StoresInv, StoresNext
  PROVE  /\ StoresInv'
         /\ Evicts(audio, audio', touchedAudio) /\ Evicts(voices, voices', touchedVoice)
         /\ Len(audio') <= MaxEntries /\ Len(voices') <= MaxEntries
<1>1. /\ time \in Nat /\ remote \in BOOLEAN /\ create \in [Ids -> Creates]
      /\ Store(audio, touchedAudio, time) /\ Store(voices, touchedVoice, time)
      /\ (remote => audio = <<>>) /\ (deleting # {} => remote)
      /\ \A id \in deleting : id \in Ids /\ create[id] = "created"
  BY DEF StoresInv
<1>2. \A gone, new : /\ Follows(audio, audio, touchedAudio, touchedAudio, gone, new)
                     /\ Follows(voices, voices, touchedVoice, touchedVoice, gone, new)
  BY <1>1, StaysTheSame
<1>3. \A gone, new : Follows(voices, EvictVoices, touchedVoice, touchedVoice, gone, new)
  BY <1>1, EvictFollows DEF EvictVoices
<1>4. \A c, gone, new : Follows(voices, GetVoices(c), touchedVoice, Now(c, EvictVoices, touchedVoice),
                                gone, new)
  BY <1>1, <1>3, TouchFollows DEF GetVoices
<1>5. CASE Tick
  <2>1. StoresInv' /\ audio' = audio /\ voices' = voices
    BY <1>5, TickKeeps
  <2>2. Leaves(audio, audio') = {} /\ Leaves(voices, voices') = {}
    BY <2>1 DEF Leaves
  <2> QED
    BY <1>1, <2>1, <2>2 DEF Evicts, Store
<1>6. ASSUME NEW id \in Ids, CreateLocal(id) PROVE Endpoint({})
  <2>1. /\ ~remote /\ create[id] = "none" /\ audio' = PutAudio(id)
        /\ touchedAudio' = [touchedAudio EXCEPT ![id] = time]
        /\ voices' = EvictVoices /\ touchedVoice' = touchedVoice
        /\ create' = [create EXCEPT ![id] = "extracting"]
        /\ remote' = remote /\ time' = time /\ deleting' = deleting /\ deleted' = deleted
    BY <1>6 DEF CreateLocal
  <2>2. /\ create' \in [Ids -> Creates] /\ create'[id] # "none"
        /\ \A i \in Ids : i # id => create'[i] = create[i]
    BY <1>1, <2>1 DEF Creates
  <2>3. id \notin IdsOf(audio)
    BY <2>1 DEF StoresInv
  <2>4. Follows(audio, audio', touchedAudio, touchedAudio', deleted',
                {i \in Ids : create[i] = "none" /\ create'[i] # "none"})
    BY <1>1, <2>1, <2>2, <2>3, PutAudioFollows
  <2> QED
    BY <1>1, <1>3, <2>1, <2>2, <2>4 DEF Endpoint
<1>7. ASSUME NEW id \in Ids, CreateRemote(id) \/ CreateRefused(id) \/ ExtractFails(id)
      PROVE  Endpoint({})
  <2>1. /\ remote' = remote /\ time' = time /\ deleting' = deleting /\ deleted' = deleted
        /\ audio' = audio /\ touchedAudio' = touchedAudio /\ touchedVoice' = touchedVoice
        /\ voices' \in {voices, EvictVoices}
        /\ create[id] \in {"none", "extracting"}
        /\ \E e \in {"extracting", "created", "refused"} : create' = [create EXCEPT ![id] = e]
    BY <1>7 DEF CreateRemote, CreateRefused, ExtractFails, history
  <2>2. /\ create' \in [Ids -> Creates] /\ create'[id] # "none"
        /\ \A i \in Ids : i # id => create'[i] = create[i]
    BY <1>1, <2>1 DEF Creates
  <2>3. Follows(voices, voices', touchedVoice, touchedVoice', deleted',
                {i \in Ids : create[i] = "extracting" /\ create'[i] = "created"})
    BY <1>2, <1>3, <2>1
  <2> QED
    BY <1>1, <1>2, <2>1, <2>2, <2>3 DEF Endpoint
<1>8. ASSUME NEW id \in Ids, ExtractReturns(id) PROVE Endpoint({})
  <2>1. /\ create[id] = "extracting" /\ voices' = PutVoice(id)
        /\ touchedVoice' = [touchedVoice EXCEPT ![id] = time]
        /\ audio' = audio /\ touchedAudio' = touchedAudio
        /\ create' = [create EXCEPT ![id] = "created"]
        /\ remote' = remote /\ time' = time /\ deleting' = deleting /\ deleted' = deleted
    BY <1>8 DEF ExtractReturns
  <2>2. /\ create' \in [Ids -> Creates] /\ create'[id] = "created"
        /\ \A i \in Ids : i # id => create'[i] = create[i]
    BY <1>1, <2>1 DEF Creates
  <2>3. id \notin IdsOf(voices)
    BY <2>1 DEF StoresInv
  <2>4. Follows(voices, voices', touchedVoice, touchedVoice', deleted',
                {i \in Ids : create[i] = "extracting" /\ create'[i] = "created"})
    BY <1>1, <2>1, <2>2, <2>3, PutVoiceFollows
  <2> QED
    BY <1>1, <1>2, <2>1, <2>2, <2>4 DEF Endpoint
<1>9. ASSUME NEW id \in Ids, Delete(id) PROVE Endpoint({id})
  <2>1. /\ ~remote /\ create[id] = "created"
        /\ audio' = Without(audio, id) /\ voices' = Without(voices, id)
        /\ deleted' = deleted \cup {id} /\ create' = create
        /\ touchedAudio' = touchedAudio /\ touchedVoice' = touchedVoice
        /\ remote' = remote /\ time' = time /\ deleting' = deleting
    BY <1>9 DEF Delete, Told
  <2>2. id \notin IdsOf(audio') \cup IdsOf(voices')
    BY <1>1, <2>1, WithoutIs
  <2>3. id \in deleted'
    BY <2>1
  <2>4. \A new : /\ Follows(audio, Without(audio, id), touchedAudio, touchedAudio, deleted', new)
                 /\ Follows(voices, Without(voices, id), touchedVoice, touchedVoice, deleted', new)
    BY <1>1, <2>3, Forgets
  <2> QED
    BY <1>1, <2>1, <2>2, <2>4 DEF Endpoint
<1>10. ASSUME NEW id \in Ids, DeleteUpstream(id) PROVE Endpoint({})
  <2>1. /\ remote /\ create[id] = "created" /\ deleting' = deleting \cup {id}
        /\ audio' = audio /\ voices' = voices /\ create' = create /\ deleted' = deleted
        /\ touchedAudio' = touchedAudio /\ touchedVoice' = touchedVoice
        /\ remote' = remote /\ time' = time
    BY <1>10 DEF DeleteUpstream, Told, history
  <2> QED
    BY <1>1, <1>2, <2>1 DEF Endpoint
<1>11. ASSUME NEW id \in Ids, DeleteReturns(id) PROVE Endpoint({id})
  <2>1. /\ id \in deleting /\ voices' = Without(voices, id) /\ deleting' = deleting \ {id}
        /\ deleted' = deleted \cup {id} /\ create' = create /\ audio' = audio
        /\ touchedAudio' = touchedAudio /\ touchedVoice' = touchedVoice
        /\ remote' = remote /\ time' = time
    BY <1>11 DEF DeleteReturns
  <2>2. remote /\ audio' = <<>> /\ IdsOf(audio') = {}
    <3>1. remote /\ audio = <<>> /\ Len(audio) = 0
      BY <1>1, <2>1
    <3> QED
      BY <1>1, <2>1, <3>1, StoreIs
  <2>3. id \notin IdsOf(voices')
    BY <1>1, <2>1, WithoutIs
  <2>4. id \in deleted'
    BY <2>1
  <2>5. \A new : Follows(voices, Without(voices, id), touchedVoice, touchedVoice, deleted', new)
    BY <1>1, <2>4, Forgets
  <2> QED
    BY <1>1, <1>2, <2>1, <2>2, <2>3, <2>5 DEF Endpoint
<1>12. ASSUME NEW id \in Ids, Status(id) PROVE Endpoint({})
  <2>1. /\ create' = create /\ deleted' = deleted /\ deleting' = deleting
        /\ remote' = remote /\ time' = time
        /\ voices' = GetVoices({id}) /\ touchedVoice' = Now({id}, EvictVoices, touchedVoice)
    BY <1>12 DEF Status
  <2>2. \/ remote /\ audio' = audio /\ touchedAudio' = touchedAudio
        \/ ~remote /\ audio' = GetAudio(id) /\ touchedAudio' = Now({id}, GetAudio(id), touchedAudio)
    BY <1>1, <1>12 DEF Status
  <2>3. \A gone, new : Follows(audio, audio', touchedAudio, touchedAudio', gone, new)
    BY <1>1, <1>2, <2>2, GetAudioFollows
  <2> QED
    BY <1>1, <1>4, <2>1, <2>2, <2>3 DEF Endpoint
<1>13. ASSUME NEW id \in Ids, Resolve(id) PROVE Endpoint({})
  <2>1. /\ ~remote /\ audio' = GetAudio(id)
        /\ touchedAudio' = Now({id}, GetAudio(id), touchedAudio)
        /\ voices' = voices /\ touchedVoice' = touchedVoice
        /\ create' = create /\ deleted' = deleted /\ deleting' = deleting
        /\ remote' = remote /\ time' = time
    BY <1>13 DEF Resolve
  <2>2. \A gone, new : Follows(audio, audio', touchedAudio, touchedAudio', gone, new)
    BY <1>1, <2>1, GetAudioFollows
  <2> QED
    BY <1>1, <1>2, <2>1, <2>2 DEF Endpoint
<1>14. ASSUME NEW c \in SUBSET Ids, IdentifyBegins(c) PROVE Endpoint({})
  <2>1. /\ voices' = GetVoices(c) /\ touchedVoice' = Now(c, EvictVoices, touchedVoice)
        /\ audio' = audio /\ touchedAudio' = touchedAudio
        /\ create' = create /\ deleted' = deleted /\ deleting' = deleting
        /\ remote' = remote /\ time' = time
    BY <1>14 DEF IdentifyBegins
  <2> QED
    BY <1>1, <1>2, <1>4, <2>1 DEF Endpoint
<1>15. ASSUME IdentifyReturns \/ IdentifyFails PROVE Endpoint({})
  <2>1. /\ voices' = voices /\ touchedVoice' = touchedVoice
        /\ audio' = audio /\ touchedAudio' = touchedAudio
        /\ create' = create /\ deleted' = deleted /\ deleting' = deleting
        /\ remote' = remote /\ time' = time
    BY <1>15 DEF IdentifyReturns, IdentifyFails, history
  <2> QED
    BY <1>1, <1>2, <2>1 DEF Endpoint
<1>16. Tick \/ \E goneIds : Endpoint(goneIds)
  BY <1>6, <1>7, <1>8, <1>9, <1>10, <1>11, <1>12, <1>13, <1>14, <1>15
     DEF StoresNext, Create, Clear, Lookup
<1> QED
  BY <1>5, <1>16, EndpointKeeps

\* The inductive invariant of the two stores.
LEMMA AlwaysStores == StoresSpec => []StoresInv
<1>1. StoresInit => StoresInv
  BY InitStores
<1>2. StoresInv /\ [StoresNext]_storesVars => StoresInv'
  <2> SUFFICES ASSUME StoresInv, UNCHANGED storesVars PROVE StoresInv'
    BY NextStores
  <2>1. /\ time' = time /\ remote' = remote /\ audio' = audio /\ voices' = voices
        /\ create' = create /\ deleting' = deleting /\ deleted' = deleted
        /\ touchedAudio' = touchedAudio /\ touchedVoice' = touchedVoice
    BY DEF storesVars, history
  <2> QED
    BY <2>1 DEF StoresInv, DeletedStaysGone
<1> QED
  BY <1>1, <1>2, PTL DEF StoresSpec

\* What a DELETE answered is in neither store again, whatever the endpoints
\* interleave with their awaits (main.py:862-882).
THEOREM ForgottenStaysForgotten == StoresSpec => []DeletedStaysGone
<1>1. StoresInv => DeletedStaysGone
  BY DEF StoresInv
<1> QED
  BY <1>1, AlwaysStores, PTL

\* A store lets go only of what was unused for a TTL or, being full, of what was
\* used least recently, and never exceeds its limit (enrollment.py:223-236,
\* speaker_identity.py:74-86).
THEOREM LeastRecentIsEvicted == StoresSpec => EvictsTheRightOnes
<1>1. StoresInv /\ [StoresNext]_storesVars =>
        [/\ Evicts(audio, audio', touchedAudio)
         /\ Evicts(voices, voices', touchedVoice)
         /\ Len(audio') <= MaxEntries /\ Len(voices') <= MaxEntries]_storesVars
  BY NextStores
<1> QED
  BY <1>1, AlwaysStores, PTL DEF StoresSpec, EvictsTheRightOnes
=============================================================================
