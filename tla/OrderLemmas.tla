----------------------------- MODULE OrderLemmas -----------------------------
(***************************************************************************)
(* Least and greatest elements.  They stand in for induction: a property   *)
(* of all numbers is proved by looking at its least counterexample, and a  *)
(* recursive definition is shown to define a function by building it up.   *)
(***************************************************************************)
EXTENDS Integers, Sequences, FiniteSets, FiniteSetTheorems, WellFoundedInduction, TLAPS

\* Every non-empty set of naturals has a least element.
LEMMA LeastNat ==
  ASSUME NEW T \in SUBSET Nat, T # {}
  PROVE  \E m \in T : \A t \in T : m <= t
<1> DEFINE R == OpToRel(<, Nat)
<1>1. IsWellFoundedOn(R, Nat)
  BY NatLessThanWellFounded
<1>2. PICK m \in T : \A t \in T : ~ (<<t, m>> \in R)
  <2> HIDE DEF R
  <2> QED BY <1>1, WFMin
<1>3. \A t \in T : ~ (t < m)
  BY <1>2 DEF OpToRel
<1> QED BY <1>3

\* A set that holds 0, and with each number the next one, holds them all.
LEMMA SetInduction ==
  ASSUME NEW T, 0 \in T, NEW N \in Nat, \A n \in 0..(N - 1) : n \in T => n + 1 \in T
  PROVE  \A n \in 0..N : n \in T
<1> DEFINE Bad == {n \in 0..N : n \notin T}
<1> SUFFICES ASSUME Bad # {} PROVE FALSE
  OBVIOUS
<1>1. PICK m \in Bad : \A t \in Bad : m <= t
  <2>1. Bad \in SUBSET Nat
    OBVIOUS
  <2> HIDE DEF Bad
  <2> QED BY <2>1, LeastNat
<1>2. m \in 1..N /\ m - 1 \in 0..(N - 1) /\ m - 1 \notin Bad
  <2>1. m \in Nat /\ m # 0 /\ m <= N
    OBVIOUS
  <2>2. \A t \in Bad : t # m - 1
    BY <1>1, <2>1
  <2> HIDE DEF Bad
  <2> QED BY <2>1, <2>2
<1>3. m - 1 + 1 = m
  BY <1>2
<1> QED BY <1>1, <1>2, <1>3

\* Every non-empty set of naturals with an upper bound has a greatest element.
LEMMA GreatestNat ==
  ASSUME NEW T \in SUBSET Nat, T # {}, NEW n \in Nat, \A t \in T : t <= n
  PROVE  \E m \in T : \A t \in T : t <= m
<1> DEFINE D == {n - t : t \in T}
<1>0. \A t \in T : n - t \in Nat /\ n - t \in D
  OBVIOUS
<1>1. D \in SUBSET Nat /\ D # {}
  BY <1>0
<1>2. PICK d \in D : \A e \in D : d <= e
  <2> HIDE DEF D
  <2> QED BY <1>1, LeastNat
<1>3. PICK m \in T : d = n - m
  OBVIOUS
<1>4. \A t \in T : t <= m
  <2> TAKE t \in T
  <2>1. n - m <= n - t
    BY <1>0, <1>2, <1>3
  <2> QED BY <2>1
<1> QED BY <1>4

\* In a finite non-empty set, a transitive and total relation has a greatest element.
LEMMA FiniteGreatest ==
  ASSUME NEW S, IsFiniteSet(S), S # {}, NEW R,
         \A x, y \in S : <<x, y>> \in R \/ <<y, x>> \in R,
         \A x, y, z \in S : <<x, y>> \in R /\ <<y, z>> \in R => <<x, z>> \in R
  PROVE  \E m \in S : \A x \in S : <<x, m>> \in R
<1> DEFINE Above(x) == {y \in S : <<y, x>> \notin R}
           Sizes == {Cardinality(Above(x)) : x \in S}
<1>1. \A x \in S : IsFiniteSet(Above(x)) /\ Cardinality(Above(x)) \in Nat
  BY FS_Subset, FS_CardinalityType
<1>2. Sizes \in SUBSET Nat /\ Sizes # {}
  BY <1>1
<1>3. PICK k \in Sizes : \A e \in Sizes : k <= e
  <2> HIDE DEF Sizes
  <2> QED BY <1>2, LeastNat
<1>4. PICK m \in S : k = Cardinality(Above(m))
  OBVIOUS
<1>5. Above(m) = {}
  <2> SUFFICES ASSUME NEW y \in Above(m) PROVE FALSE
    OBVIOUS
  <2>1. y \in S /\ <<m, y>> \in R /\ <<y, m>> \notin R
    OBVIOUS
  <2>2. Above(y) \subseteq Above(m)
    BY <2>1
  <2>3. y \notin Above(y)
    BY <2>1
  <2>4. Above(y) # Above(m)
    BY <2>3
  <2>5. Cardinality(Above(y)) <= Cardinality(Above(m)) /\ Cardinality(Above(y)) # Cardinality(Above(m))
    BY <1>1, <2>2, <2>4, FS_Subset
  <2>6. Cardinality(Above(m)) <= Cardinality(Above(y))
    <3>1. Cardinality(Above(y)) \in Sizes
      BY <2>1
    <3> QED BY <3>1, <1>3, <1>4
  <2> QED BY <1>1, <2>1, <2>5, <2>6
<1> QED BY <1>5

\* Every finite non-empty set of integers has a least element and a greatest one.
LEMMA LeastInt ==
  ASSUME NEW S \in SUBSET Int, IsFiniteSet(S), S # {}
  PROVE  /\ \E m \in S : \A x \in S : m <= x
         /\ \E m \in S : \A x \in S : m >= x
<1>1. \E m \in S : \A x \in S : m <= x
  <2> DEFINE R == {z \in S \X S : z[2] <= z[1]}
  <2>1. \A x, y \in S : <<x, y>> \in R <=> y <= x
    OBVIOUS
  <2> HIDE DEF R
  <2>2. /\ \A x, y \in S : <<x, y>> \in R \/ <<y, x>> \in R
        /\ \A x, y, z \in S : <<x, y>> \in R /\ <<y, z>> \in R => <<x, z>> \in R
    BY <2>1
  <2>3. \E m \in S : \A x \in S : <<x, m>> \in R
    BY <2>2, FiniteGreatest
  <2> QED BY <2>1, <2>3
<1>2. \E m \in S : \A x \in S : m >= x
  <2> DEFINE R == {z \in S \X S : z[1] <= z[2]}
  <2>1. \A x, y \in S : <<x, y>> \in R <=> x <= y
    OBVIOUS
  <2> HIDE DEF R
  <2>2. /\ \A x, y \in S : <<x, y>> \in R \/ <<y, x>> \in R
        /\ \A x, y, z \in S : <<x, y>> \in R /\ <<y, z>> \in R => <<x, z>> \in R
    BY <2>1
  <2>3. \E m \in S : \A x \in S : <<x, m>> \in R
    BY <2>2, FiniteGreatest
  <2> QED BY <2>1, <2>3
<1> QED BY <1>1, <1>2

\* A set that is listed without repetition has as many elements as the list is long.
LEMMA ListedOnce ==
  ASSUME NEW S, NEW n \in Nat, NEW f \in [1..n -> S],
         \A k, l \in 1..n : f[k] = f[l] => k = l, \A x \in S : \E k \in 1..n : f[k] = x
  PROVE  IsFiniteSet(S) /\ Cardinality(S) = n
<1>1. f \in Bijection(1..n, S)
  BY DEF Bijection, Injection, Surjection, IsInjective
<1>2. IsFiniteSet(1..n) /\ Cardinality(1..n) = n
  <2>1. /\ IsFiniteSet(1..n)
        /\ Cardinality(1..n) = IF 1 > n THEN 0 ELSE n - 1 + 1
    BY FS_Interval
  <2> QED BY <2>1
<1> QED BY <1>1, <1>2, FS_Bijection DEF ExistsBijection

\* f lists the n elements of A that N has and M has not.
Adds(A, M, N, n, f) ==
  /\ n \in Nat /\ f \in [1..n -> A]
  /\ \A k, l \in 1..n : f[k] = f[l] => k = l
  /\ \A k \in 1..n : f[k] \notin M
  /\ N = M \cup {f[k] : k \in 1..n}

\* To take n new elements of A leaves n fewer.
LEMMA TakenAway ==
  ASSUME NEW A, IsFiniteSet(A), NEW M, NEW N, NEW n, NEW f, Adds(A, M, N, n, f)
  PROVE  /\ Cardinality(A \ M) \in Nat /\ Cardinality(A \ N) \in Nat
         /\ Cardinality(A \ N) = Cardinality(A \ M) - n
<1> USE DEF Adds
<1> DEFINE S == {f[k] : k \in 1..n}
           B == A \ M
<1>1. f \in [1..n -> S] /\ \A x \in S : \E k \in 1..n : f[k] = x
  OBVIOUS
<1>2. B \ S = A \ N /\ B \cap S = S
  OBVIOUS
<1> HIDE DEF S
<1>3. Cardinality(S) = n
  BY <1>1, ListedOnce
<1>4. IsFiniteSet(B) /\ IsFiniteSet(A \ N)
  BY FS_Difference
<1> HIDE DEF B
<1>5. Cardinality(B \ S) = Cardinality(B) - Cardinality(B \cap S)
  BY <1>4, FS_Difference
<1>6. Cardinality(B) \in Nat /\ Cardinality(A \ N) \in Nat
  BY <1>4, FS_CardinalityType
<1> QED BY <1>2, <1>3, <1>5, <1>6 DEF B

\* R orders C strictly and totally.
IsStrictOrder(R, C) ==
  /\ \A x \in C : <<x, x>> \notin R
  /\ \A x, y \in C : x # y => <<x, y>> \in R \/ <<y, x>> \in R
  /\ \A x, y, z \in C : <<x, y>> \in R /\ <<y, z>> \in R => <<x, z>> \in R

\* The elements before e, and the elements of C in order: first the one with none
\* before it, then the one with one before it, and so on.
Under(C, R, e) == {d \in C : <<d, e>> \in R}
RankIn(C, R, e) == Cardinality(Under(C, R, e))
Listing(C, R) == [p \in 1..Cardinality(C) |-> CHOOSE e \in C : RankIn(C, R, e) = p - 1]

\* The number of elements before one ranks a strictly ordered finite set from 0.
LEMMA Ranks ==
  ASSUME NEW C, IsFiniteSet(C), NEW R, IsStrictOrder(R, C)
  PROVE  \E n \in Nat : \E g \in [C -> 0..(n - 1)] :
           /\ n = Cardinality(C)
           /\ \A x \in C : g[x] = RankIn(C, R, x)
           /\ \A x, y \in C : <<x, y>> \in R => g[x] < g[y]
           /\ \A x, y \in C : x # y => g[x] # g[y]
           /\ \A p \in 0..(n - 1) : \E e \in C : g[e] = p
<1>1. PICK n \in Nat : n = Cardinality(C)
  BY FS_CardinalityType
<1>2. \A e \in C : /\ Under(C, R, e) \in SUBSET C /\ Under(C, R, e) # C
                   /\ IsFiniteSet(Under(C, R, e)) /\ RankIn(C, R, e) \in 0..(n - 1)
  <2> TAKE e \in C
  <2>1. Under(C, R, e) # C /\ Under(C, R, e) \in SUBSET C
    BY DEF IsStrictOrder, Under
  <2>2. /\ IsFiniteSet(Under(C, R, e)) /\ RankIn(C, R, e) \in Nat
        /\ RankIn(C, R, e) <= n /\ RankIn(C, R, e) # n
    BY <1>1, <2>1, FS_Subset, FS_CardinalityType DEF RankIn
  <2> QED BY <1>1, <2>1, <2>2
<1> DEFINE g == [e \in C |-> RankIn(C, R, e)]
<1>3. g \in [C -> 0..(n - 1)] /\ \A e \in C : g[e] = RankIn(C, R, e)
  BY <1>2
<1> HIDE DEF g
<1>4. \A e \in C : g[e] \in Int
  BY <1>1, <1>3
<1>5. ASSUME NEW x \in C, NEW y \in C, <<x, y>> \in R PROVE g[x] < g[y]
  <2>1. Under(C, R, x) \subseteq Under(C, R, y) /\ Under(C, R, x) # Under(C, R, y)
    BY <1>5 DEF IsStrictOrder, Under
  <2>2. RankIn(C, R, x) <= RankIn(C, R, y) /\ RankIn(C, R, x) # RankIn(C, R, y)
    BY <1>2, <2>1, FS_Subset DEF RankIn
  <2> QED BY <1>3, <1>4, <2>2
<1>6. ASSUME NEW x \in C, NEW y \in C, x # y PROVE g[x] # g[y]
  <2>1. <<x, y>> \in R \/ <<y, x>> \in R
    BY <1>6 DEF IsStrictOrder
  <2> QED BY <1>4, <1>5, <2>1
<1>7. g \in Injection(C, 0..(n - 1))
  BY <1>3, <1>6 DEF Injection, IsInjective
<1>8. IsFiniteSet(0..(n - 1)) /\ Cardinality(0..(n - 1)) = n
  <2>1. /\ IsFiniteSet(0..(n - 1))
        /\ Cardinality(0..(n - 1)) = IF 0 > n - 1 THEN 0 ELSE (n - 1) - 0 + 1
    BY FS_Interval
  <2> QED BY <2>1
<1>9. g \in Surjection(C, 0..(n - 1))
  BY <1>1, <1>7, <1>8, FS_Injection
<1>10. \A p \in 0..(n - 1) : \E e \in C : g[e] = p
  BY <1>9 DEF Surjection
<1> QED BY <1>1, <1>3, <1>5, <1>6, <1>10

\* The listing is a sequence of all the elements, in order.
LEMMA Enumeration ==
  ASSUME NEW C, IsFiniteSet(C), NEW R, IsStrictOrder(R, C)
  PROVE  LET f == Listing(C, R)
         IN /\ f \in Seq(C) /\ DOMAIN f = 1..Cardinality(C) /\ Len(f) = Cardinality(C)
            /\ \A e \in C : \E p \in DOMAIN f : f[p] = e
            /\ \A p, q \in DOMAIN f : p < q => <<f[p], f[q]>> \in R
<1>1. PICK n \in Nat : \E g \in [C -> 0..(n - 1)] :
        /\ n = Cardinality(C)
        /\ \A x \in C : g[x] = RankIn(C, R, x)
        /\ \A x, y \in C : <<x, y>> \in R => g[x] < g[y]
        /\ \A x, y \in C : x # y => g[x] # g[y]
        /\ \A p \in 0..(n - 1) : \E e \in C : g[e] = p
  BY Ranks
<1>2. PICK g \in [C -> 0..(n - 1)] :
        /\ n = Cardinality(C)
        /\ \A x \in C : g[x] = RankIn(C, R, x)
        /\ \A x, y \in C : <<x, y>> \in R => g[x] < g[y]
        /\ \A x, y \in C : x # y => g[x] # g[y]
        /\ \A p \in 0..(n - 1) : \E e \in C : g[e] = p
  BY <1>1
<1> DEFINE f == Listing(C, R)
<1>3. \A p \in 1..n : f[p] \in C /\ g[f[p]] = p - 1
  <2> TAKE p \in 1..n
  <2>1. p - 1 \in 0..(n - 1)
    OBVIOUS
  <2>2. f[p] = CHOOSE e \in C : RankIn(C, R, e) = p - 1
    BY <1>2 DEF Listing
  <2>3. \E e \in C : RankIn(C, R, e) = p - 1
    BY <1>2, <2>1
  <2>4. f[p] \in C /\ RankIn(C, R, f[p]) = p - 1
    BY <2>2, <2>3
  <2> QED BY <1>2, <2>4
<1>4. DOMAIN f = 1..n /\ f = [p \in 1..n |-> f[p]]
  BY <1>2 DEF Listing
<1> HIDE DEF f
<1>5. f \in [1..n -> C]
  BY <1>3, <1>4
<1>6. f \in Seq(C) /\ Len(f) = n
  BY <1>5
<1>7. \A e \in C : \E p \in 1..n : f[p] = e
  <2> TAKE e \in C
  <2>1. g[e] \in 0..(n - 1)
    BY <1>2
  <2>2. g[e] + 1 \in 1..n /\ g[e] + 1 - 1 = g[e]
    BY <2>1
  <2>3. f[g[e] + 1] \in C /\ g[f[g[e] + 1]] = g[e]
    BY <1>3, <2>2
  <2> QED BY <1>2, <2>2, <2>3
<1>8. \A p, q \in 1..n : p < q => <<f[p], f[q]>> \in R
  <2> SUFFICES ASSUME NEW p \in 1..n, NEW q \in 1..n, p < q, <<f[p], f[q]>> \notin R
               PROVE  FALSE
    OBVIOUS
  <2>1. f[p] \in C /\ f[q] \in C /\ g[f[p]] = p - 1 /\ g[f[q]] = q - 1
    BY <1>3
  <2>2. p - 1 < q - 1 /\ p - 1 # q - 1
    OBVIOUS
  <2>3. f[p] # f[q]
    BY <2>1, <2>2
  <2>4. g[f[q]] < g[f[p]]
    BY <1>2, <2>1, <2>3 DEF IsStrictOrder
  <2> QED BY <2>1, <2>2, <2>4
<1> QED BY <1>2, <1>4, <1>6, <1>7, <1>8 DEF f

\* A function whose value at x depends only on its values at points of a smaller
\* size exists: otherwise take the least size up to which no function obeys G.
IsRecursion(D, S, N, size, G) ==
  /\ S # {} /\ N \in Nat /\ size \in [D -> 0..N]
  /\ G \in [D \X [D -> S] -> S]
  /\ \A x \in D : \A f, g \in [D -> S] :
       (\A y \in D : size[y] < size[x] => f[y] = g[y]) => G[<<x, f>>] = G[<<x, g>>]

LEMMA RecursiveFunction ==
  ASSUME NEW D, NEW S, NEW N, NEW size, NEW G, IsRecursion(D, S, N, size, G)
  PROVE  \E f \in [D -> S] : \A x \in D : f[x] = G[<<x, f>>]
<1> USE DEF IsRecursion
<1> DEFINE Obeys(f, k) == \A x \in D : size[x] < k => f[x] = G[<<x, f>>]
           Bad == {k \in Nat : ~\E f \in [D -> S] : Obeys(f, k)}
<1>0. 0 \notin Bad
  <2>1. PICK s \in S : TRUE
    OBVIOUS
  <2>2. [x \in D |-> s] \in [D -> S] /\ Obeys([x \in D |-> s], 0)
    BY <2>1
  <2> QED BY <2>2
<1>1. ASSUME NEW k \in Nat, NEW f \in [D -> S], Obeys(f, k)
      PROVE  \E h \in [D -> S] : Obeys(h, k + 1)
  <2> DEFINE h == [x \in D |-> G[<<x, f>>]]
  <2>1. h \in [D -> S]
    OBVIOUS
  <2>2. \A x \in D : size[x] < k => h[x] = f[x]
    BY <1>1
  <2>3. ASSUME NEW x \in D, size[x] < k + 1
        PROVE  h[x] = G[<<x, h>>]
    <3>1. h[x] = G[<<x, f>>]
      OBVIOUS
    <3>2. \A y \in D : size[y] < size[x] => f[y] = h[y]
      BY <2>2, <2>3
    <3> HIDE DEF h
    <3> QED BY <2>1, <3>1, <3>2
  <2> HIDE DEF h
  <2> QED BY <2>1, <2>3
<1>2. Bad = {}
  <2> SUFFICES ASSUME Bad # {} PROVE FALSE
    OBVIOUS
  <2>1. PICK k \in Bad : \A m \in Bad : k <= m
    <3>1. Bad \in SUBSET Nat
      OBVIOUS
    <3> HIDE DEF Bad
    <3> QED BY <3>1, LeastNat
  <2>2. k - 1 \in Nat /\ k - 1 \notin Bad
    <3>1. k \in Nat /\ k # 0
      BY <1>0, <2>1
    <3> HIDE DEF Bad
    <3> QED BY <2>1, <3>1
  <2>3. PICK f \in [D -> S] : Obeys(f, k - 1)
    BY <2>2
  <2>4. \E h \in [D -> S] : Obeys(h, k - 1 + 1)
    <3> HIDE DEF Obeys
    <3> QED BY <1>1, <2>2, <2>3
  <2>5. k - 1 + 1 = k
    BY <2>2
  <2> HIDE DEF Obeys
  <2> QED BY <2>1, <2>4, <2>5
<1>3. PICK f \in [D -> S] : Obeys(f, N + 1)
  <2>1. N + 1 \in Nat
    OBVIOUS
  <2> HIDE DEF Obeys
  <2> QED BY <1>2, <2>1
<1> QED BY <1>3

\* The same, when each value depends on the one before it.
IsStepper(n, V, b, G) == n \in Nat /\ b \in V /\ G \in [(1..n) \X V -> V]

StepsFrom(f, n, b, G) == f[0] = b /\ \A i \in 1..n : f[i] = G[<<i, f[i - 1]>>]

LEMMA StepRecursion ==
  ASSUME NEW n, NEW V, NEW b, NEW G, IsStepper(n, V, b, G)
  PROVE  \E f \in [0..n -> V] : StepsFrom(f, n, b, G)
<1> USE DEF IsStepper
<1> DEFINE D == 0..n
           size == [i \in D |-> i]
           H == [p \in D \X [D -> V] |-> IF p[1] = 0 THEN b ELSE G[<<p[1], p[2][p[1] - 1]>>]]
<1>1. ASSUME NEW i \in D, NEW f \in [D -> V], i # 0
      PROVE  i \in 1..n /\ i - 1 \in D /\ f[i - 1] \in V /\ size[i - 1] < size[i]
  <2>1. i \in 1..n /\ i - 1 \in D /\ i - 1 < i
    BY <1>1
  <2> QED BY <2>1
<1>2. H \in [D \X [D -> V] -> V]
  <2>1. ASSUME NEW i \in D, NEW f \in [D -> V]
        PROVE  (IF i = 0 THEN b ELSE G[<<i, f[i - 1]>>]) \in V
    <3> HIDE DEF D
    <3> QED BY <1>1, <2>1
  <2> HIDE DEF D
  <2> QED BY <2>1
<1>3. ASSUME NEW i \in D, NEW f \in [D -> V], NEW g \in [D -> V],
             \A y \in D : size[y] < size[i] => f[y] = g[y]
      PROVE  H[<<i, f>>] = H[<<i, g>>]
  <2>1. i # 0 => f[i - 1] = g[i - 1]
    <3> HIDE DEF D, size
    <3> QED BY <1>1, <1>3
  <2> HIDE DEF D
  <2> QED BY <2>1
<1>4. IsRecursion(D, V, n, size, H)
  <2>1. size \in [D -> 0..n]
    OBVIOUS
  <2> HIDE DEF D, size, H
  <2> QED BY <1>2, <1>3, <2>1 DEF IsRecursion
<1>5. PICK f \in [D -> V] : \A i \in D : f[i] = H[<<i, f>>]
  <2> HIDE DEF D, size, H
  <2> QED BY <1>4, RecursiveFunction
<1>6. 0 \in D /\ H[<<0, f>>] = b
  OBVIOUS
<1>7. \A i \in 1..n : i \in D /\ H[<<i, f>>] = G[<<i, f[i - 1]>>]
  <2> TAKE i \in 1..n
  <2>1. i \in D /\ i # 0
    OBVIOUS
  <2> HIDE DEF D
  <2> QED BY <2>1
<1> HIDE DEF H
<1> QED BY <1>5, <1>6, <1>7 DEF StepsFrom
=============================================================================
