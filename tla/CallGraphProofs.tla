--------------------------- MODULE CallGraphProofs ---------------------------
(***************************************************************************)
(* What the alignment of callees, the search for identical bodies, the     *)
(* arbitration of match_reference and the RAM signatures return for any    *)
(* two ROMs: an alignment in call order, lists of claims, one match per    *)
(* function of either ROM, and nothing lost that no other match disputes.  *)
(***************************************************************************)
EXTENDS CallGraph, OrderLemmas

\* Filter goes through a list from its first place to its last.
LEMMA FilterRecurrence ==
  ASSUME NEW S, NEW s \in Seq(S), NEW T
  PROVE  \E sel \in [0..Len(s) -> Seq(S)] :
           /\ Filter(s, T) = sel[Len(s)]
           /\ sel[0] = <<>>
           /\ \A i \in 1..Len(s) :
                sel[i] = IF s[i] \in T THEN Append(sel[i - 1], s[i]) ELSE sel[i - 1]
<1> DEFINE n == Len(s)
           D == 0..n
           V == Seq(S)
           Step(f, i) == IF i = 0 THEN <<>> ELSE IF s[i] \in T THEN Append(f[i - 1], s[i]) ELSE f[i - 1]
           size == [i \in D |-> i]
           G == [p \in D \X [D -> V] |-> Step(p[2], p[1])]
           sel == CHOOSE f : f = [i \in D |-> Step(f, i)]
<1>0. n \in Nat /\ \A i \in 1..n : s[i] \in S
  OBVIOUS
<1>1. \E f \in [D -> V] : \A i \in D : f[i] = G[<<i, f>>]
  <2>1. V # {} /\ size \in [D -> 0..n]
    BY <1>0
  <2>2. ASSUME NEW i \in D, NEW f \in [D -> V]
        PROVE  Step(f, i) \in V
    <3>1. CASE i = 0
      BY <3>1
    <3>2. CASE i # 0
      <4>1. i - 1 \in D /\ f[i - 1] \in V /\ s[i] \in S
        BY <1>0, <3>2
      <4> QED BY <3>2, <4>1
    <3> QED BY <3>1, <3>2
  <2>3. G \in [D \X [D -> V] -> V]
    <3> HIDE DEF V, D, Step
    <3> QED BY <2>2
  <2>4. ASSUME NEW i \in D, NEW f \in [D -> V], NEW g \in [D -> V],
               \A y \in D : size[y] < size[i] => f[y] = g[y]
        PROVE  G[<<i, f>>] = G[<<i, g>>]
    <3>1. i # 0 => f[i - 1] = g[i - 1]
      BY <1>0, <2>4
    <3>2. Step(f, i) = Step(g, i)
      BY <3>1
    <3> HIDE DEF V, D, Step
    <3> QED BY <3>2
  <2>5. \A i \in D : \A f, g \in [D -> V] :
          (\A y \in D : size[y] < size[i] => f[y] = g[y]) => G[<<i, f>>] = G[<<i, g>>]
    <3> HIDE DEF V, D, size, G
    <3> QED BY <2>4
  <2>6. n \in Nat
    BY <1>0
  <2> HIDE DEF V, D, size, G, n
  <2>7. IsRecursion(D, V, n, size, G)
    BY <2>1, <2>3, <2>5, <2>6 DEF IsRecursion
  <2> QED BY <2>7, RecursiveFunction
<1>2. sel = [i \in D |-> Step(sel, i)]
  <2>1. PICK f \in [D -> V] : \A i \in D : f[i] = G[<<i, f>>]
    BY <1>1
  <2>2. \A i \in D : G[<<i, f>>] = Step(f, i)
    <3> HIDE DEF V, D, Step
    <3> QED BY <2>1
  <2>3. f = [i \in D |-> Step(f, i)]
    <3> HIDE DEF V, D, Step, G
    <3> QED BY <2>1, <2>2
  <2> HIDE DEF D, Step
  <2> QED BY <2>3
<1>3. Filter(s, T) = sel[n]
  BY DEF Filter
<1>4. \A i \in D : sel[i] = Step(sel, i)
  <2> HIDE DEF sel, Step
  <2> QED BY <1>2
<1>5. sel[0] = <<>> /\ \A i \in 1..n : sel[i] = Step(sel, i) /\ i # 0 /\ i \in D
  <2>1. 0 \in D /\ Step(sel, 0) = <<>>
    BY <1>0
  <2>2. \A i \in 1..n : i # 0 /\ i \in D
    BY <1>0
  <2> HIDE DEF sel, D, Step
  <2> QED BY <1>4, <2>1, <2>2
<1> HIDE DEF sel
<1>6. sel \in [D -> V]
  <2>1. DOMAIN sel = D /\ sel = [i \in D |-> sel[i]]
    <3> HIDE DEF Step
    <3> QED BY <1>2
  <2> DEFINE Good == {i \in D : sel[i] \in V}
  <2>0. /\ <<>> \in V
        /\ \A q \in V, x \in S : Append(q, x) \in V
    OBVIOUS
  <2>2. 0 \in Good
    <3>1. 0 \in D
      BY <1>0
    <3> HIDE DEF V, D, Step
    <3> QED BY <1>5, <2>0, <3>1
  <2>3. ASSUME NEW i \in 0..(n - 1), i \in Good
        PROVE  i + 1 \in Good
    <3>1. i + 1 \in 1..n /\ i + 1 - 1 = i /\ i + 1 \in D /\ s[i + 1] \in S
      BY <1>0
    <3>2. sel[i + 1] = Step(sel, i + 1) /\ i + 1 # 0
      <4> HIDE DEF Step, D
      <4> QED BY <1>5, <3>1
    <3>3. sel[i + 1] = IF s[i + 1] \in T THEN Append(sel[i], s[i + 1]) ELSE sel[i]
      BY <3>1, <3>2
    <3>4. sel[i] \in V
      BY <2>3
    <3>5. sel[i + 1] \in V
      <4> HIDE DEF V, D, Step, Good
      <4> QED BY <2>0, <3>1, <3>3, <3>4
    <3> HIDE DEF V, D, Step
    <3> QED BY <3>1, <3>5
  <2>4. \A i \in 0..n : i \in Good
    <3> HIDE DEF Good
    <3> QED BY <1>0, <2>2, <2>3, SetInduction
  <2> HIDE DEF V
  <2> QED BY <2>1, <2>4
<1> QED BY <1>3, <1>5, <1>6

\* Filter returns the elements of T, each from a place of its own.
LEMMA FilterSubsequence ==
  ASSUME NEW S, NEW s \in Seq(S), NEW T
  PROVE  /\ Filter(s, T) \in Seq(S \cap T)
         /\ \E h \in [DOMAIN Filter(s, T) -> DOMAIN s] :
              /\ \A k \in DOMAIN Filter(s, T) : Filter(s, T)[k] = s[h[k]]
              /\ \A k, l \in DOMAIN Filter(s, T) : h[k] = h[l] => k = l
         /\ \A j \in DOMAIN s : s[j] \in T => \E k \in DOMAIN Filter(s, T) : Filter(s, T)[k] = s[j]
<1> DEFINE n == Len(s)
           D == 0..n
<1>0. n \in Nat /\ \A i \in 1..n : s[i] \in S
  OBVIOUS
<1>3. PICK sel \in [0..Len(s) -> Seq(S)] :
        /\ Filter(s, T) = sel[n]
        /\ sel[0] = <<>>
        /\ \A i \in 1..n : sel[i] = IF s[i] \in T THEN Append(sel[i - 1], s[i]) ELSE sel[i - 1]
  BY FilterRecurrence
<1> DEFINE From(q, i) == \E h \in [DOMAIN q -> 1..i] :
                            /\ \A k \in DOMAIN q : q[k] = s[h[k]]
                            /\ \A k, l \in DOMAIN q : h[k] = h[l] => k = l
           All(q, i) == \A j \in 1..i : s[j] \in T => \E k \in DOMAIN q : q[k] = s[j]
           Good == {i \in D : sel[i] \in Seq(S \cap T) /\ From(sel[i], i) /\ All(sel[i], i)}
<1>4. 0 \in Good
  <2>1. 0 \in D /\ sel[0] = <<>>
    BY <1>0, <1>3
  <2>2. DOMAIN <<>> = {} /\ [k \in {} |-> 1] \in [{} -> 1..0]
    OBVIOUS
  <2>3. From(<<>>, 0) /\ All(<<>>, 0) /\ <<>> \in Seq(S \cap T)
    <3>2. From(<<>>, 0)
      BY <2>2, Zenon
    <3>3. <<>> \in Seq(S \cap T)
      OBVIOUS
    <3>4. All(<<>>, 0)
      OBVIOUS
    <3> HIDE DEF From, All
    <3> QED BY <3>2, <3>3, <3>4
  <2> HIDE DEF From, All
  <2> QED BY <2>1, <2>3
<1>5. ASSUME NEW i \in 0..(n - 1), i \in Good
      PROVE  i + 1 \in Good
  <2> DEFINE q == sel[i]
             r == sel[i + 1]
  <2>1. i + 1 \in D /\ i + 1 \in 1..n /\ i + 1 - 1 = i /\ i + 1 # 0 /\ s[i + 1] \in S
    BY <1>0
  <2>2. r = IF s[i + 1] \in T THEN Append(q, s[i + 1]) ELSE q
    BY <1>3, <2>1
  <2>3. q \in Seq(S \cap T)
    BY <1>5
  <2>4. PICK h \in [DOMAIN q -> 1..i] : /\ \A k \in DOMAIN q : q[k] = s[h[k]]
                                        /\ \A k, l \in DOMAIN q : h[k] = h[l] => k = l
    BY <1>5
  <2>7. All(q, i) /\ 1..(i + 1) = 1..i \cup {i + 1}
    BY <1>0, <1>5
  <2> HIDE DEF q
  <2>5. CASE s[i + 1] \notin T
    <3>1. r = q /\ h \in [DOMAIN q -> 1..(i + 1)]
      BY <2>2, <2>5
    <3>2. From(r, i + 1)
      BY <2>4, <3>1
    <3>3. All(r, i + 1)
      BY <2>5, <2>7, <3>1
    <3> HIDE DEF From, All
    <3> QED BY <2>1, <2>3, <3>1, <3>2, <3>3
  <2>6. CASE s[i + 1] \in T
    <3>1. r = Append(q, s[i + 1])
      BY <2>2, <2>6
    <3>2. /\ r \in Seq(S \cap T) /\ Len(q) \in Nat
          /\ DOMAIN q = 1..Len(q) /\ DOMAIN r = 1..(Len(q) + 1)
          /\ \A k \in DOMAIN q : r[k] = q[k]
          /\ r[Len(q) + 1] = s[i + 1]
      BY <2>1, <2>3, <2>6, <3>1
    <3> DEFINE g == [k \in DOMAIN r |-> IF k \in DOMAIN q THEN h[k] ELSE i + 1]
    <3>3. g \in [DOMAIN r -> 1..(i + 1)]
      BY <2>1
    <3>4. \A k \in DOMAIN r : r[k] = s[g[k]]
      BY <2>4, <3>2
    <3>5. \A k, l \in DOMAIN r : g[k] = g[l] => k = l
      <4>1. \A k \in DOMAIN q : h[k] # i + 1
        BY <2>1
      <4> QED BY <2>4, <3>2, <4>1
    <3> HIDE DEF g
    <3>6. From(r, i + 1)
      BY <3>3, <3>4, <3>5
    <3>7. All(r, i + 1)
      <4>1. \A k \in DOMAIN q : k \in DOMAIN r
        BY <3>2
      <4>2. Len(q) + 1 \in DOMAIN r
        BY <3>2
      <4> QED BY <2>7, <3>2, <4>1, <4>2
    <3> HIDE DEF From, All
    <3> QED BY <2>1, <3>2, <3>6, <3>7
  <2> QED BY <2>5, <2>6
<1>6. n \in Good
  <2>1. n \in 0..n
    BY <1>0
  <2> HIDE DEF Good
  <2> QED BY <1>0, <1>4, <1>5, <2>1, SetInduction
<1>7. DOMAIN s = 1..n
  OBVIOUS
<1> HIDE DEF n
<1>8. Filter(s, T) \in Seq(S \cap T) /\ From(Filter(s, T), n) /\ All(Filter(s, T), n)
  <2> HIDE DEF From, All, D
  <2> QED BY <1>3, <1>6
<1>9. \E h \in [DOMAIN Filter(s, T) -> DOMAIN s] :
        /\ \A k \in DOMAIN Filter(s, T) : Filter(s, T)[k] = s[h[k]]
        /\ \A k, l \in DOMAIN Filter(s, T) : h[k] = h[l] => k = l
  BY <1>7, <1>8, Zenon
<1>10. \A j \in DOMAIN s : s[j] \in T => \E k \in DOMAIN Filter(s, T) : Filter(s, T)[k] = s[j]
  BY <1>7, <1>8, Zenon
<1> QED BY <1>8, <1>9, <1>10, Zenon

-----------------------------------------------------------------------------
\* sorted(S) lists the elements of S.
LEMMA SortedList ==
  ASSUME NEW S \in SUBSET Int, IsFiniteSet(S)
  PROVE  /\ Sorted(S) \in Seq(S) /\ Len(Sorted(S)) = Cardinality(S)
         /\ \A e \in S : \E p \in DOMAIN Sorted(S) : Sorted(S)[p] = e
         /\ \A p, q \in DOMAIN Sorted(S) : p < q => Sorted(S)[p] < Sorted(S)[q]
<1> DEFINE R == {x \in S \X S : x[1] < x[2]}
           f == Listing(S, R)
<1>1. IsStrictOrder(R, S)
  BY DEF IsStrictOrder
<1>2. \A e \in S : {d \in S : d < e} = Under(S, R, e)
  BY DEF Under
<1>3. Sorted(S) = f
  <2> DEFINE r(e) == Cardinality({d \in S : d < e})
  <2>1. Sorted(S) = [p \in 1..Cardinality(S) |-> CHOOSE e \in S : r(e) = p - 1]
    BY DEF Sorted
  <2>2. \A e \in S : r(e) = RankIn(S, R, e)
    BY <1>2 DEF RankIn
  <2> HIDE DEF r, R
  <2> QED BY <2>1, <2>2 DEF Listing
<1>4. /\ f \in Seq(S) /\ Len(f) = Cardinality(S)
      /\ \A e \in S : \E p \in DOMAIN f : f[p] = e
      /\ \A p, q \in DOMAIN f : p < q => <<f[p], f[q]>> \in R
  <2> HIDE DEF R
  <2> QED BY <1>1, Enumeration
<1>5. \A p, q \in DOMAIN f : p < q => f[p] < f[q]
  <2> HIDE DEF f
  <2> QED BY <1>4
<1> HIDE DEF f
<1> QED BY <1>3, <1>4, <1>5

\* The recurrence of _lcs_align.
LcsEntries(dp, rc, nc, ok) ==
  \A i \in 0..Len(rc), j \in 0..Len(nc) :
    /\ dp[<<i, j>>] \in Nat
    /\ i = 0 \/ j = 0 => dp[<<i, j>>] = 0
    /\ i # 0 /\ j # 0 =>
         dp[<<i, j>>] = IF <<rc[i], nc[j]>> \in ok THEN dp[<<i - 1, j - 1>>] + 1
                        ELSE IF dp[<<i - 1, j>>] >= dp[<<i, j - 1>>]
                             THEN dp[<<i - 1, j>>] ELSE dp[<<i, j - 1>>]

\* Its table obeys it.
LEMMA LcsTableEntries ==
  ASSUME NEW A, NEW rc \in Seq(A), NEW nc \in Seq(A), NEW ok
  PROVE  LcsEntries(LcsTable(rc, nc, ok), rc, nc, ok)
<1> DEFINE m == Len(rc)
           n == Len(nc)
           D == (0..m) \X (0..n)
           Step(f, c) ==
             IF c[1] = 0 \/ c[2] = 0 THEN 0
             ELSE IF <<rc[c[1]], nc[c[2]]>> \in ok THEN f[<<c[1] - 1, c[2] - 1>>] + 1
             ELSE IF f[<<c[1] - 1, c[2]>>] >= f[<<c[1], c[2] - 1>>]
                  THEN f[<<c[1] - 1, c[2]>>] ELSE f[<<c[1], c[2] - 1>>]
           size == [c \in D |-> c[1] + c[2]]
           G == [p \in D \X [D -> Nat] |-> Step(p[2], p[1])]
           dp == CHOOSE f : f = [c \in D |-> Step(f, c)]
<1>0. m \in Nat /\ n \in Nat
  OBVIOUS
<1>1. ASSUME NEW c \in D
      PROVE  /\ c[1] \in 0..m /\ c[2] \in 0..n /\ c = <<c[1], c[2]>>
             /\ c[1] # 0 => <<c[1] - 1, c[2]>> \in D
             /\ c[2] # 0 => <<c[1], c[2] - 1>> \in D
             /\ c[1] # 0 /\ c[2] # 0 => <<c[1] - 1, c[2] - 1>> \in D
  BY <1>0
<1> HIDE DEF m, n
<1>2. ASSUME NEW c \in D, NEW f \in [D -> Nat]
      PROVE  Step(f, c) \in Nat
  <2>1. CASE c[1] = 0 \/ c[2] = 0
    BY <2>1
  <2>2. CASE c[1] # 0 /\ c[2] # 0
    <3>1. /\ f[<<c[1] - 1, c[2] - 1>>] \in Nat /\ f[<<c[1] - 1, c[2]>>] \in Nat
          /\ f[<<c[1], c[2] - 1>>] \in Nat
      <4> HIDE DEF D
      <4> QED BY <1>1, <2>2
    <3> HIDE DEF D
    <3> QED BY <2>2, <3>1
  <2> QED BY <2>1, <2>2
<1>3. IsRecursion(D, Nat, m + n, size, G)
  <2>1. Nat # {}
    OBVIOUS
  <2>6. m + n \in Nat
    BY <1>0
  <2>2. size \in [D -> 0..(m + n)]
    BY <1>0
  <2>3. G \in [D \X [D -> Nat] -> Nat]
    <3> HIDE DEF D, Step
    <3> QED BY <1>2
  <2>4. ASSUME NEW c \in D, NEW f \in [D -> Nat], NEW g \in [D -> Nat],
               \A y \in D : size[y] < size[c] => f[y] = g[y]
        PROVE  G[<<c, f>>] = G[<<c, g>>]
    <3>0. /\ c[1] \in Nat /\ c[2] \in Nat
          /\ \A a, b \in Nat : <<a, b>> \in D => size[<<a, b>>] = a + b
          /\ size[c] = c[1] + c[2]
      BY <1>0
    <3>1. /\ c[1] # 0 => f[<<c[1] - 1, c[2]>>] = g[<<c[1] - 1, c[2]>>]
          /\ c[2] # 0 => f[<<c[1], c[2] - 1>>] = g[<<c[1], c[2] - 1>>]
          /\ c[1] # 0 /\ c[2] # 0 => f[<<c[1] - 1, c[2] - 1>>] = g[<<c[1] - 1, c[2] - 1>>]
      <4> DEFINE nw == <<c[1] - 1, c[2] - 1>>
                 no == <<c[1] - 1, c[2]>>
                 we == <<c[1], c[2] - 1>>
      <4>1. /\ c[1] # 0 => no \in D
            /\ c[2] # 0 => we \in D
            /\ c[1] # 0 /\ c[2] # 0 => nw \in D
        <5> HIDE DEF D, size
        <5> QED BY <1>1
      <4>4. /\ no \in D => size[no] < size[c]
            /\ we \in D => size[we] < size[c]
            /\ nw \in D => size[nw] < size[c]
        <5>1. /\ no \in D => size[no] = c[1] - 1 + c[2]
              /\ we \in D => size[we] = c[1] + (c[2] - 1)
              /\ nw \in D => size[nw] = c[1] - 1 + (c[2] - 1)
          OBVIOUS
        <5> HIDE DEF D, size, no, we, nw
        <5> QED BY <3>0, <5>1
      <4> HIDE DEF D, size, nw, no, we
      <4>2. (c[1] # 0 => f[no] = g[no]) /\ (c[2] # 0 => f[we] = g[we])
        BY <2>4, <4>1, <4>4
      <4>3. c[1] # 0 /\ c[2] # 0 => f[nw] = g[nw]
        BY <2>4, <4>1, <4>4
      <4> QED BY <4>2, <4>3 DEF nw, no, we
    <3>2. Step(f, c) = Step(g, c)
      <4> HIDE DEF D
      <4> QED BY <3>1
    <3> HIDE DEF D, Step
    <3> QED BY <3>2
  <2>5. \A c \in D : \A f, g \in [D -> Nat] :
          (\A y \in D : size[y] < size[c] => f[y] = g[y]) => G[<<c, f>>] = G[<<c, g>>]
    <3> HIDE DEF D, size, G
    <3> QED BY <2>4
  <2> HIDE DEF D, size, G
  <2> QED BY <2>1, <2>2, <2>3, <2>5, <2>6 DEF IsRecursion
<1>4. dp = [c \in D |-> Step(dp, c)]
  <2>1. PICK f \in [D -> Nat] : \A c \in D : f[c] = G[<<c, f>>]
    <3> HIDE DEF D, size, G
    <3> QED BY <1>3, RecursiveFunction
  <2>2. \A c \in D : G[<<c, f>>] = Step(f, c)
    <3> HIDE DEF D, Step
    <3> QED BY <2>1
  <2>3. f = [c \in D |-> Step(f, c)]
    <3> HIDE DEF D, Step, G
    <3> QED BY <2>1, <2>2
  <2> HIDE DEF D, Step
  <2> QED BY <2>3
<1>5. LcsTable(rc, nc, ok) = dp
  BY DEF LcsTable, m, n
<1> HIDE DEF dp
<1>6. \A c \in D : dp[c] = Step(dp, c)
  <2> HIDE DEF D, Step
  <2> QED BY <1>4
<1> DEFINE K == {k \in 0..(m + n) : \A c \in D : c[1] + c[2] <= k => dp[c] \in Nat}
<1>7. \A k \in 0..(m + n) : k \in K
  <2>0. m + n \in Nat /\ \A c \in D : c[1] \in Nat /\ c[2] \in Nat
    BY <1>0
  <2>1. 0 \in K
    <3> SUFFICES ASSUME NEW c \in D, c[1] + c[2] <= 0 PROVE dp[c] \in Nat
      BY <2>0
    <3>1. c[1] = 0
      BY <2>0
    <3>2. dp[c] = Step(dp, c)
      BY <1>6
    <3> HIDE DEF D
    <3> QED BY <3>1, <3>2
  <2>2. ASSUME NEW k \in 0..(m + n - 1), k \in K
        PROVE  k + 1 \in K
    <3>0. k + 1 \in 0..(m + n)
      <4> HIDE DEF D, K
      <4> QED BY <1>0
    <3> SUFFICES ASSUME NEW c \in D, c[1] + c[2] <= k + 1 PROVE dp[c] \in Nat
      <4> HIDE DEF D
      <4> QED BY <3>0
    <3>1. dp[c] = Step(dp, c) /\ c[1] \in Nat /\ c[2] \in Nat
      BY <1>6, <2>0
    <3>2. CASE c[1] = 0 \/ c[2] = 0
      BY <3>1, <3>2
    <3>3. CASE c[1] # 0 /\ c[2] # 0
      <4>1. \A b \in D : b[1] + b[2] < c[1] + c[2] => dp[b] \in Nat
        BY <2>0, <2>2
      <4>2. /\ dp[<<c[1] - 1, c[2] - 1>>] \in Nat /\ dp[<<c[1] - 1, c[2]>>] \in Nat
            /\ dp[<<c[1], c[2] - 1>>] \in Nat
        <5>1. /\ <<c[1] - 1, c[2] - 1>> \in D /\ <<c[1] - 1, c[2]>> \in D
              /\ <<c[1], c[2] - 1>> \in D
          BY <1>1, <3>3
        <5> DEFINE Less(b) == b[1] + b[2] < c[1] + c[2]
        <5>2. /\ Less(<<c[1] - 1, c[2] - 1>>) /\ Less(<<c[1] - 1, c[2]>>)
              /\ Less(<<c[1], c[2] - 1>>)
          BY <3>1
        <5>3. \A b \in D : Less(b) => dp[b] \in Nat
          BY <4>1
        <5> HIDE DEF D, Less
        <5> QED BY <5>1, <5>2, <5>3
      <4> HIDE DEF D
      <4> QED BY <3>1, <3>3, <4>2
    <3> QED BY <3>2, <3>3
  <2> DEFINE N == m + n
  <2>3. N \in Nat /\ \A k \in 0..(N - 1) : k \in K => k + 1 \in K
    <3>1. N \in Nat
      BY <1>0
    <3>2. N - 1 = m + n - 1
      BY <1>0
    <3> HIDE DEF K, D
    <3> QED BY <2>2, <3>1, <3>2
  <2> HIDE DEF K, N
  <2>4. \A k \in 0..N : k \in K
    BY <2>1, <2>3, SetInduction
  <2> QED BY <2>4 DEF N
<1>8. \A c \in D : dp[c] \in Nat
  <2>1. m + n \in K /\ \A c \in D : c[1] + c[2] <= m + n
    <3> HIDE DEF K
    <3> QED BY <1>0, <1>7
  <2> HIDE DEF D
  <2> QED BY <2>1
<1>9. ASSUME NEW i \in 0..m, NEW j \in 0..n
      PROVE  /\ dp[<<i, j>>] \in Nat
             /\ i = 0 \/ j = 0 => dp[<<i, j>>] = 0
             /\ i # 0 /\ j # 0 =>
                  dp[<<i, j>>] = IF <<rc[i], nc[j]>> \in ok THEN dp[<<i - 1, j - 1>>] + 1
                                 ELSE IF dp[<<i - 1, j>>] >= dp[<<i, j - 1>>]
                                      THEN dp[<<i - 1, j>>] ELSE dp[<<i, j - 1>>]
  <2> DEFINE c == <<i, j>>
  <2>1. c \in D /\ c[1] = i /\ c[2] = j
    OBVIOUS
  <2>2. dp[c] \in Nat /\ dp[c] = Step(dp, c)
    <3> HIDE DEF D, Step, c
    <3> QED BY <1>6, <1>8, <2>1
  <2>3. dp[c] = IF i = 0 \/ j = 0 THEN 0
                ELSE IF <<rc[i], nc[j]>> \in ok THEN dp[<<i - 1, j - 1>>] + 1
                ELSE IF dp[<<i - 1, j>>] >= dp[<<i, j - 1>>]
                     THEN dp[<<i - 1, j>>] ELSE dp[<<i, j - 1>>]
    <3> HIDE DEF c
    <3> QED BY <2>1, <2>2
  <2> QED BY <2>2, <2>3
<1> HIDE DEF D
<1> QED BY <1>5, <1>9 DEF m, n, LcsEntries

\* a pairs callees of rc with callees of nc, in call order on both sides.
InCallOrder(a, rc, nc) ==
  \E g \in [DOMAIN a -> 1..Len(rc)], h \in [DOMAIN a -> 1..Len(nc)] :
    /\ \A k \in DOMAIN a : a[k] = <<rc[g[k]], nc[h[k]]>>
    /\ \A k, l \in DOMAIN a : k < l => g[k] < g[l] /\ h[k] < h[l]

\* It pairs compatible callees only, and as many as the table's last entry says.
IsAlignment(a, A, rc, nc, ok) ==
  /\ a \in Seq(A \X A)
  /\ InCallOrder(a, rc, nc)
  /\ \A k \in DOMAIN a : a[k] \in ok
  /\ Len(a) = LcsTable(rc, nc, ok)[<<Len(rc), Len(nc)>>]

\* An alignment pairs compatible callees in call order on both sides, hence none
\* twice, and as many as the table's last entry says, whatever pairs are compatible
\* and whichever way the table leads back (_lcs_align).
THEOREM AlignmentInOrder ==
  ASSUME NEW A, NEW rc \in Seq(A), NEW nc \in Seq(A), NEW ok
  PROVE  IsAlignment(LcsAlign(rc, nc, ok), A, rc, nc, ok)
<1> DEFINE m == Len(rc)
           n == Len(nc)
           D == (0..m) \X (0..n)
           V == Seq(A \X A)
           dp == LcsTable(rc, nc, ok)
           Step(f, c) ==
             IF c[1] = 0 \/ c[2] = 0 THEN <<>>
             ELSE IF <<rc[c[1]], nc[c[2]]>> \in ok
                  THEN Append(f[<<c[1] - 1, c[2] - 1>>], <<rc[c[1]], nc[c[2]]>>)
             ELSE IF dp[<<c[1] - 1, c[2]>>] >= dp[<<c[1], c[2] - 1>>]
                  THEN f[<<c[1] - 1, c[2]>>] ELSE f[<<c[1], c[2] - 1>>]
           size == [c \in D |-> c[1] + c[2]]
           G == [p \in D \X [D -> V] |-> Step(p[2], p[1])]
           back == CHOOSE f : f = [c \in D |-> Step(f, c)]
<1>0. /\ m \in Nat /\ n \in Nat
      /\ \A i \in 1..m : rc[i] \in A
      /\ \A j \in 1..n : nc[j] \in A
  OBVIOUS
<1>1. ASSUME NEW c \in D
      PROVE  /\ c[1] \in 0..m /\ c[2] \in 0..n /\ c = <<c[1], c[2]>>
             /\ c[1] # 0 => <<c[1] - 1, c[2]>> \in D
             /\ c[2] # 0 => <<c[1], c[2] - 1>> \in D
             /\ c[1] # 0 /\ c[2] # 0 => /\ <<c[1] - 1, c[2] - 1>> \in D
                                        /\ rc[c[1]] \in A /\ nc[c[2]] \in A
  BY <1>0
<1> HIDE DEF dp
<1>13. LcsEntries(dp, rc, nc, ok)
  BY LcsTableEntries DEF dp
<1>2. ASSUME NEW c \in D, NEW f \in [D -> V]
      PROVE  Step(f, c) \in V
  <2>1. CASE c[1] = 0 \/ c[2] = 0
    BY <2>1
  <2>2. CASE c[1] # 0 /\ c[2] # 0
    <3>1. /\ f[<<c[1] - 1, c[2] - 1>>] \in V /\ f[<<c[1] - 1, c[2]>>] \in V
          /\ f[<<c[1], c[2] - 1>>] \in V /\ <<rc[c[1]], nc[c[2]]>> \in A \X A
      <4> HIDE DEF V, D
      <4> QED BY <1>1, <2>2
    <3>2. Append(f[<<c[1] - 1, c[2] - 1>>], <<rc[c[1]], nc[c[2]]>>) \in V
      BY <3>1
    <3> HIDE DEF V
    <3> QED BY <2>2, <3>1, <3>2
  <2> QED BY <2>1, <2>2
<1>3. IsRecursion(D, V, m + n, size, G)
  <2>1. V # {} /\ m + n \in Nat
    <3>1. <<>> \in V
      OBVIOUS
    <3> HIDE DEF V
    <3> QED BY <1>0, <3>1
  <2>2. size \in [D -> 0..(m + n)]
    BY <1>0
  <2>3. G \in [D \X [D -> V] -> V]
    <3> HIDE DEF V, D, Step
    <3> QED BY <1>2
  <2>4. ASSUME NEW c \in D, NEW f \in [D -> V], NEW g \in [D -> V],
               \A y \in D : size[y] < size[c] => f[y] = g[y]
        PROVE  G[<<c, f>>] = G[<<c, g>>]
    <3>0. /\ c[1] \in Nat /\ c[2] \in Nat
          /\ \A a, b \in Nat : <<a, b>> \in D => size[<<a, b>>] = a + b
          /\ size[c] = c[1] + c[2]
      BY <1>0
    <3>1. /\ c[1] # 0 => f[<<c[1] - 1, c[2]>>] = g[<<c[1] - 1, c[2]>>]
          /\ c[2] # 0 => f[<<c[1], c[2] - 1>>] = g[<<c[1], c[2] - 1>>]
          /\ c[1] # 0 /\ c[2] # 0 => f[<<c[1] - 1, c[2] - 1>>] = g[<<c[1] - 1, c[2] - 1>>]
      <4> HIDE DEF D, V, size, G, Step
      <4> QED BY <1>1, <2>4, <3>0
    <3>2. Step(f, c) = Step(g, c)
      <4> HIDE DEF D, V
      <4> QED BY <3>1
    <3> HIDE DEF V, D, Step
    <3> QED BY <3>2
  <2>5. \A c \in D : \A f, g \in [D -> V] :
          (\A y \in D : size[y] < size[c] => f[y] = g[y]) => G[<<c, f>>] = G[<<c, g>>]
    <3> HIDE DEF V, D, size, G
    <3> QED BY <2>4
  <2> HIDE DEF V, D, size, G, m, n
  <2> QED BY <2>1, <2>2, <2>3, <2>5 DEF IsRecursion
<1>4. back = [c \in D |-> Step(back, c)]
  <2>1. PICK f \in [D -> V] : \A c \in D : f[c] = G[<<c, f>>]
    <3> HIDE DEF V, D, size, G, m, n
    <3> QED BY <1>3, RecursiveFunction
  <2>2. \A c \in D : G[<<c, f>>] = Step(f, c)
    <3> HIDE DEF V, D, Step
    <3> QED BY <2>1
  <2>3. f = [c \in D |-> Step(f, c)]
    <3> HIDE DEF V, D, Step, G
    <3> QED BY <2>1, <2>2
  <2> HIDE DEF D, Step
  <2> QED BY <2>3
<1>5. LcsAlign(rc, nc, ok) = back[<<m, n>>]
  BY DEF LcsAlign, dp
<1> DEFINE InOrder(q, i, j) ==
             \E g \in [DOMAIN q -> 1..i], h \in [DOMAIN q -> 1..j] :
               /\ \A k \in DOMAIN q : q[k] = <<rc[g[k]], nc[h[k]]>>
               /\ \A k, l \in DOMAIN q : k < l => g[k] < g[l] /\ h[k] < h[l]
           Fits(q, c) == (\A k \in DOMAIN q : q[k] \in ok) /\ Len(q) = dp[c]
           Good(c) == back[c] \in V /\ InOrder(back[c], c[1], c[2]) /\ Fits(back[c], c)
           K == {k \in 0..(m + n) : \A c \in D : c[1] + c[2] <= k => Good(c)}
<1> HIDE DEF back
<1>6. ASSUME NEW c \in D, c[1] = 0 \/ c[2] = 0
      PROVE  Good(c)
  <2>1. back[c] = <<>>
    <3>1. back[c] = Step(back, c)
      <4> HIDE DEF D, Step
      <4> QED BY <1>4
    <3> QED BY <1>6, <3>1
  <2>2. DOMAIN <<>> = {} /\ \A i : [k \in {} |-> 1] \in [{} -> 1..i]
    OBVIOUS
  <2>3. \A i, j : InOrder(<<>>, i, j)
    BY <2>2, Zenon
  <2>4. <<>> \in V
    OBVIOUS
  <2>5. Fits(<<>>, c)
    <3>1. /\ dp[<<c[1], c[2]>>] = 0 /\ c = <<c[1], c[2]>>
      <4> HIDE DEF D
      <4> QED BY <1>1, <1>6, <1>13 DEF LcsEntries
    <3> QED BY <3>1
  <2> HIDE DEF InOrder, V, Fits
  <2> QED BY <2>1, <2>3, <2>4, <2>5
<1>7. ASSUME NEW q, NEW i \in Nat, NEW j \in Nat, NEW i2 \in Nat, NEW j2 \in Nat,
             i2 <= i, j2 <= j, InOrder(q, i2, j2)
      PROVE  InOrder(q, i, j)
  <2>1. PICK g \in [DOMAIN q -> 1..i2], h \in [DOMAIN q -> 1..j2] :
               /\ \A k \in DOMAIN q : q[k] = <<rc[g[k]], nc[h[k]]>>
               /\ \A k, l \in DOMAIN q : k < l => g[k] < g[l] /\ h[k] < h[l]
    BY <1>7
  <2>2. g \in [DOMAIN q -> 1..i] /\ h \in [DOMAIN q -> 1..j]
    BY <1>7
  <2> QED BY <2>1, <2>2
<1>8. ASSUME NEW c \in D, c[1] # 0, c[2] # 0, Good(<<c[1] - 1, c[2] - 1>>),
             back[c] = Append(back[<<c[1] - 1, c[2] - 1>>], <<rc[c[1]], nc[c[2]]>>),
             <<rc[c[1]], nc[c[2]]>> \in ok, dp[c] = dp[<<c[1] - 1, c[2] - 1>>] + 1
      PROVE  Good(c)
  <2> DEFINE q == back[<<c[1] - 1, c[2] - 1>>]
             r == back[c]
             i == c[1]
             j == c[2]
  <2>0. i \in 1..m /\ j \in 1..n /\ rc[i] \in A /\ nc[j] \in A
    BY <1>0, <1>8
  <2>1. q \in V
    BY <1>8
  <2>2. PICK g \in [DOMAIN q -> 1..(i - 1)], h \in [DOMAIN q -> 1..(j - 1)] :
               /\ \A k \in DOMAIN q : q[k] = <<rc[g[k]], nc[h[k]]>>
               /\ \A k, l \in DOMAIN q : k < l => g[k] < g[l] /\ h[k] < h[l]
    BY <1>8
  <2>3. r = Append(q, <<rc[i], nc[j]>>)
    BY <1>8
  <2>9. /\ \A k \in DOMAIN q : q[k] \in ok
        /\ dp[c] = Len(q) + 1 /\ <<rc[i], nc[j]>> \in ok
    BY <1>8
  <2> HIDE DEF q, r, i, j
  <2>4. /\ r \in V /\ Len(q) \in Nat
        /\ DOMAIN q = 1..Len(q) /\ DOMAIN r = 1..(Len(q) + 1)
        /\ \A k \in DOMAIN q : r[k] = q[k]
        /\ r[Len(q) + 1] = <<rc[i], nc[j]>>
    BY <2>0, <2>1, <2>3
  <2> DEFINE g2 == [k \in DOMAIN r |-> IF k \in DOMAIN q THEN g[k] ELSE i]
             h2 == [k \in DOMAIN r |-> IF k \in DOMAIN q THEN h[k] ELSE j]
  <2>5. g2 \in [DOMAIN r -> 1..i] /\ h2 \in [DOMAIN r -> 1..j]
    BY <2>0
  <2>6. \A k \in DOMAIN r : r[k] = <<rc[g2[k]], nc[h2[k]]>>
    BY <2>2, <2>4
  <2>7. \A k, l \in DOMAIN r : k < l => g2[k] < g2[l] /\ h2[k] < h2[l]
    <3> SUFFICES ASSUME NEW k \in DOMAIN r, NEW l \in DOMAIN r, k < l
                 PROVE  g2[k] < g2[l] /\ h2[k] < h2[l]
      OBVIOUS
    <3>1. k \in DOMAIN q
      BY <2>4
    <3>2. CASE l \in DOMAIN q
      BY <2>2, <3>1, <3>2
    <3>3. CASE l \notin DOMAIN q
      <4>1. g[k] \in 1..(i - 1) /\ h[k] \in 1..(j - 1)
        BY <3>1
      <4> QED BY <2>0, <3>1, <3>3, <4>1
    <3> QED BY <3>2, <3>3
  <2> HIDE DEF g2, h2
  <2>8. InOrder(r, i, j)
    BY <2>5, <2>6, <2>7
  <2>10. Fits(r, c)
    <3>1. Len(r) = Len(q) + 1
      BY <2>3, <2>1, <2>0
    <3>2. \A k \in DOMAIN r : k \in DOMAIN q \/ k = Len(q) + 1
      BY <2>4
    <3> QED BY <2>4, <2>9, <3>1, <3>2
  <2> HIDE DEF InOrder, V, Fits
  <2> QED BY <2>4, <2>8, <2>10 DEF r, i, j
<1>9. ASSUME NEW c \in D, c[1] # 0, c[2] # 0, \A b \in D : b[1] + b[2] < c[1] + c[2] => Good(b)
      PROVE  Good(c)
  <2> DEFINE nw == <<c[1] - 1, c[2] - 1>>
             no == <<c[1] - 1, c[2]>>
             we == <<c[1], c[2] - 1>>
  <2>1. nw \in D /\ no \in D /\ we \in D /\ c[1] \in Nat /\ c[2] \in Nat
    <3> HIDE DEF D
    <3>1. nw \in D /\ no \in D /\ we \in D /\ c[1] \in 0..m /\ c[2] \in 0..n
      BY <1>1, <1>9
    <3> QED BY <3>1, <1>0
  <2>2. Good(nw) /\ Good(no) /\ Good(we)
    <3>1. /\ nw[1] = c[1] - 1 /\ nw[2] = c[2] - 1 /\ no[1] = c[1] - 1
          /\ no[2] = c[2] /\ we[1] = c[1] /\ we[2] = c[2] - 1
      OBVIOUS
    <3> HIDE DEF D, Good, nw, no, we
    <3> QED BY <1>9, <2>1, <3>1
  <2>3. back[c] = Step(back, c)
    <3> HIDE DEF D, Step
    <3> QED BY <1>4
  <2>8. dp[c] = IF <<rc[c[1]], nc[c[2]]>> \in ok THEN dp[nw] + 1
                ELSE IF dp[no] >= dp[we] THEN dp[no] ELSE dp[we]
    <3>1. /\ c[1] \in 0..m /\ c[2] \in 0..n /\ c = <<c[1], c[2]>>
      BY <1>1
    <3> HIDE DEF D
    <3> QED BY <3>1, <1>9, <1>13 DEF LcsEntries
  <2>4. \/ /\ back[c] = Append(back[nw], <<rc[c[1]], nc[c[2]]>>)
           /\ dp[c] = dp[nw] + 1 /\ <<rc[c[1]], nc[c[2]]>> \in ok
        \/ back[c] = back[no] /\ dp[c] = dp[no]
        \/ back[c] = back[we] /\ dp[c] = dp[we]
    BY <1>9, <2>3, <2>8
  <2>5. CASE /\ back[c] = Append(back[nw], <<rc[c[1]], nc[c[2]]>>)
             /\ dp[c] = dp[nw] + 1 /\ <<rc[c[1]], nc[c[2]]>> \in ok
    <3> HIDE DEF Good, D
    <3> QED BY <1>8, <1>9, <2>2, <2>5
  <2>6. CASE back[c] = back[no] /\ dp[c] = dp[no]
    <3>1. back[no] \in V /\ InOrder(back[no], c[1] - 1, c[2]) /\ Fits(back[no], no)
      <4>1. no[1] = c[1] - 1 /\ no[2] = c[2]
        OBVIOUS
      <4> HIDE DEF InOrder, V, no, Fits
      <4> QED BY <2>2, <4>1
    <3>2. InOrder(back[c], c[1], c[2])
      <4>1. c[1] - 1 \in Nat /\ c[1] - 1 <= c[1] /\ c[2] <= c[2]
        BY <1>9, <2>1
      <4> HIDE DEF InOrder
      <4> QED BY <1>7, <2>1, <2>6, <3>1, <4>1
    <3>3. Fits(back[c], c)
      BY <2>6, <3>1
    <3> HIDE DEF InOrder, V, Fits
    <3> QED BY <2>6, <3>1, <3>2, <3>3
  <2>7. CASE back[c] = back[we] /\ dp[c] = dp[we]
    <3>1. back[we] \in V /\ InOrder(back[we], c[1], c[2] - 1) /\ Fits(back[we], we)
      <4>1. we[1] = c[1] /\ we[2] = c[2] - 1
        OBVIOUS
      <4> HIDE DEF InOrder, V, we, Fits
      <4> QED BY <2>2, <4>1
    <3>2. InOrder(back[c], c[1], c[2])
      <4>1. c[2] - 1 \in Nat /\ c[2] - 1 <= c[2] /\ c[1] <= c[1]
        BY <1>9, <2>1
      <4> HIDE DEF InOrder
      <4> QED BY <1>7, <2>1, <2>7, <3>1, <4>1
    <3>3. Fits(back[c], c)
      BY <2>7, <3>1
    <3> HIDE DEF InOrder, V, Fits
    <3> QED BY <2>7, <3>1, <3>2, <3>3
  <2> QED BY <2>4, <2>5, <2>6, <2>7
<1>10. \A k \in 0..(m + n) : k \in K
  <2>0. m + n \in Nat /\ \A c \in D : c[1] \in Nat /\ c[2] \in Nat
    BY <1>0
  <2> HIDE DEF Good, D
  <2>1. 0 \in K
    <3>1. \A c \in D : c[1] + c[2] <= 0 => c[1] = 0
      BY <2>0
    <3> QED BY <1>6, <2>0, <3>1
  <2>2. ASSUME NEW k \in 0..(m + n - 1), k \in K
        PROVE  k + 1 \in K
    <3> SUFFICES ASSUME NEW c \in D, c[1] + c[2] <= k + 1 PROVE Good(c)
      BY <2>0
    <3>1. \A b \in D : b[1] + b[2] < c[1] + c[2] => Good(b)
      BY <2>0, <2>2
    <3> QED BY <1>6, <1>9, <3>1
  <2> DEFINE N == m + n
  <2>3. N \in Nat /\ \A k \in 0..(N - 1) : k \in K => k + 1 \in K
    BY <2>0, <2>2
  <2> HIDE DEF K, N
  <2>4. \A k \in 0..N : k \in K
    BY <2>1, <2>3, SetInduction
  <2> QED BY <2>4 DEF N
<1>11. Good(<<m, n>>)
  <2>1. <<m, n>> \in D /\ m + n \in K
    <3> HIDE DEF K
    <3> QED BY <1>0, <1>10
  <2>2. <<m, n>>[1] + <<m, n>>[2] <= m + n
    BY <1>0
  <2> HIDE DEF Good, D
  <2> QED BY <2>1, <2>2
<1> DEFINE a == LcsAlign(rc, nc, ok)
<1>12. a \in V /\ InOrder(a, m, n) /\ Fits(a, <<m, n>>)
  <2>1. <<m, n>>[1] = m /\ <<m, n>>[2] = n
    OBVIOUS
  <2> HIDE DEF InOrder, V, Fits
  <2> QED BY <1>5, <1>11, <2>1
<1> HIDE DEF a
<1> QED BY <1>12 DEF a, InCallOrder, IsAlignment, dp

-----------------------------------------------------------------------------
\* The alignments of the first i callees with the first j.
PrefixAlignments(rc, nc, ok, i, j) ==
  {T \in SUBSET {p \in (1..i) \X (1..j) : <<rc[p[1]], nc[p[2]]>> \in ok} :
     \A p, q \in T : p # q => (p[1] < q[1] /\ p[2] < q[2]) \/ (q[1] < p[1] /\ q[2] < p[2])}

\* They are finite, and without the pairs of the last callees they are shorter ones.
LEMMA PrefixFinite ==
  ASSUME NEW rc, NEW nc, NEW ok, NEW i \in Nat, NEW j \in Nat,
         NEW T \in PrefixAlignments(rc, nc, ok, i, j)
  PROVE  IsFiniteSet(T) /\ Cardinality(T) \in Nat
<1>1. IsFiniteSet(1..i) /\ IsFiniteSet(1..j)
  BY FS_Interval
<1>2. IsFiniteSet((1..i) \X (1..j))
  BY <1>1, FS_Product
<1>3. T \in SUBSET ((1..i) \X (1..j))
  BY DEF PrefixAlignments
<1> QED BY <1>2, <1>3, FS_Subset, FS_CardinalityType

\* No alignment is longer than the table's entry: where the last callees are
\* compatible, only one pair can use either of them; where they are not, one of the
\* two is in no pair.
LEMMA NoLongerAlignment ==
  ASSUME NEW rc, NEW nc, NEW ok, NEW m \in Nat, NEW n \in Nat, m = Len(rc), n = Len(nc),
         NEW dp, LcsEntries(dp, rc, nc, ok)
  PROVE  \A T \in PrefixAlignments(rc, nc, ok, m, n) : Cardinality(T) <= dp[<<m, n>>]
<1> DEFINE Bounded(i, j) ==
             \A T \in PrefixAlignments(rc, nc, ok, i, j) : Cardinality(T) <= dp[<<i, j>>]
           K == {k \in 0..(m + n) : \A i \in 0..m, j \in 0..n : i + j <= k => Bounded(i, j)}
<1>1. ASSUME NEW i \in 0..m, NEW j \in 0..n, i = 0 \/ j = 0
      PROVE  Bounded(i, j)
  <2> SUFFICES ASSUME NEW T \in PrefixAlignments(rc, nc, ok, i, j)
               PROVE  Cardinality(T) <= dp[<<i, j>>]
    OBVIOUS
  <2>1. T = {}
    <3> SUFFICES ASSUME NEW p \in T PROVE FALSE
      OBVIOUS
    <3>1. p \in (1..i) \X (1..j)
      BY DEF PrefixAlignments
    <3> QED BY <1>1, <3>1
  <2>2. Cardinality(T) = 0 /\ dp[<<i, j>>] = 0
    BY <1>1, <2>1, FS_EmptySet DEF LcsEntries
  <2> QED BY <2>2
<1>2. ASSUME NEW i \in 1..m, NEW j \in 1..n, <<rc[i], nc[j]>> \in ok, Bounded(i - 1, j - 1)
      PROVE  Bounded(i, j)
  <2> SUFFICES ASSUME NEW T \in PrefixAlignments(rc, nc, ok, i, j)
               PROVE  Cardinality(T) <= dp[<<i, j>>]
    OBVIOUS
  <2> DEFINE U == {p \in T : p[1] # i /\ p[2] # j}
  <2>0. /\ T \in SUBSET ((1..i) \X (1..j))
        /\ \A p \in T : <<rc[p[1]], nc[p[2]]>> \in ok
        /\ \A p, q \in T : p # q => \/ (p[1] < q[1] /\ p[2] < q[2])
                                    \/ (q[1] < p[1] /\ q[2] < p[2])
    BY DEF PrefixAlignments
  <2>1. U \in PrefixAlignments(rc, nc, ok, i - 1, j - 1)
    <3>1. \A p \in U : p \in (1..(i - 1)) \X (1..(j - 1)) /\ <<rc[p[1]], nc[p[2]]>> \in ok
      BY <2>0
    <3>2. \A p, q \in U : p # q => \/ (p[1] < q[1] /\ p[2] < q[2])
                                   \/ (q[1] < p[1] /\ q[2] < p[2])
      BY <2>0
    <3> HIDE DEF U
    <3> QED BY <3>1, <3>2 DEF PrefixAlignments
  <2>2. /\ IsFiniteSet(U) /\ Cardinality(U) \in Nat
        /\ IsFiniteSet(T) /\ Cardinality(T) \in Nat
    <3>1. i - 1 \in Nat /\ j - 1 \in Nat /\ i \in Nat /\ j \in Nat
      OBVIOUS
    <3> HIDE DEF U
    <3> QED BY <2>1, <3>1, PrefixFinite
  <2>3. \A p, q \in T \ U : p = q
    <3> SUFFICES ASSUME NEW p \in T, NEW q \in T, p # q, p \notin U, q \notin U PROVE FALSE
      OBVIOUS
    <3>1. p[1] \in 1..i /\ p[2] \in 1..j /\ q[1] \in 1..i /\ q[2] \in 1..j
      BY <2>0
    <3>2. CASE p[1] < q[1] /\ p[2] < q[2]
      BY <3>1, <3>2
    <3>3. CASE q[1] < p[1] /\ q[2] < p[2]
      BY <3>1, <3>3
    <3> QED BY <2>0, <3>2, <3>3
  <2>4. Cardinality(T) <= Cardinality(U) + 1
    <3>1. CASE T = U
      <4> HIDE DEF U
      <4> QED BY <2>2, <3>1
    <3>2. CASE T # U
      <4>1. PICK e \in T : e \notin U
        BY <3>2
      <4>2. T = U \cup {e}
        <5>1. \A p \in T : p \in U \/ p = e
          BY <2>3, <4>1
        <5>2. \A p \in U : p \in T
          OBVIOUS
        <5> HIDE DEF U
        <5> QED BY <4>1, <5>1, <5>2
      <4>3. Cardinality(U \cup {e}) = Cardinality(U) + 1
        <5> HIDE DEF U
        <5> QED BY <2>2, <4>1, FS_AddElement
      <4> HIDE DEF U
      <4> QED BY <2>2, <4>2, <4>3
    <3> QED BY <3>1, <3>2
  <2>5. Cardinality(U) <= dp[<<i - 1, j - 1>>]
    BY <1>2, <2>1
  <2>6. dp[<<i, j>>] = dp[<<i - 1, j - 1>>] + 1 /\ dp[<<i - 1, j - 1>>] \in Nat
    <3>1. i \in 0..m /\ j \in 0..n /\ i - 1 \in 0..m /\ j - 1 \in 0..n /\ i # 0 /\ j # 0
      OBVIOUS
    <3> QED BY <1>2, <3>1 DEF LcsEntries
  <2> HIDE DEF U
  <2> QED BY <2>2, <2>4, <2>5, <2>6
<1>3. ASSUME NEW i \in 1..m, NEW j \in 1..n, <<rc[i], nc[j]>> \notin ok,
             Bounded(i - 1, j), Bounded(i, j - 1)
      PROVE  Bounded(i, j)
  <2> SUFFICES ASSUME NEW T \in PrefixAlignments(rc, nc, ok, i, j)
               PROVE  Cardinality(T) <= dp[<<i, j>>]
    OBVIOUS
  <2>0. /\ T \in SUBSET ((1..i) \X (1..j))
        /\ \A p \in T : <<rc[p[1]], nc[p[2]]>> \in ok
        /\ \A p, q \in T : p # q => \/ (p[1] < q[1] /\ p[2] < q[2])
                                    \/ (q[1] < p[1] /\ q[2] < p[2])
    BY DEF PrefixAlignments
  <2>1. (\A p \in T : p[1] # i) \/ (\A p \in T : p[2] # j)
    <3> SUFFICES ASSUME NEW p \in T, NEW q \in T, p[1] = i, q[2] = j PROVE FALSE
      OBVIOUS
    <3>1. p[1] \in 1..i /\ p[2] \in 1..j /\ q[1] \in 1..i /\ q[2] \in 1..j
      BY <2>0
    <3>2. p # q
      BY <1>3, <2>0
    <3> QED BY <2>0, <3>1, <3>2
  <2>2. /\ dp[<<i, j>>] \in {dp[<<i - 1, j>>], dp[<<i, j - 1>>]}
        /\ dp[<<i - 1, j>>] <= dp[<<i, j>>] /\ dp[<<i, j - 1>>] <= dp[<<i, j>>]
        /\ dp[<<i - 1, j>>] \in Nat /\ dp[<<i, j - 1>>] \in Nat
    <3>1. i \in 0..m /\ j \in 0..n /\ i - 1 \in 0..m /\ j - 1 \in 0..n /\ i # 0 /\ j # 0
      OBVIOUS
    <3>2. dp[<<i - 1, j>>] \in Nat /\ dp[<<i, j - 1>>] \in Nat
      BY <3>1 DEF LcsEntries
    <3>3. dp[<<i, j>>] = IF dp[<<i - 1, j>>] >= dp[<<i, j - 1>>]
                         THEN dp[<<i - 1, j>>] ELSE dp[<<i, j - 1>>]
      BY <1>3, <3>1 DEF LcsEntries
    <3> QED BY <3>2, <3>3
  <2>3. Cardinality(T) \in Nat
    BY PrefixFinite
  <2>4. CASE \A p \in T : p[1] # i
    <3>1. T \in PrefixAlignments(rc, nc, ok, i - 1, j)
      <4>1. \A p \in T : p \in (1..(i - 1)) \X (1..j)
        BY <2>0, <2>4
      <4> QED BY <2>0, <4>1 DEF PrefixAlignments
    <3>2. Cardinality(T) <= dp[<<i - 1, j>>]
      BY <1>3, <3>1
    <3> QED BY <2>2, <2>3, <3>2
  <2>5. CASE \A p \in T : p[2] # j
    <3>1. T \in PrefixAlignments(rc, nc, ok, i, j - 1)
      <4>1. \A p \in T : p \in (1..i) \X (1..(j - 1))
        BY <2>0, <2>5
      <4> QED BY <2>0, <4>1 DEF PrefixAlignments
    <3>2. Cardinality(T) <= dp[<<i, j - 1>>]
      BY <1>3, <3>1
    <3> QED BY <2>2, <2>3, <3>2
  <2> QED BY <2>1, <2>4, <2>5
<1> HIDE DEF Bounded
<1>4. \A k \in 0..(m + n) : k \in K
  <2>1. 0 \in K
    <3>1. \A i \in 0..m, j \in 0..n : i + j <= 0 => i = 0
      OBVIOUS
    <3> QED BY <1>1, <3>1
  <2>2. ASSUME NEW k \in 0..(m + n - 1), k \in K
        PROVE  k + 1 \in K
    <3> SUFFICES ASSUME NEW i \in 0..m, NEW j \in 0..n, i + j <= k + 1 PROVE Bounded(i, j)
      OBVIOUS
    <3>1. CASE i = 0 \/ j = 0
      BY <1>1, <3>1
    <3>2. CASE i # 0 /\ j # 0
      <4>1. i \in 1..m /\ j \in 1..n /\ i - 1 \in 0..m /\ j - 1 \in 0..n
        BY <3>2
      <4>2. Bounded(i - 1, j - 1) /\ Bounded(i - 1, j) /\ Bounded(i, j - 1)
        <5>1. i - 1 + (j - 1) <= k /\ i - 1 + j <= k /\ i + (j - 1) <= k
          BY <4>1
        <5> QED BY <2>2, <4>1, <5>1
      <4> QED BY <1>2, <1>3, <4>1, <4>2
    <3> QED BY <3>1, <3>2
  <2> DEFINE N == m + n
  <2>3. N \in Nat /\ \A k \in 0..(N - 1) : k \in K => k + 1 \in K
    BY <2>2
  <2> HIDE DEF K, N
  <2>4. \A k \in 0..N : k \in K
    BY <2>1, <2>3, SetInduction
  <2> QED BY <2>4 DEF N
<1>5. m + n \in K
  <2> HIDE DEF K
  <2> QED BY <1>4
<1>6. Bounded(m, n)
  BY <1>5
<1> QED BY <1>6 DEF Bounded

-----------------------------------------------------------------------------
\* A list of matches, as the phases return it.
ClaimList(q) == q \in Seq(MatchedFunction)

\* What a phase claims has the type of a match.
LEMMA MatchedType ==
  ASSUME NEW r \in Nat, NEW n \in Nat, NEW src \in MatchSource, NEW sim \in 0..10
  PROVE  Matched(r, n, src, sim) \in MatchedFunction
BY DEF Matched, MatchedFunction

LEMMA ClaimListConcat ==
  ASSUME NEW q, NEW r, ClaimList(q), ClaimList(r)
  PROVE  ClaimList(q \o r)
BY DEF ClaimList

Within(q, r) == \A i \in DOMAIN q : \E k \in DOMAIN r : r[k] = q[i]

\* Both parts are within a concatenation.
LEMMA ConcatWithin ==
  ASSUME NEW q, NEW r, ClaimList(q), ClaimList(r)
  PROVE  Within(q, q \o r) /\ Within(r, q \o r)
<1>1. /\ Len(q) \in Nat /\ Len(r) \in Nat
      /\ DOMAIN q = 1..Len(q) /\ DOMAIN r = 1..Len(r)
      /\ DOMAIN (q \o r) = 1..(Len(q) + Len(r))
      /\ \A i \in DOMAIN q : (q \o r)[i] = q[i]
      /\ \A j \in DOMAIN r : (q \o r)[Len(q) + j] = r[j]
  BY DEF ClaimList
<1>2. \A j \in DOMAIN r : Len(q) + j \in DOMAIN (q \o r)
  BY <1>1
<1>3. \A i \in DOMAIN q : i \in DOMAIN (q \o r)
  BY <1>1
<1> QED BY <1>1, <1>2, <1>3 DEF Within

\* Pairs make a list of claims.
LEMMA MatchedListClaims ==
  ASSUME NEW q \in Seq(Nat \X Nat), NEW src \in MatchSource, NEW sim \in 0..10
  PROVE  ClaimList([i \in DOMAIN q |-> Matched(q[i][1], q[i][2], src, sim)])
<1>1. \A i \in DOMAIN q : Matched(q[i][1], q[i][2], src, sim) \in MatchedFunction
  BY MatchedType
<1> QED BY <1>1 DEF ClaimList

-----------------------------------------------------------------------------
\* The slots that give anchors are slots of both tables, decodable in both.
LEMMA SlotsDecodable ==
  ASSUME NEW S, NEW rs \in Seq(S), NEW ns, NEW low
  PROVE  AnchorSlots(rs, ns, low)
           \in SUBSET {i \in 1..Len(rs) : rs[i] # None /\ ns[i] # None}
<1> DEFINE n == Len(rs)
           D == 0..n
           ok(i) == rs[i] # None /\ ns[i] # None /\ rs[i] >= low /\ ns[i] >= low
           V == SUBSET {i \in 1..n : rs[i] # None /\ ns[i] # None}
           Step(f, i) ==
             IF i = 0 THEN {}
             ELSE IF ok(i) /\ \A j \in f[i - 1] : rs[j] # rs[i] /\ ns[j] # ns[i]
                  THEN f[i - 1] \cup {i} ELSE f[i - 1]
           size == [i \in D |-> i]
           G == [p \in D \X [D -> V] |-> Step(p[2], p[1])]
           acc == CHOOSE f : f = [i \in D |-> Step(f, i)]
<1>0. n \in Nat
  OBVIOUS
<1>1. AnchorSlots(rs, ns, low) = acc[n]
  BY DEF AnchorSlots
<1> HIDE DEF n
<1>2. ASSUME NEW i \in D, i # 0
      PROVE  i - 1 \in D /\ i \in 1..n
  BY <1>0, <1>2
<1>3. ASSUME NEW i \in D, NEW f, i # 0 => f[i - 1] \in V
      PROVE  Step(f, i) \in V
  <2>1. CASE i = 0
    BY <2>1
  <2>2. CASE i # 0
    <3>1. i \in 1..n
      BY <1>2, <2>2
    <3> HIDE DEF D
    <3> QED BY <1>3, <2>2, <3>1
  <2> QED BY <2>1, <2>2
<1> HIDE DEF ok
<1>4. IsRecursion(D, V, n, size, G)
  <2>1. V # {}
    OBVIOUS
  <2>2. size \in [D -> 0..n]
    BY <1>0
  <2>3. G \in [D \X [D -> V] -> V]
    <3> HIDE DEF V, D, Step
    <3> QED BY <1>2, <1>3
  <2>4. ASSUME NEW i \in D, NEW f \in [D -> V], NEW g \in [D -> V],
               \A y \in D : size[y] < size[i] => f[y] = g[y]
        PROVE  G[<<i, f>>] = G[<<i, g>>]
    <3>1. i # 0 => f[i - 1] = g[i - 1]
      <4> SUFFICES ASSUME i # 0 PROVE f[i - 1] = g[i - 1]
        OBVIOUS
      <4>1. i - 1 \in D /\ size[i - 1] = i - 1 /\ size[i] = i /\ i \in Nat
        BY <1>0, <1>2
      <4> HIDE DEF size, D, V
      <4> QED BY <2>4, <4>1
    <3>2. Step(f, i) = Step(g, i)
      BY <3>1
    <3> HIDE DEF V, D, Step
    <3> QED BY <3>2
  <2>5. \A i \in D : \A f, g \in [D -> V] :
          (\A y \in D : size[y] < size[i] => f[y] = g[y]) => G[<<i, f>>] = G[<<i, g>>]
    <3> HIDE DEF V, D, size, G
    <3> QED BY <2>4
  <2> HIDE DEF V, D, size, G
  <2> QED BY <1>0, <2>1, <2>2, <2>3, <2>5 DEF IsRecursion
<1>5. acc = [i \in D |-> Step(acc, i)]
  <2>1. PICK f \in [D -> V] : \A i \in D : f[i] = G[<<i, f>>]
    <3> HIDE DEF V, D, size, G
    <3> QED BY <1>4, RecursiveFunction
  <2>2. \A i \in D : G[<<i, f>>] = Step(f, i)
    <3> HIDE DEF V, D, Step
    <3> QED BY <2>1
  <2>3. f = [i \in D |-> Step(f, i)]
    <3> HIDE DEF V, D, Step, G
    <3> QED BY <2>1, <2>2
  <2> HIDE DEF D, Step
  <2> QED BY <2>3
<1> DEFINE Good == {i \in D : acc[i] \in V}
<1> HIDE DEF acc
<1>6. ASSUME NEW i \in D, i # 0 => i - 1 \in Good
      PROVE  i \in Good
  <2>1. acc[i] = Step(acc, i)
    <3> HIDE DEF D, Step
    <3> QED BY <1>5
  <2>2. Step(acc, i) \in V
    <3> HIDE DEF D, V, Step
    <3> QED BY <1>3, <1>6
  <2> HIDE DEF D, V, Step
  <2> QED BY <2>1, <2>2
<1>7. \A i \in 0..n : i \in Good
  <2>1. 0 \in Good
    <3>1. 0 \in D
      BY <1>0
    <3> HIDE DEF Good, D
    <3> QED BY <1>6, <3>1
  <2>2. ASSUME NEW i \in 0..(n - 1), i \in Good
        PROVE  i + 1 \in Good
    <3>1. i + 1 \in D /\ i + 1 - 1 = i
      BY <1>0
    <3> HIDE DEF Good, D
    <3> QED BY <1>6, <2>2, <3>1
  <2> HIDE DEF Good
  <2> QED BY <1>0, <2>1, <2>2, SetInduction
<1>8. acc[n] \in V
  <2>1. n \in 0..n
    BY <1>0
  <2> HIDE DEF V
  <2> QED BY <1>7, <2>1
<1> QED BY <1>1, <1>8 DEF n

\* Every table of anchors gives a list of claims, whatever cannot be decoded.
LEMMA AnchorListClaims ==
  ASSUME NEW rs \in Seq(Nat \cup {None}), NEW ns \in Seq(Nat \cup {None}), Len(rs) = Len(ns),
         NEW low, NEW src \in MatchSource
  PROVE  ClaimList(AnchorList(rs, ns, low, src))
<1> DEFINE places == [i \in DOMAIN rs |-> i]
           T == AnchorSlots(rs, ns, low)
           slots == Filter(places, T)
           list == [k \in DOMAIN slots |-> Matched(rs[slots[k]], ns[slots[k]], src, 10)]
<1>1. places \in Seq(Nat)
  OBVIOUS
<1>2. slots \in Seq(Nat \cap T)
  <2> HIDE DEF places, T
  <2> QED BY <1>1, FilterSubsequence
<1>3. \A i \in T : i \in 1..Len(rs) /\ rs[i] # None /\ ns[i] # None
  <2>1. T \in SUBSET {i \in 1..Len(rs) : rs[i] # None /\ ns[i] # None}
    BY SlotsDecodable
  <2> HIDE DEF T
  <2> QED BY <2>1
<1>4. AnchorList(rs, ns, low, src) = list
  BY DEF AnchorList
<1> HIDE DEF slots, T
<1>5. \A k \in DOMAIN slots : slots[k] \in T
  BY <1>2
<1>6. \A k \in DOMAIN slots : rs[slots[k]] \in Nat /\ ns[slots[k]] \in Nat
  BY <1>3, <1>5
<1>7. \A k \in DOMAIN slots : Matched(rs[slots[k]], ns[slots[k]], src, 10) \in MatchedFunction
  BY <1>6, MatchedType
<1>8. list \in Seq(MatchedFunction)
  <2>1. Len(slots) \in Nat /\ DOMAIN slots = 1..Len(slots)
    BY <1>2
  <2>2. \A k \in DOMAIN slots : list[k] \in MatchedFunction
    BY <1>7
  <2>3. DOMAIN list = DOMAIN slots /\ list = [k \in DOMAIN slots |-> list[k]]
    OBVIOUS
  <2> HIDE DEF list
  <2> QED BY <2>1, <2>2, <2>3
<1> QED BY <1>4, <1>8 DEF ClaimList

\* The search for identical bodies gives a list of claims, in whatever places
\* the bodies occur.
LEMMA IdentityMatchesClaims ==
  ASSUME NEW ref, IsFiniteSet(ref.entries), ref.entries \subseteq Nat,
         NEW occurs, \A r \in ref.entries : occurs[r] \subseteq Nat, NEW existing
  PROVE  ClaimList(IdentityMatches(ref, occurs, existing))
<1> DEFINE order == Sorted(ref.entries)
           n == Len(order)
           D == 0..n
           usedRef == {existing[i].ref : i \in DOMAIN existing}
           usedNew == {existing[i].new : i \in DOMAIN existing}
           free(f, i) == {x \in occurs[order[i]] :
                            /\ occurs[order[i]] = {x} /\ x \notin usedNew
                            /\ \A k \in DOMAIN f[i - 1] : f[i - 1][k].new # x}
           chosen(f, i) == CHOOSE x \in free(f, i) : TRUE
           found(f, i) == Matched(order[i], chosen(f, i), "bytecode_identity", 10)
           Step(f, i) ==
             IF i = 0 THEN <<>>
             ELSE IF order[i] \notin usedRef /\ FuncSize(ref, order[i]) \in 8..128 /\ free(f, i) # {}
                  THEN Append(f[i - 1], found(f, i)) ELSE f[i - 1]
           V == Seq(MatchedFunction)
           size == [i \in D |-> i]
           G == [p \in D \X [D -> V] |-> Step(p[2], p[1])]
           acc == CHOOSE f : f = [i \in D |-> Step(f, i)]
<1>0. n \in Nat /\ \A i \in D : i # 0 => order[i] \in ref.entries
  <2>1. order \in Seq(ref.entries)
    <3>1. ref.entries \in SUBSET Int
      OBVIOUS
    <3> QED BY <3>1, SortedList
  <2> HIDE DEF order
  <2> QED BY <2>1
<1> HIDE DEF n, order, usedRef, usedNew
<1>1. ASSUME NEW i \in D, NEW f, i # 0 => f[i - 1] \in V
      PROVE  Step(f, i) \in V
  <2>1. CASE i = 0
    BY <2>1
  <2>2. CASE i # 0 /\ free(f, i) # {}
    <3>1. chosen(f, i) \in free(f, i)
      <4> HIDE DEF free
      <4> QED BY <2>2
    <3>2. chosen(f, i) \in occurs[order[i]]
      <4> HIDE DEF chosen
      <4> QED BY <3>1
    <3>3. found(f, i) \in MatchedFunction
      <4>1. order[i] \in Nat /\ chosen(f, i) \in Nat
        <5> HIDE DEF chosen, D
        <5> QED BY <1>0, <2>2, <3>2
      <4>2. "bytecode_identity" \in MatchSource /\ 10 \in 0..10
        BY DEF MatchSource
      <4> HIDE DEF chosen
      <4> QED BY <4>1, <4>2, MatchedType
    <3>4. Append(f[i - 1], found(f, i)) \in V
      <4> HIDE DEF found
      <4> QED BY <1>1, <2>2, <3>3
    <3> HIDE DEF free, found, V
    <3> QED BY <1>1, <2>2, <3>4
  <2>3. CASE i # 0 /\ free(f, i) = {}
    <3> HIDE DEF free, found, V
    <3> QED BY <1>1, <2>3
  <2> HIDE DEF V, Step, free
  <2> QED BY <2>1, <2>2, <2>3
<1>2. ASSUME NEW i \in D, i # 0
      PROVE  i - 1 \in D
  BY <1>0, <1>2
<1>3. IsRecursion(D, V, n, size, G)
  <2>1. V # {} /\ size \in [D -> 0..n]
    <3>1. <<>> \in V
      OBVIOUS
    <3>2. size \in [D -> 0..n]
      BY <1>0
    <3> HIDE DEF V
    <3> QED BY <3>1, <3>2
  <2>2. G \in [D \X [D -> V] -> V]
    <3> HIDE DEF V, D, Step
    <3> QED BY <1>1, <1>2
  <2>3. ASSUME NEW i \in D, NEW f \in [D -> V], NEW g \in [D -> V],
               \A y \in D : size[y] < size[i] => f[y] = g[y]
        PROVE  G[<<i, f>>] = G[<<i, g>>]
    <3>1. i # 0 => f[i - 1] = g[i - 1]
      <4> SUFFICES ASSUME i # 0 PROVE f[i - 1] = g[i - 1]
        OBVIOUS
      <4>1. i - 1 \in D /\ size[i - 1] = i - 1 /\ size[i] = i /\ i \in Nat
        BY <1>0, <1>2
      <4> HIDE DEF size, D, V
      <4> QED BY <2>3, <4>1
    <3>2. Step(f, i) = Step(g, i)
      BY <3>1
    <3> HIDE DEF V, D, Step
    <3> QED BY <3>2
  <2>4. \A i \in D : \A f, g \in [D -> V] :
          (\A y \in D : size[y] < size[i] => f[y] = g[y]) => G[<<i, f>>] = G[<<i, g>>]
    <3> HIDE DEF V, D, size, G
    <3> QED BY <2>3
  <2> HIDE DEF V, D, size, G
  <2> QED BY <1>0, <2>1, <2>2, <2>4 DEF IsRecursion
<1>4. acc = [i \in D |-> Step(acc, i)]
  <2>1. PICK f \in [D -> V] : \A i \in D : f[i] = G[<<i, f>>]
    <3> HIDE DEF V, D, size, G
    <3> QED BY <1>3, RecursiveFunction
  <2>2. \A i \in D : G[<<i, f>>] = Step(f, i)
    <3> HIDE DEF V, D, Step
    <3> QED BY <2>1
  <2>3. f = [i \in D |-> Step(f, i)]
    <3> HIDE DEF V, D, Step, G
    <3> QED BY <2>1, <2>2
  <2> HIDE DEF D, Step
  <2> QED BY <2>3
<1>5. IdentityMatches(ref, occurs, existing) = acc[n]
  BY DEF IdentityMatches, order, n, usedRef, usedNew
<1> DEFINE Good == {i \in D : acc[i] \in V}
<1> HIDE DEF acc
<1>6. ASSUME NEW i \in D, i # 0 => i - 1 \in Good
      PROVE  i \in Good
  <2>1. acc[i] = Step(acc, i)
    <3> HIDE DEF D, Step
    <3> QED BY <1>4
  <2>2. Step(acc, i) \in V
    <3> HIDE DEF D, V, Step
    <3> QED BY <1>1, <1>6
  <2> HIDE DEF D, V, Step
  <2> QED BY <2>1, <2>2
<1>7. \A i \in 0..n : i \in Good
  <2>1. 0 \in Good
    <3>1. 0 \in D
      BY <1>0
    <3> HIDE DEF Good, D
    <3> QED BY <1>6, <3>1
  <2>2. ASSUME NEW i \in 0..(n - 1), i \in Good
        PROVE  i + 1 \in Good
    <3>1. i + 1 \in D /\ i + 1 - 1 = i
      BY <1>0
    <3> HIDE DEF Good, D
    <3> QED BY <1>6, <2>2, <3>1
  <2> HIDE DEF Good
  <2> QED BY <1>0, <2>1, <2>2, SetInduction
<1>8. acc[n] \in V
  <2>1. n \in 0..n
    BY <1>0
  <2> HIDE DEF V
  <2> QED BY <1>7, <2>1
<1> QED BY <1>5, <1>8 DEF ClaimList

\* A function calls functions of its ROM, each listed once.
LEMMA CalleeList ==
  ASSUME NEW rom, IsRom(rom), NEW f
  PROVE  LET c == Callees(rom, f)
         IN /\ c \in Seq(rom.entries) /\ c \in Seq(Nat)
            /\ \A i, j \in DOMAIN c : c[i] = c[j] => i = j
            /\ f \notin rom.entries => c = <<>>
<1>1. CASE f \in DOMAIN rom.callees
  BY <1>1 DEF Callees, IsRom
<1>2. CASE f \notin DOMAIN rom.callees
  <2>1. <<>> \in Seq(rom.entries) /\ <<>> \in Seq(Nat) /\ DOMAIN <<>> = {}
    OBVIOUS
  <2>2. Callees(rom, f) = <<>>
    BY <1>2 DEF Callees
  <2> QED BY <2>1, <2>2
<1> QED BY <1>1, <1>2

\* The distance to the next entry is no address but a size.
LEMMA FuncSizeType ==
  ASSUME NEW rom, rom.entries \subseteq Nat, NEW f
  PROVE  FuncSize(rom, f) \in Nat
<1> DEFINE later == {e \in rom.entries : e > f}
<1>1. CASE f \notin rom.entries \/ later = {}
  BY <1>1 DEF FuncSize
<1>2. CASE f \in rom.entries /\ later # {}
  <2>1. \E e \in later : \A d \in later : e <= d
    <3>1. later \in SUBSET Nat
      OBVIOUS
    <3> HIDE DEF later
    <3> QED BY <1>2, <3>1, LeastNat
  <2> DEFINE m == CHOOSE e \in later : \A d \in later : e <= d
  <2>2. m \in later
    <3> HIDE DEF later
    <3> QED BY <2>1
  <2>3. FuncSize(rom, f) = m - f
    BY <1>2 DEF FuncSize
  <2> HIDE DEF m
  <2>4. m \in Nat /\ f \in Nat /\ m > f
    BY <1>2, <2>2
  <2> QED BY <2>3, <2>4
<1> QED BY <1>1, <1>2

\* A reset handler goes to a function or nowhere: one of its callees is the first
\* of the largest, if it has any that is no handler.
LEMMA BestMainType ==
  ASSUME NEW rom, IsRom(rom), NEW reset, NEW handlers
  PROVE  BestMain(rom, reset, handlers) \in Nat \cup {None}
<1> DEFINE far == {a \in Nat : a >= CodeStart} \ handlers
           jumps == Filter(rom.tails[reset], far)
           outside == Filter(Callees(rom, reset), rom.entries \ handlers)
           larger(i, j) == FuncSize(rom, outside[i]) >= FuncSize(rom, outside[j])
           first == CHOOSE i \in DOMAIN outside :
                      /\ \A j \in DOMAIN outside : larger(i, j)
                      /\ \A j \in 1..(i - 1) : ~larger(j, i)
<1>1. BestMain(rom, reset, handlers) =
        IF FuncSize(rom, reset) > 0 /\ jumps # <<>> THEN jumps[Len(jumps)]
        ELSE IF outside = <<>> THEN None ELSE outside[first]
  BY DEF BestMain
<1>2. ASSUME FuncSize(rom, reset) > 0, jumps # <<>>
      PROVE  jumps[Len(jumps)] \in Nat
  <2>1. reset \in rom.entries
    BY <1>2 DEF FuncSize
  <2>2. rom.tails[reset] \in Seq(Nat)
    BY <2>1 DEF IsRom
  <2>3. jumps \in Seq(Nat \cap far)
    <3> HIDE DEF far
    <3> QED BY <2>2, FilterSubsequence
  <2> HIDE DEF jumps, far
  <2> QED BY <1>2, <2>3
<1>3. outside \in Seq(Nat)
  <2>1. Callees(rom, reset) \in Seq(Nat)
    BY CalleeList
  <2> DEFINE T == rom.entries \ handlers
             cs == Callees(rom, reset)
  <2>2. outside \in Seq(Nat \cap T)
    <3> SUFFICES Filter(cs, T) \in Seq(Nat \cap T)
      OBVIOUS
    <3>1. cs \in Seq(Nat)
      BY <2>1
    <3> HIDE DEF T, cs
    <3> QED BY <3>1, FilterSubsequence
  <2> HIDE DEF outside, T
  <2> QED BY <2>2
<1> HIDE DEF outside, jumps
<1>4. ASSUME outside # <<>>
      PROVE  outside[first] \in Nat
  <2> DEFINE S == DOMAIN outside
             size(i) == FuncSize(rom, outside[i])
             R == {p \in S \X S : size(p[1]) <= size(p[2])}
             T == {i \in S : \A j \in S : larger(i, j)}
  <2>1. \A i \in S : size(i) \in Nat
    BY FuncSizeType DEF IsRom
  <2>2. Len(outside) \in Nat /\ S = 1..Len(outside) /\ IsFiniteSet(S) /\ S # {}
    <3>1. Len(outside) \in Nat /\ S = 1..Len(outside)
      BY <1>3
    <3>2. Len(outside) # 0
      BY <1>3, <1>4
    <3>3. IsFiniteSet(1..Len(outside))
      BY <3>1, FS_Interval
    <3>4. 1 \in S
      BY <3>1, <3>2
    <3> HIDE DEF S
    <3> QED BY <3>1, <3>3, <3>4
  <2> HIDE DEF S, size
  <2>3. \A x, y \in S : <<x, y>> \in R \/ <<y, x>> \in R
    BY <2>1
  <2>4. \A x, y, z \in S : <<x, y>> \in R /\ <<y, z>> \in R => <<x, z>> \in R
    BY <2>1
  <2>5. PICK m \in S : \A x \in S : <<x, m>> \in R
    <3> HIDE DEF R
    <3> QED BY <2>2, <2>3, <2>4, FiniteGreatest
  <2>6. m \in T
    BY <2>1, <2>5 DEF size
  <2>7. PICK k \in T : \A t \in T : k <= t
    <3>1. T \in SUBSET Nat /\ T # {}
      BY <2>2, <2>6
    <3> HIDE DEF T
    <3> QED BY <3>1, LeastNat
  <2>8. \A j \in 1..(k - 1) : ~larger(j, k)
    <3> SUFFICES ASSUME NEW j \in 1..(k - 1), larger(j, k) PROVE FALSE
      OBVIOUS
    <3>1. k \in S /\ j \in S /\ j \in Nat /\ k \in Nat
      BY <2>2
    <3>2. \A i \in S : larger(j, i)
      <4> SUFFICES ASSUME NEW i \in S PROVE size(j) >= size(i)
        BY DEF size
      <4>1. size(j) >= size(k) /\ size(k) >= size(i)
        BY <2>7 DEF size
      <4>2. size(i) \in Nat /\ size(j) \in Nat /\ size(k) \in Nat
        BY <2>1, <3>1
      <4> QED BY <4>1, <4>2
    <3>3. j \in T
      BY <3>1, <3>2
    <3>4. k <= j
      BY <2>7, <3>3
    <3> QED BY <3>1, <3>4
  <2>9. \E i \in DOMAIN outside : /\ \A j \in DOMAIN outside : larger(i, j)
                                 /\ \A j \in 1..(i - 1) : ~larger(j, i)
    <3>1. k \in DOMAIN outside /\ \A j \in DOMAIN outside : larger(k, j)
      BY <2>7 DEF S
    <3> HIDE DEF larger
    <3> QED BY <2>8, <3>1
  <2>10. first \in DOMAIN outside
    <3> HIDE DEF larger
    <3> QED BY <2>9
  <2> HIDE DEF first
  <2> QED BY <1>3, <2>10
<1> HIDE DEF first
<1> QED BY <1>1, <1>2, <1>4

\* bootstrap_anchors gives a list of claims.
LEMMA BootstrapClaims ==
  ASSUME NEW ref, NEW new, IsRom(ref), IsRom(new), Len(ref.vectors) = Len(new.vectors),
         Len(ref.icu) = Len(new.icu), Len(ref.dtc) = Len(new.dtc)
  PROVE  ClaimList(BootstrapAnchors(ref, new))
<1>1. \A rom \in {ref, new} :
        /\ rom.vectors \in Seq(Nat \cup {None}) /\ rom.icu \in Seq(Nat \cup {None})
        /\ rom.dtc \in Seq(Nat \cup {None}) /\ rom.mut \in Nat \cup {None}
  BY DEF IsRom
<1>2. {"vector_table", "icu_vector_table", "mut_table", "dtc_table"} \subseteq MatchSource
  BY DEF MatchSource
<1>3. ClaimList(VectorAnchors(ref, new))
  <2> DEFINE table == AnchorList(ref.vectors, new.vectors, CodeStart, "vector_table")
             handlers == UNION {{table[i].ref, table[i].new} : i \in DOMAIN table}
             r == BestMain(ref, table[1].ref, handlers)
             n == BestMain(new, table[1].new, handlers)
  <2>1. ClaimList(table)
    BY <1>1, <1>2, AnchorListClaims
  <2>2. r \in Nat \cup {None} /\ n \in Nat \cup {None}
    BY BestMainType
  <2>3. VectorAnchors(ref, new) = IF table = <<>> \/ r = None \/ n = None THEN table
                                  ELSE Append(table, Matched(r, n, "vector_table", 9))
    BY DEF VectorAnchors
  <2> HIDE DEF table, r, n
  <2>4. r # None /\ n # None => Matched(r, n, "vector_table", 9) \in MatchedFunction
    BY <1>2, <2>2, MatchedType
  <2> QED BY <2>1, <2>3, <2>4 DEF ClaimList
<1>4. ClaimList(IcuAnchors(ref, new)) /\ ClaimList(DtcAnchors(ref, new))
  <2>1. ClaimList(IcuAnchors(ref, new))
    BY <1>1, <1>2, AnchorListClaims DEF IcuAnchors
  <2>2. ClaimList(DtcAnchors(ref, new))
    BY <1>1, <1>2, AnchorListClaims DEF DtcAnchors
  <2> QED BY <2>1, <2>2
<1>5. ClaimList(MutAnchors(ref, new))
  <2>1. CASE ref.mut = None \/ new.mut = None
    BY <2>1 DEF MutAnchors, ClaimList
  <2>2. CASE ~(ref.mut = None \/ new.mut = None)
    <3>1. Matched(ref.mut, new.mut, "mut_table", 10) \in MatchedFunction
      BY <1>1, <1>2, <2>2, MatchedType
    <3> QED BY <2>2, <3>1 DEF MutAnchors, ClaimList
  <2> QED BY <2>1, <2>2
<1> QED BY <1>3, <1>4, <1>5, ClaimListConcat DEF BootstrapAnchors

\* a picks from b all that is in T: functions of the two ROMs, none of either twice.
PicksOnce(a, b, T, ref, new) ==
  /\ a \in Seq(Nat \X Nat)
  /\ \A k \in DOMAIN a : a[k] \in T /\ a[k] \in ref.entries \X new.entries
  /\ {a[k] : k \in DOMAIN a} = {b[k] : k \in DOMAIN b} \cap T
  /\ \A k, l \in DOMAIN a : k # l => a[k][1] # a[l][1] /\ a[k][2] # a[l][2]

\* That is how the two searches pick from the aligned callees of two callers.
LEMMA AlignedOnce ==
  ASSUME NEW ref, NEW new, IsRom(ref), IsRom(new), NEW c, NEW d, NEW tol, NEW T
  PROVE  PicksOnce(Filter(AlignCallees(ref, new, c, d, tol), T),
                   AlignCallees(ref, new, c, d, tol), T, ref, new)
<1> DEFINE rc == Callees(ref, c)
           nc == Callees(new, d)
           ok == Compatible(ref, new, rc, nc, tol)
           b == AlignCallees(ref, new, c, d, tol)
           a == Filter(b, T)
<1>1. /\ rc \in Seq(Nat) /\ \A i, j \in DOMAIN rc : rc[i] = rc[j] => i = j
      /\ nc \in Seq(Nat) /\ \A i, j \in DOMAIN nc : nc[i] = nc[j] => i = j
      /\ rc \in Seq(ref.entries) /\ nc \in Seq(new.entries)
  <2>1. /\ rc \in Seq(Nat) /\ \A i, j \in DOMAIN rc : rc[i] = rc[j] => i = j
        /\ rc \in Seq(ref.entries)
    BY CalleeList
  <2>2. /\ nc \in Seq(Nat) /\ \A i, j \in DOMAIN nc : nc[i] = nc[j] => i = j
        /\ nc \in Seq(new.entries)
    BY CalleeList
  <2> QED BY <2>1, <2>2
<1>2. b = LcsAlign(rc, nc, ok)
  BY DEF AlignCallees
<1> HIDE DEF rc, nc, ok, b
<1>3. PICK g \in [DOMAIN b -> 1..Len(rc)], h \in [DOMAIN b -> 1..Len(nc)] :
        /\ \A k \in DOMAIN b : b[k] = <<rc[g[k]], nc[h[k]]>>
        /\ \A k, l \in DOMAIN b : k < l => g[k] < g[l] /\ h[k] < h[l]
  <2>1. InCallOrder(b, rc, nc)
    BY <1>1, <1>2, AlignmentInOrder DEF IsAlignment
  <2> QED BY <2>1 DEF InCallOrder
<1>4. b \in Seq(Nat \X Nat)
  BY <1>1, <1>2, AlignmentInOrder DEF IsAlignment
<1>5. \A k, l \in DOMAIN b : k # l => b[k][1] # b[l][1] /\ b[k][2] # b[l][2]
  <2> SUFFICES ASSUME NEW k \in DOMAIN b, NEW l \in DOMAIN b, k # l
               PROVE  b[k][1] # b[l][1] /\ b[k][2] # b[l][2]
    OBVIOUS
  <2>1. k \in Nat /\ l \in Nat
    BY <1>4
  <2>2. /\ g[k] \in DOMAIN rc /\ g[l] \in DOMAIN rc
        /\ h[k] \in DOMAIN nc /\ h[l] \in DOMAIN nc
        /\ g[k] \in Nat /\ g[l] \in Nat /\ h[k] \in Nat /\ h[l] \in Nat
    BY <1>1
  <2>3. g[k] # g[l] /\ h[k] # h[l]
    <3>1. CASE k < l
      BY <1>3, <2>2, <3>1
    <3>2. CASE l < k
      BY <1>3, <2>2, <3>2
    <3> QED BY <2>1, <3>1, <3>2
  <2>4. b[k][1] = rc[g[k]] /\ b[l][1] = rc[g[l]] /\ b[k][2] = nc[h[k]] /\ b[l][2] = nc[h[l]]
    BY <1>3
  <2> QED BY <1>1, <2>2, <2>3, <2>4
<1> HIDE DEF a
<1>6. a \in Seq((Nat \X Nat) \cap T)
  BY <1>4, FilterSubsequence DEF a
<1>7. PICK f \in [DOMAIN a -> DOMAIN b] : /\ \A k \in DOMAIN a : a[k] = b[f[k]]
                                        /\ \A k, l \in DOMAIN a : f[k] = f[l] => k = l
  BY <1>4, FilterSubsequence DEF a
<1>8. \A k \in DOMAIN a : a[k] \in T
  BY <1>6
<1>9. \A k, l \in DOMAIN a : k # l => a[k][1] # a[l][1] /\ a[k][2] # a[l][2]
  BY <1>5, <1>7
<1>10. a \in Seq(Nat \X Nat)
  BY <1>6
<1>11. \A k \in DOMAIN b : b[k] \in ref.entries \X new.entries
  <2>1. \A k \in DOMAIN b : rc[g[k]] \in ref.entries /\ nc[h[k]] \in new.entries
    BY <1>1
  <2> QED BY <1>3, <2>1
<1>12. \A k \in DOMAIN a : a[k] \in ref.entries \X new.entries
  BY <1>7, <1>11
<1>13. \A j \in DOMAIN b : b[j] \in T => \E k \in DOMAIN a : a[k] = b[j]
  BY <1>4, FilterSubsequence DEF a
<1>14. {a[k] : k \in DOMAIN a} = {b[k] : k \in DOMAIN b} \cap T
  BY <1>7, <1>8, <1>13
<1> QED BY <1>8, <1>9, <1>10, <1>12, <1>14 DEF a, b, PicksOnce

-----------------------------------------------------------------------------
PairedOnce(S) == \A m, k \in S : m.ref = k.ref \/ m.new = k.new => m = k

\* A match has a rank.
LEMMA RankType ==
  ASSUME NEW q, ClaimList(q), NEW i \in DOMAIN q
  PROVE  Rank(q[i]) \in Nat
<1> DEFINE m == q[i]
<1>1. m.sim \in Nat
  <2>1. m \in MatchedFunction
    BY DEF ClaimList
  <2> HIDE DEF m
  <2> QED BY <2>1 DEF MatchedFunction
<1>2. Tier(m.src) \in Nat
  BY DEF Tier
<1> QED BY <1>1, <1>2 DEF Rank

\* The place of a reference function in the dict is that of its first claim.
LEMMA FirstOfRefPlace ==
  ASSUME NEW q, ClaimList(q), NEW i \in DOMAIN q
  PROVE  FirstOfRef(q, i) \in 1..i /\ q[FirstOfRef(q, i)].ref = q[i].ref
<1> DEFINE T == {j \in 1..i : q[j].ref = q[i].ref}
<1>1. i \in Nat /\ i \in 1..i
  BY DEF ClaimList
<1>2. T \in SUBSET Nat /\ T # {}
  BY <1>1
<1>3. PICK m \in T : \A t \in T : m <= t
  <2> HIDE DEF T
  <2> QED BY <1>2, LeastNat
<1>4. \A k \in 1..(m - 1) : q[k].ref # q[i].ref
  <2> SUFFICES ASSUME NEW k \in 1..(m - 1), q[k].ref = q[i].ref PROVE FALSE
    OBVIOUS
  <2>1. m \in 1..i /\ k \in T
    BY <1>1, <1>3
  <2>2. m <= k
    BY <2>1, <1>3
  <2> QED BY <1>1, <2>1, <2>2
<1>5. \E j \in 1..i : q[j].ref = q[i].ref /\ \A k \in 1..(j - 1) : q[k].ref # q[i].ref
  BY <1>3, <1>4
<1> QED BY <1>5 DEF FirstOfRef

\* Two passes are enough: after the pass over new addresses no reference function
\* has two matches either, and ties leave one claim and not two.
THEOREM ArbitrateOneToOne ==
  ASSUME NEW q, ClaimList(q)
  PROVE  PairedOnce(Arbitrate(q))
<1> DEFINE I == BestByRef(q)
<1>1. \A i \in I : i \in DOMAIN q /\ i \in Nat /\ Rank(q[i]) \in Nat
  BY RankType DEF BestByRef, ClaimList
<1>2. \A i, j \in I : q[i].ref = q[j].ref => i = j
  <2> SUFFICES ASSUME NEW i \in I, NEW j \in I, q[i].ref = q[j].ref, i # j
               PROVE  FALSE
    OBVIOUS
  <2>1. Rank(q[j]) < Rank(q[i]) \/ (Rank(q[j]) = Rank(q[i]) /\ i < j)
    BY <1>1 DEF BestByRef
  <2>2. Rank(q[i]) < Rank(q[j]) \/ (Rank(q[i]) = Rank(q[j]) /\ j < i)
    BY <1>1 DEF BestByRef
  <2> QED BY <1>1, <2>1, <2>2
<1>3. \A i, j \in BestByNew(q, I) : q[i].new = q[j].new => i = j
  <2> SUFFICES ASSUME NEW i \in BestByNew(q, I), NEW j \in BestByNew(q, I),
                      q[i].new = q[j].new, i # j
               PROVE  FALSE
    OBVIOUS
  <2> DEFINE a == FirstOfRef(q, i)
             b == FirstOfRef(q, j)
  <2>0. i \in I /\ j \in I
    BY DEF BestByNew
  <2>1. Rank(q[j]) < Rank(q[i]) \/ (Rank(q[j]) = Rank(q[i]) /\ a < b)
    BY <2>0 DEF BestByNew
  <2>2. Rank(q[i]) < Rank(q[j]) \/ (Rank(q[i]) = Rank(q[j]) /\ b < a)
    BY <2>0 DEF BestByNew
  <2>3. a \in Nat /\ b \in Nat
    BY <1>1, <2>0, FirstOfRefPlace
  <2> HIDE DEF a, b
  <2> QED BY <1>1, <2>0, <2>1, <2>2, <2>3
<1>4. BestByNew(q, I) \subseteq I
  BY DEF BestByNew
<1> HIDE DEF I
<1> QED BY <1>2, <1>3, <1>4 DEF Arbitrate, PairedOnce, I

\* A claim that outranks all rivals for either of its functions survives both
\* passes: the first cannot lose it to a claim that the second then rejects.
THEOREM UndisputedSurvives ==
  ASSUME NEW q, ClaimList(q), NEW i \in DOMAIN q,
         \A j \in DOMAIN q \ {i} : q[j].ref = q[i].ref \/ q[j].new = q[i].new =>
           Rank(q[j]) < Rank(q[i])
  PROVE  q[i] \in Arbitrate(q)
<1>1. i \in BestByRef(q)
  BY DEF BestByRef
<1>2. BestByRef(q) \subseteq DOMAIN q
  BY DEF BestByRef
<1>3. i \in BestByNew(q, BestByRef(q))
  BY <1>1, <1>2 DEF BestByNew
<1> QED BY <1>3 DEF Arbitrate

\* The RAM signatures add matches of functions that had none, one each: a tie on
\* either side is dropped and not guessed.
THEOREM SignaturesOneToOne ==
  ASSUME NEW score, \A p \in DOMAIN score : score[p] \in Nat,
         DOMAIN score \subseteq Nat \X Nat,
         NEW matches, PairedOnce(matches)
  PROVE  PairedOnce(matches \cup RamSignatureMatches(score, matches))
<1> DEFINE usedRef == {m.ref : m \in matches}
           usedNew == {m.new : m \in matches}
           open == {p \in DOMAIN score : p[1] \notin usedRef /\ p[2] \notin usedNew /\ score[p] > 0}
           best == {p \in open : \A r \in open \ {p} : r[1] = p[1] => score[r] < score[p]}
           pick == {p \in best : \A r \in best \ {p} : r[2] = p[2] => score[r] < score[p]}
           added == {Matched(p[1], p[2], "ram_signature", score[p]) : p \in pick}
<1>1. RamSignatureMatches(score, matches) = added
  BY DEF RamSignatureMatches
<1>2. \A p, r \in pick : p[1] = r[1] => p = r
  <2> SUFFICES ASSUME NEW p \in pick, NEW r \in pick, p[1] = r[1], p # r PROVE FALSE
    OBVIOUS
  <2>1. score[r] < score[p] /\ score[p] < score[r]
    OBVIOUS
  <2> QED BY <2>1
<1>3. \A p, r \in pick : p[2] = r[2] => p = r
  <2> SUFFICES ASSUME NEW p \in pick, NEW r \in pick, p[2] = r[2], p # r PROVE FALSE
    OBVIOUS
  <2>1. score[r] < score[p] /\ score[p] < score[r]
    OBVIOUS
  <2> QED BY <2>1
<1>4. \A m \in added : m.ref \notin usedRef /\ m.new \notin usedNew
  BY DEF Matched
<1>5. \A m, k \in added : m.ref = k.ref \/ m.new = k.new => m = k
  <2> SUFFICES ASSUME NEW p \in pick, NEW r \in pick, p[1] = r[1] \/ p[2] = r[2]
               PROVE  p = r
    BY DEF Matched
  <2> HIDE DEF pick
  <2> QED BY <1>2, <1>3
<1>6. \A m \in matches : m.ref \in usedRef /\ m.new \in usedNew
  OBVIOUS
<1> HIDE DEF added, usedRef, usedNew
<1> QED BY <1>1, <1>4, <1>5, <1>6 DEF PairedOnce
=============================================================================
