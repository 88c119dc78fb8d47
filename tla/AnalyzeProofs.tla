---------------------------- MODULE AnalyzeProofs ----------------------------
(***************************************************************************)
(* For every set of references and every new ROM: what analyze writes is   *)
(* supported by what its references say, arbitrated as it reports, and     *)
(* what the passes read off the code before a call is what the call        *)
(* passes.                                                                 *)
(***************************************************************************)
EXTENDS Analyze, CallGraphProofs

-----------------------------------------------------------------------------
\* Lists: sequences of whatever they hold.
IsList(s) == s \in Seq(ToSet(s))

LEMMA ListPlaces ==
  ASSUME NEW s, IsList(s)
  PROVE  /\ Len(s) \in Nat /\ DOMAIN s = 1..Len(s)
         /\ \A x \in ToSet(s) : \E i \in DOMAIN s : s[i] = x
         /\ \A i \in DOMAIN s : s[i] \in ToSet(s)
BY DEF IsList, ToSet

LEMMA ListOf ==
  ASSUME NEW S, NEW s \in Seq(S)
  PROVE  IsList(s) /\ ToSet(s) \subseteq S
<1>1. /\ Len(s) \in Nat /\ DOMAIN s = 1..Len(s)
      /\ \A i \in DOMAIN s : s[i] \in S
      /\ s = [i \in 1..Len(s) |-> s[i]]
  OBVIOUS
<1>2. s \in [1..Len(s) -> ToSet(s)]
  BY <1>1 DEF ToSet
<1> QED BY <1>1, <1>2 DEF IsList, ToSet

LEMMA ListFrom ==
  ASSUME NEW n \in Nat, NEW s, DOMAIN s = 1..n, s = [i \in 1..n |-> s[i]]
  PROVE  IsList(s) /\ Len(s) = n
<1>1. s \in [1..n -> ToSet(s)]
  BY DEF ToSet
<1> QED BY <1>1 DEF IsList

LEMMA ListConcat ==
  ASSUME NEW s, NEW t, IsList(s), IsList(t)
  PROVE  /\ IsList(s \o t) /\ ToSet(s \o t) = ToSet(s) \cup ToSet(t)
         /\ Len(s \o t) = Len(s) + Len(t)
         /\ \A i \in DOMAIN s : (s \o t)[i] = s[i]
         /\ \A j \in DOMAIN t : Len(s) + j \in DOMAIN (s \o t) /\ (s \o t)[Len(s) + j] = t[j]
<1> DEFINE S == ToSet(s) \cup ToSet(t)
<1>1. s \in Seq(S) /\ t \in Seq(S)
  BY DEF IsList
<1>2. /\ Len(s) \in Nat /\ Len(t) \in Nat /\ DOMAIN s = 1..Len(s) /\ DOMAIN t = 1..Len(t)
      /\ s \o t \in Seq(S) /\ Len(s \o t) = Len(s) + Len(t) /\ DOMAIN (s \o t) = 1..(Len(s) + Len(t))
      /\ \A i \in DOMAIN s : (s \o t)[i] = s[i]
      /\ \A j \in DOMAIN t : (s \o t)[Len(s) + j] = t[j]
  BY <1>1
<1>3. \A j \in DOMAIN t : Len(s) + j \in DOMAIN (s \o t)
  BY <1>2
<1>4. \A i \in DOMAIN s : i \in DOMAIN (s \o t)
  BY <1>2
<1>5. IsList(s \o t) /\ ToSet(s \o t) \subseteq S
  BY <1>2, ListOf
<1>6. S \subseteq ToSet(s \o t)
  BY <1>2, <1>3, <1>4 DEF ToSet
<1> QED BY <1>2, <1>3, <1>5, <1>6

LEMMA AppendList ==
  ASSUME NEW s, IsList(s), NEW x
  PROVE  /\ IsList(Append(s, x)) /\ ToSet(Append(s, x)) = ToSet(s) \cup {x}
         /\ Len(Append(s, x)) = Len(s) + 1 /\ DOMAIN Append(s, x) = 1..(Len(s) + 1)
         /\ \A i \in DOMAIN s : Append(s, x)[i] = s[i]
         /\ Append(s, x)[Len(s) + 1] = x
<1> DEFINE S == ToSet(s) \cup {x}
           t == Append(s, x)
<1>1. s \in Seq(S) /\ x \in S
  BY DEF IsList
<1>2. /\ Len(s) \in Nat /\ DOMAIN s = 1..Len(s)
      /\ t \in Seq(S) /\ Len(t) = Len(s) + 1 /\ DOMAIN t = 1..(Len(s) + 1)
      /\ \A i \in 1..Len(s) : t[i] = s[i]
      /\ t[Len(s) + 1] = x
  BY <1>1
<1> HIDE DEF t
<1>3. IsList(t) /\ ToSet(t) \subseteq S
  BY <1>2, ListOf
<1>4. S \subseteq ToSet(t)
  BY <1>2 DEF ToSet
<1> QED BY <1>2, <1>3, <1>4 DEF t

\* What Filter keeps.
LEMMA FilterList ==
  ASSUME NEW s, IsList(s), NEW T
  PROVE  IsList(Filter(s, T)) /\ ToSet(Filter(s, T)) = ToSet(s) \cap T
<1> DEFINE S == ToSet(s)
           f == Filter(s, T)
<1>1. /\ f \in Seq(S \cap T)
      /\ \A j \in DOMAIN s : s[j] \in T => \E k \in DOMAIN f : f[k] = s[j]
  BY FilterSubsequence DEF IsList
<1>2. IsList(f) /\ ToSet(f) \subseteq S \cap T
  BY <1>1, ListOf
<1>3. S \cap T \subseteq ToSet(f)
  BY <1>1 DEF ToSet
<1> QED BY <1>2, <1>3

Begins(s, t) == Len(s) <= Len(t) /\ \A i \in 1..Len(s) : t[i] = s[i]

LEMMA BeginsConcat ==
  ASSUME NEW s, NEW t, NEW u, IsList(s), IsList(t), IsList(u), Begins(s, t)
  PROVE  Begins(s, t \o u)
<1>1. Len(s) \in Nat /\ Len(t) \in Nat /\ Len(u) \in Nat /\ DOMAIN t = 1..Len(t)
  BY ListPlaces
<1>2. Len(t \o u) = Len(t) + Len(u) /\ \A i \in DOMAIN t : (t \o u)[i] = t[i]
  BY ListConcat
<1>3. \A i \in 1..Len(s) : i \in 1..Len(t)
  BY <1>1 DEF Begins
<1> QED BY <1>1, <1>2, <1>3 DEF Begins

\* What a longer list is filtered to begins with what the shorter one is.
LEMMA FilterBegins ==
  ASSUME NEW s, NEW t, IsList(s), IsList(t), Begins(s, t), NEW T, NEW U,
         \A x \in ToSet(s) : x \in T <=> x \in U
  PROVE  Begins(Filter(s, T), Filter(t, U))
<1> DEFINE m == Len(s)
           n == Len(t)
           S == ToSet(s) \cup ToSet(t)
<1>0. /\ m \in Nat /\ n \in Nat /\ m <= n /\ DOMAIN s = 1..m /\ DOMAIN t = 1..n
      /\ s \in Seq(S) /\ t \in Seq(S)
      /\ \A i \in 1..m : s[i] = t[i] /\ s[i] \in ToSet(s)
      /\ \A i \in 1..n : t[i] \in S
  BY ListPlaces DEF Begins, IsList
<1>1. PICK f \in [0..m -> Seq(S)] :
        /\ Filter(s, T) = f[m] /\ f[0] = <<>>
        /\ \A i \in 1..m : f[i] = IF s[i] \in T THEN Append(f[i - 1], s[i]) ELSE f[i - 1]
  <2>1. s \in Seq(S)
    BY <1>0
  <2> HIDE DEF S
  <2> QED BY <2>1, FilterRecurrence
<1>2. PICK g \in [0..n -> Seq(S)] :
        /\ Filter(t, U) = g[n] /\ g[0] = <<>>
        /\ \A i \in 1..n : g[i] = IF t[i] \in U THEN Append(g[i - 1], t[i]) ELSE g[i - 1]
  <2>1. t \in Seq(S)
    BY <1>0
  <2> HIDE DEF S
  <2> QED BY <2>1, FilterRecurrence
<1> HIDE DEF m, n, S
<1>3. f[m] = g[m]
  <2> DEFINE Same == {i \in 0..m : f[i] = g[i]}
  <2>1. 0 \in Same
    BY <1>0, <1>1, <1>2
  <2>2. ASSUME NEW i \in 0..(m - 1), i \in Same PROVE i + 1 \in Same
    <3>1. i + 1 \in 1..m /\ i + 1 \in 1..n /\ i + 1 - 1 = i /\ i + 1 \in 0..m
      BY <1>0
    <3>2. s[i + 1] = t[i + 1] /\ (s[i + 1] \in T <=> t[i + 1] \in U)
      BY <1>0, <3>1
    <3>3. f[i] = g[i]
      BY <2>2
    <3>4. f[i + 1] = IF s[i + 1] \in T THEN Append(f[i], s[i + 1]) ELSE f[i]
      BY <1>1, <3>1
    <3>5. g[i + 1] = IF t[i + 1] \in U THEN Append(g[i], t[i + 1]) ELSE g[i]
      BY <1>2, <3>1
    <3> QED BY <3>1, <3>2, <3>3, <3>4, <3>5
  <2>3. \A i \in 0..m : i \in Same
    <3> HIDE DEF Same
    <3> QED BY <1>0, <2>1, <2>2, SetInduction
  <2> QED BY <1>0, <2>3
<1>4. Begins(g[m], g[n])
  <2> DEFINE Good == {i \in 0..(n - m) : Begins(g[m], g[m + i])}
  <2>1. 0 \in Good
    <3>1. g[m] \in Seq(S) /\ m + 0 = m
      BY <1>0, <1>2
    <3> QED BY <1>0, <3>1 DEF Begins
  <2>2. ASSUME NEW i \in 0..(n - m - 1), i \in Good PROVE i + 1 \in Good
    <3> DEFINE k == m + i + 1
    <3>1. k \in 1..n /\ k - 1 = m + i /\ m + (i + 1) = k /\ k - 1 \in 0..n /\ i + 1 \in 0..(n - m) /\ m \in 0..n
      BY <1>0
    <3>2. g[k] = IF t[k] \in U THEN Append(g[k - 1], t[k]) ELSE g[k - 1]
      BY <1>2, <3>1
    <3>3. Begins(g[m], g[k - 1]) /\ g[m] \in Seq(S) /\ g[k - 1] \in Seq(S) /\ t[k] \in S
      BY <1>0, <1>2, <2>2, <3>1
    <3> HIDE DEF k
    <3>4. Begins(g[m], Append(g[k - 1], t[k]))
      <4>1. /\ Len(Append(g[k - 1], t[k])) = Len(g[k - 1]) + 1
            /\ Len(g[m]) \in Nat /\ Len(g[k - 1]) \in Nat
            /\ \A l \in 1..Len(g[k - 1]) : Append(g[k - 1], t[k])[l] = g[k - 1][l]
        BY <3>3
      <4> QED BY <3>3, <4>1 DEF Begins
    <3> QED BY <3>1, <3>2, <3>3, <3>4
  <2>3. \A i \in 0..(n - m) : i \in Good
    <3>1. n - m \in Nat /\ n - m - 1 = (n - m) - 1
      BY <1>0
    <3> HIDE DEF Good
    <3> QED BY <2>1, <2>2, <3>1, SetInduction
  <2>4. n - m \in 0..(n - m) /\ m + (n - m) = n
    BY <1>0
  <2> QED BY <2>3, <2>4
<1> QED BY <1>1, <1>2, <1>3, <1>4

\* FlattenSeq appends one list after the other.
LEMMA FlattenRecurrence ==
  ASSUME NEW S, NEW ss \in Seq(Seq(S))
  PROVE  \E f \in [0..Len(ss) -> Seq(S)] :
           /\ f[0] = <<>> /\ FlattenSeq(ss) = f[Len(ss)]
           /\ \A i \in 1..Len(ss) : f[i] = f[i - 1] \o ss[i]
<1> DEFINE n == Len(ss)
           flat == CHOOSE f : f = [i \in 1..n |-> IF i = 1 THEN ss[i] ELSE f[i - 1] \o ss[i]]
           G == [p \in (1..n) \X Seq(S) |-> p[2] \o ss[p[1]]]
<1>0. n \in Nat /\ \A i \in 1..n : ss[i] \in Seq(S)
  OBVIOUS
<1>1. FlattenSeq(ss) = IF n = 0 THEN ss ELSE flat[n]
  BY DEF FlattenSeq
<1> HIDE DEF n
<1>2. PICK f \in [0..n -> Seq(S)] : f[0] = <<>> /\ \A i \in 1..n : f[i] = G[<<i, f[i - 1]>>]
  <2> DEFINE V == Seq(S)
             b == <<>>
  <2>1. IsStepper(n, V, b, G)
    BY <1>0 DEF IsStepper
  <2> HIDE DEF G, V, b
  <2>2. \E f \in [0..n -> V] : StepsFrom(f, n, b, G)
    BY <2>1, StepRecursion
  <2> QED BY <2>2 DEF V, b, StepsFrom
<1>3. \A i \in 1..n : f[i] = f[i - 1] \o ss[i]
  <2> TAKE i \in 1..n
  <2>1. i - 1 \in 0..n
    BY <1>0
  <2> QED BY <1>2, <2>1
<1> HIDE DEF G
<1>4. CASE n = 0
  <2>1. ss = <<>>
    BY <1>4 DEF n
  <2> QED BY <1>1, <1>2, <1>3, <1>4, <2>1 DEF n
<1>5. CASE n # 0
  <2> DEFINE h == [i \in 1..n |-> f[i]]
             E(p, i) == IF i = 1 THEN ss[i] ELSE p[i - 1] \o ss[i]
  <2>1. h = [i \in 1..n |-> E(h, i)]
    <3>1. ASSUME NEW i \in 1..n PROVE f[i] = E(h, i)
      <4>1. CASE i = 1
        <5>1. f[i] = f[i - 1] \o ss[i]
          BY <1>3
        <5>2. i - 1 = 0 /\ f[0] = <<>> /\ ss[i] \in Seq(S)
          BY <1>0, <1>2, <4>1
        <5>3. <<>> \o ss[i] = ss[i]
          BY <5>2
        <5>4. f[i] = <<>> \o ss[i]
          BY <5>1, <5>2, Zenon
        <5> QED BY <4>1, <5>3, <5>4
      <4>2. CASE i # 1
        <5>1. i - 1 \in 1..n
          BY <1>0, <4>2
        <5> QED BY <1>3, <4>2, <5>1
      <4> QED BY <4>1, <4>2
    <3> HIDE DEF E
    <3> QED BY <3>1
  <2>2. flat = [i \in 1..n |-> E(flat, i)]
    <3>1. \E p : p = [i \in 1..n |-> E(p, i)]
      <4> HIDE DEF h, E
      <4> QED BY <2>1
    <3>2. flat = CHOOSE p : p = [i \in 1..n |-> E(p, i)]
      OBVIOUS
    <3> HIDE DEF E, flat
    <3> QED BY <3>1, <3>2
  <2> HIDE DEF flat
  <2> DEFINE Same == {i \in 0..n : i # 0 => flat[i] = f[i]}
  <2>3. 0 \in Same
    BY <1>0
  <2>4. ASSUME NEW i \in 0..(n - 1), i \in Same PROVE i + 1 \in Same
    <3>1. i + 1 \in 1..n /\ i + 1 \in 0..n /\ i + 1 - 1 = i /\ (i + 1 = 1 <=> i = 0)
      BY <1>0
    <3>2. flat[i + 1] = E(flat, i + 1)
      <4> HIDE DEF E
      <4> QED BY <2>2, <3>1
    <3>3. f[i + 1] = f[i] \o ss[i + 1]
      <4> DEFINE k == i + 1
      <4>1. k \in 1..n /\ k - 1 = i
        BY <3>1
      <4> HIDE DEF k
      <4>2. f[k] = f[k - 1] \o ss[k]
        BY <1>3, <4>1
      <4>3. f[k] = f[i] \o ss[k]
        BY <4>1, <4>2, Zenon
      <4> QED BY <4>3 DEF k
    <3>4. CASE i = 0
      <4>1. flat[i + 1] = ss[i + 1] /\ ss[i + 1] \in Seq(S) /\ f[i] = <<>>
        BY <1>0, <1>2, <3>1, <3>2, <3>4
      <4>2. <<>> \o ss[i + 1] = ss[i + 1]
        BY <4>1
      <4> QED BY <3>1, <3>3, <4>1, <4>2
    <3>5. CASE i # 0
      <4>1. flat[i + 1] = flat[i] \o ss[i + 1]
        <5> DEFINE k == i + 1
        <5>1. k # 1 /\ k - 1 = i
          BY <3>1, <3>5
        <5>2. flat[k] = E(flat, k)
          BY <3>2
        <5> HIDE DEF k
        <5>3. flat[k] = flat[k - 1] \o ss[k]
          BY <5>1, <5>2, Zenon
        <5>4. flat[k] = flat[i] \o ss[k]
          BY <5>1, <5>3, Zenon
        <5> QED BY <5>4 DEF k
      <4>2. flat[i] = f[i]
        BY <2>4, <3>5
      <4> QED BY <3>1, <3>3, <4>1, <4>2
    <3> QED BY <3>4, <3>5
  <2>5. \A i \in 0..n : i \in Same
    <3> HIDE DEF Same
    <3> QED BY <1>0, <2>3, <2>4, SetInduction
  <2>6. flat[n] = f[n]
    <3>1. n \in 0..n
      BY <1>0
    <3> QED BY <1>5, <2>5, <3>1
  <2> QED BY <1>1, <1>2, <1>3, <1>5, <2>6 DEF n
<1> QED BY <1>4, <1>5
\* Lists of lists.
IsLists(ss) == IsList(ss) /\ \A k \in DOMAIN ss : IsList(ss[k])

Entries(ss) == UNION {ToSet(ss[k]) : k \in DOMAIN ss}

LEMMA ListsOf ==
  ASSUME NEW ss, IsLists(ss), NEW S, Entries(ss) \subseteq S
  PROVE  ss \in Seq(Seq(S)) /\ Len(ss) \in Nat /\ DOMAIN ss = 1..Len(ss)
<1>1. ss \in Seq(ToSet(ss)) /\ Len(ss) \in Nat /\ DOMAIN ss = 1..Len(ss) /\ ss = [i \in 1..Len(ss) |-> ss[i]]
  BY DEF IsLists, IsList
<1>2. ASSUME NEW k \in DOMAIN ss PROVE ss[k] \in Seq(S)
  <2>1. ss[k] \in Seq(ToSet(ss[k])) /\ ToSet(ss[k]) \subseteq S
    BY DEF IsLists, IsList, Entries
  <2>2. \A s \in Seq(ToSet(ss[k])) : s \in Seq(S)
    BY <2>1
  <2> QED BY <2>1, <2>2
<1>3. ss \in [1..Len(ss) -> Seq(S)]
  BY <1>1, <1>2
<1> QED BY <1>1, <1>3

LEMMA FlattenList ==
  ASSUME NEW ss, IsLists(ss)
  PROVE  IsList(FlattenSeq(ss)) /\ ToSet(FlattenSeq(ss)) = Entries(ss)
<1> DEFINE S == Entries(ss)
           n == Len(ss)
<1>1. ss \in Seq(Seq(S)) /\ n \in Nat /\ DOMAIN ss = 1..n
  <2> HIDE DEF S
  <2>1. Entries(ss) \subseteq S
    BY DEF S
  <2> QED BY <2>1, ListsOf
<1>2. PICK f \in [0..n -> Seq(S)] :
        /\ f[0] = <<>> /\ FlattenSeq(ss) = f[n]
        /\ \A i \in 1..n : f[i] = f[i - 1] \o ss[i]
  <2> HIDE DEF S
  <2> QED BY <1>1, FlattenRecurrence
<1> HIDE DEF n, S
<1> DEFINE Good == {i \in 0..n : ToSet(f[i]) = UNION {ToSet(ss[k]) : k \in 1..i}}
<1>3. 0 \in Good
  <2>1. ToSet(f[0]) = {} /\ 1..0 = {}
    BY <1>2 DEF ToSet
  <2> QED BY <1>1, <2>1
<1>4. ASSUME NEW i \in 0..(n - 1), i \in Good PROVE i + 1 \in Good
  <2> DEFINE k == i + 1
  <2>1. k \in 1..n /\ k - 1 = i /\ k - 1 \in 0..n /\ k \in 0..n /\ 1..k = 1..i \cup {k}
    <3>1. i \in Nat /\ k = i + 1 /\ i + 1 <= n
      BY <1>1
    <3>2. k \in 1..n /\ k - 1 = i /\ k - 1 \in 0..n /\ k \in 0..n
      BY <1>1, <3>1
    <3>3. \A x : x \in 1..k <=> x \in 1..i \/ x = k
      BY <3>1
    <3>4. \A x : x \in 1..k <=> x \in 1..i \cup {k}
      BY <3>3
    <3> QED BY <3>2, <3>4
  <2> HIDE DEF k
  <2>2. f[k] = f[k - 1] \o ss[k]
    BY <1>2, <2>1
  <2>3. f[k - 1] \in Seq(S) /\ IsList(ss[k])
    BY <1>1, <1>2, <2>1 DEF IsLists
  <2>4. ToSet(f[k]) = ToSet(f[k - 1]) \cup ToSet(ss[k])
    BY <2>2, <2>3, ListOf, ListConcat
  <2>5. ToSet(f[k - 1]) = UNION {ToSet(ss[l]) : l \in 1..i}
    BY <1>4, <2>1
  <2>6. ToSet(f[k]) = UNION {ToSet(ss[l]) : l \in 1..k}
    BY <2>1, <2>4, <2>5
  <2> QED BY <2>1, <2>6 DEF k
<1>5. \A i \in 0..n : i \in Good
  <2> HIDE DEF Good
  <2> QED BY <1>1, <1>3, <1>4, SetInduction
<1>6. n \in 0..n
  BY <1>1
<1> QED BY <1>1, <1>2, <1>5, <1>6, ListOf DEF Entries, S

LEMMA FlattenBegins ==
  ASSUME NEW ss, NEW tt, IsLists(ss), IsLists(tt), Begins(ss, tt)
  PROVE  Begins(FlattenSeq(ss), FlattenSeq(tt))
<1> DEFINE S == Entries(ss) \cup Entries(tt)
           m == Len(ss)
           n == Len(tt)
<1>1. /\ ss \in Seq(Seq(S)) /\ tt \in Seq(Seq(S)) /\ m \in Nat /\ n \in Nat /\ m <= n
      /\ DOMAIN ss = 1..m /\ DOMAIN tt = 1..n
      /\ \A i \in 1..m : ss[i] = tt[i]
  <2>1. Entries(ss) \subseteq S /\ Entries(tt) \subseteq S
    OBVIOUS
  <2> HIDE DEF S
  <2> QED BY <2>1, ListsOf DEF Begins
<1> HIDE DEF S
<1>2. PICK f \in [0..m -> Seq(S)] :
        /\ f[0] = <<>> /\ FlattenSeq(ss) = f[m]
        /\ \A i \in 1..m : f[i] = f[i - 1] \o ss[i]
  BY <1>1, FlattenRecurrence
<1>3. PICK g \in [0..n -> Seq(S)] :
        /\ g[0] = <<>> /\ FlattenSeq(tt) = g[n]
        /\ \A i \in 1..n : g[i] = g[i - 1] \o tt[i]
  BY <1>1, FlattenRecurrence
<1> HIDE DEF m, n
<1>4. f[m] = g[m]
  <2> DEFINE Same == {i \in 0..m : f[i] = g[i]}
  <2>1. 0 \in Same
    BY <1>1, <1>2, <1>3
  <2>2. ASSUME NEW i \in 0..(m - 1), i \in Same PROVE i + 1 \in Same
    <3> DEFINE k == i + 1
    <3>1. k \in 1..m /\ k \in 1..n /\ k - 1 = i /\ k \in 0..m
      BY <1>1
    <3> HIDE DEF k
    <3>2. f[k] = f[k - 1] \o ss[k] /\ g[k] = g[k - 1] \o tt[k] /\ ss[k] = tt[k] /\ f[k - 1] = g[k - 1]
      BY <1>1, <1>2, <1>3, <2>2, <3>1
    <3>3. f[k] = g[k]
      BY <3>2, Zenon
    <3> QED BY <3>1, <3>3 DEF k
  <2>3. \A i \in 0..m : i \in Same
    <3> HIDE DEF Same
    <3> QED BY <1>1, <2>1, <2>2, SetInduction
  <2> QED BY <1>1, <2>3
<1>5. Begins(g[m], g[n])
  <2> DEFINE Good == {i \in 0..(n - m) : Begins(g[m], g[m + i])}
  <2>1. 0 \in Good
    <3>1. g[m] \in Seq(S) /\ m + 0 = m
      BY <1>1, <1>3
    <3> QED BY <1>1, <3>1 DEF Begins
  <2>2. ASSUME NEW i \in 0..(n - m - 1), i \in Good PROVE i + 1 \in Good
    <3> DEFINE k == m + i + 1
    <3>1. k \in 1..n /\ k - 1 = m + i /\ m + (i + 1) = k /\ k - 1 \in 0..n /\ i + 1 \in 0..(n - m) /\ m \in 0..n
      BY <1>1
    <3>2. Begins(g[m], g[k - 1])
      BY <2>2, <3>1
    <3> HIDE DEF k
    <3>3. g[k] = g[k - 1] \o tt[k] /\ g[m] \in Seq(S) /\ g[k - 1] \in Seq(S) /\ IsList(tt[k])
      BY <1>1, <1>3, <3>1 DEF IsLists
    <3>4. Begins(g[m], g[k])
      BY <3>2, <3>3, ListOf, BeginsConcat
    <3> QED BY <3>1, <3>4
  <2>3. \A i \in 0..(n - m) : i \in Good
    <3>1. n - m \in Nat /\ n - m - 1 = (n - m) - 1
      BY <1>1
    <3> HIDE DEF Good
    <3> QED BY <2>1, <2>2, <3>1, SetInduction
  <2>4. n - m \in 0..(n - m) /\ m + (n - m) = n
    BY <1>1
  <2> QED BY <2>3, <2>4
<1> QED BY <1>2, <1>3, <1>4, <1>5
\* The values at finitely many points are finitely many.
LEMMA FiniteValues ==
  ASSUME NEW D, IsFiniteSet(D), NEW f
  PROVE  IsFiniteSet({f[d] : d \in D})
<1> DEFINE S == {f[d] : d \in D}
           g == [d \in D |-> f[d]]
<1>1. g \in Surjection(D, S)
  BY DEF Surjection
<1> HIDE DEF S, g
<1>2. IsFiniteSet(S)
  BY <1>1, FS_Surjection
<1> QED BY <1>2 DEF S

LEMMA ListFinite ==
  ASSUME NEW s, IsList(s)
  PROVE  IsFiniteSet(ToSet(s))
<1>1. IsFiniteSet(DOMAIN s)
  BY ListPlaces, FS_Interval
<1> QED BY <1>1, FiniteValues DEF ToSet

-----------------------------------------------------------------------------
\* Least and greatest of the library's Min and Max.
LEMMA MinMax ==
  ASSUME NEW S \in SUBSET Int, IsFiniteSet(S), S # {}
  PROVE  /\ Min(S) \in S /\ \A x \in S : Min(S) <= x
         /\ Max(S) \in S /\ \A x \in S : Max(S) >= x
BY LeastInt DEF Min, Max

LEMMA PlacesMinMax ==
  ASSUME NEW n \in Nat, NEW D \in SUBSET (1..n), D # {}
  PROVE  /\ Min(D) \in D /\ \A x \in D : Min(D) <= x
         /\ Max(D) \in D /\ \A x \in D : Max(D) >= x
<1>1. IsFiniteSet(1..n)
  BY FS_Interval
<1>2. IsFiniteSet(D)
  BY <1>1, FS_Subset
<1>3. D \in SUBSET Int
  OBVIOUS
<1> QED BY <1>2, <1>3, MinMax

Ranking == Int \X Int \X Int

\* Tuples of three are compared at the first place where they differ.
LEMMA AboveTriple ==
  ASSUME NEW a \in Ranking, NEW b \in Ranking
  PROVE  Above(a, b) <=> \/ a[1] > b[1]
                         \/ a[1] = b[1] /\ a[2] > b[2]
                         \/ a[1] = b[1] /\ a[2] = b[2] /\ a[3] > b[3]
<1>1. DOMAIN a = {1, 2, 3} /\ 1..0 = {} /\ 1..1 = {1} /\ 1..2 = {1, 2}
      /\ a[1] \in Int /\ a[2] \in Int /\ a[3] \in Int /\ b[1] \in Int /\ b[2] \in Int /\ b[3] \in Int
  BY DEF Ranking
<1>2. /\ 1..(1 - 1) = {} /\ 1..(2 - 1) = {1} /\ 1..(3 - 1) = {1, 2}
  OBVIOUS
<1> DEFINE At(k) == a[k] > b[k] /\ \A j \in 1..(k - 1) : a[j] = b[j]
<1>3. Above(a, b) <=> At(1) \/ At(2) \/ At(3)
  BY <1>1 DEF Above
<1>4. /\ At(1) <=> a[1] > b[1]
      /\ At(2) <=> a[2] > b[2] /\ a[1] = b[1]
      /\ At(3) <=> a[3] > b[3] /\ a[1] = b[1] /\ a[2] = b[2]
  BY <1>2
<1> HIDE DEF At
<1> QED BY <1>3, <1>4

\* A list of ranks has a first of the highest.
FirstHighest(r, i) ==
  \A j \in DOMAIN r : ~Above(r[j], r[i]) /\ (j < i => Above(r[i], r[j]))

LEMMA HighestExists ==
  ASSUME NEW n \in Nat \ {0}, NEW r \in [1..n -> Ranking]
  PROVE  \E i \in 1..n : FirstHighest(r, i)
<1> DEFINE D == 1..n
           Below(x, m) == Above(r[m], r[x]) \/ (~Above(r[x], r[m]) /\ m <= x)
           R == {z \in D \X D : Below(z[1], z[2])}
<1>1. \A x, m \in D : <<x, m>> \in R <=> Below(x, m)
  OBVIOUS
<1>2. \A x \in D : r[x] \in Ranking /\ r[x][1] \in Int /\ r[x][2] \in Int /\ r[x][3] \in Int /\ x \in Int
  BY DEF Ranking
<1>3. \A x, y \in D :
        Above(r[x], r[y]) <=> \/ r[x][1] > r[y][1]
                              \/ r[x][1] = r[y][1] /\ r[x][2] > r[y][2]
                              \/ r[x][1] = r[y][1] /\ r[x][2] = r[y][2] /\ r[x][3] > r[y][3]
  BY <1>2, AboveTriple
<1>4. IsFiniteSet(D) /\ D # {}
  <2>1. IsFiniteSet(1..n) /\ 1 \in 1..n
    BY FS_Interval
  <2> QED BY <2>1
<1> HIDE DEF D
<1>5. \A x, y \in D : Below(x, y) \/ Below(y, x)
  BY <1>2, <1>3
<1>6. \A x, y, z \in D : Below(x, y) /\ Below(y, z) => Below(x, z)
  <2> DEFINE Over(x, y) == \/ r[x][1] > r[y][1]
                           \/ r[x][1] = r[y][1] /\ r[x][2] > r[y][2]
                           \/ r[x][1] = r[y][1] /\ r[x][2] = r[y][2] /\ r[x][3] > r[y][3]
  <2> TAKE x, y, z \in D
  <2>1. /\ Above(r[x], r[y]) <=> Over(x, y)
        /\ Above(r[y], r[x]) <=> Over(y, x)
        /\ Above(r[y], r[z]) <=> Over(y, z)
        /\ Above(r[z], r[y]) <=> Over(z, y)
        /\ Above(r[x], r[z]) <=> Over(x, z)
        /\ Above(r[z], r[x]) <=> Over(z, x)
    BY <1>3
  <2>2. /\ r[x][1] \in Int /\ r[x][2] \in Int /\ r[x][3] \in Int /\ x \in Int
        /\ r[y][1] \in Int /\ r[y][2] \in Int /\ r[y][3] \in Int /\ y \in Int
        /\ r[z][1] \in Int /\ r[z][2] \in Int /\ r[z][3] \in Int /\ z \in Int
    BY <1>2
  <2> QED BY <2>1, <2>2, SMTT(60)
<1>7. PICK m \in D : \A x \in D : <<x, m>> \in R
  <2> HIDE DEF R, Below
  <2> QED BY <1>1, <1>4, <1>5, <1>6, FiniteGreatest
<1>8. \A x \in D : ~Above(r[x], r[m]) /\ (x < m => Above(r[m], r[x]))
  <2> TAKE x \in D
  <2>1. Below(x, m)
    BY <1>1, <1>7
  <2> QED BY <1>2, <1>3, <2>1
<1> QED BY <1>7, <1>8 DEF FirstHighest, D

\* The labels that the arbitration can rank.
Ranked(s, priority) ==
  /\ s.conf \in DOMAIN ConfidenceRank /\ s.score \in Int
  /\ s.reference \in DOMAIN priority

LEMMA BestOfGroup ==
  ASSUME NEW group, IsList(group), group # <<>>,
         NEW priority, \A id \in DOMAIN priority : priority[id] \in Int,
         \A s \in ToSet(group) : Ranked(s, priority)
  PROVE  BestSymbol(group, priority) \in ToSet(group)
<1> DEFINE n == Len(group)
           r == [i \in 1..n |-> SymbolRank(group[i], priority)]
           Best(i) == \A j \in DOMAIN group :
             /\ ~Above(SymbolRank(group[j], priority), SymbolRank(group[i], priority))
             /\ (j < i => Above(SymbolRank(group[i], priority), SymbolRank(group[j], priority)))
<1>1. n \in Nat \ {0} /\ DOMAIN group = 1..n /\ \A i \in 1..n : group[i] \in ToSet(group)
  BY DEF IsList, ToSet
<1>2. \A c \in DOMAIN ConfidenceRank : ConfidenceRank[c] \in Int
  BY DEF ConfidenceRank
<1>3. r \in [1..n -> Ranking]
  <2>1. ASSUME NEW i \in 1..n PROVE SymbolRank(group[i], priority) \in Ranking
    <3>1. Ranked(group[i], priority)
      BY <1>1
    <3> QED BY <1>2, <3>1 DEF Ranked, SymbolRank, Ranking
  <2> HIDE DEF n
  <2> QED BY <2>1
<1>4. PICK i \in 1..n : FirstHighest(r, i)
  <2> HIDE DEF r, n
  <2> QED BY <1>1, <1>3, HighestExists
<1>5. Best(i)
  BY <1>1, <1>4 DEF FirstHighest
<1>6. BestSymbol(group, priority) = group[CHOOSE k \in DOMAIN group : Best(k)]
  BY DEF BestSymbol
<1> HIDE DEF Best
<1>7. (CHOOSE k \in DOMAIN group : Best(k)) \in DOMAIN group
  BY <1>1, <1>5
<1> QED BY <1>1, <1>6, <1>7

LEMMA LabelsAtList ==
  ASSUME NEW labels, IsList(labels), NEW a
  PROVE  /\ IsList(LabelsAt(labels, a))
         /\ \A s : s \in ToSet(LabelsAt(labels, a)) <=> s \in ToSet(labels) /\ s.new = a
         /\ a \in Addresses(labels) => LabelsAt(labels, a) # <<>>
<1>1. /\ IsList(LabelsAt(labels, a))
      /\ ToSet(LabelsAt(labels, a)) = ToSet(labels) \cap {s \in ToSet(labels) : s.new = a}
  BY FilterList DEF LabelsAt
<1>2. ASSUME a \in Addresses(labels) PROVE LabelsAt(labels, a) # <<>>
  <2>1. PICK s \in ToSet(labels) : s.new = a
    BY <1>2, ListPlaces DEF Addresses
  <2>2. ToSet(LabelsAt(labels, a)) # {}
    BY <1>1, <2>1
  <2>3. ToSet(<<>>) = {}
    BY DEF ToSet
  <2> QED BY <2>2, <2>3
<1> QED BY <1>1, <1>2

LEMMA AddressesOf ==
  ASSUME NEW labels, IsList(labels)
  PROVE  Addresses(labels) = {s.new : s \in ToSet(labels)} /\ IsFiniteSet(Addresses(labels))
<1>1. Addresses(labels) = {s.new : s \in ToSet(labels)}
  BY ListPlaces DEF Addresses, ToSet
<1>2. IsFiniteSet(DOMAIN labels)
  BY ListPlaces, FS_Interval
<1>3. IsFiniteSet(Addresses(labels))
  <2> DEFINE f == [i \in DOMAIN labels |-> labels[i].new]
  <2>1. IsFiniteSet({f[i] : i \in DOMAIN labels})
    BY <1>2, FiniteValues
  <2>2. Addresses(labels) = {f[i] : i \in DOMAIN labels}
    BY DEF Addresses
  <2> QED BY <2>1, <2>2
<1> QED BY <1>1, <1>3

\* The arbitration leaves one label of each address: the best of those given.
LEMMA WinnersList ==
  ASSUME NEW labels, IsList(labels), \A s \in ToSet(labels) : s.new \in Nat,
         NEW priority, \A id \in DOMAIN priority : priority[id] \in Int,
         \A s \in ToSet(labels) : Ranked(s, priority)
  PROVE  LET won == Winners(labels, priority)
         IN /\ IsList(won) /\ ToSet(won) \subseteq ToSet(labels)
            /\ ToSet(won) = {BestSymbol(LabelsAt(labels, a), priority) : a \in Addresses(labels)}
            /\ \A a \in Addresses(labels) : BestSymbol(LabelsAt(labels, a), priority).new = a
            /\ \A i, j \in DOMAIN won : won[i].new = won[j].new => i = j
            /\ Addresses(won) = Addresses(labels)
<1> DEFINE won == Winners(labels, priority)
           order == Sorted(Addresses(labels))
           best(a) == BestSymbol(LabelsAt(labels, a), priority)
<1>1. Addresses(labels) \in SUBSET Int /\ IsFiniteSet(Addresses(labels))
  BY AddressesOf
<1>2. /\ order \in Seq(Addresses(labels))
      /\ \A e \in Addresses(labels) : \E p \in DOMAIN order : order[p] = e
      /\ \A p, q \in DOMAIN order : p < q => order[p] < order[q]
  BY <1>1, SortedList
<1>3. won = [k \in DOMAIN order |-> best(order[k])]
  BY DEF Winners
<1>4. ASSUME NEW a \in Addresses(labels) PROVE best(a) \in ToSet(labels) /\ best(a).new = a
  <2>1. /\ IsList(LabelsAt(labels, a)) /\ LabelsAt(labels, a) # <<>>
        /\ \A s \in ToSet(LabelsAt(labels, a)) : s \in ToSet(labels) /\ s.new = a
    BY LabelsAtList
  <2>2. \A s \in ToSet(LabelsAt(labels, a)) : Ranked(s, priority)
    BY <2>1
  <2>3. best(a) \in ToSet(LabelsAt(labels, a))
    BY <2>1, <2>2, BestOfGroup
  <2> QED BY <2>1, <2>3
<1> HIDE DEF order, best
<1>5. /\ Len(order) \in Nat /\ DOMAIN order = 1..Len(order)
      /\ \A k \in DOMAIN order : order[k] \in Addresses(labels) /\ order[k] \in Int
  BY <1>1, <1>2
<1>6. DOMAIN won = 1..Len(order) /\ won = [k \in 1..Len(order) |-> won[k]]
      /\ \A k \in DOMAIN order : won[k] = best(order[k])
  BY <1>3, <1>5
<1> HIDE DEF won
<1>7. IsList(won)
  BY <1>5, <1>6, ListFrom
<1>8. ToSet(won) = {best(a) : a \in Addresses(labels)}
  BY <1>2, <1>5, <1>6 DEF ToSet
<1>9. ASSUME NEW i \in DOMAIN won, NEW j \in DOMAIN won, won[i].new = won[j].new PROVE i = j
  <2>1. order[i] = order[j] /\ i \in Int /\ j \in Int /\ i \in DOMAIN order /\ j \in DOMAIN order
    BY <1>4, <1>5, <1>6, <1>9
  <2>2. order[i] \in Int /\ order[j] \in Int
    BY <1>5, <2>1
  <2> QED BY <1>2, <2>1, <2>2
<1>10. Addresses(won) = Addresses(labels)
  <2>1. Addresses(won) = {s.new : s \in ToSet(won)}
    BY <1>7, AddressesOf
  <2> QED BY <1>4, <1>8, <2>1
<1>11. ToSet(won) \subseteq ToSet(labels)
  BY <1>4, <1>8
<1> QED BY <1>4, <1>7, <1>8, <1>9, <1>10, <1>11 DEF won, best
-----------------------------------------------------------------------------
\* What the accesses of matched functions propose.
Flash == {a \in Nat : InFlash(a)}
Ram == {a \in Nat : InRam(a)}

\* col lists, for each function of acc, accesses of it in a region.
IsCollection(col, acc, Region) ==
  /\ DOMAIN col = DOMAIN acc
  /\ \A f \in DOMAIN acc :
       /\ IsList(col[f])
       /\ \A x \in ToSet(col[f]) :
            /\ x.off \in Int /\ x.addr \in Region
            /\ \E a \in ToSet(acc[f]) : a.off = x.off /\ a.addr = x.addr

LEMMA CollectsFlash ==
  ASSUME NEW acc, IsAccesses(acc)
  PROVE  IsCollection(Collected(acc, CollectData), acc, Flash)
<1> DEFINE col == [f \in DOMAIN acc |-> CollectData(acc[f])]
<1>1. Collected(acc, CollectData) = col
  BY DEF Collected
<1>2. ASSUME NEW f \in DOMAIN acc
      PROVE  /\ IsList(CollectData(acc[f]))
             /\ \A x \in ToSet(CollectData(acc[f])) :
                  /\ x.off \in Int /\ x.addr \in Flash
                  /\ \E a \in ToSet(acc[f]) : a.off = x.off /\ a.addr = x.addr
  <2> DEFINE T == {a \in ToSet(acc[f]) : InFlash(a.addr)}
             flash == Filter(acc[f], T)
             kept == CollectData(acc[f])
  <2>1. /\ IsList(acc[f])
        /\ \A a \in ToSet(acc[f]) : /\ a = [off |-> a.off, addr |-> a.addr, kind |-> a.kind]
                                    /\ a.off \in Int /\ a.addr \in Nat
    BY DEF IsAccesses, IsList
  <2>2. IsList(flash) /\ ToSet(flash) = T
    <3> HIDE DEF T
    <3>1. IsList(Filter(acc[f], T)) /\ ToSet(Filter(acc[f], T)) = ToSet(acc[f]) \cap T
      BY <2>1, FilterList
    <3> QED BY <3>1 DEF T
  <2>3. kept = [i \in DOMAIN flash |-> [flash[i] EXCEPT !.kind = IF @ = "read" THEN "read" ELSE "scalar"]]
    BY DEF CollectData
  <2>4. /\ Len(flash) \in Nat /\ DOMAIN flash = 1..Len(flash)
        /\ \A i \in DOMAIN flash : flash[i] \in T
    BY <2>2, ListPlaces
  <2> HIDE DEF flash, kept
  <2>5. DOMAIN kept = 1..Len(flash) /\ kept = [i \in 1..Len(flash) |-> kept[i]]
    BY <2>3, <2>4
  <2>6. IsList(kept)
    BY <2>4, <2>5, ListFrom
  <2>7. ASSUME NEW i \in DOMAIN kept
        PROVE  kept[i].off = flash[i].off /\ kept[i].addr = flash[i].addr /\ flash[i] \in T
    <3>1. /\ flash[i] \in T
          /\ kept[i] = [flash[i] EXCEPT !.kind = IF @ = "read" THEN "read" ELSE "scalar"]
      BY <2>3, <2>4
    <3>2. flash[i] = [off |-> flash[i].off, addr |-> flash[i].addr, kind |-> flash[i].kind]
      BY <2>1, <3>1
    <3> QED BY <3>1, <3>2
  <2>8. ASSUME NEW x \in ToSet(kept)
        PROVE  /\ x.off \in Int /\ x.addr \in Flash
               /\ \E a \in ToSet(acc[f]) : a.off = x.off /\ a.addr = x.addr
    <3>1. PICK i \in DOMAIN kept : x = kept[i]
      BY DEF ToSet
    <3>2. x.off = flash[i].off /\ x.addr = flash[i].addr /\ flash[i] \in T
      BY <2>7, <3>1
    <3> QED BY <2>1, <3>2 DEF Flash
  <2> QED BY <2>6, <2>8 DEF kept
<1> QED BY <1>1, <1>2 DEF IsCollection

LEMMA CollectsRam ==
  ASSUME NEW acc, IsAccesses(acc)
  PROVE  IsCollection(Collected(acc, CollectRam), acc, Ram)
<1> DEFINE col == [f \in DOMAIN acc |-> CollectRam(acc[f])]
<1>1. Collected(acc, CollectRam) = col
  BY DEF Collected
<1>2. ASSUME NEW f \in DOMAIN acc
      PROVE  /\ IsList(CollectRam(acc[f]))
             /\ \A x \in ToSet(CollectRam(acc[f])) :
                  /\ x.off \in Int /\ x.addr \in Ram
                  /\ \E a \in ToSet(acc[f]) : a.off = x.off /\ a.addr = x.addr
  <2> DEFINE T == {a \in ToSet(acc[f]) : a.kind # "scalar" /\ InRam(a.addr)}
  <2>1. IsList(acc[f]) /\ \A a \in ToSet(acc[f]) : a.off \in Int /\ a.addr \in Nat
    BY DEF IsAccesses, IsList
  <2>2. IsList(CollectRam(acc[f])) /\ ToSet(CollectRam(acc[f])) = T
    <3> HIDE DEF T
    <3>1. IsList(Filter(acc[f], T)) /\ ToSet(Filter(acc[f], T)) = ToSet(acc[f]) \cap T
      BY <2>1, FilterList
    <3> QED BY <3>1 DEF T, CollectRam
  <2> QED BY <2>1, <2>2 DEF Ram
<1> QED BY <1>1, <1>2 DEF IsCollection

\* The access that is paired with one at an offset is near it.
LEMMA PairedNear ==
  ASSUME NEW q, IsList(q), \A x \in ToSet(q) : x.off \in Int, NEW off \in Int,
         Paired(q, off) # None
  PROVE  Paired(q, off) \in ToSet(q) /\ Distance(Paired(q, off).off, off) <= Window
<1> DEFINE D == DOMAIN q
           near == {q[i].off : i \in {i \in D : Distance(q[i].off, off) <= Window}}
           Nearest(o) == \A p \in near : \/ Distance(o, off) < Distance(p, off)
                                         \/ Distance(o, off) = Distance(p, off) /\ o >= p
           best == CHOOSE o \in near : Nearest(o)
           at == {i \in D : q[i].off = best}
<1>1. Len(q) \in Nat /\ D = 1..Len(q) /\ \A i \in D : q[i] \in ToSet(q) /\ q[i].off \in Int
  BY ListPlaces
<1>2. near # {} /\ Paired(q, off) = q[Max(at)]
  BY DEF Paired
<1>3. near \in SUBSET Int /\ IsFiniteSet(near) /\ \A o \in near : Distance(o, off) <= Window
  <2> DEFINE f == [i \in D |-> q[i].off]
  <2>1. IsFiniteSet(D)
    BY <1>1, FS_Interval
  <2>2. IsFiniteSet({f[i] : i \in D})
    BY <2>1, FiniteValues
  <2>3. near \subseteq {f[i] : i \in D}
    OBVIOUS
  <2>4. IsFiniteSet(near)
    BY <2>2, <2>3, FS_Subset
  <2> QED BY <1>1, <2>4
<1> HIDE DEF near
<1>4. \E o \in near : Nearest(o)
  <2> DEFINE At(o, p) == \/ Distance(o, off) < Distance(p, off)
                         \/ Distance(o, off) = Distance(p, off) /\ o >= p
             R == {z \in near \X near : At(z[2], z[1])}
  <2>1. \A p, o \in near : <<p, o>> \in R <=> At(o, p)
    OBVIOUS
  <2>2. \A o \in near : o \in Int /\ Distance(o, off) \in Int
    BY <1>3 DEF Distance
  <2>3. \A p, o \in near : At(o, p) \/ At(p, o)
    BY <2>2
  <2>4. \A x, y, z \in near : At(y, x) /\ At(z, y) => At(z, x)
    BY <2>2
  <2>5. \E o \in near : \A p \in near : <<p, o>> \in R
    <3> HIDE DEF R, At
    <3> QED BY <1>2, <1>3, <2>1, <2>3, <2>4, FiniteGreatest
  <2> QED BY <2>1, <2>5
<1> HIDE DEF Nearest
<1>5. best \in near
  BY <1>4
<1> HIDE DEF best
<1>6. at # {} /\ at \in SUBSET (1..Len(q))
  BY <1>1, <1>5 DEF near
<1> HIDE DEF D
<1>7. Max(at) \in at
  <2> HIDE DEF at
  <2> QED BY <1>1, <1>6, PlacesMinMax
<1>8. q[Max(at)] \in ToSet(q) /\ q[Max(at)].off \in near
  BY <1>1, <1>5, <1>7
<1> QED BY <1>2, <1>3, <1>8

\* Why a pair of functions proposes an address for a name.
Founded(p, m, refAcc, newAcc, syms) ==
  /\ m.ref \in DOMAIN refAcc /\ m.new \in DOMAIN newAcc /\ p.tier = TierForScore(m.sim)
  /\ \E x \in ToSet(refAcc[m.ref]), y \in ToSet(newAcc[m.new]) :
       /\ x.addr \in DOMAIN syms /\ syms[x.addr].name = p.name
       /\ y.addr = p.new /\ Distance(y.off, x.off) <= Window

IsOffsets(acc) ==
  \A f \in DOMAIN acc : IsList(acc[f]) /\ \A x \in ToSet(acc[f]) : x.off \in Int

LEMMA PairFounded ==
  ASSUME NEW m, NEW refAcc, NEW newAcc, NEW syms, IsOffsets(refAcc), IsOffsets(newAcc)
  PROVE  /\ IsList(PairProposals(m, refAcc, newAcc, syms))
         /\ \A p \in ToSet(PairProposals(m, refAcc, newAcc, syms)) : Founded(p, m, refAcc, newAcc, syms)
<1> DEFINE ps == PairProposals(m, refAcc, newAcc, syms)
           new(r) == Paired(newAcc[m.new], r.off)
           hit(r) == /\ r.addr \in DOMAIN syms
                     /\ new(r) # None
                     /\ (new(r).kind = "scalar" => r.kind = "scalar")
           T == {r \in ToSet(refAcc[m.ref]) : hit(r)}
           use == Filter(refAcc[m.ref], T)
           prop(r) == [name |-> syms[r.addr].name, ref |-> r.addr,
                       new |-> new(r).addr, tier |-> TierForScore(m.sim),
                       scalar |-> new(r).kind = "scalar"]
<1>1. CASE m.ref \notin DOMAIN refAcc \/ m.new \notin DOMAIN newAcc
  <2>1. ps = <<>>
    BY <1>1 DEF PairProposals
  <2>2. IsList(<<>>) /\ ToSet(<<>>) = {}
    BY DEF IsList, ToSet
  <2> QED BY <2>1, <2>2
<1>2. CASE m.ref \in DOMAIN refAcc /\ m.new \in DOMAIN newAcc
  <2>1. ps = [i \in DOMAIN use |-> prop(use[i])]
    BY <1>2 DEF PairProposals
  <2>2. /\ IsList(refAcc[m.ref]) /\ \A x \in ToSet(refAcc[m.ref]) : x.off \in Int
        /\ IsList(newAcc[m.new]) /\ \A x \in ToSet(newAcc[m.new]) : x.off \in Int
    BY <1>2 DEF IsOffsets
  <2>3. IsList(use) /\ ToSet(use) = T
    <3> HIDE DEF T
    <3>1. IsList(Filter(refAcc[m.ref], T)) /\ ToSet(Filter(refAcc[m.ref], T)) = ToSet(refAcc[m.ref]) \cap T
      BY <2>2, FilterList
    <3> QED BY <3>1 DEF T
  <2>4. Len(use) \in Nat /\ DOMAIN use = 1..Len(use) /\ \A i \in DOMAIN use : use[i] \in T
    BY <2>3, ListPlaces
  <2>5. ASSUME NEW r \in T PROVE Founded(prop(r), m, refAcc, newAcc, syms)
    <3>1. r \in ToSet(refAcc[m.ref]) /\ r.off \in Int /\ r.addr \in DOMAIN syms /\ new(r) # None
      BY <2>2
    <3>2. new(r) \in ToSet(newAcc[m.new]) /\ Distance(new(r).off, r.off) <= Window
      BY <2>2, <3>1, PairedNear
    <3> HIDE DEF new
    <3> QED BY <1>2, <3>1, <3>2 DEF Founded
  <2> HIDE DEF prop, use, ps, T
  <2>6. DOMAIN ps = 1..Len(use) /\ ps = [i \in 1..Len(use) |-> ps[i]]
    BY <2>1, <2>4
  <2>7. IsList(ps)
    BY <2>4, <2>6, ListFrom
  <2>8. \A p \in ToSet(ps) : Founded(p, m, refAcc, newAcc, syms)
    BY <2>1, <2>4, <2>5 DEF ToSet
  <2> QED BY <2>7, <2>8 DEF ps
<1> QED BY <1>1, <1>2
\* A match as the propagation reads it.
IsMatch(m) == m.ref \in Nat /\ m.new \in Nat /\ m.sim \in Int

IsMatches(ms) == IsList(ms) /\ \A m \in ToSet(ms) : IsMatch(m)

LEMMA TrustedList ==
  ASSUME NEW ms, IsList(ms)
  PROVE  /\ IsList(Trusted(ms))
         /\ ToSet(Trusted(ms)) = {m \in ToSet(ms) : TierForScore(m.sim) # "low"}
<1> DEFINE T == {m \in ToSet(ms) : TierForScore(m.sim) # "low"}
<1> HIDE DEF T
<1>1. IsList(Filter(ms, T)) /\ ToSet(Filter(ms, T)) = ToSet(ms) \cap T
  BY FilterList
<1> QED BY <1>1 DEF T, Trusted

\* What is proposed, and that more matches only add to it.
LEMMA ProposalsFounded ==
  ASSUME NEW ms, IsList(ms), NEW refAcc, NEW newAcc, NEW syms, IsOffsets(refAcc), IsOffsets(newAcc)
  PROVE  LET ps == Proposals(ms, refAcc, newAcc, syms)
         IN /\ IsList(ps)
            /\ \A p \in ToSet(ps) : \E m \in ToSet(ms) :
                 TierForScore(m.sim) # "low" /\ Founded(p, m, refAcc, newAcc, syms)
<1> DEFINE ts == Trusted(ms)
           pair(m) == PairProposals(m, refAcc, newAcc, syms)
           ss == [i \in DOMAIN ts |-> pair(ts[i])]
<1>1. /\ IsList(ts) /\ Len(ts) \in Nat /\ DOMAIN ts = 1..Len(ts)
      /\ \A i \in DOMAIN ts : ts[i] \in ToSet(ms) /\ TierForScore(ts[i].sim) # "low"
  <2>1. IsList(ts) /\ ToSet(ts) = {m \in ToSet(ms) : TierForScore(m.sim) # "low"}
    BY TrustedList
  <2> HIDE DEF ts
  <2> QED BY <2>1, ListPlaces
<1>2. \A m : IsList(pair(m)) /\ \A p \in ToSet(pair(m)) : Founded(p, m, refAcc, newAcc, syms)
  BY PairFounded
<1>3. Proposals(ms, refAcc, newAcc, syms) = FlattenSeq(ss)
  BY DEF Proposals
<1> HIDE DEF ts, pair
<1>4. DOMAIN ss = 1..Len(ts) /\ ss = [i \in 1..Len(ts) |-> ss[i]] /\ \A i \in DOMAIN ss : ss[i] = pair(ts[i])
  BY <1>1
<1> HIDE DEF ss
<1>5. IsLists(ss)
  <2>1. IsList(ss)
    BY <1>1, <1>4, ListFrom
  <2> QED BY <1>2, <1>4, <2>1 DEF IsLists
<1>6. IsList(FlattenSeq(ss)) /\ ToSet(FlattenSeq(ss)) = Entries(ss)
  BY <1>5, FlattenList
<1>7. ASSUME NEW p \in Entries(ss)
      PROVE  \E m \in ToSet(ms) : TierForScore(m.sim) # "low" /\ Founded(p, m, refAcc, newAcc, syms)
  <2>1. PICK i \in DOMAIN ss : p \in ToSet(ss[i])
    BY DEF Entries
  <2>2. Founded(p, ts[i], refAcc, newAcc, syms) /\ i \in DOMAIN ts
    BY <1>1, <1>2, <1>4, <2>1
  <2> QED BY <1>1, <2>2
<1> QED BY <1>3, <1>6, <1>7

LEMMA ProposalsBegin ==
  ASSUME NEW ms, NEW ns, IsList(ms), IsList(ns), NEW refAcc, NEW newAcc, NEW syms,
         IsOffsets(refAcc), IsOffsets(newAcc)
  PROVE  Begins(Proposals(ms, refAcc, newAcc, syms), Proposals(ms \o ns, refAcc, newAcc, syms))
<1> DEFINE pair(m) == PairProposals(m, refAcc, newAcc, syms)
           low(m) == TierForScore(m.sim) = "low"
           s == Trusted(ms)
           t == Trusted(ms \o ns)
           ss == [i \in DOMAIN s |-> pair(s[i])]
           tt == [i \in DOMAIN t |-> pair(t[i])]
<1>1. /\ Proposals(ms, refAcc, newAcc, syms) = FlattenSeq(ss)
      /\ Proposals(ms \o ns, refAcc, newAcc, syms) = FlattenSeq(tt)
  BY DEF Proposals
<1>2. \A m : IsList(pair(m))
  BY PairFounded
<1>3. /\ IsList(ms \o ns) /\ ToSet(ms \o ns) = ToSet(ms) \cup ToSet(ns)
      /\ Len(ms) \in Nat /\ Len(ns) \in Nat /\ DOMAIN ms = 1..Len(ms)
      /\ Len(ms \o ns) = Len(ms) + Len(ns)
      /\ \A i \in 1..Len(ms) : (ms \o ns)[i] = ms[i]
  BY ListConcat, ListPlaces
<1>4. Begins(ms, ms \o ns)
  BY <1>3 DEF Begins
<1>5. Begins(s, t)
  <2> DEFINE T == {m \in ToSet(ms) : ~low(m)}
             U == {m \in ToSet(ms \o ns) : ~low(m)}
  <2>1. s = Filter(ms, T) /\ t = Filter(ms \o ns, U)
    BY DEF Trusted
  <2>2. \A m \in ToSet(ms) : m \in T <=> m \in U
    BY <1>3
  <2> HIDE DEF T, U, s, t
  <2>3. Begins(Filter(ms, T), Filter(ms \o ns, U))
    BY <1>3, <1>4, <2>2, FilterBegins
  <2> QED BY <2>1, <2>3
<1>6. IsList(s) /\ IsList(t)
  BY <1>3, TrustedList
<1> HIDE DEF s, t, pair
<1>7. Len(s) \in Nat /\ DOMAIN s = 1..Len(s) /\ Len(t) \in Nat /\ DOMAIN t = 1..Len(t)
  BY <1>6, ListPlaces
<1>8. /\ DOMAIN ss = 1..Len(s) /\ ss = [i \in 1..Len(s) |-> ss[i]]
      /\ DOMAIN tt = 1..Len(t) /\ tt = [i \in 1..Len(t) |-> tt[i]]
      /\ \A i \in 1..Len(s) : ss[i] = pair(s[i])
      /\ \A i \in 1..Len(t) : tt[i] = pair(t[i])
  BY <1>7
<1> HIDE DEF ss, tt
<1>9. IsList(ss) /\ Len(ss) = Len(s) /\ IsList(tt) /\ Len(tt) = Len(t)
  BY <1>7, <1>8, ListFrom
<1>10. IsLists(ss) /\ IsLists(tt)
  BY <1>2, <1>8, <1>9 DEF IsLists
<1>11. Begins(ss, tt)
  <2>1. \A i \in 1..Len(s) : i \in 1..Len(t) /\ t[i] = s[i]
    BY <1>5, <1>7 DEF Begins
  <2> QED BY <1>5, <1>7, <1>8, <1>9, <2>1 DEF Begins
<1> QED BY <1>1, <1>10, <1>11, FlattenBegins

-----------------------------------------------------------------------------
\* Labels.
IsLabel(s) ==
  /\ s = [name |-> s.name, ref |-> s.ref, new |-> s.new, cat |-> s.cat, conf |-> s.conf, src |-> s.src,
          score |-> s.score, reference |-> s.reference, familyMatch |-> s.familyMatch]
  /\ LabelOK(s) /\ s.score \in Int

\* Unstamped: it says nothing yet of the reference it comes from.
Fresh(s) == IsLabel(s) /\ s.reference = None /\ s.familyMatch = TRUE

LEMMA FunctionLabelsFounded ==
  ASSUME NEW ms, IsMatches(ms), NEW syms
  PROVE  LET ls == FunctionLabels(ms, syms)
         IN /\ IsList(ls)
            /\ \A s \in ToSet(ls) :
                 /\ Fresh(s) /\ s.cat = "function"
                 /\ \E m \in ToSet(ms) : /\ TierForScore(m.sim) # "low" /\ m.ref = s.ref /\ m.new = s.new
                                        /\ s.name = MatchName(m, syms)
<1> DEFINE ls == FunctionLabels(ms, syms)
           T == {m \in ToSet(ms) : MatchName(m, syms) # None}
           named == Filter(Trusted(ms), T)
           label(m) == Symbol(MatchName(m, syms), m.ref, m.new, "function", TierForScore(m.sim), m.src, m.sim)
<1>1. ls = [i \in DOMAIN named |-> label(named[i])]
  BY DEF FunctionLabels
<1>2. IsList(named) /\ \A m \in ToSet(named) : m \in ToSet(ms) /\ TierForScore(m.sim) # "low"
  <2>1. IsList(Trusted(ms)) /\ ToSet(Trusted(ms)) = {m \in ToSet(ms) : TierForScore(m.sim) # "low"}
    BY TrustedList DEF IsMatches
  <2>2. IsList(named) /\ ToSet(named) = ToSet(Trusted(ms)) \cap T
    BY <2>1, FilterList
  <2> QED BY <2>1, <2>2
<1> HIDE DEF named
<1>3. Len(named) \in Nat /\ DOMAIN named = 1..Len(named) /\ \A i \in DOMAIN named : named[i] \in ToSet(named)
  BY <1>2, ListPlaces
<1>4. ASSUME NEW m \in ToSet(ms)
      PROVE  /\ Fresh(label(m)) /\ label(m).cat = "function" /\ label(m).ref = m.ref /\ label(m).new = m.new
             /\ label(m).name = MatchName(m, syms)
  <2>1. m.new \in Nat /\ m.sim \in Int /\ TierForScore(m.sim) \in {"high", "medium", "low"} /\ "function" \in Categories
    BY DEF IsMatches, IsMatch, TierForScore, Categories
  <2>2. /\ IsLabel(label(m)) /\ label(m).reference = None /\ label(m).familyMatch = TRUE
        /\ label(m).cat = "function" /\ label(m).ref = m.ref /\ label(m).new = m.new
        /\ label(m).name = MatchName(m, syms)
    <3> DEFINE name == MatchName(m, syms)
               conf == TierForScore(m.sim)
               src == m.src
               ref == m.ref
               new == m.new
               sim == m.sim
    <3>1. new \in Nat /\ sim \in Int /\ conf \in {"high", "medium", "low"} /\ "function" \in Categories
      BY <2>1
    <3>2. label(m) = Symbol(name, ref, new, "function", conf, src, sim)
      OBVIOUS
    <3> HIDE DEF name, conf, src, ref, new, sim, label
    <3>3. LET s == Symbol(name, ref, new, "function", conf, src, sim)
          IN /\ IsLabel(s) /\ s.reference = None /\ s.familyMatch = TRUE
             /\ s.name = name /\ s.ref = ref /\ s.new = new /\ s.cat = "function"
      BY <3>1 DEF IsLabel, LabelOK, Symbol, ConfidenceRank
    <3> QED BY <3>2, <3>3 DEF ref, new, name
  <2> HIDE DEF label
  <2> QED BY <2>2 DEF Fresh
<1> HIDE DEF label, ls
<1>5. DOMAIN ls = 1..Len(named) /\ ls = [i \in 1..Len(named) |-> ls[i]]
  BY <1>1, <1>3
<1>6. IsList(ls)
  BY <1>3, <1>5, ListFrom
<1>7. ASSUME NEW s \in ToSet(ls)
      PROVE  /\ Fresh(s) /\ s.cat = "function"
             /\ \E m \in ToSet(ms) : /\ TierForScore(m.sim) # "low" /\ m.ref = s.ref /\ m.new = s.new
                                    /\ s.name = MatchName(m, syms)
  <2>1. PICK i \in DOMAIN named : s = label(named[i])
    BY <1>1 DEF ToSet
  <2>2. named[i] \in ToSet(ms) /\ TierForScore(named[i].sim) # "low"
    BY <1>2, <1>3
  <2> QED BY <1>4, <2>1, <2>2
<1> QED BY <1>6, <1>7 DEF ls
\* The labels of accesses: one per name, where the name is first proposed.
FirstAt(ps, s) ==
  \E i \in DOMAIN ps : /\ ps[i].name = s.name /\ ps[i].new = s.new
                       /\ \A j \in DOMAIN ps : ps[j].name = s.name => i <= j

LEMMA AccessLabelsFounded ==
  ASSUME NEW cat \in Categories, NEW ms, IsList(ms), NEW refAcc, NEW newAcc, NEW syms,
         IsOffsets(refAcc), IsOffsets(newAcc),
         \A f \in DOMAIN newAcc : \A y \in ToSet(newAcc[f]) : y.addr \in Nat
  PROVE  LET ls == AccessLabels(cat, ms, refAcc, newAcc, syms)
             ps == Proposals(ms, refAcc, newAcc, syms)
         IN /\ IsList(ls)
            /\ \A s \in ToSet(ls) : Fresh(s) /\ s.cat = cat /\ FirstAt(ps, s)
<1> DEFINE ls == AccessLabels(cat, ms, refAcc, newAcc, syms)
           ps == Proposals(ms, refAcc, newAcc, syms)
           of(i) == {j \in DOMAIN ps : ps[j].name = ps[i].name}
           F == {i \in DOMAIN ps : i = Min(of(i))}
           firsts == Sorted(F)
           conf(i) == IF \E j \in of(i) : ps[j].new # ps[i].new THEN "low" ELSE ps[i].tier
           label(i) == Symbol(ps[i].name, ps[Max(of(i))].ref, ps[i].new, cat, conf(i),
                              Source(cat, {ps[j] : j \in of(i)}), 10)
<1>1. ls = [k \in DOMAIN firsts |-> label(firsts[k])]
  BY DEF AccessLabels
<1>2. /\ IsList(ps)
      /\ \A p \in ToSet(ps) : \E m \in ToSet(ms) :
           TierForScore(m.sim) # "low" /\ Founded(p, m, refAcc, newAcc, syms)
  BY ProposalsFounded
<1> HIDE DEF ps
<1>3. Len(ps) \in Nat /\ DOMAIN ps = 1..Len(ps) /\ \A i \in DOMAIN ps : ps[i] \in ToSet(ps)
  BY <1>2, ListPlaces
<1>4. ASSUME NEW i \in DOMAIN ps PROVE ps[i].new \in Nat /\ ps[i].tier \in {"high", "medium", "low"}
  <2>1. PICK m \in ToSet(ms) : Founded(ps[i], m, refAcc, newAcc, syms)
    BY <1>2, <1>3
  <2> QED BY <2>1 DEF Founded, TierForScore
<1>5. F \in SUBSET Int /\ IsFiniteSet(F)
  <2>1. IsFiniteSet(DOMAIN ps) /\ F \subseteq DOMAIN ps
    BY <1>3, FS_Interval
  <2>2. IsFiniteSet(F)
    BY <2>1, FS_Subset
  <2> QED BY <1>3, <2>2
<1>6. firsts \in Seq(F)
  <2> HIDE DEF F
  <2> QED BY <1>5, SortedList
<1>7. ASSUME NEW i \in F PROVE \A j \in DOMAIN ps : ps[j].name = ps[i].name => i <= j
  <2>1. of(i) \in SUBSET (1..Len(ps)) /\ of(i) # {} /\ i = Min(of(i))
    BY <1>3
  <2>2. \A j \in of(i) : Min(of(i)) <= j
    <3> HIDE DEF of
    <3> QED BY <1>3, <2>1, PlacesMinMax
  <2> QED BY <2>1, <2>2
<1>8. ASSUME NEW i \in F PROVE Fresh(label(i)) /\ label(i).cat = cat /\ FirstAt(ps, label(i))
  <2>1. i \in DOMAIN ps /\ ps[i].new \in Nat /\ ps[i].tier \in {"high", "medium", "low"}
    BY <1>4
  <2>2. /\ IsLabel(label(i)) /\ label(i).reference = None /\ label(i).familyMatch = TRUE
        /\ label(i).cat = cat /\ label(i).name = ps[i].name /\ label(i).new = ps[i].new
    <3> DEFINE name == ps[i].name
               new == ps[i].new
               ref == ps[Max(of(i))].ref
               c == conf(i)
               src == Source(cat, {ps[j] : j \in of(i)})
               score == 10
    <3>1. new \in Nat /\ score \in Int /\ cat \in Categories
      <4> HIDE DEF F
      <4> QED BY <2>1
    <3>2. c \in {"high", "medium", "low"}
      <4>1. CASE \E j \in of(i) : ps[j].new # ps[i].new
        BY <4>1
      <4>2. CASE ~\E j \in of(i) : ps[j].new # ps[i].new
        BY <2>1, <4>2
      <4> QED BY <4>1, <4>2
    <3>3. label(i) = Symbol(name, ref, new, cat, c, src, score)
      OBVIOUS
    <3> HIDE DEF name, new, ref, c, src, score, label
    <3>4. LET s == Symbol(name, ref, new, cat, c, src, score)
          IN /\ IsLabel(s) /\ s.reference = None /\ s.familyMatch = TRUE
             /\ s.name = name /\ s.new = new /\ s.cat = cat
      BY <3>1, <3>2 DEF IsLabel, LabelOK, Symbol, ConfidenceRank
    <3> QED BY <3>3, <3>4 DEF name, new
  <2> HIDE DEF label, F
  <2> QED BY <1>7, <2>1, <2>2 DEF Fresh, FirstAt
<1> HIDE DEF firsts, label, F, ls
<1>9. Len(firsts) \in Nat /\ DOMAIN firsts = 1..Len(firsts) /\ \A k \in DOMAIN firsts : firsts[k] \in F
  BY <1>6
<1>10. DOMAIN ls = 1..Len(firsts) /\ ls = [k \in 1..Len(firsts) |-> ls[k]]
  BY <1>1, <1>9
<1>11. IsList(ls)
  BY <1>9, <1>10, ListFrom
<1>12. \A s \in ToSet(ls) : Fresh(s) /\ s.cat = cat /\ FirstAt(ps, s)
  BY <1>1, <1>8, <1>9 DEF ToSet
<1> QED BY <1>11, <1>12 DEF ls, ps

\* A name has one first place, in a list of proposals and in one that goes on from it.
LEMMA FirstAgrees ==
  ASSUME NEW ps, NEW qs, IsList(ps), IsList(qs), Begins(ps, qs),
         NEW s, NEW t, FirstAt(ps, s), FirstAt(qs, t), s.name = t.name
  PROVE  s.new = t.new
<1>1. PICK i \in DOMAIN ps : /\ ps[i].name = s.name /\ ps[i].new = s.new
                             /\ \A j \in DOMAIN ps : ps[j].name = s.name => i <= j
  BY DEF FirstAt
<1>2. PICK k \in DOMAIN qs : /\ qs[k].name = t.name /\ qs[k].new = t.new
                             /\ \A j \in DOMAIN qs : qs[j].name = t.name => k <= j
  BY DEF FirstAt
<1>3. Len(ps) \in Nat /\ Len(qs) \in Nat /\ DOMAIN ps = 1..Len(ps) /\ DOMAIN qs = 1..Len(qs)
  BY ListPlaces
<1>4. i \in DOMAIN qs /\ qs[i] = ps[i]
  BY <1>1, <1>3 DEF Begins
<1>5. k <= i
  BY <1>1, <1>2, <1>4
<1>6. k \in DOMAIN ps /\ qs[k] = ps[k]
  BY <1>1, <1>3, <1>5 DEF Begins
<1>7. i <= k
  BY <1>1, <1>2, <1>6
<1>8. i = k
  BY <1>3, <1>5, <1>7
<1> QED BY <1>1, <1>2, <1>4, <1>8

LEMMA BeginsItself ==
  ASSUME NEW s, IsList(s)
  PROVE  Begins(s, s)
BY ListPlaces DEF Begins

\* A match that places a name for an access, in regions of the two ROMs.
SupportedIn(e, ms, s, Region) ==
  \E m \in ToSet(ms) :
    /\ TierForScore(m.sim) # "low" /\ m.ref \in DOMAIN e.acc /\ m.new \in DOMAIN world.acc
    /\ \E x \in ToSet(e.acc[m.ref]), y \in ToSet(world.acc[m.new]) :
         /\ x.addr \in DOMAIN e.syms /\ e.syms[x.addr].name = s.name
         /\ x.addr \in Region /\ y.addr = s.new /\ s.new \in Region
         /\ Distance(x.off, y.off) <= Window

LEMMA FirstAtSupported ==
  ASSUME NEW e, IsAccesses(e.acc), IsAccesses(world.acc), NEW Region,
         NEW refAcc, NEW newAcc, IsCollection(refAcc, e.acc, Region), IsCollection(newAcc, world.acc, Region),
         NEW ms, IsList(ms), NEW s, FirstAt(Proposals(ms, refAcc, newAcc, e.syms), s)
  PROVE  SupportedIn(e, ms, s, Region)
<1> DEFINE ps == Proposals(ms, refAcc, newAcc, e.syms)
<1>1. IsOffsets(refAcc) /\ IsOffsets(newAcc)
  BY DEF IsCollection, IsOffsets
<1>2. /\ IsList(ps)
      /\ \A p \in ToSet(ps) : \E m \in ToSet(ms) :
           TierForScore(m.sim) # "low" /\ Founded(p, m, refAcc, newAcc, e.syms)
  BY <1>1, ProposalsFounded
<1> HIDE DEF ps
<1>3. PICK i \in DOMAIN ps : ps[i].name = s.name /\ ps[i].new = s.new
  BY DEF FirstAt, ps
<1>4. PICK m \in ToSet(ms) : TierForScore(m.sim) # "low" /\ Founded(ps[i], m, refAcc, newAcc, e.syms)
  BY <1>2, ListPlaces
<1>5. PICK x \in ToSet(refAcc[m.ref]), y \in ToSet(newAcc[m.new]) :
        /\ x.addr \in DOMAIN e.syms /\ e.syms[x.addr].name = ps[i].name
        /\ y.addr = ps[i].new /\ Distance(y.off, x.off) <= Window
  BY <1>4 DEF Founded
<1>6. m.ref \in DOMAIN e.acc /\ m.new \in DOMAIN world.acc
  BY <1>4 DEF Founded, IsCollection
<1>7. PICK a \in ToSet(e.acc[m.ref]) : a.off = x.off /\ a.addr = x.addr /\ x.addr \in Region /\ x.off \in Int
  BY <1>6 DEF IsCollection
<1>8. PICK b \in ToSet(world.acc[m.new]) : b.off = y.off /\ b.addr = y.addr /\ y.addr \in Region /\ y.off \in Int
  BY <1>6 DEF IsCollection
<1>9. Distance(a.off, b.off) <= Window
  BY <1>5, <1>7, <1>8 DEF Distance
<1> QED BY <1>3, <1>4, <1>5, <1>6, <1>7, <1>8, <1>9 DEF SupportedIn
\* The proposals for flash data and for RAM, and that a label is where its name is first
\* proposed.
DataProposals(e, ms) == Proposals(ms, Collected(e.acc, CollectData), Collected(world.acc, CollectData), e.syms)
RamProposals(e, ms) == Proposals(ms, Collected(e.acc, CollectRam), Collected(world.acc, CollectRam), e.syms)

Proposed(e, ms, s) ==
  /\ s.cat = "data" => FirstAt(DataProposals(e, ms), s)
  /\ s.cat = "ram_global" => FirstAt(RamProposals(e, ms), s)

\* What two ROMs' matches say for a label.
Grounded(e, ms, s) ==
  \E m \in ToSet(ms) :
    /\ TierForScore(m.sim) # "low"
    /\ IF s.cat = "function" THEN m.ref = s.ref /\ m.new = s.new
       ELSE /\ m.ref \in DOMAIN e.acc /\ m.new \in DOMAIN world.acc
            /\ \E x \in ToSet(e.acc[m.ref]), y \in ToSet(world.acc[m.new]) :
                 /\ x.addr \in DOMAIN e.syms /\ e.syms[x.addr].name = s.name
                 /\ y.addr = s.new /\ SameRegion(x.addr, y.addr)
                 /\ Distance(x.off, y.off) <= Window

LEMMA GroundedMore ==
  ASSUME NEW e, NEW ms, NEW ns, ToSet(ms) \subseteq ToSet(ns), NEW s, Grounded(e, ms, s)
  PROVE  Grounded(e, ns, s)
BY DEF Grounded

LEMMA GroundedAccess ==
  ASSUME NEW e, NEW ms, NEW s, s.cat # "function", NEW Region \in {Flash, Ram}, SupportedIn(e, ms, s, Region)
  PROVE  Grounded(e, ms, s)
<1>1. \A a, b \in Region : SameRegion(a, b)
  BY DEF Flash, Ram, SameRegion
<1> QED BY <1>1 DEF SupportedIn, Grounded

\* Lists of labels that matches place.
Placed(e, ms, ls) ==
  IsList(ls) /\ \A s \in ToSet(ls) : Fresh(s) /\ Grounded(e, ms, s) /\ Proposed(e, ms, s)

LEMMA PlacedConcat ==
  ASSUME NEW e, NEW ms, NEW ls, NEW ks, Placed(e, ms, ls), Placed(e, ms, ks)
  PROVE  Placed(e, ms, ls \o ks)
BY ListConcat DEF Placed

LEMMA PlacedFunctions ==
  ASSUME NEW e, NEW ms, IsMatches(ms), NEW ns, ToSet(ms) \subseteq ToSet(ns)
  PROVE  Placed(e, ns, FunctionLabels(ms, e.syms))
<1> DEFINE ls == FunctionLabels(ms, e.syms)
<1>1. /\ IsList(ls)
      /\ \A s \in ToSet(ls) :
           /\ Fresh(s) /\ s.cat = "function"
           /\ \E m \in ToSet(ms) : TierForScore(m.sim) # "low" /\ m.ref = s.ref /\ m.new = s.new
  BY FunctionLabelsFounded
<1> HIDE DEF ls
<1>2. ASSUME NEW s \in ToSet(ls) PROVE Grounded(e, ns, s) /\ Proposed(e, ns, s)
  BY <1>1 DEF Grounded, Proposed
<1> QED BY <1>1, <1>2 DEF Placed, ls

LEMMA PlacedAccesses ==
  ASSUME NEW e, IsAccesses(e.acc), IsAccesses(world.acc), NEW ms, IsList(ms)
  PROVE  /\ Placed(e, ms, AccessLabels("data", ms, Collected(e.acc, CollectData),
                                       Collected(world.acc, CollectData), e.syms))
         /\ Placed(e, ms, AccessLabels("ram_global", ms, Collected(e.acc, CollectRam),
                                       Collected(world.acc, CollectRam), e.syms))
<1> DEFINE dref == Collected(e.acc, CollectData)
           dnew == Collected(world.acc, CollectData)
           rref == Collected(e.acc, CollectRam)
           rnew == Collected(world.acc, CollectRam)
<1>1. /\ IsCollection(dref, e.acc, Flash) /\ IsCollection(dnew, world.acc, Flash)
      /\ IsCollection(rref, e.acc, Ram) /\ IsCollection(rnew, world.acc, Ram)
  BY CollectsFlash, CollectsRam
<1>2. /\ \A ns : DataProposals(e, ns) = Proposals(ns, dref, dnew, e.syms)
      /\ \A ns : RamProposals(e, ns) = Proposals(ns, rref, rnew, e.syms)
  BY DEF DataProposals, RamProposals
<1> HIDE DEF dref, dnew, rref, rnew
<1>3. IsOffsets(dref) /\ IsOffsets(dnew) /\ IsOffsets(rref) /\ IsOffsets(rnew)
  BY <1>1 DEF IsCollection, IsOffsets
<1>4. /\ \A f \in DOMAIN dnew : \A y \in ToSet(dnew[f]) : y.addr \in Nat
      /\ \A f \in DOMAIN rnew : \A y \in ToSet(rnew[f]) : y.addr \in Nat
  BY <1>1 DEF IsCollection, Flash, Ram
<1>5. "data" \in Categories /\ "ram_global" \in Categories
  BY DEF Categories
<1>6. Placed(e, ms, AccessLabels("data", ms, dref, dnew, e.syms))
  <2> DEFINE ls == AccessLabels("data", ms, dref, dnew, e.syms)
  <2>1. IsList(ls) /\ \A s \in ToSet(ls) : Fresh(s) /\ s.cat = "data" /\ FirstAt(Proposals(ms, dref, dnew, e.syms), s)
    BY <1>3, <1>4, <1>5, AccessLabelsFounded
  <2> HIDE DEF ls
  <2>2. ASSUME NEW s \in ToSet(ls) PROVE Grounded(e, ms, s) /\ Proposed(e, ms, s)
    <3>1. SupportedIn(e, ms, s, Flash)
      BY <1>1, <2>1, FirstAtSupported
    <3>2. Grounded(e, ms, s)
      BY <2>1, <3>1, GroundedAccess
    <3> QED BY <1>2, <2>1, <3>2 DEF Proposed
  <2> QED BY <2>1, <2>2 DEF Placed, ls
<1>7. Placed(e, ms, AccessLabels("ram_global", ms, rref, rnew, e.syms))
  <2> DEFINE ls == AccessLabels("ram_global", ms, rref, rnew, e.syms)
  <2>1. IsList(ls) /\ \A s \in ToSet(ls) : Fresh(s) /\ s.cat = "ram_global" /\ FirstAt(Proposals(ms, rref, rnew, e.syms), s)
    BY <1>3, <1>4, <1>5, AccessLabelsFounded
  <2> HIDE DEF ls
  <2>2. ASSUME NEW s \in ToSet(ls) PROVE Grounded(e, ms, s) /\ Proposed(e, ms, s)
    <3>1. SupportedIn(e, ms, s, Ram)
      BY <1>1, <2>1, FirstAtSupported
    <3>2. Grounded(e, ms, s)
      BY <2>1, <3>1, GroundedAccess
    <3> QED BY <1>2, <2>1, <3>2 DEF Proposed
  <2> QED BY <2>1, <2>2 DEF Placed, ls
<1> QED BY <1>6, <1>7 DEF dref, dnew, rref, rnew

\* The first pass between two ROMs.
LEMMA CrossPlaced ==
  ASSUME NEW e, IsReference(e), IsAccesses(world.acc)
  PROVE  LET c == PropagateCross(e)
         IN /\ c.matches = e.matches /\ IsMatches(e.matches)
            /\ Placed(e, e.matches, c.labels) /\ Placed(e, e.matches, c.ram)
<1> DEFINE ms == e.matches
           fns == FunctionLabels(ms, e.syms)
           data == AccessLabels("data", ms, Collected(e.acc, CollectData), Collected(world.acc, CollectData), e.syms)
           ram == AccessLabels("ram_global", ms, Collected(e.acc, CollectRam), Collected(world.acc, CollectRam), e.syms)
<1>1. IsMatches(ms) /\ IsList(ms) /\ IsAccesses(e.acc)
  <2>1. IsAccesses(e.acc) /\ IsList(ms)
    BY DEF IsReference, IsList
  <2>2. \A m \in ToSet(ms) : m.ref \in Nat /\ m.new \in Nat /\ m.sim \in 0..10
    BY DEF IsReference
  <2>3. \A m \in ToSet(ms) : IsMatch(m)
    BY <2>2 DEF IsMatch
  <2> QED BY <2>1, <2>3 DEF IsMatches
<1>2. PropagateCross(e) = [matches |-> ms, labels |-> fns \o data \o ram, ram |-> ram]
  BY DEF PropagateCross
<1>3. Placed(e, ms, data) /\ Placed(e, ms, ram)
  BY <1>1, PlacedAccesses
<1>4. Placed(e, ms, fns)
  BY <1>1, PlacedFunctions
<1> HIDE DEF ms, fns, data, ram
<1>5. Placed(e, ms, fns \o data \o ram)
  BY <1>3, <1>4, PlacedConcat
<1> QED BY <1>1, <1>2, <1>3, <1>5 DEF ms

\* What the first pass has placed stays placed when matches are added.
LEMMA PlacedLater ==
  ASSUME NEW e, IsAccesses(e.acc), IsAccesses(world.acc), NEW ms, NEW ns, IsList(ms), IsList(ns),
         NEW s, NEW t, Proposed(e, ms, s), Proposed(e, ms \o ns, t),
         s.name = t.name, s.cat = t.cat, s.cat \in {"data", "ram_global"}
  PROVE  s.new = t.new
<1> DEFINE dref == Collected(e.acc, CollectData)
           dnew == Collected(world.acc, CollectData)
           rref == Collected(e.acc, CollectRam)
           rnew == Collected(world.acc, CollectRam)
<1>1. IsOffsets(dref) /\ IsOffsets(dnew) /\ IsOffsets(rref) /\ IsOffsets(rnew)
  BY CollectsFlash, CollectsRam DEF IsCollection, IsOffsets
<1>2. /\ \A xs : DataProposals(e, xs) = Proposals(xs, dref, dnew, e.syms)
      /\ \A xs : RamProposals(e, xs) = Proposals(xs, rref, rnew, e.syms)
  BY DEF DataProposals, RamProposals
<1> HIDE DEF dref, dnew, rref, rnew
<1>3. /\ Begins(DataProposals(e, ms), DataProposals(e, ms \o ns))
      /\ Begins(RamProposals(e, ms), RamProposals(e, ms \o ns))
  BY <1>1, <1>2, ProposalsBegin
<1>4. IsList(ms \o ns)
  BY ListConcat
<1>5. /\ IsList(DataProposals(e, ms)) /\ IsList(DataProposals(e, ms \o ns))
      /\ IsList(RamProposals(e, ms)) /\ IsList(RamProposals(e, ms \o ns))
  BY <1>1, <1>2, <1>4, ProposalsFounded
<1>6. CASE s.cat = "data"
  BY <1>3, <1>5, <1>6, FirstAgrees DEF Proposed
<1>7. CASE s.cat = "ram_global"
  BY <1>3, <1>5, <1>7, FirstAgrees DEF Proposed
<1> QED BY <1>6, <1>7
\* The pass over one ROM: every label is a symbol's, at its own address.
Same(e, s) == s.new \in DOMAIN e.syms /\ e.syms[s.new].name = s.name /\ e.syms[s.new].cat = s.cat

LEMMA SameLabels ==
  ASSUME NEW e, IsReference(e), NEW cat \in Categories, NEW src
  PROVE  LET order == SymbolsOf(e, cat)
             ls == [i \in DOMAIN order |-> Symbol(e.syms[order[i]].name, order[i], order[i], cat, "high", src, 10)]
         IN /\ IsList(order) /\ \A i \in DOMAIN order : order[i] \in Nat \cap DOMAIN e.syms
            /\ \A i \in DOMAIN order : e.syms[order[i]].cat = cat
            /\ IsList(ls) /\ \A s \in ToSet(ls) : Fresh(s) /\ Same(e, s)
<1> DEFINE S == {a \in DOMAIN e.syms : e.syms[a].cat = cat}
           order == SymbolsOf(e, cat)
           label(a) == Symbol(e.syms[a].name, a, a, cat, "high", src, 10)
           ls == [i \in DOMAIN order |-> label(order[i])]
<1>1. IsFiniteSet(DOMAIN e.syms) /\ DOMAIN e.syms \subseteq Nat
  BY DEF IsReference
<1>2. IsFiniteSet(S) /\ S \in SUBSET Int
  <2>1. IsFiniteSet(S)
    BY <1>1, FS_Subset
  <2> QED BY <1>1, <2>1
<1>3. order \in Seq(S)
  <2>1. order = Sorted(S)
    BY DEF SymbolsOf
  <2> HIDE DEF S, order
  <2> QED BY <1>2, <2>1, SortedList
<1>4. ASSUME NEW a \in S PROVE Fresh(label(a)) /\ Same(e, label(a))
  <2> DEFINE name == e.syms[a].name
             score == 10
             conf == "high"
  <2>1. a \in Nat /\ score \in Int /\ cat \in Categories /\ conf \in {"high", "medium", "low"}
        /\ a \in DOMAIN e.syms /\ e.syms[a].cat = cat /\ e.syms[a].name = name
    <3> HIDE DEF Categories
    <3> QED BY <1>1
  <2>2. label(a) = Symbol(name, a, a, cat, conf, src, score)
    OBVIOUS
  <2> HIDE DEF name, conf, score, label
  <2>3. LET s == Symbol(name, a, a, cat, conf, src, score)
        IN /\ IsLabel(s) /\ s.reference = None /\ s.familyMatch = TRUE
           /\ s.name = name /\ s.new = a /\ s.cat = cat
    BY <2>1 DEF IsLabel, LabelOK, Symbol, ConfidenceRank
  <2> QED BY <2>1, <2>2, <2>3 DEF Fresh, Same
<1> HIDE DEF order, label
<1>5. Len(order) \in Nat /\ DOMAIN order = 1..Len(order) /\ \A i \in DOMAIN order : order[i] \in S
  BY <1>3
<1>6. IsList(order)
  BY <1>3, ListOf
<1>7. DOMAIN ls = 1..Len(order) /\ ls = [i \in 1..Len(order) |-> ls[i]] /\ \A i \in DOMAIN ls : ls[i] = label(order[i])
  BY <1>5
<1>8. IsList(ls)
  <2> HIDE DEF ls
  <2> QED BY <1>5, <1>7, ListFrom
<1>9. \A s \in ToSet(ls) : Fresh(s) /\ Same(e, s)
  <2> HIDE DEF ls
  <2> QED BY <1>4, <1>5, <1>7 DEF ToSet
<1>10. \A i \in DOMAIN order : order[i] \in Nat \cap DOMAIN e.syms /\ e.syms[order[i]].cat = cat
  BY <1>1, <1>5
<1> QED BY <1>6, <1>8, <1>9, <1>10 DEF order, label

LEMMA IdentitySame ==
  ASSUME NEW e, IsReference(e)
  PROVE  LET c == PropagateIdentity(e)
         IN /\ IsMatches(c.matches) /\ IsList(c.labels) /\ c.ram = <<>>
            /\ \A s \in ToSet(c.labels) : Fresh(s) /\ Same(e, s)
<1> DEFINE same(cat, src) == [i \in DOMAIN SymbolsOf(e, cat) |->
                                LET a == SymbolsOf(e, cat)[i]
                                IN Symbol(e.syms[a].name, a, a, cat, "high", src, 10)]
           fns == SymbolsOf(e, "function")
           matches == [i \in DOMAIN fns |-> [ref |-> fns[i], new |-> fns[i], src |-> "identity", sim |-> 10,
                                             name |-> e.syms[fns[i]].name]]
           used == same("ram_global", "ram_global")
           T == {s \in ToSet(used) : s.new \in RamRefs}
           ram == Filter(used, T)
           data == same("data", "identity")
           named == FunctionLabels(matches, e.syms)
<1>1. PropagateIdentity(e) = [matches |-> matches, labels |-> named \o ram \o data, ram |-> <<>>]
  BY DEF PropagateIdentity
<1>2. "function" \in Categories /\ "data" \in Categories /\ "ram_global" \in Categories
  BY DEF Categories
<1>3. /\ IsList(used) /\ \A s \in ToSet(used) : Fresh(s) /\ Same(e, s)
      /\ IsList(data) /\ \A s \in ToSet(data) : Fresh(s) /\ Same(e, s)
  BY <1>2, SameLabels
<1>4. IsList(ram) /\ \A s \in ToSet(ram) : Fresh(s) /\ Same(e, s)
  <2> HIDE DEF used, T
  <2>1. IsList(ram) /\ ToSet(ram) = ToSet(used) \cap T
    BY <1>3, FilterList
  <2> QED BY <1>3, <2>1
<1>5. /\ IsList(fns)
      /\ \A i \in DOMAIN fns : fns[i] \in Nat \cap DOMAIN e.syms /\ e.syms[fns[i]].cat = "function"
  BY <1>2, SameLabels
<1> HIDE DEF fns
<1>6. Len(fns) \in Nat /\ DOMAIN fns = 1..Len(fns)
  BY <1>5, ListPlaces
<1>7. /\ DOMAIN matches = 1..Len(fns) /\ matches = [i \in 1..Len(fns) |-> matches[i]]
      /\ \A i \in 1..Len(fns) :
           /\ matches[i].ref = fns[i] /\ matches[i].new = fns[i] /\ matches[i].sim = 10
           /\ matches[i].name = e.syms[fns[i]].name
  BY <1>6
<1> HIDE DEF matches
<1>8. IsMatches(matches) /\ \A m \in ToSet(matches) : m.new \in DOMAIN e.syms /\ m.ref = m.new
                             /\ e.syms[m.new].cat = "function" /\ m.name = e.syms[m.new].name
  <2>1. IsList(matches)
    BY <1>6, <1>7, ListFrom
  <2>2. ASSUME NEW m \in ToSet(matches)
        PROVE  /\ IsMatch(m) /\ m.new \in DOMAIN e.syms /\ m.ref = m.new
               /\ e.syms[m.new].cat = "function" /\ m.name = e.syms[m.new].name
    <3>1. PICK i \in 1..Len(fns) : m = matches[i]
      BY <1>7 DEF ToSet
    <3> QED BY <1>5, <1>6, <1>7, <3>1 DEF IsMatch
  <2> QED BY <2>1, <2>2 DEF IsMatches
<1>9. IsList(named) /\ \A s \in ToSet(named) : Fresh(s) /\ Same(e, s)
  <2>1. /\ IsList(named)
        /\ \A s \in ToSet(named) :
             /\ Fresh(s) /\ s.cat = "function"
             /\ \E m \in ToSet(matches) : m.ref = s.ref /\ m.new = s.new /\ s.name = MatchName(m, e.syms)
    BY <1>8, FunctionLabelsFounded
  <2>2. \A m \in ToSet(matches) : MatchName(m, e.syms) = e.syms[m.new].name
    BY <1>8 DEF MatchName
  <2> HIDE DEF named
  <2> QED BY <1>8, <2>1, <2>2 DEF Same
<1> HIDE DEF used, ram, data, named, same
<1>10. IsList(named \o ram \o data) /\ \A s \in ToSet(named \o ram \o data) : Fresh(s) /\ Same(e, s)
  <2>1. IsList(named \o ram) /\ ToSet(named \o ram) = ToSet(named) \cup ToSet(ram)
    BY <1>4, <1>9, ListConcat
  <2>2. IsList(named \o ram \o data) /\ ToSet(named \o ram \o data) = ToSet(named \o ram) \cup ToSet(data)
    BY <1>3, <2>1, ListConcat
  <2> QED BY <1>3, <1>4, <1>9, <2>1, <2>2
<1> QED BY <1>1, <1>8, <1>10
-----------------------------------------------------------------------------
\* The matches by RAM signatures.
IsListing(acc) ==
  /\ IsFiniteSet(DOMAIN acc) /\ DOMAIN acc \subseteq Nat
  /\ \A f \in DOMAIN acc : IsList(acc[f])

LEMMA SignatureFinite ==
  ASSUME NEW acc, IsListing(acc), NEW label
  PROVE  /\ DOMAIN Signatures(acc, label) \subseteq DOMAIN acc
         /\ \A f \in DOMAIN Signatures(acc, label) : IsFiniteSet(Signatures(acc, label)[f])
<1> DEFINE places(f) == {i \in DOMAIN acc[f] : acc[f][i].addr \in DOMAIN label}
           names(f) == {label[acc[f][i].addr] : i \in places(f)}
           D == {f \in DOMAIN acc : names(f) # {}}
<1>1. Signatures(acc, label) = [f \in D |-> names(f)]
  BY DEF Signatures
<1>2. ASSUME NEW f \in DOMAIN acc PROVE IsFiniteSet(names(f))
  <2> DEFINE g == [i \in places(f) |-> label[acc[f][i].addr]]
  <2>1. IsFiniteSet(DOMAIN acc[f])
    BY ListPlaces, FS_Interval DEF IsListing
  <2>2. IsFiniteSet(places(f))
    BY <2>1, FS_Subset
  <2>3. names(f) = {g[i] : i \in places(f)}
    OBVIOUS
  <2> HIDE DEF names, places, g
  <2>4. IsFiniteSet({g[i] : i \in places(f)})
    BY <2>2, FiniteValues
  <2> QED BY <2>3, <2>4
<1> HIDE DEF names
<1>3. D \subseteq DOMAIN acc
  OBVIOUS
<1> QED BY <1>1, <1>2, <1>3

LEMMA ScoresInt ==
  ASSUME NEW A, NEW B, IsFiniteSet(A), IsFiniteSet(B)
  PROVE  LET shared == Cardinality(A \cap B)
             all == Cardinality(A \cup B)
         IN (IF shared >= 3 /\ 10 * shared >= 6 * all THEN (10 * shared) \div all ELSE 0) \in Int
<1> DEFINE shared == Cardinality(A \cap B)
           all == Cardinality(A \cup B)
<1>1. IsFiniteSet(A \cup B) /\ A \cap B \subseteq A \cup B
  BY FS_Union
<1>2. shared \in Nat /\ all \in Nat /\ shared <= all
  BY <1>1, FS_Subset, FS_CardinalityType
<1> HIDE DEF shared, all
<1>3. ASSUME shared >= 3 PROVE (10 * shared) \div all \in Int
  <2>1. all \in Nat \ {0} /\ 10 * shared \in Int
    BY <1>2, <1>3
  <2> QED BY <2>1
<1>4. (IF shared >= 3 /\ 10 * shared >= 6 * all THEN (10 * shared) \div all ELSE 0) \in Int
  <2>1. CASE shared >= 3 /\ 10 * shared >= 6 * all
    BY <1>3, <2>1
  <2>2. CASE ~(shared >= 3 /\ 10 * shared >= 6 * all)
    BY <2>2
  <2> QED BY <2>1, <2>2
<1> QED BY <1>4 DEF shared, all

LEMMA SignatureMatchesList ==
  ASSUME NEW refAcc, NEW newAcc, IsListing(refAcc), IsListing(newAcc),
         NEW refLabel, NEW newLabel, NEW matches, NEW syms
  PROVE  IsMatches(SignatureMatches(refAcc, newAcc, refLabel, newLabel, matches, syms))
<1> DEFINE rs == Signatures(refAcc, refLabel)
           ns == Signatures(newAcc, newLabel)
           scores == SignatureScores(rs, ns)
           found == RamSignatureMatches(scores, ToSet(matches))
           named(m) == [ref |-> m.ref, new |-> m.new, src |-> m.src, sim |-> m.sim,
                        name |-> IF m.ref \in DOMAIN syms THEN syms[m.ref].name ELSE "FUN"]
           Refs == {m.ref : m \in found}
           order == Sorted(Refs)
           pick(k) == CHOOSE m \in found : m.ref = order[k]
           ls == [k \in DOMAIN order |-> named(pick(k))]
<1>1. SignatureMatches(refAcc, newAcc, refLabel, newLabel, matches, syms) = ls
  BY DEF SignatureMatches
<1>2. /\ DOMAIN rs \subseteq DOMAIN refAcc /\ DOMAIN ns \subseteq DOMAIN newAcc
      /\ \A f \in DOMAIN rs : IsFiniteSet(rs[f])
      /\ \A f \in DOMAIN ns : IsFiniteSet(ns[f])
  BY SignatureFinite
<1> HIDE DEF rs, ns
<1>3. DOMAIN scores = (DOMAIN rs) \X (DOMAIN ns) /\ \A p \in DOMAIN scores : scores[p] \in Int
  <2> DEFINE shared(p) == Cardinality(rs[p[1]] \cap ns[p[2]])
             all(p) == Cardinality(rs[p[1]] \cup ns[p[2]])
             score(p) == IF shared(p) >= 3 /\ 10 * shared(p) >= 6 * all(p) THEN (10 * shared(p)) \div all(p) ELSE 0
  <2>1. scores = [p \in (DOMAIN rs) \X (DOMAIN ns) |-> score(p)]
    BY DEF SignatureScores
  <2>2. ASSUME NEW p \in (DOMAIN rs) \X (DOMAIN ns) PROVE score(p) \in Int
    <3>1. IsFiniteSet(rs[p[1]]) /\ IsFiniteSet(ns[p[2]])
      BY <1>2
    <3> QED BY <3>1, ScoresInt
  <2> HIDE DEF score, scores
  <2> QED BY <2>1, <2>2
<1>4. ASSUME NEW m \in found
      PROVE  m.ref \in DOMAIN refAcc /\ m.new \in DOMAIN newAcc /\ m.sim \in Int
  <2>1. \E p \in DOMAIN scores : m = Matched(p[1], p[2], "ram_signature", scores[p])
    BY DEF RamSignatureMatches
  <2> HIDE DEF scores, found
  <2>2. PICK p \in DOMAIN scores : m = Matched(p[1], p[2], "ram_signature", scores[p])
    BY <2>1
  <2>3. m.ref = p[1] /\ m.new = p[2] /\ m.sim = scores[p]
    BY <2>2 DEF Matched
  <2> QED BY <1>2, <1>3, <2>3
<1> HIDE DEF found, scores
<1>5. Refs \subseteq DOMAIN refAcc /\ IsFiniteSet(DOMAIN refAcc) /\ DOMAIN refAcc \subseteq Nat /\ DOMAIN newAcc \subseteq Nat
  BY <1>4 DEF IsListing
<1>6. Refs \in SUBSET Int /\ IsFiniteSet(Refs)
  <2>1. IsFiniteSet(Refs)
    BY <1>5, FS_Subset
  <2> QED BY <1>5, <2>1
<1>7. order \in Seq(Refs)
  <2> HIDE DEF Refs
  <2> QED BY <1>6, SortedList
<1> HIDE DEF order
<1>8. Len(order) \in Nat /\ DOMAIN order = 1..Len(order) /\ \A k \in DOMAIN order : order[k] \in Refs
  BY <1>7
<1>9. ASSUME NEW k \in DOMAIN order PROVE pick(k) \in found
  BY <1>8
<1>10. ASSUME NEW m \in found PROVE IsMatch(named(m))
  <2>1. m.ref \in Nat /\ m.new \in Nat /\ m.sim \in Int
    BY <1>4, <1>5
  <2>2. named(m).ref = m.ref /\ named(m).new = m.new /\ named(m).sim = m.sim
    OBVIOUS
  <2> HIDE DEF named
  <2> QED BY <2>1, <2>2 DEF IsMatch
<1> HIDE DEF named, pick
<1>11. DOMAIN ls = 1..Len(order) /\ ls = [k \in 1..Len(order) |-> ls[k]] /\ \A k \in DOMAIN ls : ls[k] = named(pick(k))
  BY <1>8
<1> HIDE DEF ls
<1>12. IsList(ls)
  BY <1>8, <1>11, ListFrom
<1>13. \A m \in ToSet(ls) : IsMatch(m)
  BY <1>8, <1>9, <1>10, <1>11 DEF ToSet
<1> QED BY <1>1, <1>12, <1>13 DEF IsMatches

LEMMA CollectedListing ==
  ASSUME NEW acc, IsAccesses(acc)
  PROVE  IsListing(Collected(acc, CollectRam))
<1> DEFINE col == Collected(acc, CollectRam)
<1>1. IsCollection(col, acc, Ram)
  BY CollectsRam
<1>2. IsFiniteSet(DOMAIN acc) /\ DOMAIN acc \subseteq Nat
  BY DEF IsAccesses
<1> HIDE DEF col
<1>3. IsListing(col)
  BY <1>1, <1>2 DEF IsCollection, IsListing
<1> QED BY <1>3 DEF col

LEMMA NewSignaturesList ==
  ASSUME NEW e, IsAccesses(e.acc), IsAccesses(world.acc)
  PROVE  IsMatches(NewSignatures(e))
<1> DEFINE ref == [a \in {a \in DOMAIN e.syms : e.syms[a].cat = "ram_global"} |-> e.syms[a].name]
           new == [a \in Addresses(current.ram) |->
                     current.ram[Max({i \in DOMAIN current.ram : current.ram[i].new = a})].name]
           rcol == Collected(e.acc, CollectRam)
           ncol == Collected(world.acc, CollectRam)
<1>1. NewSignatures(e) = IF current.ram = <<>> THEN <<>>
                         ELSE SignatureMatches(rcol, ncol, ref, new, current.matches, e.syms)
  BY DEF NewSignatures
<1>2. IsListing(rcol) /\ IsListing(ncol)
  BY CollectedListing
<1> HIDE DEF ref, new, rcol, ncol
<1>3. IsMatches(SignatureMatches(rcol, ncol, ref, new, current.matches, e.syms))
  BY <1>2, SignatureMatchesList
<1>4. IsMatches(<<>>)
  BY DEF IsMatches, IsList, ToSet
<1> QED BY <1>1, <1>3, <1>4
-----------------------------------------------------------------------------
\* The invariant, in layers.  First: the references selected.
Phases ==
  {"select", "propagate", "second", "stamp", "merge", "mut", "obd", "can", "mode23",
   "write", "done", "refused"}

SelectedOK ==
  /\ world \in Worlds /\ phase \in Phases
  /\ IsList(refs) /\ ToSet(refs) \subseteq ToSet(world.refs)
  /\ \A i, j \in DOMAIN refs : refs[i].id = refs[j].id => i = j
  /\ phase \notin {"select", "refused"} => refs # <<>>

LEMMA WorldFacts ==
  ASSUME NEW w \in Worlds
  PROVE  /\ IsList(w.refs) /\ \A e \in ToSet(w.refs) : IsReference(e)
         /\ \A i, j \in DOMAIN w.refs : w.refs[i].id = w.refs[j].id => i = j
         /\ IsAccesses(w.acc)
         /\ \A f \in DOMAIN w.calls : IsFiniteSet(w.calls[f]) /\ w.calls[f] \subseteq Nat \cap DOMAIN w.site
         /\ \A s \in DOMAIN w.site :
              /\ IsList(w.site[s].code)
              /\ \A i \in ToSet(w.site[s].code) : IsInstruction(i)
              /\ w.site[s].halves \in Seq(Int)
<1>1. /\ w.refs \in Seq(ToSet(w.refs)) /\ \A e \in ToSet(w.refs) : IsReference(e)
      /\ \A i, j \in DOMAIN w.refs : w.refs[i].id = w.refs[j].id => i = j
      /\ IsAccesses(w.acc)
  BY AnalyzeAssumption
<1>2. \A f \in DOMAIN w.calls : IsFiniteSet(w.calls[f]) /\ w.calls[f] \subseteq Nat \cap DOMAIN w.site
  BY AnalyzeAssumption
<1>3. \A s \in DOMAIN w.site :
        /\ w.site[s].code \in Seq(ToSet(w.site[s].code))
        /\ \A i \in ToSet(w.site[s].code) : IsInstruction(i)
        /\ w.site[s].halves \in Seq(Int)
  BY AnalyzeAssumption
<1> QED BY <1>1, <1>2, <1>3 DEF IsList

\* What the selection takes: usable references, each once.
LEMMA SelectOnce ==
  ASSUME world \in Worlds, Select
  PROVE  /\ IsList(refs') /\ ToSet(refs') \subseteq ToSet(world.refs)
         /\ \A i, j \in DOMAIN refs' : refs'[i].id = refs'[j].id => i = j
         /\ phase' \in {"propagate", "refused"} /\ (phase' = "propagate" => refs' # <<>>)
<1> DEFINE use == {i \in DOMAIN world.refs : world.refs[i].variant = world.variant /\ world.refs[i].hasRom}
           before(i, j) == \/ world.refs[i].priority > world.refs[j].priority
                           \/ world.refs[i].priority = world.refs[j].priority /\ i < j
           order == [k \in 1..Cardinality(use) |->
                       CHOOSE i \in use : Cardinality({j \in use : before(j, i)}) = k - 1]
           R == {z \in use \X use : before(z[1], z[2])}
<1>1. /\ refs' = [k \in DOMAIN order |-> world.refs[order[k]]]
      /\ phase' = IF use = {} THEN "refused" ELSE "propagate"
  BY DEF Select
<1>2. /\ Len(world.refs) \in Nat /\ DOMAIN world.refs = 1..Len(world.refs)
      /\ \A i \in DOMAIN world.refs : world.refs[i] \in ToSet(world.refs) /\ world.refs[i].priority \in Int
      /\ \A i, j \in DOMAIN world.refs : world.refs[i].id = world.refs[j].id => i = j
  <2>1. IsList(world.refs) /\ \A e \in ToSet(world.refs) : e.priority \in Int
    BY WorldFacts DEF IsReference
  <2> QED BY <2>1, ListPlaces, WorldFacts
<1>3. use \subseteq DOMAIN world.refs /\ IsFiniteSet(use)
  <2>1. IsFiniteSet(DOMAIN world.refs)
    BY <1>2, FS_Interval
  <2> QED BY <2>1, FS_Subset
<1> HIDE DEF use
<1>4. IsStrictOrder(R, use)
  <2>1. \A x, y \in use : <<x, y>> \in R <=> before(x, y)
    OBVIOUS
  <2>2. \A x \in use : x \in Int /\ world.refs[x].priority \in Int
    BY <1>2, <1>3
  <2>3. \A x \in use : ~before(x, x)
    BY <2>2
  <2>4. \A x, y \in use : x # y => before(x, y) \/ before(y, x)
    BY <2>2
  <2>5. \A x, y, z \in use : before(x, y) /\ before(y, z) => before(x, z)
    BY <2>2
  <2> HIDE DEF R, before
  <2> QED BY <2>1, <2>3, <2>4, <2>5 DEF IsStrictOrder
<1>5. order = Listing(use, R)
  <2>1. \A i \in use : {j \in use : before(j, i)} = Under(use, R, i)
    BY DEF Under
  <2>2. \A i \in use : Cardinality({j \in use : before(j, i)}) = RankIn(use, R, i)
    BY <2>1 DEF RankIn
  <2> HIDE DEF before, R
  <2> DEFINE A(k) == CHOOSE i \in use : Cardinality({j \in use : before(j, i)}) = k - 1
             B(k) == CHOOSE i \in use : RankIn(use, R, i) = k - 1
  <2>3. \A k \in 1..Cardinality(use) : A(k) = B(k)
    BY <2>2
  <2>4. order = [k \in 1..Cardinality(use) |-> A(k)] /\ Listing(use, R) = [k \in 1..Cardinality(use) |-> B(k)]
    BY DEF Listing
  <2> HIDE DEF A, B, order
  <2> QED BY <2>3, <2>4
<1> HIDE DEF order, R, before
<1>6. /\ order \in Seq(use) /\ DOMAIN order = 1..Cardinality(use) /\ Len(order) = Cardinality(use)
      /\ \A p, q \in DOMAIN order : p < q => <<order[p], order[q]>> \in R
  BY <1>3, <1>4, <1>5, Enumeration
<1>7. Cardinality(use) \in Nat /\ \A k \in DOMAIN order : order[k] \in use /\ k \in Int
  BY <1>3, <1>6, FS_CardinalityType
<1>8. ASSUME NEW p \in DOMAIN order, NEW q \in DOMAIN order, order[p] = order[q] PROVE p = q
  <2>1. \A x \in use : <<x, x>> \notin R
    BY <1>4 DEF IsStrictOrder
  <2>2. ~(p < q) /\ ~(q < p)
    BY <1>6, <1>7, <1>8, <2>1
  <2> QED BY <1>7, <2>2
<1>9. /\ DOMAIN refs' = 1..Cardinality(use) /\ refs' = [k \in 1..Cardinality(use) |-> refs'[k]]
      /\ \A k \in DOMAIN refs' : refs'[k] = world.refs[order[k]] /\ k \in DOMAIN order
  BY <1>1, <1>6
<1>10. IsList(refs') /\ Len(refs') = Cardinality(use)
  BY <1>7, <1>9, ListFrom
<1>11. ToSet(refs') \subseteq ToSet(world.refs)
  BY <1>2, <1>3, <1>7, <1>9 DEF ToSet
<1>12. \A i, j \in DOMAIN refs' : refs'[i].id = refs'[j].id => i = j
  BY <1>2, <1>3, <1>7, <1>8, <1>9
<1>13. use # {} => refs' # <<>>
  <2>1. use # {} => Cardinality(use) # 0
    BY <1>3, FS_EmptySet
  <2> QED BY <1>10, <2>1
<1> QED BY <1>1, <1>10, <1>11, <1>12, <1>13

LEMMA SelectedInvariant == Spec => []SelectedOK
<1>1. Init => SelectedOK
  BY DEF Init, SelectedOK, Phases, IsList, ToSet
<1>2. SelectedOK /\ [Next]_vars => SelectedOK'
  <2> SUFFICES ASSUME SelectedOK, [Next]_vars PROVE SelectedOK'
    OBVIOUS
  <2>1. CASE Select
    <3>1. /\ IsList(refs') /\ ToSet(refs') \subseteq ToSet(world.refs)
          /\ \A i, j \in DOMAIN refs' : refs'[i].id = refs'[j].id => i = j
          /\ phase' \in {"propagate", "refused"} /\ (phase' = "propagate" => refs' # <<>>)
      BY <2>1, SelectOnce DEF SelectedOK
    <3>2. world' = world
      BY <2>1 DEF Select
    <3> QED BY <3>1, <3>2 DEF SelectedOK, Phases
  <2>2. ASSUME UNCHANGED <<world, refs>>, phase' \in Phases, phase' \notin {"select", "refused"} => phase \notin {"select", "refused"}
        PROVE  SelectedOK'
    BY <2>2 DEF SelectedOK
  <2>3. CASE Propagate \/ SecondPass \/ Stamp
    BY <2>2, <2>3 DEF Propagate, SecondPass, Stamp, Phases
  <2>4. CASE Merge \/ MutPass \/ ObdPass \/ CanPass \/ Mode23 \/ WriteOutputs
    BY <2>2, <2>4 DEF Merge, MutPass, ObdPass, CanPass, Mode23, WriteOutputs, Phases
  <2>5. CASE Returned \/ UNCHANGED vars
    BY <2>2, <2>5 DEF Returned, vars, SelectedOK
  <2> QED BY <2>1, <2>3, <2>4, <2>5 DEF Next
<1> QED BY <1>1, <1>2, PTL DEF Spec
-----------------------------------------------------------------------------
\* Second: the results of the references.
Agree(ls) ==
  \A s, t \in ToSet(ls) : s.name = t.name /\ s.cat = t.cat /\ s.cat # "function" => s.new = t.new

\* The labels of one reference before it is known whose they are, and after.
PassOK(e, c) ==
  /\ IsMatches(c.matches) /\ IsList(c.labels)
  /\ \A s \in ToSet(c.labels) : Fresh(s) /\ Supported(e, c, s)
  /\ ~SelfDiff => Agree(c.labels)

ResultOK(e, r) ==
  /\ r.id = e.id /\ IsList(r.labels)
  /\ \A s \in ToSet(r.labels) :
       /\ IsLabel(s) /\ s.reference = e.id /\ Supported(e, r, s)
       /\ e.family # refs[1].family /\ s.cat # "function" => s.conf = "low" /\ s.familyMatch = FALSE
  /\ ~SelfDiff => Agree(r.labels)

LEMMA SupportedSame ==
  ASSUME NEW e, NEW r, NEW s, SelfDiff, Same(e, s)
  PROVE  Supported(e, r, s)
BY DEF Supported, Same

LEMMA SupportedGrounded ==
  ASSUME NEW e, NEW r, NEW s, ~SelfDiff
  PROVE  Supported(e, r, s) <=> Grounded(e, r.matches, s)
BY DEF Supported, Grounded

LEMMA PlacedAgree ==
  ASSUME NEW e, IsAccesses(e.acc), IsAccesses(world.acc), NEW ms, NEW ns, IsList(ms), IsList(ns),
         NEW ls, NEW ks, Placed(e, ms, ls), Placed(e, ms \o ns, ks)
  PROVE  Agree(ls \o ks)
<1>1. ToSet(ls \o ks) = ToSet(ls) \cup ToSet(ks)
  BY ListConcat DEF Placed
<1>2. \A s \in ToSet(ls) \cup ToSet(ks) : s.cat # "function" => s.cat \in {"data", "ram_global"}
  BY DEF Placed, Fresh, IsLabel, LabelOK, Categories
<1> DEFINE none == <<>>
           all == ms \o ns
<1>3. IsList(all) /\ IsList(none)
  <2>1. IsList(<<>>)
    BY DEF IsList, ToSet
  <2> QED BY <2>1, ListConcat
<1>4. ms \o none = ms /\ all \o none = all
  BY <1>3 DEF IsList
<1>0. Placed(e, all, ks) /\ all = ms \o ns
  OBVIOUS
<1> HIDE DEF none, all
<1>5. ASSUME NEW s \in ToSet(ls) \cup ToSet(ks), NEW t \in ToSet(ls) \cup ToSet(ks),
             s.name = t.name, s.cat = t.cat, s.cat # "function"
      PROVE  s.new = t.new
  <2>1. s.cat \in {"data", "ram_global"} /\ t.cat \in {"data", "ram_global"}
    BY <1>2, <1>5
  <2>2. CASE s \in ToSet(ls) /\ t \in ToSet(ls)
    <3>1. Proposed(e, ms, s) /\ Proposed(e, ms \o none, t)
      BY <1>4, <2>2 DEF Placed
    <3> QED BY <1>3, <1>5, <2>1, <3>1, PlacedLater
  <2>3. CASE s \in ToSet(ls) /\ t \in ToSet(ks)
    <3>1. Proposed(e, ms, s) /\ Proposed(e, ms \o ns, t)
      BY <2>3 DEF Placed
    <3> QED BY <1>5, <2>1, <3>1, PlacedLater
  <2>4. CASE s \in ToSet(ks) /\ t \in ToSet(ls)
    <3>1. Proposed(e, ms, t) /\ Proposed(e, ms \o ns, s)
      BY <2>4 DEF Placed
    <3>2. t.new = s.new
      BY <1>5, <2>1, <3>1, PlacedLater
    <3> QED BY <3>2
  <2>5. CASE s \in ToSet(ks) /\ t \in ToSet(ks)
    <3>1. Proposed(e, all, s) /\ Proposed(e, all \o none, t)
      BY <1>0, <1>4, <2>5 DEF Placed
    <3> QED BY <1>3, <1>5, <2>1, <3>1, PlacedLater
  <2> QED BY <2>2, <2>3, <2>4, <2>5
<1> QED BY <1>1, <1>5 DEF Agree

\* A pass that places all its labels, with the matches it has.
LEMMA PlacedPass ==
  ASSUME NEW e, IsAccesses(e.acc), IsAccesses(world.acc), ~SelfDiff,
         NEW ms, NEW ns, IsMatches(ms), IsMatches(ns), NEW ls, NEW ks,
         Placed(e, ms, ls), Placed(e, ms \o ns, ks),
         NEW c, c.matches = ms \o ns, c.labels = ls \o ks
  PROVE  PassOK(e, c)
<1>1. IsList(ms) /\ IsList(ns) /\ IsList(ls) /\ IsList(ks)
  BY DEF IsMatches, Placed
<1>2. /\ IsList(ms \o ns) /\ ToSet(ms \o ns) = ToSet(ms) \cup ToSet(ns)
      /\ IsList(ls \o ks) /\ ToSet(ls \o ks) = ToSet(ls) \cup ToSet(ks)
  BY <1>1, ListConcat
<1>3. IsMatches(ms \o ns)
  BY <1>2 DEF IsMatches
<1>4. ASSUME NEW s \in ToSet(ls) \cup ToSet(ks) PROVE Fresh(s) /\ Grounded(e, ms \o ns, s)
  <2>1. CASE s \in ToSet(ls)
    <3>1. Fresh(s) /\ Grounded(e, ms, s)
      BY <2>1 DEF Placed
    <3> QED BY <1>2, <3>1, GroundedMore
  <2>2. CASE s \in ToSet(ks)
    BY <2>2 DEF Placed
  <2> QED BY <2>1, <2>2
<1>5. Agree(ls \o ks)
  BY <1>1, PlacedAgree
<1>6. \A s \in ToSet(c.labels) : Fresh(s) /\ Supported(e, c, s)
  BY <1>2, <1>4, SupportedGrounded
<1> QED BY <1>2, <1>3, <1>5, <1>6 DEF PassOK

First(e) == IF SelfDiff THEN PropagateIdentity(e) ELSE PropagateCross(e)

LEMMA SecondPassOK ==
  ASSUME IsAccesses(world.acc), IsReference(Entry), current = First(Entry), SecondPass
  PROVE  PassOK(Entry, current')
<1> DEFINE e == Entry
           sig == IF SelfDiff THEN <<>> ELSE NewSignatures(e)
           all == current.matches \o sig
<1>1. current' = IF sig = <<>> THEN current
                 ELSE [current EXCEPT !.matches = all, !.labels = @ \o SecondLabels(e, sig, all)]
  BY DEF SecondPass, Extended
<1> HIDE DEF e
<1>2. IsReference(e) /\ IsAccesses(e.acc)
  BY DEF e, IsReference
<1>3. CASE SelfDiff
  <2>1. current = PropagateIdentity(e) /\ current' = current
    BY <1>1, <1>3 DEF First, e
  <2>2. /\ IsMatches(current.matches) /\ IsList(current.labels)
        /\ \A s \in ToSet(current.labels) : Fresh(s) /\ Same(e, s)
    BY <1>2, <2>1, IdentitySame
  <2>3. \A s \in ToSet(current.labels) : Supported(e, current, s)
    BY <1>3, <2>2, SupportedSame
  <2> QED BY <1>3, <2>1, <2>2, <2>3 DEF PassOK, e
<1>4. CASE ~SelfDiff
  <2> DEFINE ms == e.matches
             ls == current.labels
             ks == SecondLabels(e, sig, all)
  <2>1. current = PropagateCross(e)
    BY <1>4 DEF First, e
  <2>2. current.matches = ms /\ IsMatches(ms) /\ Placed(e, ms, ls)
    BY <1>2, <2>1, CrossPlaced
  <2>3. IsMatches(sig) /\ sig = NewSignatures(e)
    BY <1>2, <1>4, NewSignaturesList
  <2>4. IsList(ms) /\ IsList(sig) /\ all = ms \o sig /\ IsList(all) /\ ToSet(sig) \subseteq ToSet(all)
    BY <2>2, <2>3, ListConcat DEF IsMatches
  <2>5. IsList(<<>>) /\ ms \o <<>> = ms /\ ls \o <<>> = ls /\ IsMatches(<<>>) /\ Placed(e, ms \o <<>>, <<>>)
    <3>1. IsList(<<>>) /\ ToSet(<<>>) = {}
      BY DEF IsList, ToSet
    <3>2. ms \o <<>> = ms /\ ls \o <<>> = ls
      BY <2>2, <2>4 DEF Placed, IsList
    <3> QED BY <3>1, <3>2 DEF IsMatches, Placed
  <2>6. CASE sig = <<>>
    <3>1. current'.matches = ms \o <<>> /\ current'.labels = ls \o <<>>
      BY <1>1, <2>2, <2>5, <2>6
    <3> HIDE DEF ms, ls, sig
    <3>2. PassOK(e, current')
      BY <1>2, <1>4, <2>2, <2>5, <3>1, PlacedPass
    <3> QED BY <3>2 DEF e
  <2>7. CASE sig # <<>>
    <3>1. current'.matches = all /\ current'.labels = ls \o ks
      <4>1. current = [matches |-> current.matches, labels |-> current.labels, ram |-> current.ram]
        BY <2>1 DEF PropagateCross
      <4> HIDE DEF ks, all, sig
      <4> QED BY <1>1, <2>7, <4>1 DEF ks
    <3>2. Placed(e, all, ks)
      <4> DEFINE fns == FunctionLabels(sig, e.syms)
                 ram == AccessLabels("ram_global", all, Collected(e.acc, CollectRam), Collected(world.acc, CollectRam), e.syms)
                 data == AccessLabels("data", all, Collected(e.acc, CollectData), Collected(world.acc, CollectData), e.syms)
      <4>1. ks = fns \o ram \o data
        BY DEF SecondLabels
      <4> HIDE DEF all, ks
      <4>2. Placed(e, all, data) /\ Placed(e, all, ram)
        BY <1>2, <2>4, PlacedAccesses
      <4> HIDE DEF sig
      <4>3. Placed(e, all, fns)
        BY <2>3, <2>4, PlacedFunctions
      <4> HIDE DEF fns, ram, data
      <4> QED BY <4>1, <4>2, <4>3, PlacedConcat
    <3> HIDE DEF ms, ls, ks, sig
    <3>3. PassOK(e, current')
      BY <1>2, <1>4, <2>2, <2>3, <2>4, <3>1, <3>2, PlacedPass
    <3> QED BY <3>3 DEF e
  <2> QED BY <2>6, <2>7
<1> QED BY <1>3, <1>4
\* The labels ps are ls as the stamp of a reference leaves them.
IsStamped(ps, ls, e) ==
  ps = [i \in DOMAIN ls |-> IF ~(e.family = refs[1].family) /\ Risky(ls[i])
                           THEN [ls[i] EXCEPT !.reference = e.id, !.conf = "low", !.familyMatch = FALSE]
                           ELSE [ls[i] EXCEPT !.reference = e.id]]

\* What the stamp changes of a label, and what not.
StampHolds(ps, ls, e) ==
  /\ IsList(ps)
  /\ \A t \in ToSet(ps) :
       /\ IsLabel(t) /\ t.reference = e.id
       /\ e.family # refs[1].family /\ t.cat # "function" => t.conf = "low" /\ t.familyMatch = FALSE
       /\ \E s \in ToSet(ls) : t.name = s.name /\ t.new = s.new /\ t.cat = s.cat /\ t.ref = s.ref

LEMMA StampedLabels ==
  ASSUME NEW ls, IsList(ls), \A s \in ToSet(ls) : Fresh(s), NEW e, NEW ps, IsStamped(ps, ls, e)
  PROVE  StampHolds(ps, ls, e)
<1> DEFINE id == e.id
           match == e.family = refs[1].family
           stamp(s) == IF ~match /\ Risky(s)
                       THEN [s EXCEPT !.reference = id, !.conf = "low", !.familyMatch = FALSE]
                       ELSE [s EXCEPT !.reference = id]
<1>1. ps = [i \in DOMAIN ls |-> stamp(ls[i])]
  BY DEF IsStamped
<1>2. Len(ls) \in Nat /\ DOMAIN ls = 1..Len(ls) /\ \A i \in DOMAIN ls : ls[i] \in ToSet(ls)
  BY ListPlaces
<1>3. ASSUME NEW s \in ToSet(ls)
      PROVE  /\ IsLabel(stamp(s)) /\ stamp(s).reference = id
             /\ ~match /\ stamp(s).cat # "function" => stamp(s).conf = "low" /\ stamp(s).familyMatch = FALSE
             /\ stamp(s).name = s.name /\ stamp(s).new = s.new /\ stamp(s).cat = s.cat /\ stamp(s).ref = s.ref
  <2>1. /\ s = [name |-> s.name, ref |-> s.ref, new |-> s.new, cat |-> s.cat, conf |-> s.conf, src |-> s.src,
                score |-> s.score, reference |-> s.reference, familyMatch |-> s.familyMatch]
        /\ LabelOK(s) /\ s.score \in Int
    BY DEF Fresh, IsLabel
  <2>2. s.cat # "function" => s.cat \in {"data", "ram_global"}
    BY <2>1 DEF LabelOK, Categories
  <2>3. CASE ~match /\ Risky(s)
    <3> DEFINE t == [name |-> s.name, ref |-> s.ref, new |-> s.new, cat |-> s.cat, conf |-> "low", src |-> s.src,
                     score |-> s.score, reference |-> id, familyMatch |-> FALSE]
    <3>1. stamp(s) = t
      BY <2>1, <2>3
    <3>2. LabelOK(t)
      BY <2>1 DEF LabelOK, ConfidenceRank
    <3>3. /\ t = [name |-> t.name, ref |-> t.ref, new |-> t.new, cat |-> t.cat, conf |-> t.conf, src |-> t.src,
                  score |-> t.score, reference |-> t.reference, familyMatch |-> t.familyMatch]
          /\ t.score \in Int /\ t.reference = id /\ t.conf = "low" /\ t.familyMatch = FALSE
          /\ t.name = s.name /\ t.new = s.new /\ t.cat = s.cat /\ t.ref = s.ref
      BY <2>1
    <3> HIDE DEF t, stamp
    <3> QED BY <3>1, <3>2, <3>3 DEF IsLabel
  <2>4. CASE ~(~match /\ Risky(s))
    <3> DEFINE t == [name |-> s.name, ref |-> s.ref, new |-> s.new, cat |-> s.cat, conf |-> s.conf, src |-> s.src,
                     score |-> s.score, reference |-> id, familyMatch |-> s.familyMatch]
    <3>1. stamp(s) = t
      BY <2>1, <2>4
    <3>2. LabelOK(t)
      BY <2>1 DEF LabelOK
    <3>3. /\ t = [name |-> t.name, ref |-> t.ref, new |-> t.new, cat |-> t.cat, conf |-> t.conf, src |-> t.src,
                  score |-> t.score, reference |-> t.reference, familyMatch |-> t.familyMatch]
          /\ t.score \in Int /\ t.reference = id
          /\ t.name = s.name /\ t.new = s.new /\ t.cat = s.cat /\ t.ref = s.ref
      BY <2>1
    <3>4. ~(~match /\ s.cat # "function")
      BY <2>2, <2>4 DEF Risky
    <3> HIDE DEF t, stamp
    <3> QED BY <3>1, <3>2, <3>3, <3>4 DEF IsLabel
  <2> QED BY <2>3, <2>4
<1> HIDE DEF stamp, id, match
<1>4. DOMAIN ps = 1..Len(ls) /\ ps = [i \in 1..Len(ls) |-> ps[i]] /\ \A i \in DOMAIN ps : ps[i] = stamp(ls[i])
  BY <1>1, <1>2
<1>5. IsList(ps)
  BY <1>2, <1>4, ListFrom
<1>6. \A t \in ToSet(ps) : \E s \in ToSet(ls) : t = stamp(s)
  BY <1>2, <1>4 DEF ToSet
<1> QED
  <2>1. \A t \in ToSet(ps) :
          /\ IsLabel(t) /\ t.reference = id
          /\ ~match /\ t.cat # "function" => t.conf = "low" /\ t.familyMatch = FALSE
          /\ \E s \in ToSet(ls) : t.name = s.name /\ t.new = s.new /\ t.cat = s.cat /\ t.ref = s.ref
    BY <1>3, <1>6
  <2> QED BY <1>5, <2>1 DEF id, match, StampHolds

LEMMA StampedOK ==
  ASSUME NEW e, PassOK(e, current)
  PROVE  ResultOK(e, Stamped(e))
<1> DEFINE ls == current.labels
           ps == Stamped(e).labels
           ms == current.matches
           reduced(m) == [ref |-> m.ref, new |-> m.new, src |-> m.src, sim |-> m.sim, name |-> m.name,
                          reference |-> e.id]
           ns == [i \in DOMAIN ms |-> LET m == ms[i] IN reduced(m)]
           r == Stamped(e)
<1>1. r.id = e.id /\ r.labels = ps /\ r.matches = ns
  BY DEF Stamped
<1>0. IsStamped(ps, ls, e)
  BY DEF Stamped, ApplyProvenance, IsStamped
<1>2. /\ IsMatches(ms) /\ IsList(current.labels)
      /\ \A s \in ToSet(current.labels) : Fresh(s) /\ Supported(e, current, s)
      /\ ~SelfDiff => Agree(current.labels)
  BY DEF PassOK
<1>3. /\ IsList(ps)
      /\ \A t \in ToSet(ps) :
           /\ IsLabel(t) /\ t.reference = e.id
           /\ e.family # refs[1].family /\ t.cat # "function" => t.conf = "low" /\ t.familyMatch = FALSE
           /\ \E s \in ToSet(current.labels) : /\ t.name = s.name /\ t.new = s.new /\ t.cat = s.cat
                                               /\ t.ref = s.ref
  <2>1. IsList(ls) /\ (\A s \in ToSet(ls) : Fresh(s)) /\ IsStamped(ps, ls, e)
    BY <1>2, <1>0
  <2> HIDE DEF ps, ls
  <2>2. StampHolds(ps, ls, e)
    BY <2>1, StampedLabels
  <2> QED BY <2>2 DEF ls, StampHolds
<1>4. \A m \in ToSet(ms) : \E n \in ToSet(ns) : n.ref = m.ref /\ n.new = m.new /\ n.sim = m.sim
  <2> TAKE m \in ToSet(ms)
  <2>1. PICK i \in DOMAIN ms : ms[i] = m
    BY <1>2, ListPlaces DEF IsMatches
  <2>2. ns[i] = reduced(m) /\ ns[i] \in ToSet(ns)
    BY <2>1 DEF ToSet
  <2>3. reduced(m).ref = m.ref /\ reduced(m).new = m.new /\ reduced(m).sim = m.sim
    OBVIOUS
  <2> QED BY <2>2, <2>3
<1> HIDE DEF ps, ns, r
<1>5. ASSUME NEW t \in ToSet(ps) PROVE Supported(e, r, t)
  <2>1. PICK s \in ToSet(current.labels) : t.name = s.name /\ t.new = s.new /\ t.cat = s.cat /\ t.ref = s.ref
    BY <1>3
  <2>2. Supported(e, current, s)
    BY <1>2
  <2>3. CASE SelfDiff
    BY <2>1, <2>2, <2>3 DEF Supported
  <2>4. CASE ~SelfDiff
    <3>1. Grounded(e, ms, s)
      BY <2>2, <2>4, SupportedGrounded
    <3>2. PICK m \in ToSet(ms) :
            /\ TierForScore(m.sim) # "low"
            /\ IF s.cat = "function" THEN m.ref = s.ref /\ m.new = s.new
               ELSE /\ m.ref \in DOMAIN e.acc /\ m.new \in DOMAIN world.acc
                    /\ \E x \in ToSet(e.acc[m.ref]), y \in ToSet(world.acc[m.new]) :
                         /\ x.addr \in DOMAIN e.syms /\ e.syms[x.addr].name = s.name
                         /\ y.addr = s.new /\ SameRegion(x.addr, y.addr)
                         /\ Distance(x.off, y.off) <= Window
      BY <3>1 DEF Grounded
    <3>3. PICK n \in ToSet(ns) : n.ref = m.ref /\ n.new = m.new /\ n.sim = m.sim
      BY <1>4
    <3>4. Grounded(e, ns, t)
      BY <2>1, <3>2, <3>3 DEF Grounded
    <3> QED BY <1>1, <2>4, <3>4, SupportedGrounded
  <2> QED BY <2>3, <2>4
<1>6. ~SelfDiff => Agree(ps)
  BY <1>2, <1>3 DEF Agree
<1>7. /\ r.id = e.id /\ IsList(r.labels)
      /\ \A s \in ToSet(r.labels) :
           /\ IsLabel(s) /\ s.reference = e.id /\ Supported(e, r, s)
           /\ e.family # refs[1].family /\ s.cat # "function" => s.conf = "low" /\ s.familyMatch = FALSE
      /\ ~SelfDiff => Agree(r.labels)
  BY <1>1, <1>3, <1>5, <1>6
<1> QED BY <1>7 DEF ResultOK, r

Merging == {"mut", "obd", "can", "mode23", "write", "done"}

Gathered ==
  /\ IsList(results) /\ Len(results) <= Len(refs)
  /\ phase = "select" => results = <<>>
  /\ phase \in {"propagate", "second", "stamp"} => Len(results) < Len(refs)
  /\ phase \in Merging \cup {"merge"} => Len(results) = Len(refs)
  /\ \A k \in DOMAIN results : ResultOK(refs[k], results[k])
  /\ phase = "second" => current = First(Entry)
  /\ phase = "stamp" => PassOK(Entry, current)

\* The reference whose turn it is.
LEMMA EntryReference ==
  ASSUME SelectedOK, Gathered, phase \in {"propagate", "second", "stamp"}
  PROVE  IsReference(Entry) /\ IsAccesses(world.acc) /\ Len(results) + 1 \in DOMAIN refs
<1>1. Len(results) \in Nat /\ Len(refs) \in Nat /\ DOMAIN refs = 1..Len(refs) /\ Len(results) < Len(refs)
  BY ListPlaces DEF SelectedOK, Gathered
<1>2. Len(results) + 1 \in DOMAIN refs
  BY <1>1
<1>3. Entry \in ToSet(world.refs)
  BY <1>2, ListPlaces DEF SelectedOK, Entry
<1> QED BY <1>2, <1>3, WorldFacts DEF SelectedOK

LEMMA StampGathers ==
  ASSUME SelectedOK, Gathered, Stamp
  PROVE  Gathered'
<1> DEFINE r == Stamped(Entry)
           n == Len(results)
<1>1. /\ phase = "stamp" /\ results' = Append(results, r)
      /\ phase' = IF Len(results') = Len(refs) THEN "merge" ELSE "propagate"
      /\ UNCHANGED <<world, refs>>
  BY DEF Stamp, Added
<1>2. n \in Nat /\ Len(refs) \in Nat /\ n < Len(refs) /\ DOMAIN refs = 1..Len(refs) /\ DOMAIN results = 1..n
  BY <1>1, ListPlaces DEF SelectedOK, Gathered
<1>3. ResultOK(Entry, r)
  BY <1>1, StampedOK DEF Gathered
<1>4. Entry = refs[n + 1]
  BY DEF Entry
<1>5. results \in Seq(ToSet(results))
  BY DEF Gathered, IsList
<1> HIDE DEF r
<1>6. /\ IsList(results') /\ Len(results') = n + 1 /\ DOMAIN results' = 1..(n + 1)
      /\ \A k \in 1..n : results'[k] = results[k]
      /\ results'[n + 1] = r
  <2> DEFINE S == ToSet(results) \cup {r}
  <2>1. results \in Seq(S) /\ r \in S
    BY <1>5
  <2> HIDE DEF S
  <2>2. Append(results, r) \in Seq(S)
    BY <2>1
  <2>3. /\ Len(Append(results, r)) = n + 1 /\ DOMAIN Append(results, r) = 1..(n + 1)
        /\ \A k \in 1..n : Append(results, r)[k] = results[k]
        /\ Append(results, r)[n + 1] = r
    BY <1>2, <2>1
  <2>4. IsList(Append(results, r))
    BY <2>2, ListOf
  <2> QED BY <1>1, <2>3, <2>4
<1> HIDE DEF n
<1>7. \A k \in DOMAIN results' : ResultOK(refs[k], results'[k])
  <2> TAKE k \in DOMAIN results'
  <2>1. CASE k \in 1..n
    BY <1>2, <1>6, <2>1 DEF Gathered
  <2>2. CASE k = n + 1
    BY <1>3, <1>4, <1>6, <2>2
  <2> QED BY <1>2, <1>6, <2>1, <2>2
<1>8. (\A k \in DOMAIN results : ResultOK(refs[k], results[k]))'
  <2>1. \A e, x : ResultOK(e, x) <=> ResultOK(e, x)'
    BY <1>1 DEF ResultOK, Supported, SelfDiff, IsLabel, LabelOK, Agree
  <2> QED BY <1>1, <1>7, <2>1
<1>9. /\ phase' \in {"merge", "propagate"} /\ (phase' = "merge" => Len(results') = Len(refs'))
      /\ (phase' = "propagate" => Len(results') < Len(refs')) /\ Len(results') <= Len(refs')
  <2>1. Len(refs') = Len(refs) /\ Len(results') = n + 1 /\ n + 1 <= Len(refs)
    <3>1. n + 1 <= Len(refs)
      BY <1>2
    <3>2. Len(refs') = Len(refs)
      BY <1>1
    <3>3. Len(results') = n + 1
      BY <1>6
    <3> QED BY <3>1, <3>2, <3>3
  <2>2. phase' = IF Len(results') = Len(refs) THEN "merge" ELSE "propagate"
    BY <1>1
  <2>3. n + 1 \in Int /\ Len(refs) \in Int
    BY <1>2
  <2>4. CASE Len(results') = Len(refs)
    <3>1. phase' = "merge"
      BY <2>2, <2>4
    <3> QED BY <2>1, <2>4, <3>1
  <2>5. CASE Len(results') # Len(refs)
    <3>1. phase' = "propagate"
      BY <2>2, <2>5
    <3>2. n + 1 < Len(refs)
      BY <2>1, <2>3, <2>5
    <3> QED BY <2>1, <3>1, <3>2
  <2> QED BY <2>4, <2>5
<1> QED BY <1>6, <1>8, <1>9 DEF Gathered, Merging
LEMMA SameResults ==
  ASSUME UNCHANGED <<world, refs, results>>
  PROVE  \A e, x : ResultOK(e, x) <=> ResultOK(e, x)'
BY DEF ResultOK, Supported, SelfDiff, IsLabel, LabelOK, Agree

LEMMA GatheredInvariant == Spec => []Gathered
<1>1. Init => Gathered
  BY DEF Init, Gathered, IsList, ToSet, Merging
<1>2. SelectedOK /\ Gathered /\ [Next]_vars => Gathered'
  <2> SUFFICES ASSUME SelectedOK, Gathered, [Next]_vars PROVE Gathered'
    OBVIOUS
  <2>1. ASSUME UNCHANGED <<world, refs, results>>, phase' \in Merging \cup {"refused"},
               phase' \in Merging => phase \in Merging \cup {"merge"}
        PROVE  Gathered'
    <3>1. (\A k \in DOMAIN results : ResultOK(refs[k], results[k]))'
      <4>1. \A k \in DOMAIN results : ResultOK(refs[k], results[k])
        BY DEF Gathered
      <4> QED BY <2>1, <4>1, SameResults
    <3>2. /\ IsList(results') /\ Len(results') <= Len(refs')
          /\ phase' \in Merging \cup {"merge"} => Len(results') = Len(refs')
      BY <2>1 DEF Gathered, Merging
    <3> QED BY <2>1, <3>1, <3>2 DEF Gathered, Merging
  <2>2. CASE Select
    <3>1. results = <<>> /\ results' = results /\ phase' \in {"propagate", "refused"}
      BY <2>2 DEF Gathered, Select
    <3>2. IsList(refs') /\ (phase' = "propagate" => refs' # <<>>)
      BY <2>2, SelectOnce DEF SelectedOK
    <3>3. Len(refs') \in Nat /\ (refs' # <<>> => Len(refs') > 0) /\ Len(results') = 0
      <4>1. refs' \in Seq(ToSet(refs'))
        BY <3>2 DEF IsList
      <4> QED BY <3>1, <4>1
    <3>4. IsList(results') /\ DOMAIN results' = {}
      BY <3>1 DEF IsList, ToSet
    <3> QED BY <3>1, <3>2, <3>3, <3>4 DEF Gathered, Merging
  <2>3. CASE Propagate
    <3>1. phase = "propagate" /\ phase' = "second" /\ UNCHANGED <<world, refs, results>>
      BY <2>3 DEF Propagate
    <3>2. current' = First(Entry)
      BY <2>3 DEF Propagate, First
    <3>3. First(Entry)' = First(Entry)
      BY <3>1 DEF First, Entry, SelfDiff, PropagateIdentity, PropagateCross, Collected, SymbolsOf, RamRefs
    <3>4. (\A k \in DOMAIN results : ResultOK(refs[k], results[k]))'
      <4>1. \A k \in DOMAIN results : ResultOK(refs[k], results[k])
        BY DEF Gathered
      <4> QED BY <3>1, <4>1, SameResults
    <3>5. (current = First(Entry))'
      BY <3>2, <3>3
    <3>6. IsList(results') /\ Len(results') < Len(refs') /\ Len(results') <= Len(refs')
      BY <3>1 DEF Gathered
    <3> QED BY <3>1, <3>4, <3>5, <3>6 DEF Gathered, Merging
  <2>4. CASE SecondPass
    <3>1. phase = "second" /\ phase' = "stamp" /\ UNCHANGED <<world, refs, results>>
      BY <2>4 DEF SecondPass
    <3>2. PassOK(Entry, current')
      BY <2>4, <3>1, EntryReference, SecondPassOK DEF Gathered
    <3>3. PassOK(Entry, current)'
      BY <3>1, <3>2 DEF PassOK, Entry, Fresh, Supported, SelfDiff, IsLabel, LabelOK, Agree, IsMatches, IsMatch
    <3>4. (\A k \in DOMAIN results : ResultOK(refs[k], results[k]))'
      <4>1. \A k \in DOMAIN results : ResultOK(refs[k], results[k])
        BY DEF Gathered
      <4> QED BY <3>1, <4>1, SameResults
    <3>5. IsList(results') /\ Len(results') < Len(refs') /\ Len(results') <= Len(refs')
      BY <3>1 DEF Gathered
    <3> QED BY <3>1, <3>3, <3>4, <3>5 DEF Gathered, Merging
  <2>5. CASE Stamp
    BY <2>5, StampGathers
  <2>6. CASE Merge \/ MutPass \/ ObdPass \/ CanPass \/ Mode23 \/ WriteOutputs
    BY <2>1, <2>6 DEF Merge, MutPass, ObdPass, CanPass, Mode23, WriteOutputs, Merging
  <2>7. CASE Returned \/ UNCHANGED vars
    <3>1. UNCHANGED <<world, phase, refs, current, results>>
      BY <2>7 DEF Returned, vars
    <3>2. (\A k \in DOMAIN results : ResultOK(refs[k], results[k]))'
      <4>1. \A k \in DOMAIN results : ResultOK(refs[k], results[k])
        BY DEF Gathered
      <4> QED BY <3>1, <4>1, SameResults
    <3>3. (phase = "second" => current = First(Entry))'
      <4>1. First(Entry)' = First(Entry)
        BY <3>1 DEF First, Entry, SelfDiff, PropagateIdentity, PropagateCross, Collected, SymbolsOf, RamRefs
      <4> QED BY <3>1, <4>1 DEF Gathered
    <3>4. (phase = "stamp" => PassOK(Entry, current))'
      BY <3>1 DEF Gathered, PassOK, Entry, Fresh, Supported, SelfDiff, IsLabel, LabelOK, Agree, IsMatches, IsMatch
    <3> QED BY <3>1, <3>2, <3>3, <3>4 DEF Gathered, Merging
  <2> QED BY <2>2, <2>3, <2>4, <2>5, <2>6, <2>7 DEF Next
<1> QED BY <1>1, <1>2, SelectedInvariant, PTL DEF Spec
-----------------------------------------------------------------------------
\* Third: what the arbitration leaves, and the MUT pass.
Won == Winners(AllLabels, Priority)

LEMMA PrioritiesInt ==
  ASSUME SelectedOK
  PROVE  /\ \A id \in DOMAIN Priority : Priority[id] \in Int
         /\ \A k \in DOMAIN refs : refs[k].id \in DOMAIN Priority /\ refs[k].id # None
<1>1. ASSUME NEW k \in DOMAIN refs PROVE refs[k].priority \in Int /\ refs[k].id # None
  <2>1. refs[k] \in ToSet(world.refs)
    BY ListPlaces DEF SelectedOK
  <2>2. IsReference(refs[k])
    BY <2>1, WorldFacts DEF SelectedOK
  <2> QED BY <2>2 DEF IsReference
<1> DEFINE ids == {refs[i].id : i \in DOMAIN refs}
           at(id) == CHOOSE i \in DOMAIN refs : refs[i].id = id
<1>2. DOMAIN Priority = ids /\ \A id \in ids : Priority[id] = refs[at(id)].priority
  BY DEF Priority
<1>3. \A id \in ids : at(id) \in DOMAIN refs
  OBVIOUS
<1>4. \A k \in DOMAIN refs : refs[k].id \in ids
  OBVIOUS
<1> HIDE DEF ids, at
<1> QED BY <1>1, <1>2, <1>3, <1>4

\* The labels to arbitrate are those of the references' results.
LEMMA AllGiven ==
  ASSUME SelectedOK, Gathered, phase \in Merging \cup {"merge"}
  PROVE  /\ IsList(AllLabels)
         /\ \A s \in ToSet(AllLabels) : \E k \in DOMAIN refs : s \in ToSet(results[k].labels)
         /\ \A s \in ToSet(AllLabels) : IsLabel(s) /\ s.new \in Nat /\ Ranked(s, Priority) /\ s.reference # None
<1> DEFINE ls == [k \in DOMAIN results |-> results[k].labels]
<1>1. DOMAIN results = DOMAIN refs /\ Len(results) \in Nat /\ DOMAIN results = 1..Len(results)
  BY ListPlaces DEF SelectedOK, Gathered
<1>2. ASSUME NEW k \in DOMAIN results
      PROVE  /\ IsList(results[k].labels)
             /\ \A s \in ToSet(results[k].labels) : IsLabel(s) /\ s.reference = refs[k].id
  BY DEF Gathered, ResultOK
<1>3. IsLists(ls)
  <2>1. DOMAIN ls = 1..Len(results) /\ ls = [k \in 1..Len(results) |-> ls[k]]
        /\ \A k \in DOMAIN results : ls[k] = results[k].labels
    BY <1>1
  <2> HIDE DEF ls
  <2>2. IsList(ls)
    BY <1>1, <2>1, ListFrom
  <2> QED BY <1>1, <1>2, <2>1, <2>2 DEF IsLists
<1>4. IsList(FlattenSeq(ls)) /\ ToSet(FlattenSeq(ls)) = Entries(ls)
  <2> HIDE DEF ls
  <2> QED BY <1>3, FlattenList
<1>5. AllLabels = FlattenSeq(ls)
  BY DEF AllLabels
<1>6. \A s \in Entries(ls) : \E k \in DOMAIN results : s \in ToSet(results[k].labels)
  BY DEF Entries
<1> HIDE DEF ls
<1>7. ASSUME NEW s \in ToSet(AllLabels)
      PROVE  /\ \E k \in DOMAIN refs : s \in ToSet(results[k].labels)
             /\ IsLabel(s) /\ s.new \in Nat /\ Ranked(s, Priority) /\ s.reference # None
  <2>1. PICK k \in DOMAIN results : s \in ToSet(results[k].labels)
    BY <1>4, <1>5, <1>6
  <2>2. IsLabel(s) /\ s.reference = refs[k].id
    BY <1>2, <2>1
  <2>3. s.new \in Nat /\ s.conf \in DOMAIN ConfidenceRank /\ s.score \in Int
    BY <2>2 DEF IsLabel, LabelOK
  <2>4. s.reference \in DOMAIN Priority /\ s.reference # None
    BY <1>1, <2>2, PrioritiesInt
  <2> QED BY <1>1, <2>1, <2>2, <2>3, <2>4 DEF Ranked
<1> QED BY <1>4, <1>5, <1>7

LEMMA WonOnce ==
  ASSUME SelectedOK, Gathered, phase \in Merging \cup {"merge"}
  PROVE  /\ IsList(Won) /\ ToSet(Won) \subseteq ToSet(AllLabels)
         /\ ToSet(Won) = {BestSymbol(LabelsAt(AllLabels, a), Priority) : a \in Addresses(AllLabels)}
         /\ \A a \in Addresses(AllLabels) : BestSymbol(LabelsAt(AllLabels, a), Priority).new = a
         /\ \A i, j \in DOMAIN Won : Won[i].new = Won[j].new => i = j
         /\ Addresses(Won) = Addresses(AllLabels)
<1>1. IsList(AllLabels) /\ \A s \in ToSet(AllLabels) : s.new \in Nat /\ Ranked(s, Priority)
  BY AllGiven
<1>2. \A id \in DOMAIN Priority : Priority[id] \in Int
  BY PrioritiesInt
<1> QED BY <1>1, <1>2, WinnersList DEF Won

Corrected == IF MutTable = None THEN Won ELSE Append(Superseded(Won), MutSymbol)

IsMerged(m) ==
  m = [matches |-> m.matches, labels |-> m.labels, disagreements |-> m.disagreements, crossFamily |-> m.crossFamily]

MergedOK ==
  /\ IsMerged(merged)
  /\ phase \notin Merging => merged.labels = <<>>
  /\ phase \in Merging => /\ merged.disagreements = Disagreements(AllLabels, Priority)
                          /\ merged.crossFamily = {s \in ToSet(Won) : ~s.familyMatch}
  /\ phase = "mut" => merged.labels = Won
  /\ phase \in Merging \ {"mut"} => merged.labels = Corrected

LEMMA SameArbitration ==
  ASSUME UNCHANGED <<world, refs, results>>
  PROVE  /\ AllLabels' = AllLabels /\ Priority' = Priority /\ Won' = Won
         /\ (merged.matches)' = merged.matches => MutTable' = MutTable /\ MutSymbol' = MutSymbol
<1>1. AllLabels' = AllLabels /\ Priority' = Priority
  BY DEF AllLabels, Priority
<1>2. Won' = Won
  BY <1>1 DEF Won
<1>3. ASSUME (merged.matches)' = merged.matches
      PROVE  MutTable' = MutTable
  <2>1. FirstMatch("get_mut_pointer")' = FirstMatch("get_mut_pointer")
    BY <1>3 DEF FirstMatch
  <2>2. \A f, k : MutReads(f, k)' = MutReads(f, k)
    BY DEF MutReads
  <2>3. SelfDiff' = SelfDiff
    BY DEF SelfDiff
  <2> QED BY <2>1, <2>2, <2>3 DEF MutTable
<1>4. ASSUME (merged.matches)' = merged.matches
      PROVE  MutSymbol' = MutSymbol
  BY <1>3, <1>4 DEF MutSymbol, SymbolAddress
<1> QED BY <1>1, <1>2, <1>3, <1>4

LEMMA MergedInvariant == Spec => []MergedOK
<1>1. Init => MergedOK
  BY DEF Init, MergedOK, Merging, IsMerged
<1>2. MergedOK /\ [Next]_vars => MergedOK'
  <2> SUFFICES ASSUME MergedOK, [Next]_vars PROVE MergedOK'
    OBVIOUS
  <2>1. ASSUME merged' = merged, phase' \notin Merging, phase \notin Merging
        PROVE  MergedOK'
    BY <2>1 DEF MergedOK, Merging
  <2>2. ASSUME UNCHANGED <<world, refs, results, merged>>, phase \in Merging \ {"mut"}, phase' \in Merging \ {"mut"}
        PROVE  MergedOK'
    <3>1. /\ Disagreements(AllLabels, Priority)' = Disagreements(AllLabels, Priority)
          /\ Won' = Won /\ Corrected' = Corrected
      <4>1. AllLabels' = AllLabels /\ Priority' = Priority /\ Won' = Won /\ MutTable' = MutTable
            /\ MutSymbol' = MutSymbol
        BY <2>2, SameArbitration
      <4> QED BY <4>1 DEF Corrected, Disagreements
    <3> QED BY <2>2, <3>1 DEF MergedOK, Merging
  <2>3. CASE Select \/ Propagate \/ SecondPass \/ Stamp
    <3>1. merged' = merged /\ phase' \notin Merging /\ phase \notin Merging
      BY <2>3 DEF Select, Propagate, SecondPass, Stamp, Merging
    <3> QED BY <2>1, <3>1
  <2>4. CASE Merge
    <3>1. /\ phase' = "mut" /\ UNCHANGED <<world, refs, results>>
          /\ merged' = [matches |-> MergeMatches(AllMatches, Priority), labels |-> Won,
                        disagreements |-> Disagreements(AllLabels, Priority),
                        crossFamily |-> {s \in ToSet(Won) : ~s.familyMatch}]
      BY <2>4 DEF Merge, Won
    <3>2. AllLabels' = AllLabels /\ Priority' = Priority /\ Won' = Won
      BY <3>1, SameArbitration
    <3>3. Disagreements(AllLabels, Priority)' = Disagreements(AllLabels, Priority)
      BY <3>2 DEF Disagreements
    <3>4. /\ merged'.labels = Won /\ merged'.disagreements = Disagreements(AllLabels, Priority)
          /\ merged'.crossFamily = {s \in ToSet(Won) : ~s.familyMatch} /\ IsMerged(merged')
      BY <3>1 DEF IsMerged
    <3> QED BY <3>1, <3>2, <3>3, <3>4 DEF MergedOK, Merging
  <2>5. CASE MutPass
    <3>1. /\ phase = "mut" /\ phase' = "obd" /\ UNCHANGED <<world, refs, results>>
          /\ merged' = IF MutTable = None THEN merged
                       ELSE [merged EXCEPT !.labels = Append(Superseded(@), MutSymbol)]
      BY <2>5 DEF MutPass
    <3>2. AllLabels' = AllLabels /\ Priority' = Priority /\ Won' = Won
      BY <3>1, SameArbitration
    <3>3. Disagreements(AllLabels, Priority)' = Disagreements(AllLabels, Priority)
      BY <3>2 DEF Disagreements
    <3>4. /\ merged'.matches = merged.matches /\ merged'.disagreements = merged.disagreements
          /\ merged'.crossFamily = merged.crossFamily /\ IsMerged(merged')
          /\ merged'.labels = IF MutTable = None THEN merged.labels
                              ELSE Append(Superseded(merged.labels), MutSymbol)
      <4> DEFINE new == Append(Superseded(merged.labels), MutSymbol)
      <4>1. CASE MutTable = None
        <5>1. merged' = merged
          BY <3>1, <4>1
        <5> QED BY <4>1, <5>1 DEF MergedOK
      <4>2. CASE MutTable # None
        <5>1. merged' = [merged EXCEPT !.labels = new]
          BY <3>1, <4>2
        <5> HIDE DEF new
        <5>2. merged' = [matches |-> merged.matches, labels |-> new, disagreements |-> merged.disagreements,
                         crossFamily |-> merged.crossFamily]
          BY <5>1 DEF MergedOK, IsMerged
        <5>3. /\ merged'.matches = merged.matches /\ merged'.disagreements = merged.disagreements
              /\ merged'.crossFamily = merged.crossFamily /\ merged'.labels = new
          BY <5>2
        <5>4. IsMerged(merged')
          BY <5>2, <5>3 DEF IsMerged
        <5> QED BY <4>2, <5>3, <5>4 DEF new
      <4> QED BY <4>1, <4>2
    <3>5. MutTable' = MutTable /\ MutSymbol' = MutSymbol
      BY <3>1, <3>4, SameArbitration
    <3>6. merged'.labels = Corrected
      BY <3>1, <3>4 DEF MergedOK, Corrected
    <3>7. Corrected' = Corrected
      BY <3>2, <3>5 DEF Corrected
    <3>8. /\ merged'.disagreements = Disagreements(AllLabels, Priority)
          /\ merged'.crossFamily = {s \in ToSet(Won) : ~s.familyMatch}
      BY <3>1, <3>4 DEF MergedOK, Merging
    <3> QED BY <3>1, <3>2, <3>3, <3>4, <3>6, <3>7, <3>8 DEF MergedOK, Merging
  <2>6. CASE ObdPass \/ CanPass \/ Mode23 \/ WriteOutputs
    <3>1. UNCHANGED <<world, refs, results, merged>> /\ phase \in Merging \ {"mut"} /\ phase' \in Merging \ {"mut"}
      BY <2>6 DEF ObdPass, CanPass, Mode23, WriteOutputs, Merging
    <3> QED BY <2>2, <3>1
  <2>7. CASE Returned \/ UNCHANGED vars
    <3>1. UNCHANGED <<world, phase, refs, results, merged>>
      BY <2>7 DEF Returned, vars
    <3>2. CASE phase = "mut"
      <4>1. Won' = Won /\ Disagreements(AllLabels, Priority)' = Disagreements(AllLabels, Priority)
        BY <3>1, SameArbitration DEF Disagreements
      <4> QED BY <3>1, <3>2, <4>1 DEF MergedOK, Merging
    <3>3. CASE phase # "mut"
      BY <2>1, <2>2, <3>1, <3>3
    <3> QED BY <3>2, <3>3
  <2> QED BY <2>3, <2>4, <2>5, <2>6, <2>7 DEF Next
<1> QED BY <1>1, <1>2, PTL DEF Spec
\* Where the pass found the table: an address of flash that holds one.
LEMMA MutTablePlace ==
  ASSUME SelectedOK, MutTable # None
  PROVE  MutTable \in Nat /\ world.cell[MutTable] = "table"
<1> DEFINE f == FirstMatch("get_mut_pointer")
           reads == CollectData(world.acc[f])
           S == {a \in ToSet(reads) : a.kind = "read" /\ a.addr \in DOMAIN world.cell
                                     /\ world.cell[a.addr] = "table"}
           found == MutReads(f, "table")
<1>1. Len(found) = 1 /\ MutTable = found[1].addr
  BY DEF MutTable
<1>2. f \in DOMAIN world.acc /\ found = Filter(reads, S)
  <2>1. f \notin DOMAIN world.acc => Len(found) = 0
    BY DEF MutReads
  <2>2. f \in DOMAIN world.acc
    BY <1>1, <2>1
  <2> QED BY <2>2 DEF MutReads
<1>3. IsAccesses(world.acc)
  BY WorldFacts DEF SelectedOK
<1>4. IsList(reads) /\ \A x \in ToSet(reads) : x.addr \in Flash
  <2>1. IsCollection(Collected(world.acc, CollectData), world.acc, Flash)
    BY <1>3, CollectsFlash
  <2>2. Collected(world.acc, CollectData)[f] = reads
    BY <1>2 DEF Collected
  <2> HIDE DEF reads, f
  <2> QED BY <1>2, <2>1, <2>2 DEF IsCollection
<1> HIDE DEF reads, f
<1>5. IsList(found) /\ ToSet(found) = ToSet(reads) \cap S
  <2> HIDE DEF S, found
  <2> QED BY <1>2, <1>4, FilterList
<1> HIDE DEF found
<1>6. found[1] \in S
  BY <1>1, <1>5, ListPlaces
<1> QED BY <1>1, <1>4, <1>6 DEF Flash

\* The labels after the MUT pass.
LEMMA FinalLabels ==
  ASSUME SelectedOK, Gathered, MergedOK, phase \in Merging \ {"mut"}
  PROVE  /\ IsList(merged.labels)
         /\ MutTable = None => merged.labels = Won
         /\ MutTable # None => ToSet(merged.labels) = {s \in ToSet(Won) : s.name # "mut_table"} \cup {MutSymbol}
         /\ \A s \in ToSet(merged.labels) : LabelOK(s)
<1>1. IsList(Won) /\ \A s \in ToSet(Won) : LabelOK(s)
  <2>1. IsList(Won) /\ ToSet(Won) \subseteq ToSet(AllLabels)
    BY WonOnce DEF Merging
  <2>2. \A s \in ToSet(AllLabels) : IsLabel(s)
    BY AllGiven DEF Merging
  <2> QED BY <2>1, <2>2 DEF IsLabel
<1>2. merged.labels = Corrected
  BY DEF MergedOK
<1>3. CASE MutTable = None
  BY <1>1, <1>2, <1>3 DEF Corrected
<1>4. CASE MutTable # None
  <2> DEFINE T == {s \in ToSet(Won) : s.name # "mut_table"}
             w == Superseded(Won)
  <2>1. IsList(w) /\ ToSet(w) = T
    <3>1. w = Filter(Won, T)
      BY DEF Superseded
    <3>2. ToSet(Won) \cap T = T
      OBVIOUS
    <3> HIDE DEF T
    <3>3. IsList(Filter(Won, T)) /\ ToSet(Filter(Won, T)) = ToSet(Won) \cap T
      BY <1>1, FilterList
    <3> HIDE DEF w
    <3> QED BY <3>1, <3>2, <3>3
  <2>2. merged.labels = Append(w, MutSymbol)
    BY <1>2, <1>4 DEF Corrected
  <2>3. MutSymbol.new = MutTable /\ MutSymbol.cat = "data" /\ MutSymbol.conf = "high" /\ MutSymbol.familyMatch = TRUE
    BY DEF MutSymbol, Symbol
  <2>4. LabelOK(MutSymbol)
    BY <1>4, <2>3, MutTablePlace DEF LabelOK, Categories, ConfidenceRank
  <2>5. \A s \in T : LabelOK(s)
    BY <1>1
  <2> HIDE DEF T, w
  <2>6. IsList(Append(w, MutSymbol)) /\ ToSet(Append(w, MutSymbol)) = ToSet(w) \cup {MutSymbol}
    BY <2>1, AppendList
  <2> QED BY <1>4, <2>1, <2>2, <2>4, <2>5, <2>6 DEF T
<1> QED BY <1>3, <1>4

\* Of an address the labels name at most one function.
OneFunction(ls) ==
  \A s, t \in ToSet(ls) : s.cat = "function" /\ t.cat = "function" /\ s.new = t.new => s.name = t.name

LEMMA FinalFunctions ==
  ASSUME SelectedOK, Gathered, MergedOK, phase \in Merging \ {"mut"}
  PROVE  OneFunction(merged.labels)
<1>1. \A s, t \in ToSet(Won) : s.new = t.new => s = t
  <2>1. IsList(Won) /\ \A i, j \in DOMAIN Won : Won[i].new = Won[j].new => i = j
    BY WonOnce DEF Merging
  <2> QED BY <2>1, ListPlaces
<1>2. \A s \in ToSet(merged.labels) : s.cat = "function" => s \in ToSet(Won)
  <2>1. MutSymbol.cat = "data"
    BY DEF MutSymbol, Symbol
  <2> QED BY <2>1, FinalLabels
<1> QED BY <1>1, <1>2 DEF OneFunction

\* The name Ghidra shows for the function at an address, and the labels of ls that name it.
Shown(p, a) == IF a \in DOMAIN p.fn THEN p.fn[a] ELSE None
NamesAt(ls, a) == {s \in ToSet(ls) : s.cat = "function" /\ s.new = a /\ <<s.new, s.name>> \notin world.refused}

\* What a list of labels makes of the name at an address: that of a label, if Ghidra takes
\* one for it.
LEMMA ApplyNames ==
  ASSUME NEW ls, IsList(ls), NEW p, NEW a
  PROVE  LET q == ApplyLabels(p, ls)
         IN /\ q = [fn |-> q.fn, data |-> q.data]
            /\ NamesAt(ls, a) = {} => Shown(q, a) = Shown(p, a)
            /\ NamesAt(ls, a) # {} => \E s \in NamesAt(ls, a) : Shown(q, a) = s.name
<1> DEFINE R == {s \in ToSet(ls) : <<s.new, s.name>> \notin world.refused}
           taken == Taken(ls)
           F == {t \in ToSet(taken) : t.cat = "function"}
           fns == Filter(taken, F)
           of(x) == {i \in DOMAIN fns : fns[i].new = x}
           fn == [x \in DOMAIN p.fn \cup Addresses(fns) |->
                    IF x \in Addresses(fns) THEN Rename(p.fn, x, fns[Max(of(x))].name) ELSE p.fn[x]]
           q == ApplyLabels(p, ls)
<1>1. q = [fn |-> fn, data |-> p.data \cup {<<s.new, s.name>> : s \in ToSet(taken) \ ToSet(fns)}]
  BY DEF ApplyLabels
<1>2. IsList(taken) /\ ToSet(taken) = R
  <2>1. ToSet(ls) \cap R = R /\ taken = Filter(ls, R)
    BY DEF Taken
  <2> HIDE DEF R, taken
  <2>2. IsList(Filter(ls, R)) /\ ToSet(Filter(ls, R)) = ToSet(ls) \cap R
    BY FilterList
  <2> QED BY <2>1, <2>2
<1> HIDE DEF taken
<1>3. IsList(fns) /\ ToSet(fns) = F
  <2>1. ToSet(taken) \cap F = F
    OBVIOUS
  <2> HIDE DEF F
  <2>2. IsList(fns) /\ ToSet(fns) = ToSet(taken) \cap F
    BY <1>2, FilterList
  <2> QED BY <2>1, <2>2
<1>4. NamesAt(ls, a) = {s \in F : s.new = a}
  BY <1>2 DEF NamesAt
<1> HIDE DEF F, R, fns
<1>5. Len(fns) \in Nat /\ DOMAIN fns = 1..Len(fns) /\ \A i \in DOMAIN fns : fns[i] \in F
  BY <1>3, ListPlaces
<1>6. a \in Addresses(fns) <=> of(a) # {}
  BY DEF Addresses
<1>7. of(a) = {} <=> NamesAt(ls, a) = {}
  <2>1. \A s \in F : \E i \in DOMAIN fns : fns[i] = s
    BY <1>3, ListPlaces
  <2> QED BY <1>4, <1>5, <2>1
<1>8. q = [fn |-> q.fn, data |-> q.data] /\ q.fn = fn
  BY <1>1
<1>9. CASE of(a) = {}
  <2>1. a \notin Addresses(fns)
    BY <1>6, <1>9
  <2>2. Shown(q, a) = Shown(p, a)
    BY <1>8, <2>1 DEF Shown
  <2> QED BY <1>7, <1>8, <1>9, <2>2
<1>10. CASE of(a) # {}
  <2> DEFINE m == Max(of(a))
  <2>1. m \in of(a)
    <3> DEFINE D == of(a)
    <3>1. D \in SUBSET (1..Len(fns)) /\ D # {}
      BY <1>5, <1>10
    <3> HIDE DEF D
    <3>2. Max(D) \in D
      BY <1>5, <3>1, PlacesMinMax
    <3> QED BY <3>2 DEF D
  <2>2. a \in Addresses(fns)
    BY <1>6, <1>10
  <2>3. fn[a] = fns[m].name /\ a \in DOMAIN fn
    BY <2>2 DEF Rename
  <2>4. Shown(q, a) = fns[m].name
    <3> HIDE DEF fn, m
    <3> QED BY <1>8, <2>3 DEF Shown
  <2> HIDE DEF m
  <2>5. fns[m] \in NamesAt(ls, a)
    BY <1>4, <1>5, <2>1
  <2> QED BY <1>7, <1>8, <1>10, <2>4, <2>5
<1> HIDE DEF q, of
<1> QED BY <1>9, <1>10 DEF q
-----------------------------------------------------------------------------
\* Fourth: what is written.  Until then the names in the project are those that the
\* references' searches have suggested.
Suggested(a, name) == name = None \/ \E k \in DOMAIN refs : \E t \in ToSet(refs[k].bfs) : t.new = a /\ t.name = name

ProjectOK ==
  /\ project = [fn |-> project.fn, data |-> project.data]
  /\ phase = "select" => \A a : Shown(project, a) = None
  /\ phase # "done" => \A a : Suggested(a, Shown(project, a))

LEMMA ProjectInvariant == Spec => []ProjectOK
<1>1. Init => ProjectOK
  BY DEF Init, ProjectOK, Shown, Suggested
<1>2. SelectedOK /\ Gathered /\ ProjectOK /\ [Next]_vars => ProjectOK'
  <2> SUFFICES ASSUME SelectedOK, Gathered, ProjectOK, [Next]_vars PROVE ProjectOK'
    OBVIOUS
  <2>1. CASE Select
    <3>1. project' = project /\ phase = "select" /\ phase' # "select"
      BY <2>1 DEF Select
    <3>2. \A a : Shown(project, a) = None
      BY <3>1 DEF ProjectOK
    <3> QED BY <3>1, <3>2 DEF ProjectOK, Shown, Suggested
  <2>2. CASE Propagate
    <3>1. phase = "propagate" /\ phase' # "select" /\ refs' = refs
      BY <2>2 DEF Propagate
    <3>2. CASE SelfDiff
      BY <2>2, <3>1, <3>2 DEF Propagate, ProjectOK, Shown, Suggested
    <3>3. CASE ~SelfDiff
      <4>1. project' = ApplyLabels(project, Entry.bfs)
        BY <2>2, <3>3 DEF Propagate
      <4>2. IsList(Entry.bfs) /\ Len(results) + 1 \in DOMAIN refs /\ Entry = refs[Len(results) + 1]
        BY <3>1, EntryReference DEF IsReference, IsList, Entry
      <4>3. project' = [fn |-> project'.fn, data |-> project'.data]
        BY <4>1, <4>2, ApplyNames
      <4>4. ASSUME NEW a PROVE Suggested(a, Shown(project', a))
        <5>1. CASE NamesAt(Entry.bfs, a) = {}
          <6>1. Shown(project', a) = Shown(project, a)
            BY <4>1, <4>2, <5>1, ApplyNames
          <6> QED BY <3>1, <6>1 DEF ProjectOK
        <5>2. CASE NamesAt(Entry.bfs, a) # {}
          <6>1. PICK s \in NamesAt(Entry.bfs, a) : Shown(project', a) = s.name
            BY <4>1, <4>2, <5>2, ApplyNames
          <6> QED BY <4>2, <6>1 DEF NamesAt, Suggested
        <5> QED BY <5>1, <5>2
      <4>5. \A a : Suggested(a, Shown(project', a))
        BY <4>4
      <4>6. (\A a : Suggested(a, Shown(project, a)))'
        BY <3>1, <4>5 DEF Suggested, Shown
      <4> QED BY <3>1, <4>3, <4>6 DEF ProjectOK
    <3> QED BY <3>2, <3>3
  <2>3. CASE MutPass
    <3>1. phase # "done" /\ phase' # "select" /\ refs' = refs /\ project'.fn = project.fn
          /\ project' = [fn |-> project'.fn, data |-> project'.data]
      BY <2>3 DEF MutPass, ProjectOK
    <3> QED BY <3>1 DEF ProjectOK, Shown, Suggested
  <2>4. CASE WriteOutputs
    <3>1. phase' = "done"
      BY <2>4 DEF WriteOutputs
    <3>2. project' = project \/ \E ls : project' = ApplyLabels(project, ls)
      BY <2>4 DEF WriteOutputs
    <3>3. \A ls : ApplyLabels(project, ls) = [fn |-> ApplyLabels(project, ls).fn, data |-> ApplyLabels(project, ls).data]
      BY DEF ApplyLabels
    <3>4. project' = [fn |-> project'.fn, data |-> project'.data]
      BY <3>2, <3>3 DEF ProjectOK
    <3> QED BY <3>1, <3>4 DEF ProjectOK
  <2>5. CASE SecondPass \/ Stamp \/ Merge \/ ObdPass \/ CanPass \/ Mode23
    <3>1. phase # "done" /\ phase' # "select" /\ UNCHANGED <<refs, project>>
      BY <2>5 DEF SecondPass, Stamp, Merge, ObdPass, CanPass, Mode23
    <3> QED BY <3>1 DEF ProjectOK, Shown, Suggested
  <2>6. CASE Returned \/ UNCHANGED vars
    BY <2>6 DEF Returned, vars, ProjectOK, Shown, Suggested
  <2> QED BY <2>1, <2>2, <2>3, <2>4, <2>5, <2>6 DEF Next
<1> QED BY <1>1, <1>2, SelectedInvariant, GatheredInvariant, PTL DEF Spec

Follows ==
  \A s \in ToSet(merged.labels) : s.cat = "function" =>
    IF <<s.new, s.name>> \notin world.refused THEN Shown(project, s.new) = s.name
    ELSE Suggested(s.new, Shown(project, s.new))

FilesOK ==
  phase = "done" =>
    /\ files.labels = merged.labels /\ files.splices = splices
    /\ files.disagreements = merged.disagreements /\ files.crossFamily = merged.crossFamily
    /\ "project" \in world.options => Follows

\* A list that names all functions of the description, each once, brings the project there.
LEMMA ListFollows ==
  ASSUME ProjectOK, phase # "done", NEW ls, IsList(ls), OneFunction(ls), NEW s \in ToSet(ls), s.cat = "function",
         NEW q, q = ApplyLabels(project, ls)
  PROVE  IF <<s.new, s.name>> \notin world.refused THEN Shown(q, s.new) = s.name
         ELSE Suggested(s.new, Shown(q, s.new))
<1>1. \A t \in NamesAt(ls, s.new) : t.name = s.name /\ t.new = s.new /\ <<t.new, t.name>> \notin world.refused
  BY DEF NamesAt, OneFunction
<1>2. CASE <<s.new, s.name>> \notin world.refused
  <2>1. s \in NamesAt(ls, s.new)
    BY <1>2 DEF NamesAt
  <2>2. PICK t \in NamesAt(ls, s.new) : Shown(q, s.new) = t.name
    BY <2>1, ApplyNames
  <2> QED BY <1>1, <1>2, <2>2
<1>3. CASE <<s.new, s.name>> \in world.refused
  <2>1. NamesAt(ls, s.new) = {}
    BY <1>1, <1>3
  <2>2. Shown(q, s.new) = Shown(project, s.new)
    BY <2>1, ApplyNames
  <2> QED BY <1>3, <2>2 DEF ProjectOK
<1> QED BY <1>2, <1>3

LEMMA WriteFollows ==
  ASSUME SelectedOK, Gathered, MergedOK, ProjectOK, WriteOutputs, "project" \in world.options
  PROVE  Follows'
<1>0. phase \in Merging \ {"mut"} /\ phase # "done" /\ UNCHANGED <<world, refs, merged>>
  BY DEF WriteOutputs, Merging
<1>1. IsList(merged.labels) /\ OneFunction(merged.labels)
  BY <1>0, FinalLabels, FinalFunctions
<1> DEFINE kept == Superseded(merged.labels)
           T == {s \in ToSet(merged.labels) : s.name # "mut_table"}
<1>2. IsList(kept) /\ ToSet(kept) = T
  <2>1. ToSet(merged.labels) \cap T = T /\ kept = Filter(merged.labels, T)
    BY DEF Superseded
  <2> HIDE DEF T
  <2>2. IsList(Filter(merged.labels, T)) /\ ToSet(Filter(merged.labels, T)) = ToSet(merged.labels) \cap T
    BY <1>1, FilterList
  <2> QED BY <2>1, <2>2
<1> HIDE DEF kept
<1> DEFINE OK(s) == IF <<s.new, s.name>> \notin world.refused THEN Shown(project', s.new) = s.name
                    ELSE Suggested(s.new, Shown(project', s.new))
<1>3. project' = ApplyLabels(project, IF MutTable = None THEN merged.labels ELSE kept)
  BY DEF WriteOutputs, kept
<1>4. CASE MutTable = None
  <2>1. project' = ApplyLabels(project, merged.labels)
    BY <1>3, <1>4
  <2>2. \A s \in ToSet(merged.labels) : s.cat = "function" => OK(s)
    BY <1>0, <1>1, <2>1, ListFollows
  <2> QED BY <1>0, <2>2 DEF Follows, Shown, Suggested
<1>5. CASE MutTable # None
  <2>1. project' = ApplyLabels(project, kept)
    BY <1>3, <1>5
  <2>2. OneFunction(kept)
    BY <1>1, <1>2 DEF OneFunction
  <2>3. \A s \in ToSet(merged.labels) : s.cat = "function" => s \in ToSet(kept)
    <3>1. MutSymbol.cat = "data"
      BY DEF MutSymbol, Symbol
    <3> QED BY <1>0, <1>2, <1>5, <3>1, FinalLabels
  <2>4. \A s \in ToSet(kept) : s.cat = "function" => OK(s)
    BY <1>0, <1>2, <2>1, <2>2, ListFollows
  <2> QED BY <1>0, <2>3, <2>4 DEF Follows, Shown, Suggested
<1> QED BY <1>4, <1>5

LEMMA FilesInvariant == Spec => []FilesOK
<1>1. Init => FilesOK
  BY DEF Init, FilesOK
<1>2. SelectedOK /\ Gathered /\ MergedOK /\ ProjectOK /\ FilesOK /\ [Next]_vars => FilesOK'
  <2> SUFFICES ASSUME SelectedOK, Gathered, MergedOK, ProjectOK, FilesOK, [Next]_vars PROVE FilesOK'
    OBVIOUS
  <2>1. CASE Select \/ Propagate \/ SecondPass \/ Stamp \/ Merge \/ MutPass \/ ObdPass \/ CanPass \/ Mode23
    <3>1. phase' # "done"
      BY <2>1 DEF Select, Propagate, SecondPass, Stamp, Merge, MutPass, ObdPass, CanPass, Mode23
    <3> QED BY <3>1 DEF FilesOK
  <2>2. CASE WriteOutputs
    <3>1. /\ files'.labels = merged.labels /\ files'.splices = splices
          /\ files'.disagreements = merged.disagreements /\ files'.crossFamily = merged.crossFamily
          /\ UNCHANGED <<world, merged, splices>>
      BY <2>2 DEF WriteOutputs
    <3>2. "project" \in world.options => Follows'
      BY <2>2, WriteFollows
    <3> QED BY <3>1, <3>2 DEF FilesOK
  <2>3. CASE Returned \/ UNCHANGED vars
    BY <2>3 DEF Returned, vars, FilesOK, Follows, Shown, Suggested
  <2> QED BY <2>1, <2>2, <2>3 DEF Next
<1> QED BY <1>1, <1>2, SelectedInvariant, GatheredInvariant, MergedInvariant, ProjectInvariant, PTL DEF Spec

\* The labels written, and where each comes from.
LEMMA FilesLabels ==
  ASSUME SelectedOK, Gathered, MergedOK, FilesOK, Done
  PROVE  /\ IsList(files.labels)
         /\ \A s \in ToSet(files.labels) :
              \/ s \in ToSet(Won) /\ s \in ToSet(AllLabels)
              \/ MutTable # None /\ s.reference = None /\ s.name = "mut_table"
<1>1. phase = "done" /\ phase \in Merging \ {"mut"} /\ phase \in Merging \cup {"merge"}
  BY DEF Done, Merging
<1>2. files.labels = merged.labels
  BY <1>1 DEF FilesOK
<1>3. ToSet(Won) \subseteq ToSet(AllLabels)
  BY <1>1, WonOnce
<1>4. MutSymbol.reference = None /\ MutSymbol.name = "mut_table"
  BY DEF MutSymbol, Symbol
<1> QED BY <1>1, <1>2, <1>3, <1>4, FinalLabels

\* What a reference gave is in a result, under the reference's identifier.
LEMMA GivenBy ==
  ASSUME SelectedOK, Gathered, phase \in Merging \cup {"merge"}, NEW s \in ToSet(AllLabels)
  PROVE  \E k \in DOMAIN refs : s \in ToSet(results[k].labels) /\ ResultOK(refs[k], results[k])
                                  /\ s.reference = refs[k].id
<1>1. DOMAIN results = DOMAIN refs
  BY ListPlaces DEF SelectedOK, Gathered
<1>2. PICK k \in DOMAIN refs : s \in ToSet(results[k].labels)
  BY AllGiven
<1>3. ResultOK(refs[k], results[k])
  BY <1>1, <1>2 DEF Gathered
<1> QED BY <1>2, <1>3 DEF ResultOK

\* Every label of the description that some reference gave is supported by that
\* reference's own matches and symbols.
THEOREM LabelsSupportedHolds == Spec => []LabelsSupported
<1>1. SelectedOK /\ Gathered /\ MergedOK /\ FilesOK => LabelsSupported
  <2> SUFFICES ASSUME SelectedOK, Gathered, MergedOK, FilesOK, Done, NEW i \in DOMAIN files.labels,
                      files.labels[i].reference # None
               PROVE  \E k \in DOMAIN refs : /\ refs[k].id = files.labels[i].reference
                                             /\ Supported(refs[k], results[k], files.labels[i])
    BY DEF LabelsSupported
  <2> DEFINE s == files.labels[i]
  <2>1. s \in ToSet(AllLabels)
    <3>1. s \in ToSet(files.labels)
      BY FilesLabels, ListPlaces
    <3> QED BY <3>1, FilesLabels
  <2> HIDE DEF s
  <2>2. PICK k \in DOMAIN refs : s \in ToSet(results[k].labels) /\ ResultOK(refs[k], results[k]) /\ s.reference = refs[k].id
    BY <2>1, GivenBy DEF Done, Merging
  <2>3. Supported(refs[k], results[k], s)
    BY <2>2 DEF ResultOK
  <2> QED BY <2>2, <2>3 DEF s
<1> QED BY <1>1, SelectedInvariant, GatheredInvariant, MergedInvariant, FilesInvariant, PTL

\* What a reference of another family says of flash data or RAM is in the description
\* only in doubt, and is listed for verification.
THEOREM CrossFamilyVerifiedHolds == Spec => []CrossFamilyVerified
<1>1. SelectedOK /\ Gathered /\ MergedOK /\ FilesOK => CrossFamilyVerified
  <2> SUFFICES ASSUME SelectedOK, Gathered, MergedOK, FilesOK, Done, NEW i \in DOMAIN files.labels, NEW k \in DOMAIN refs,
                      files.labels[i].reference = refs[k].id, refs[k].family # refs[1].family,
                      files.labels[i].cat # "function"
               PROVE  files.labels[i].conf = "low" /\ files.labels[i] \in files.crossFamily
    BY DEF CrossFamilyVerified
  <2> DEFINE s == files.labels[i]
  <2>0. phase = "done" /\ phase \in Merging
    BY DEF Done, Merging
  <2>1. s \in ToSet(AllLabels) /\ s \in ToSet(Won)
    <3>1. s \in ToSet(files.labels)
      BY FilesLabels, ListPlaces
    <3>2. s.reference # None
      BY PrioritiesInt
    <3> HIDE DEF s
    <3> QED BY <3>1, <3>2, FilesLabels
  <2> HIDE DEF s
  <2>2. PICK j \in DOMAIN refs : s \in ToSet(results[j].labels) /\ ResultOK(refs[j], results[j]) /\ s.reference = refs[j].id
    BY <2>0, <2>1, GivenBy
  <2>3. j = k
    BY <2>2 DEF SelectedOK, s
  <2>4. s.cat # "function"
    BY DEF s
  <2>5. s.conf = "low" /\ s.familyMatch = FALSE
    BY <2>2, <2>3, <2>4 DEF ResultOK
  <2>6. files.crossFamily = {x \in ToSet(Won) : ~x.familyMatch}
    BY <2>0 DEF FilesOK, MergedOK
  <2> QED BY <2>1, <2>5, <2>6 DEF s
<1> QED BY <1>1, SelectedInvariant, GatheredInvariant, MergedInvariant, FilesInvariant, PTL

\* With a project to enrich, the functions in Ghidra end with the names the description
\* gives; where Ghidra takes none, with what a reference's search has suggested, if any.
THEOREM ProjectFollowsHolds == Spec => []ProjectFollows
<1>1. SelectedOK /\ Gathered /\ MergedOK /\ FilesOK => ProjectFollows
  BY DEF FilesOK, Done, ProjectFollows, Follows, Shown, Suggested
<1> QED BY <1>1, SelectedInvariant, GatheredInvariant, MergedInvariant, FilesInvariant, PTL

LEMMA MoreThanOne ==
  ASSUME NEW S, IsFiniteSet(S)
  PROVE  Cardinality(S) > 1 <=> \E x, y \in S : x # y
<1>1. Cardinality(S) \in Nat
  BY FS_CardinalityType
<1>2. Cardinality(S) = 0 <=> S = {}
  BY FS_EmptySet
<1>3. Cardinality(S) = 1 <=> \E x \in S : S = {x}
  BY FS_Singleton
<1>4. ASSUME \E x, y \in S : x # y PROVE Cardinality(S) > 1
  BY <1>1, <1>2, <1>3, <1>4
<1>5. ASSUME ~\E x, y \in S : x # y PROVE ~(Cardinality(S) > 1)
  <2>1. CASE S = {}
    BY <1>1, <1>2, <2>1
  <2>2. CASE S # {}
    <3>1. PICK x \in S : TRUE
      BY <2>2
    <3>2. S = {x}
      BY <1>5, <3>1
    <3> QED BY <1>1, <1>3, <3>1, <3>2
  <2> QED BY <2>1, <2>2
<1> QED BY <1>4, <1>5

\* The conflicts listed are just the addresses that were given two names, each with all
\* that were proposed, and the winner is the name the description has there, unless the MUT
\* pass has withdrawn or added one.
THEOREM ConflictsFaithfulHolds == Spec => []ConflictsFaithful
<1>1. SelectedOK /\ Gathered /\ MergedOK /\ FilesOK => ConflictsFaithful
  <2> SUFFICES ASSUME SelectedOK, Gathered, MergedOK, FilesOK, Done PROVE ConflictsFaithful
    BY DEF ConflictsFaithful
  <2> DEFINE at(a) == LabelsAt(AllLabels, a)
             proposed(a) == {<<s.reference, s.name>> : s \in ToSet(at(a))}
             names(a) == {p[2] : p \in proposed(a)}
             D == Disagreements(AllLabels, Priority)
             d(a) == [addr |-> a, candidates |-> proposed(a), winner |-> BestSymbol(at(a), Priority).name]
  <2>0. phase = "done" /\ phase \in Merging
    BY DEF Done, Merging
  <2>1. files.disagreements = D /\ files.labels = merged.labels
    BY <2>0 DEF FilesOK, MergedOK
  <2>2. D = {d(a) : a \in Contested(AllLabels)}
    BY DEF Disagreements
  <2>3. IsList(AllLabels)
    BY <2>0, AllGiven
  <2>4. ASSUME NEW a PROVE (\E s, t \in ToSet(at(a)) : s.name # t.name) <=> Cardinality(names(a)) > 1
    <3>1. names(a) = {s.name : s \in ToSet(at(a))}
      <4>1. \A s \in ToSet(at(a)) : <<s.reference, s.name>>[2] = s.name
        OBVIOUS
      <4> HIDE DEF at
      <4> QED BY <4>1
    <3>2. IsFiniteSet(ToSet(at(a)))
      BY <2>3, LabelsAtList, ListFinite
    <3> DEFINE S == ToSet(at(a))
               N == {s.name : s \in S}
    <3>3. IsFiniteSet(N)
      <4> DEFINE f == [s \in S |-> s.name]
      <4>1. N = {f[s] : s \in S}
        OBVIOUS
      <4> HIDE DEF f, N, S
      <4>2. IsFiniteSet({f[s] : s \in S})
        BY <3>2, FiniteValues DEF S
      <4> QED BY <4>1, <4>2
    <3>4. (\E s, t \in S : s.name # t.name) <=> \E x, y \in N : x # y
      OBVIOUS
    <3> HIDE DEF N
    <3>5. Cardinality(N) > 1 <=> \E x, y \in N : x # y
      BY <3>3, MoreThanOne
    <3>6. names(a) = N
      BY <3>1 DEF N
    <3> HIDE DEF names, at
    <3> QED BY <3>4, <3>5, <3>6 DEF S
  <2>5. {x.addr : x \in D} = {a \in Addresses(AllLabels) : Cardinality(names(a)) > 1}
    <3>1. \A a : d(a).addr = a
      OBVIOUS
    <3>2. Contested(AllLabels) = {a \in Addresses(AllLabels) : \E s, t \in ToSet(at(a)) : s.name # t.name}
      BY DEF Contested
    <3> HIDE DEF d, D, names, at
    <3>3. {x.addr : x \in D} = Contested(AllLabels)
      BY <2>2, <3>1
    <3> QED BY <2>4, <3>2, <3>3
  <2>6. ASSUME NEW x \in D
        PROVE  /\ x.candidates = proposed(x.addr)
               /\ \A s \in ToSet(LabelsAt(files.labels, x.addr)) : s.name \in {x.winner, "mut_table"}
    <3>1. PICK a \in Contested(AllLabels) : x = d(a)
      BY <2>2
    <3>2. x.addr = a /\ x.candidates = proposed(a) /\ x.winner = BestSymbol(at(a), Priority).name
      BY <3>1
    <3>3. ASSUME NEW s \in ToSet(LabelsAt(files.labels, x.addr)) PROVE s.name \in {x.winner, "mut_table"}
      <4>1. s \in ToSet(files.labels) /\ s.new = a
        BY <3>2, FilesLabels, LabelsAtList
      <4>2. CASE s \in ToSet(Won)
        <5>1. PICK b \in Addresses(AllLabels) : s = BestSymbol(at(b), Priority)
          BY <2>0, <4>2, WonOnce
        <5>2. b = a
          BY <2>0, <4>1, <5>1, WonOnce
        <5> QED BY <3>2, <5>1, <5>2
      <4>3. CASE s.name = "mut_table"
        BY <4>3
      <4> QED BY <4>1, <4>2, <4>3, FilesLabels
    <3> QED BY <3>2, <3>3
  <2> HIDE DEF D
  <2> QED BY <2>1, <2>5, <2>6 DEF ConflictsFaithful
<1> QED BY <1>1, SelectedInvariant, GatheredInvariant, MergedInvariant, FilesInvariant, PTL

\* The place of the one label of the MUT table, and the addresses that keep a name.
LEMMA TableLabelled ==
  ASSUME SelectedOK, Gathered, MergedOK, phase \in Merging \ {"mut"}, MutTable # None
  PROVE  LET named == {i \in DOMAIN merged.labels : merged.labels[i].name = "mut_table"}
             taken == {a \in Addresses(AllLabels) : BestSymbol(LabelsAt(AllLabels, a), Priority).name = "mut_table"}
         IN /\ \A i \in named : merged.labels[i].new = MutTable /\ world.cell[MutTable] = "table"
            /\ Cardinality(named) = 1
            /\ Addresses(merged.labels) = (Addresses(AllLabels) \ taken) \cup {MutTable}
<1> DEFINE T == {s \in ToSet(Won) : s.name # "mut_table"}
           w == Superseded(Won)
           ls == merged.labels
           named == {i \in DOMAIN ls : ls[i].name = "mut_table"}
           best(a) == BestSymbol(LabelsAt(AllLabels, a), Priority)
           taken == {a \in Addresses(AllLabels) : best(a).name = "mut_table"}
           n == Len(w) + 1
<1>1. /\ IsList(Won) /\ ToSet(Won) = {best(a) : a \in Addresses(AllLabels)}
      /\ \A a \in Addresses(AllLabels) : best(a).new = a
  BY WonOnce DEF Merging
<1>2. IsList(w) /\ ToSet(w) = T
  <2>1. w = Filter(Won, T) /\ ToSet(Won) \cap T = T
    BY DEF Superseded
  <2> HIDE DEF T
  <2>2. IsList(Filter(Won, T)) /\ ToSet(Filter(Won, T)) = ToSet(Won) \cap T
    BY <1>1, FilterList
  <2> HIDE DEF w
  <2> QED BY <2>1, <2>2
<1>3. ls = Append(w, MutSymbol)
  BY DEF MergedOK, Corrected
<1>4. MutSymbol.new = MutTable /\ MutSymbol.name = "mut_table"
  BY DEF MutSymbol, Symbol
<1> HIDE DEF ls, w
<1>5. /\ IsList(ls) /\ ToSet(ls) = T \cup {MutSymbol}
      /\ Len(w) \in Nat /\ DOMAIN w = 1..Len(w) /\ DOMAIN ls = 1..n
      /\ \A i \in DOMAIN w : ls[i] \in T
      /\ ls[n] = MutSymbol
  <2>1. /\ IsList(Append(w, MutSymbol)) /\ ToSet(Append(w, MutSymbol)) = ToSet(w) \cup {MutSymbol}
        /\ DOMAIN Append(w, MutSymbol) = 1..(Len(w) + 1)
        /\ \A i \in DOMAIN w : Append(w, MutSymbol)[i] = w[i]
        /\ Append(w, MutSymbol)[Len(w) + 1] = MutSymbol
    BY <1>2, AppendList
  <2>2. Len(w) \in Nat /\ DOMAIN w = 1..Len(w) /\ \A i \in DOMAIN w : w[i] \in ToSet(w)
    BY <1>2, ListPlaces
  <2> HIDE DEF T
  <2> QED BY <1>2, <1>3, <2>1, <2>2
<1>6. named = {n}
  <2>1. n \in DOMAIN ls /\ \A i \in DOMAIN ls : i = n \/ i \in DOMAIN w
    BY <1>5
  <2>2. \A i \in DOMAIN w : ls[i].name # "mut_table"
    BY <1>5
  <2>3. ls[n].name = "mut_table"
    BY <1>4, <1>5
  <2> HIDE DEF n
  <2> QED BY <2>1, <2>2, <2>3
<1>7. Cardinality(named) = 1
  BY <1>6, FS_Singleton
<1>8. Addresses(ls) = (Addresses(AllLabels) \ taken) \cup {MutTable}
  <2>1. Addresses(ls) = {s.new : s \in ToSet(ls)}
    BY <1>5, AddressesOf
  <2>2. {s.new : s \in T} = Addresses(AllLabels) \ taken
    <3> HIDE DEF best
    <3> QED BY <1>1
  <2>3. {s.new : s \in ToSet(ls)} = {s.new : s \in T} \cup {MutSymbol.new}
    BY <1>5
  <2> QED BY <1>4, <2>1, <2>2, <2>3
<1>9. \A i \in named : ls[i].new = MutTable /\ world.cell[MutTable] = "table"
  BY <1>4, <1>5, <1>6, MutTablePlace
<1> QED BY <1>7, <1>8, <1>9 DEF ls

\* A table that the MUT pass has found is named once, where it is; every other address that
\* a reference named keeps a name, but those the arbitration took for the table.
THEOREM MutTableOnceHolds == Spec => []MutTableOnce
<1>1. SelectedOK /\ Gathered /\ MergedOK /\ FilesOK => MutTableOnce
  <2> SUFFICES ASSUME SelectedOK, Gathered, MergedOK, FilesOK, Done PROVE MutTableOnce
    BY DEF MutTableOnce
  <2>1. files.labels = merged.labels /\ phase \in Merging \ {"mut"} /\ phase \in Merging \cup {"merge"}
    BY DEF FilesOK, Done, Merging
  <2>2. CASE MutTable = None
    <3>1. Addresses(merged.labels) = Addresses(AllLabels)
      BY <2>1, <2>2, FinalLabels, WonOnce
    <3> QED BY <2>1, <2>2, <3>1 DEF MutTableOnce
  <2>3. CASE MutTable # None
    BY <2>1, <2>3, TableLabelled DEF MutTableOnce
  <2> QED BY <2>2, <2>3
<1> QED BY <1>1, SelectedInvariant, GatheredInvariant, MergedInvariant, FilesInvariant, PTL

\* The second pass over a reference's matches never moves a name the first has placed; in a
\* ROM that is compared with itself, where the reference gives each name once.
THEOREM LaterPassAgreesHolds ==
  ASSUME NamesUnique
  PROVE  Spec => []LaterPassAgrees
<1>1. SelectedOK /\ Gathered => LaterPassAgrees
  <2> SUFFICES ASSUME SelectedOK, Gathered, NEW k \in DOMAIN results, NEW s \in ToSet(results[k].labels),
                      NEW t \in ToSet(results[k].labels), s.name = t.name, s.cat = t.cat, s.cat # "function"
               PROVE  s.new = t.new
    BY DEF LaterPassAgrees
  <2>1. ResultOK(refs[k], results[k])
    BY DEF Gathered
  <2>2. CASE ~SelfDiff
    BY <2>1, <2>2 DEF ResultOK, Agree
  <2>3. CASE SelfDiff
    <3>1. refs[k] \in ToSet(world.refs)
      <4>1. k \in DOMAIN refs
        BY ListPlaces DEF Gathered, SelectedOK
      <4> QED BY <4>1, ListPlaces DEF SelectedOK
    <3>2. Supported(refs[k], results[k], s) /\ Supported(refs[k], results[k], t)
      BY <2>1 DEF ResultOK
    <3>3. /\ s.new \in DOMAIN refs[k].syms /\ t.new \in DOMAIN refs[k].syms
          /\ refs[k].syms[s.new].name = s.name /\ refs[k].syms[s.new].cat = s.cat
          /\ refs[k].syms[t.new].name = t.name /\ refs[k].syms[t.new].cat = t.cat
      BY <2>3, <3>2 DEF Supported
    <3> QED BY <3>1, <3>3 DEF NamesUnique, SelectedOK
  <2> QED BY <2>2, <2>3
<1> QED BY <1>1, SelectedInvariant, GatheredInvariant, PTL
-----------------------------------------------------------------------------
\* Fifth: what the passes over the new ROM read off its code.
LEMMA NearestSiteIn ==
  ASSUME NEW sites \in SUBSET Int, IsFiniteSet(sites), NEW expected, sites # {} => expected \in Int
  PROVE  /\ NearestSite(sites, expected)[1] \in sites \cup {None}
         /\ NearestSite(sites, expected)[2] \in {"high", "medium", "low"}
<1> DEFINE away(a) == IF a < expected THEN expected - a ELSE a - expected
           Nearest(a) == \A b \in sites : away(a) < away(b) \/ (away(a) = away(b) /\ a <= b)
           nearest == CHOOSE a \in sites : Nearest(a)
           result == NearestSite(sites, expected)
<1>1. result = IF sites = {} THEN <<None, "low">>
               ELSE IF expected \in sites THEN <<expected, "high">>
               ELSE IF Cardinality(sites) = 1 THEN <<nearest, "high">> ELSE <<nearest, "medium">>
  BY DEF NearestSite
<1>2. CASE sites = {}
  BY <1>1, <1>2
<1>3. CASE sites # {}
  <2>1. expected \in Int /\ \A a \in sites : a \in Int
    BY <1>3
  <2>2. \A a \in sites : away(a) \in Int
    BY <2>1
  <2> DEFINE D == {away(a) : a \in sites}
             m == Min(D)
             near == {a \in sites : away(a) = m}
  <2>3. D \in SUBSET Int /\ D # {}
    BY <1>3, <2>2
  <2>4. IsFiniteSet(D)
    <3> DEFINE f == [a \in sites |-> away(a)]
    <3>1. D = {f[a] : a \in sites}
      OBVIOUS
    <3> HIDE DEF D, f
    <3> QED BY <3>1, FiniteValues
  <2>5. m \in D /\ \A x \in D : m <= x
    <3> HIDE DEF D
    <3> QED BY <2>3, <2>4, MinMax
  <2>6. near # {} /\ (\A a \in sites : m <= away(a)) /\ m \in Int
    <3> HIDE DEF m, away
    <3> QED BY <2>2, <2>5
  <2>7. near \in SUBSET Int /\ near \in SUBSET sites
    BY <2>1
  <2>8. IsFiniteSet(near)
    <3> HIDE DEF near
    <3> QED BY <2>7, FS_Subset
  <2>9. Min(near) \in near /\ \A x \in near : Min(near) <= x
    <3> HIDE DEF near
    <3> QED BY <2>6, <2>7, <2>8, MinMax
  <2> DEFINE c == Min(near)
  <2>10. c \in sites /\ away(c) = m /\ \A b \in sites : away(b) = m => c <= b
    BY <2>9
  <2> HIDE DEF c, m, away, near, D
  <2>11. Nearest(c)
    <3> TAKE b \in sites
    <3>1. m <= away(b) /\ away(b) \in Int /\ m \in Int
      BY <2>2, <2>6
    <3>2. CASE away(b) = m
      BY <2>10, <3>2
    <3>3. CASE away(b) # m
      BY <2>10, <3>1, <3>3
    <3> QED BY <3>2, <3>3
  <2> HIDE DEF Nearest
  <2>12. nearest \in sites
    BY <2>10, <2>11
  <2> HIDE DEF nearest, result
  <2> QED BY <1>1, <1>3, <2>12 DEF result
<1> QED BY <1>2, <1>3

LEMMA SymbolAddressIn ==
  ASSUME NEW e, IsReference(e), NEW name
  PROVE  SymbolAddress(e, name) \in Nat \cup {None}
<1> DEFINE at == {a \in DOMAIN e.syms : e.syms[a].name = name}
<1>1. at \in SUBSET Int /\ at \in SUBSET (DOMAIN e.syms) /\ IsFiniteSet(DOMAIN e.syms) /\ at \subseteq Nat
  BY DEF IsReference
<1>2. SymbolAddress(e, name) = IF at = {} THEN None ELSE Min(at)
  BY DEF SymbolAddress
<1> HIDE DEF at
<1>3. IsFiniteSet(at)
  BY <1>1, FS_Subset
<1>4. at # {} => Min(at) \in at
  BY <1>1, <1>3, MinMax
<1> QED BY <1>1, <1>2, <1>4

\* The splice of the dispatcher, and those at the callers of canrx12_15_process.
IsSplice(x) ==
  /\ x.addr \in Nat \cup {None} /\ x.conf \in DOMAIN ConfidenceRank
  /\ x.name \in {"slot12", "slot15"} /\ x.conf = "high" =>
       /\ x.addr \in DOMAIN world.site
       /\ SlotAt(world.site[x.addr]) = IF x.name = "slot12" THEN 2 ELSE 1

LEMMA KlineSplice ==
  ASSUME SelectedOK, refs # <<>>
  PROVE  \A x \in KlineSite : IsSplice(x)
<1> DEFINE e == refs[1]
           hook == SymbolAddress(refs[1], "kline_hook")
           count == SymbolAddress(refs[1], "tx_count")
           old == IF hook \in DOMAIN refs[1].inside THEN refs[1].inside[hook] ELSE None
           matched == {i \in DOMAIN merged.matches : merged.matches[i].ref = old}
           new == IF SelfDiff THEN old ELSE IF matched = {} THEN None ELSE merged.matches[Max(matched)].new
           labels == {i \in DOMAIN merged.labels : merged.labels[i].name = "tx_count"}
           var == IF labels = {} THEN count ELSE merged.labels[Max(labels)].new
           R == {a \in ToSet(world.acc[new]) : a.kind = "read" /\ a.addr = var}
           reads == IF new \notin DOMAIN world.acc THEN {} ELSE {new + a.off : a \in R}
           site == IF old = None \/ new = None THEN NearestSite({}, 0) ELSE NearestSite(reads, new + hook - old)
<1>1. KlineSite = IF hook = None \/ count = None THEN {} ELSE {Binding("kline", site[1], site[2])}
  BY DEF KlineSite
<1>2. IsReference(e) /\ IsAccesses(world.acc)
  <2>1. IsList(refs) /\ refs # <<>> /\ ToSet(refs) \subseteq ToSet(world.refs)
    BY DEF SelectedOK
  <2>2. 1 \in DOMAIN refs
    BY <2>1 DEF IsList
  <2>3. e \in ToSet(world.refs)
    BY <2>1, <2>2, ListPlaces
  <2> QED BY <2>3, WorldFacts DEF SelectedOK
<1>3. hook \in Nat \cup {None}
  BY <1>2, SymbolAddressIn
<1>4. old # None => hook \in DOMAIN e.inside /\ old \in Nat
  BY <1>2 DEF IsReference
<1> HIDE DEF old
<1>5. reads \in SUBSET Nat /\ IsFiniteSet(reads) /\ (reads # {} => new \in Nat)
  <2> HIDE DEF new, var
  <2>1. CASE new \notin DOMAIN world.acc
    BY <2>1, FS_EmptySet
  <2>2. CASE new \in DOMAIN world.acc
    <3>1. IsList(world.acc[new]) /\ new \in Nat
          /\ \A a \in ToSet(world.acc[new]) : a.off \in Int /\ new + a.off \in Nat
      BY <1>2, <2>2 DEF IsAccesses, IsList
    <3>2. IsFiniteSet(ToSet(world.acc[new])) /\ R \in SUBSET ToSet(world.acc[new])
      BY <3>1, ListFinite
    <3>3. IsFiniteSet(R)
      <4> HIDE DEF R
      <4> QED BY <3>2, FS_Subset
    <3> DEFINE f == [a \in R |-> new + a.off]
               S == {new + a.off : a \in R}
    <3>4. S = {f[a] : a \in R} /\ S \in SUBSET Nat
      BY <3>1
    <3>5. reads = S
      BY <2>2
    <3> HIDE DEF R, f, S, reads
    <3>6. IsFiniteSet(S)
      BY <3>3, <3>4, FiniteValues
    <3> QED BY <3>1, <3>4, <3>5, <3>6
  <2> QED BY <2>1, <2>2
<1> HIDE DEF reads, new, var
<1>6. ASSUME hook # None PROVE site[1] \in Nat \cup {None} /\ site[2] \in {"high", "medium", "low"}
  <2>1. CASE old = None \/ new = None
    <3>1. site = NearestSite({}, 0)
      BY <2>1
    <3>2. {} \in SUBSET Int /\ IsFiniteSet({}) /\ 0 \in Int
      BY FS_EmptySet
    <3>3. NearestSite({}, 0)[1] \in {} \cup {None} /\ NearestSite({}, 0)[2] \in {"high", "medium", "low"}
      BY <3>2, NearestSiteIn
    <3> HIDE DEF site
    <3> QED BY <3>1, <3>3
  <2>2. CASE ~(old = None \/ new = None)
    <3> DEFINE k == new + hook - old
    <3>1. site = NearestSite(reads, k)
      BY <2>2
    <3>2. reads # {} => k \in Int
      <4> HIDE DEF hook
      <4> QED BY <1>3, <1>4, <1>5, <1>6, <2>2
    <3>3. reads \in SUBSET Int
      BY <1>5
    <3> HIDE DEF k
    <3>4. NearestSite(reads, k)[1] \in reads \cup {None} /\ NearestSite(reads, k)[2] \in {"high", "medium", "low"}
      BY <1>5, <3>2, <3>3, NearestSiteIn
    <3> HIDE DEF site
    <3> QED BY <1>5, <3>1, <3>4
  <2> QED BY <2>1, <2>2
<1> HIDE DEF site, hook, count
<1>7. ASSUME NEW x \in KlineSite PROVE IsSplice(x)
  <2>1. hook # None /\ x = Binding("kline", site[1], site[2])
    BY <1>1
  <2>2. x.name = "kline" /\ x.addr = site[1] /\ x.conf = site[2]
    BY <2>1 DEF Binding
  <2> QED BY <1>6, <2>1, <2>2 DEF IsSplice, ConfidenceRank
<1> QED BY <1>7
LEMMA CallersBound ==
  ASSUME NEW callers \in SUBSET Nat, IsFiniteSet(callers), NEW slot
  PROVE  \A x \in CanCallSites(callers, slot) :
           /\ x.addr \in callers \cup {None} /\ x.conf \in {"high", "low"}
           /\ x.conf = "high" => x.addr \in callers /\ slot[x.addr] = IF x.name = "slot12" THEN 2 ELSE 1
<1> DEFINE order == Sorted(callers)
           by(n) == CHOOSE a \in callers : slot[a] = n
           nth(k) == IF k \in DOMAIN order THEN order[k] ELSE None
           happy == Len(order) = 2 /\ {slot[a] : a \in callers} = {1, 2}
           sure == {Binding("slot12", by(2), "high"), Binding("slot15", by(1), "high")}
           doubt == {Binding("slot12", nth(1), "low"), Binding("slot15", nth(2), "low")}
<1>1. CanCallSites(callers, slot) = IF happy THEN sure ELSE doubt
  BY DEF CanCallSites
<1>2. callers \in SUBSET Int
  OBVIOUS
<1>3. \A k : nth(k) \in callers \cup {None}
  <2>1. order \in Seq(callers)
    BY <1>2, SortedList
  <2> HIDE DEF order
  <2> QED BY <2>1
<1>4. CASE happy
  <2>1. \A n \in {1, 2} : \E a \in callers : slot[a] = n
    BY <1>4
  <2>2. by(2) \in callers /\ slot[by(2)] = 2 /\ by(1) \in callers /\ slot[by(1)] = 1
    BY <2>1
  <2> HIDE DEF by
  <2>3. ASSUME NEW x \in sure
        PROVE  /\ x.addr \in callers \cup {None} /\ x.conf \in {"high", "low"}
               /\ x.addr \in callers /\ slot[x.addr] = IF x.name = "slot12" THEN 2 ELSE 1
    BY <2>2, <2>3 DEF Binding
  <2> HIDE DEF sure, doubt, happy
  <2> QED BY <1>1, <1>4, <2>3
<1>5. CASE ~happy
  <2> HIDE DEF nth
  <2>1. ASSUME NEW x \in doubt PROVE x.addr \in callers \cup {None} /\ x.conf = "low"
    BY <1>3, <2>1 DEF Binding
  <2> HIDE DEF sure, doubt, happy
  <2> QED BY <1>1, <1>5, <2>1
<1> QED BY <1>4, <1>5

LEMMA CallsFinite ==
  ASSUME SelectedOK, NEW f
  PROVE  Calls(f) \in SUBSET Nat /\ IsFiniteSet(Calls(f)) /\ Calls(f) \subseteq DOMAIN world.site
BY WorldFacts, FS_EmptySet DEF SelectedOK, Calls

LEMMA CanSplices ==
  ASSUME SelectedOK
  PROVE  \A x \in CanSites : IsSplice(x)
<1> DEFINE f == LastMatch("canrx12_15_process")
           slot == [s \in Calls(f) |-> SlotAt(world.site[s])]
<1>1. CanSites = IF f = None THEN {} ELSE CanCallSites(Calls(f), slot)
  BY DEF CanSites
<1>2. \A s \in Calls(f) : slot[s] = SlotAt(world.site[s])
  OBVIOUS
<1> HIDE DEF f, slot
<1>3. Calls(f) \in SUBSET Nat /\ IsFiniteSet(Calls(f)) /\ Calls(f) \subseteq DOMAIN world.site
  BY CallsFinite
<1>4. ASSUME NEW x \in CanCallSites(Calls(f), slot) PROVE IsSplice(x)
  <2>1. /\ x.addr \in Calls(f) \cup {None} /\ x.conf \in {"high", "low"}
        /\ x.conf = "high" => x.addr \in Calls(f) /\ slot[x.addr] = IF x.name = "slot12" THEN 2 ELSE 1
    BY <1>3, CallersBound
  <2> QED BY <1>2, <1>3, <2>1 DEF IsSplice, ConfidenceRank
<1> QED BY <1>1, <1>4

\* A setter of a trouble code: its arguments are those the walk back has met.
IsSetter(x) ==
  /\ x.site \in DOMAIN world.site
  /\ LET args == CallArgs(world.site[x.site].code)
     IN args.mask # None /\ args.idx # None /\ BitOf(args.mask) # None /\ x.word = args.idx /\ x.bit = BitOf(args.mask)

PassesOK ==
  /\ \A x \in splices : IsSplice(x)
  /\ obd # None => \A x \in obd.setters : IsSetter(x)

LEMMA SettersWalk ==
  ASSUME SelectedOK, NEW table, NEW f, NEW isSet
  PROVE  \A x \in Setters(table, f, isSet) : IsSetter(x)
<1> DEFINE args(s) == CallArgs(world.site[s].code)
           S == {s \in Calls(f) : /\ args(s).mask # None /\ args(s).idx # None /\ BitOf(args(s).mask) # None
                                  /\ table \in DOMAIN world.dtc
                                  /\ <<args(s).idx, BitOf(args(s).mask)>> \in world.dtc[table]}
           setter(s) == [site |-> s, isSet |-> isSet, word |-> args(s).idx, bit |-> BitOf(args(s).mask)]
<1>1. Setters(table, f, isSet) = {setter(s) : s \in S}
  BY DEF Setters
<1>2. \A s \in Calls(f) : s \in DOMAIN world.site
  BY CallsFinite
<1>3. ASSUME NEW s \in S PROVE IsSetter(setter(s))
  <2>1. s \in DOMAIN world.site /\ args(s).mask # None /\ args(s).idx # None /\ BitOf(args(s).mask) # None
    BY <1>2
  <2>2. setter(s).site = s /\ setter(s).word = args(s).idx /\ setter(s).bit = BitOf(args(s).mask)
    OBVIOUS
  <2> HIDE DEF setter
  <2> QED BY <2>1, <2>2 DEF IsSetter
<1> QED BY <1>1, <1>3

LEMMA PassesInvariant == Spec => []PassesOK
<1>1. Init => PassesOK
  BY DEF Init, PassesOK
<1>2. SelectedOK /\ PassesOK /\ [Next]_vars => PassesOK'
  <2> SUFFICES ASSUME SelectedOK, PassesOK, [Next]_vars PROVE PassesOK'
    OBVIOUS
  <2>0. UNCHANGED world
    BY DEF Next, Select, Propagate, SecondPass, Stamp, Merge, MutPass, ObdPass, CanPass, Mode23, WriteOutputs,
           Returned, vars
  <2>1. ASSUME UNCHANGED <<splices, obd>> PROVE PassesOK'
    BY <2>0, <2>1 DEF PassesOK, IsSplice, IsSetter
  <2>2. CASE ObdPass
    <3>1. PICK t, f, g : obd' = IF "obd" \notin world.options THEN None
                               ELSE [table |-> t, setters |-> Setters(t, f, TRUE) \cup Setters(t, g, FALSE)]
      BY <2>2 DEF ObdPass
    <3>2. obd' # None => \A x \in obd'.setters : IsSetter(x)
      <4> SUFFICES ASSUME obd' # None PROVE \A x \in obd'.setters : IsSetter(x)
        OBVIOUS
      <4>1. obd'.setters = Setters(t, f, TRUE) \cup Setters(t, g, FALSE)
        BY <3>1
      <4> QED BY <4>1, SettersWalk
    <3>3. splices' = splices
      BY <2>2 DEF ObdPass
    <3>4. (\A x \in splices : IsSplice(x))'
      BY <2>0, <3>3 DEF PassesOK, IsSplice
    <3>5. (obd # None => \A x \in obd.setters : IsSetter(x))'
      BY <2>0, <3>2 DEF IsSetter
    <3> QED BY <3>4, <3>5 DEF PassesOK
  <2>3. CASE Mode23
    <3>1. obd' = obd /\ splices' \subseteq KlineSite \cup CanSites /\ refs # <<>>
      BY <2>3 DEF Mode23, SelectedOK
    <3>2. \A x \in splices' : IsSplice(x)
      BY <3>1, KlineSplice, CanSplices
    <3>3. (\A x \in splices : IsSplice(x))'
      BY <2>0, <3>2 DEF IsSplice
    <3>4. (obd # None => \A x \in obd.setters : IsSetter(x))'
      BY <2>0, <3>1 DEF PassesOK, IsSetter
    <3> QED BY <3>3, <3>4 DEF PassesOK
  <2>4. CASE Select \/ Propagate \/ SecondPass \/ Stamp \/ Merge \/ MutPass \/ CanPass \/ WriteOutputs
    BY <2>1, <2>4 DEF Select, Propagate, SecondPass, Stamp, Merge, MutPass, CanPass, WriteOutputs
  <2>5. CASE Returned \/ UNCHANGED vars
    BY <2>1, <2>5 DEF Returned, vars
  <2> QED BY <2>2, <2>3, <2>4, <2>5 DEF Next
<1> QED BY <1>1, <1>2, SelectedInvariant, PTL DEF Spec

\* The types of what analyze computes; each result belongs to the reference at its place in
\* the order of the selection.
THEOREM TypeInvariant == Spec => []TypeOK
<1>1. SelectedOK /\ Gathered /\ MergedOK /\ PassesOK => TypeOK
  <2> SUFFICES ASSUME SelectedOK, Gathered, MergedOK, PassesOK PROVE TypeOK
    OBVIOUS
  <2>1. phase \in Phases /\ ToSet(refs) \subseteq ToSet(world.refs) /\ Len(results) <= Len(refs)
    BY DEF SelectedOK, Gathered
  <2>2. ASSUME NEW k \in DOMAIN results
        PROVE  /\ results[k].id = refs[k].id
               /\ \A i \in DOMAIN results[k].labels :
                    /\ LabelOK(results[k].labels[i])
                    /\ results[k].labels[i].reference = refs[k].id
    <3>1. ResultOK(refs[k], results[k])
      BY DEF Gathered
    <3>2. \A i \in DOMAIN results[k].labels : results[k].labels[i] \in ToSet(results[k].labels)
      BY DEF ToSet
    <3> QED BY <3>1, <3>2 DEF ResultOK, IsLabel
  <2>3. \A i \in DOMAIN merged.labels : LabelOK(merged.labels[i])
    <3>1. CASE phase \notin Merging
      BY <3>1 DEF MergedOK
    <3>2. CASE phase = "mut"
      <4>1. merged.labels = Won /\ phase \in Merging \cup {"merge"}
        BY <3>2 DEF MergedOK, Merging
      <4>2. \A i \in DOMAIN Won : Won[i] \in ToSet(AllLabels)
        BY <4>1, WonOnce, ListPlaces
      <4> QED BY <4>1, <4>2, AllGiven DEF IsLabel
    <3>3. CASE phase \in Merging \ {"mut"}
      BY <3>3, FinalLabels, ListPlaces
    <3> QED BY <3>1, <3>2, <3>3
  <2>4. \A x \in splices : x.addr \in Nat \cup {None} /\ x.conf \in DOMAIN ConfidenceRank
    BY DEF PassesOK, IsSplice
  <2> QED BY <2>1, <2>2, <2>3, <2>4 DEF TypeOK, Phases
<1> QED BY <1>1, SelectedInvariant, GatheredInvariant, MergedInvariant, PassesInvariant, PTL
-----------------------------------------------------------------------------
\* Running code.
IsCode(code) == IsList(code) /\ \A i \in ToSet(code) : IsInstruction(i)

States == [Registers -> Int \cup {None}]

Effect(i, s) ==
  CASE i.op = "ldi" -> [s EXCEPT ![i.dst] = i.imm]
    [] i.op = "mv"  -> [s EXCEPT ![i.dst] = s[i.src]]
    [] OTHER        -> [r \in Registers |-> IF r \in i.writes THEN None ELSE s[r]]

Runs(f, code) ==
  /\ f \in [0..Len(code) -> States] /\ f[0] = [r \in Registers |-> None]
  /\ \A k \in 1..Len(code) : f[k] = Effect(code[k], f[k - 1])

LEMMA EffectType ==
  ASSUME NEW i, IsInstruction(i), NEW s \in States
  PROVE  Effect(i, s) \in States
BY DEF Effect, IsInstruction, States

LEMMA CodePlaces ==
  ASSUME NEW code, IsCode(code)
  PROVE  /\ Len(code) \in Nat /\ DOMAIN code = 1..Len(code)
         /\ \A k \in 1..Len(code) : IsInstruction(code[k])
BY ListPlaces DEF IsCode

LEMMA ExecuteRuns ==
  ASSUME NEW code, IsCode(code)
  PROVE  \E f : Runs(f, code) /\ Execute(code) = f[Len(code)]
<1> DEFINE n == Len(code)
           b == [r \in Registers |-> None]
           Step(f, k) == IF k = 0 THEN b
                         ELSE CASE code[k].op = "ldi" -> [f[k - 1] EXCEPT ![code[k].dst] = code[k].imm]
                                [] code[k].op = "mv"  -> [f[k - 1] EXCEPT ![code[k].dst] = f[k - 1][code[k].src]]
                                [] OTHER              -> [r \in Registers |-> IF r \in code[k].writes THEN None ELSE f[k - 1][r]]
           regs == CHOOSE f : f = [k \in 0..n |-> Step(f, k)]
           G == [p \in (1..n) \X States |-> Effect(code[p[1]], p[2])]
<1>1. Execute(code) = regs[n]
  BY DEF Execute
<1>2. n \in Nat /\ \A k \in 1..n : IsInstruction(code[k])
  BY CodePlaces
<1>3. \A f, k : Step(f, k) = IF k = 0 THEN b ELSE Effect(code[k], f[k - 1])
  BY DEF Effect
<1>4. IsStepper(n, States, b, G)
  <2>1. b \in States
    BY DEF States
  <2>2. G \in [(1..n) \X States -> States]
    <3> HIDE DEF n
    <3> QED BY <1>2, EffectType
  <2> HIDE DEF G, b
  <2> QED BY <1>2, <2>1, <2>2 DEF IsStepper
<1>5. PICK f \in [0..n -> States] : StepsFrom(f, n, b, G)
  <2> HIDE DEF G, b, n
  <2> QED BY <1>4, StepRecursion
<1>6. f[0] = b /\ \A k \in 1..n : f[k] = Effect(code[k], f[k - 1])
  <2>1. f[0] = b /\ \A k \in 1..n : f[k] = G[<<k, f[k - 1]>>]
    BY <1>5 DEF StepsFrom
  <2>2. \A k \in 1..n : f[k - 1] \in States
    <3> HIDE DEF n
    <3>1. \A k \in 1..n : k - 1 \in 0..n
      BY <1>2
    <3> QED BY <1>5, <3>1
  <2>3. \A k \in 1..n, s \in States : G[<<k, s>>] = Effect(code[k], s)
    OBVIOUS
  <2> HIDE DEF G, n, b
  <2> QED BY <2>1, <2>2, <2>3
<1>7. f = [k \in 0..n |-> Step(f, k)]
  <2>1. \A k \in 0..n : f[k] = Step(f, k)
    <3> HIDE DEF Step, b, n
    <3>1. \A k \in 0..n : k = 0 \/ k \in 1..n
      BY <1>2
    <3> QED BY <1>3, <1>6, <3>1
  <2> HIDE DEF Step, n
  <2> QED BY <1>5, <2>1
<1>8. regs = [k \in 0..n |-> Step(regs, k)]
  <2> DEFINE P(g) == g = [k \in 0..n |-> Step(g, k)]
  <2>1. P(f)
    BY <1>7
  <2>2. regs = CHOOSE g : P(g)
    OBVIOUS
  <2> HIDE DEF P, regs
  <2>3. P(regs)
    BY <2>1, <2>2
  <2> QED BY <2>3 DEF P
<1> HIDE DEF regs
<1>9. regs[0] = b /\ \A k \in 1..n : regs[k] = Effect(code[k], regs[k - 1])
  <2>1. \A k \in 0..n : regs[k] = Step(regs, k)
    <3> HIDE DEF Step, n
    <3> QED BY <1>8
  <2>2. 0 \in 0..n /\ \A k \in 1..n : k \in 0..n /\ k # 0
    <3> HIDE DEF n
    <3> QED BY <1>2
  <2> HIDE DEF Step, n, b
  <2> QED BY <1>3, <2>1, <2>2
<1>10. DOMAIN regs = 0..n /\ regs = [k \in 0..n |-> regs[k]]
  <2> HIDE DEF Step, n
  <2> QED BY <1>8
<1>11. \A k \in 0..n : regs[k] \in States
  <2> DEFINE T == {k \in 0..n : regs[k] \in States}
  <2>1. 0 \in T
    <3> HIDE DEF n
    <3> QED BY <1>2, <1>9 DEF States
  <2>2. ASSUME NEW k \in 0..(n - 1), k \in T PROVE k + 1 \in T
    <3> HIDE DEF n
    <3>1. k + 1 \in 1..n /\ k + 1 \in 0..n /\ (k + 1) - 1 = k
      BY <1>2
    <3>2. regs[k + 1] = Effect(code[k + 1], regs[k])
      BY <1>9, <3>1
    <3>3. IsInstruction(code[k + 1])
      BY <1>2, <3>1 DEF n
    <3>4. regs[k + 1] \in States
      BY <2>2, <3>2, <3>3, EffectType
    <3> QED BY <3>1, <3>4
  <2> HIDE DEF T, n
  <2>3. \A k \in 0..n : k \in T
    BY <1>2, <2>1, <2>2, SetInduction
  <2> QED BY <2>3 DEF T
<1> HIDE DEF n, b
<1>12. Runs(regs, code)
  BY <1>9, <1>10, <1>11 DEF Runs, n, b
<1> QED BY <1>1, <1>12 DEF n
\* A register holds what it held before code that does not write it.
LEMMA HeldAfter ==
  ASSUME NEW code, IsCode(code), NEW f, Runs(f, code), NEW r \in Registers, NEW p \in 0..Len(code),
         \A k \in (p + 1)..Len(code) : ~Writes(code[k], r)
  PROVE  f[Len(code)][r] = f[p][r]
<1> DEFINE n == Len(code)
           v == f[p][r]
           m == n - p
           T == {j \in 0..m : f[p + j][r] = v}
<1>1. n \in Nat /\ \A k \in 1..n : IsInstruction(code[k])
  BY CodePlaces
<1>2. p \in Nat /\ p <= n /\ m \in Nat /\ p + 0 = p /\ p + m = n
  BY <1>1
<1>3. (\A k \in 0..n : f[k] \in States) /\ \A k \in 1..n : f[k] = Effect(code[k], f[k - 1])
  BY DEF Runs
<1>4. \A k \in (p + 1)..n : ~Writes(code[k], r)
  OBVIOUS
<1> HIDE DEF n, v
<1>5. 0 \in T
  BY <1>2 DEF v
<1>6. ASSUME NEW j \in 0..(m - 1), j \in T PROVE j + 1 \in T
  <2> DEFINE k == p + j
  <2>1. /\ k \in 0..n /\ k + 1 \in 1..n /\ k + 1 \in (p + 1)..n /\ (k + 1) - 1 = k /\ p + (j + 1) = k + 1
        /\ j + 1 \in 0..m
    BY <1>1, <1>2
  <2>2. f[k][r] = v
    BY <1>6
  <2> HIDE DEF k, m
  <2> DEFINE i == code[k + 1]
             s == f[k]
  <2>3. IsInstruction(i) /\ s \in States /\ f[k + 1] = Effect(i, s) /\ ~Writes(i, r)
    BY <1>1, <1>3, <1>4, <2>1
  <2> HIDE DEF i, s
  <2>4. Effect(i, s)[r] = s[r]
    BY <2>3 DEF Effect, IsInstruction, Writes, States
  <2>5. f[k + 1][r] = v
    BY <2>2, <2>3, <2>4 DEF s
  <2> QED BY <2>1, <2>5
<1> HIDE DEF T, m
<1>7. \A j \in 0..m : j \in T
  BY <1>2, <1>5, <1>6, SetInduction
<1>8. m \in T
  BY <1>2, <1>7
<1> QED BY <1>2, <1>8 DEF T, n, v, m

\* The end of a piece of code.
LEMMA LastPlaces ==
  ASSUME NEW code, IsCode(code), NEW n \in Nat, n > 0
  PROVE  \E o \in Nat : LET near == LastN(code, n)
                        IN /\ o + Len(near) = Len(code) /\ Len(near) \in Nat
                           /\ DOMAIN near = 1..Len(near)
                           /\ \A i \in 1..Len(near) : near[i] = code[o + i] /\ o + i \in 1..Len(code)
                           /\ Len(near) < n => o = 0
<1> DEFINE l == Len(code)
           from == Max({1, l - n + 1})
           near == LastN(code, n)
           o == from - 1
<1>1. l \in Nat /\ DOMAIN code = 1..l /\ code \in Seq(ToSet(code))
  BY ListPlaces DEF IsCode, IsList
<1>2. from \in {1, l - n + 1} /\ from >= 1 /\ from >= l - n + 1
  <2> DEFINE S == {1, l - n + 1}
  <2>1. S \in SUBSET Int /\ S # {} /\ 1 \in S /\ l - n + 1 \in S
    BY <1>1
  <2>2. IsFiniteSet(S)
    <3> DEFINE A == {1}
               B == {l - n + 1}
    <3>1. IsFiniteSet(A) /\ IsFiniteSet(B)
      BY FS_Singleton
    <3>2. S = A \cup B
      OBVIOUS
    <3> HIDE DEF A, B, S
    <3> QED BY <3>1, <3>2, FS_Union
  <2> HIDE DEF S
  <2>3. Max(S) \in S /\ \A x \in S : Max(S) >= x
    BY <2>1, <2>2, MinMax
  <2> QED BY <2>1, <2>3 DEF S
<1>3. from \in Int /\ from <= l + 1
  <2> HIDE DEF from, l
  <2> QED BY <1>1, <1>2
<1>4. near = SubSeq(code, from, l)
  BY DEF LastN
<1> HIDE DEF from, near, l
<1>5. Len(near) = l - from + 1 /\ DOMAIN near = 1..(l - from + 1)
      /\ \A i \in 1..(l - from + 1) : near[i] = code[from + i - 1]
  <2>1. from \in Int /\ l \in Int /\ l - from + 1 \in Nat
    BY <1>1, <1>2, <1>3
  <2>2. near = [i \in 1..(l - from + 1) |-> code[from + i - 1]]
    BY <1>4, <2>1 DEF SubSeq
  <2> QED BY <2>1, <2>2
<1>6. o \in Nat /\ o + Len(near) = l /\ Len(near) \in Nat /\ (Len(near) < n => o = 0)
  BY <1>1, <1>2, <1>3, <1>5
<1>7. \A i \in 1..Len(near) : near[i] = code[o + i] /\ o + i \in 1..l
  <2> TAKE i \in 1..Len(near)
  <2>1. from + i - 1 = o + i /\ o + i \in 1..l
    BY <1>1, <1>2, <1>3, <1>5
  <2> QED BY <1>5, <2>1
<1> HIDE DEF o
<1> QED BY <1>5, <1>6, <1>7 DEF near, l
\* What r0 holds where a load writes it last: what it loads, and the last of all loads.
LEMMA LastLoad ==
  ASSUME NEW code, IsCode(code), NEW m \in LoadsR0(code), \A j \in DOMAIN code : Writes(code[j], "r0") => j <= m
  PROVE  /\ Execute(code)["r0"] = code[m].imm /\ m \in 1..Len(code)
         /\ \A k \in LoadsR0(code) : k \in DOMAIN code /\ k <= m
<1> DEFINE n == Len(code)
<1>1. n \in Nat /\ DOMAIN code = 1..n /\ \A k \in 1..n : IsInstruction(code[k])
  BY CodePlaces
<1>2. PICK f : Runs(f, code) /\ Execute(code) = f[n]
  BY ExecuteRuns
<1>3. "r0" \in Registers
  BY RegistersAssumption
<1>4. m \in 1..n /\ code[m].op = "ldi" /\ code[m].dst = "r0"
  BY <1>1 DEF LoadsR0
<1> HIDE DEF n
<1>5. m \in 0..n /\ m - 1 \in 0..n
  BY <1>1, <1>4
<1>6. \A k \in (m + 1)..n : ~Writes(code[k], "r0")
  BY <1>1, <1>4
<1>7. f[n]["r0"] = f[m]["r0"]
  BY <1>2, <1>3, <1>5, <1>6, HeldAfter DEF n
<1>8. f[m] = Effect(code[m], f[m - 1]) /\ f[m - 1] \in States
  BY <1>2, <1>4, <1>5 DEF Runs, n
<1>9. Effect(code[m], f[m - 1])["r0"] = code[m].imm
  BY <1>3, <1>4, <1>8 DEF Effect, States
<1>10. \A k \in LoadsR0(code) : k \in DOMAIN code /\ k <= m
  BY DEF LoadsR0, Writes
<1> QED BY <1>2, <1>4, <1>7, <1>8, <1>9, <1>10 DEF n

\* The listing finds the last load, if it is in reach.
LEMMA LastLoadInReach ==
  ASSUME NEW code, IsCode(code), NEW q \in LoadsR0(code), \A k \in LoadsR0(code) : k <= q,
         q > Len(code) - SlotBack
  PROVE  R0ImmBefore(code) = Low8(code[q].imm)
<1> DEFINE near == LastN(code, SlotBack)
           N == LoadsR0(near)
<1>1. PICK o \in Nat : /\ o + Len(near) = Len(code) /\ Len(near) \in Nat /\ DOMAIN near = 1..Len(near)
                       /\ \A i \in 1..Len(near) : near[i] = code[o + i] /\ o + i \in 1..Len(code)
                       /\ Len(near) < SlotBack => o = 0
  <2>1. SlotBack \in Nat /\ SlotBack > 0
    BY DEF SlotBack
  <2> QED BY <2>1, LastPlaces
<1>2. R0ImmBefore(code) = IF N = {} THEN None ELSE Low8(near[Max(N)].imm)
  BY DEF R0ImmBefore
<1>3. /\ Len(code) \in Nat /\ DOMAIN code = 1..Len(code)
      /\ q \in 1..Len(code) /\ code[q].op = "ldi" /\ code[q].dst = "r0"
  BY CodePlaces DEF LoadsR0
<1> HIDE DEF near
<1>4. N = {i \in 1..Len(near) : code[o + i].op = "ldi" /\ code[o + i].dst = "r0"}
  BY <1>1 DEF LoadsR0
<1> HIDE DEF N
<1>5. q - o \in 1..Len(near) /\ o + (q - o) = q
  BY <1>1, <1>3 DEF SlotBack
<1>6. q - o \in N
  BY <1>3, <1>4, <1>5
<1> DEFINE m == Max(N)
<1>7. m \in N /\ \A k \in N : m >= k
  <2>1. N \in SUBSET (1..Len(near)) /\ N # {}
    BY <1>4, <1>6
  <2> QED BY <1>1, <2>1, PlacesMinMax
<1> HIDE DEF m
<1>8. m \in 1..Len(near) /\ o + m \in LoadsR0(code)
  BY <1>1, <1>3, <1>4, <1>7 DEF LoadsR0
<1>9. m = q - o
  <2>1. o + m <= q /\ m >= q - o
    BY <1>6, <1>7, <1>8
  <2> QED BY <1>1, <1>3, <1>8, <2>1
<1>10. near[m] = code[q]
  BY <1>1, <1>5, <1>8, <1>9
<1> QED BY <1>2, <1>6, <1>10 DEF m

\* A call that the description binds to a slot without doubt passes that slot, if nothing
\* but a load of a constant comes between.
THEOREM SplicesAtSlotHolds == Spec => []SplicesAtSlot
<1>1. SelectedOK /\ FilesOK /\ PassesOK => SplicesAtSlot
  <2> SUFFICES ASSUME SelectedOK, FilesOK, PassesOK, Done, NEW x \in files.splices,
                      x.name \in {"slot12", "slot15"}, x.conf = "high", LoadsSlot(world.site[x.addr].code)
               PROVE  Low8(Execute(world.site[x.addr].code)["r0"]) = IF x.name = "slot12" THEN 2 ELSE 1
    BY DEF SplicesAtSlot
  <2> DEFINE site == world.site[x.addr]
             code == world.site[x.addr].code
             slot == IF x.name = "slot12" THEN 2 ELSE 1
  <2>1. x \in splices
    BY DEF Done, FilesOK
  <2>2. x.addr \in DOMAIN world.site /\ SlotAt(site) = slot
    BY <2>1 DEF PassesOK, IsSplice
  <2>3. IsCode(code) /\ LoadsSlot(code)
    BY <2>2, WorldFacts DEF SelectedOK, IsCode
  <2>4. SlotAt(site) = IF R0ImmBefore(code) # None THEN R0ImmBefore(code) ELSE DecodeLdiR0(site.halves)
    BY DEF SlotAt
  <2> HIDE DEF code, site
  <2>5. PICK k \in LoadsR0(code) : k > Len(code) - SlotBack /\ \A j \in DOMAIN code : Writes(code[j], "r0") => j <= k
    BY <2>3 DEF LoadsSlot
  <2>6. /\ Execute(code)["r0"] = code[k].imm /\ k \in 1..Len(code)
        /\ \A j \in LoadsR0(code) : j <= k
    BY <2>3, <2>5, LastLoad
  <2>7. R0ImmBefore(code) = Low8(code[k].imm)
    BY <2>3, <2>5, <2>6, LastLoadInReach
  <2>8. code[k].imm \in Int
    BY <2>3, <2>5, <2>6, CodePlaces DEF LoadsR0, IsInstruction
  <2>9. Low8(code[k].imm) # None
    <3>1. Low8(code[k].imm) \in Int
      BY <2>8 DEF Low8
    <3> QED BY <3>1, RegistersAssumption
  <2>10. Low8(Execute(code)["r0"]) = slot
    BY <2>2, <2>4, <2>6, <2>7, <2>9
  <2> QED BY <2>10 DEF code
<1> QED BY <1>1, SelectedInvariant, FilesInvariant, PassesInvariant, PTL
-----------------------------------------------------------------------------
\* Walking back from a call.
Walks == [mask : Int \cup {None}, idx : Int \cup {None}, r0 : Registers, r1 : Registers]

WalkStart == [mask |-> None, idx |-> None, r0 |-> "r0", r1 |-> "r1"]

\* The states of the walk over the last m instructions of code.
WalksBack(w, code, m) ==
  /\ w \in [0..m -> Walks] /\ w[0] = WalkStart
  /\ \A k \in 1..m : w[k] = ArgStep(code[Len(code) - k + 1], w[k - 1])

LEMMA ArgStepType ==
  ASSUME NEW i, IsInstruction(i), NEW s \in Walks
  PROVE  ArgStep(i, s) \in Walks
<1>1. i.op = "ldi" => Low16(i.imm) \in Int
  BY DEF IsInstruction, Low16
<1> QED BY <1>1 DEF ArgStep, IsInstruction, Walks

LEMMA CallArgsWalk ==
  ASSUME NEW code, IsCode(code)
  PROVE  \E m \in 0..Len(code) : \E w : WalksBack(w, code, m) /\ CallArgs(code) = w[m]
<1> DEFINE near == LastN(code, ArgsBack)
           m == Len(near)
           Step(f, k) == IF k = 0 THEN WalkStart ELSE ArgStep(near[m - k + 1], f[k - 1])
           back == CHOOSE f : f = [k \in 0..m |-> Step(f, k)]
           G == [p \in (1..m) \X Walks |-> ArgStep(near[m - p[1] + 1], p[2])]
<1>0. PICK o \in Nat : /\ o + m = Len(code) /\ m \in Nat /\ DOMAIN near = 1..m
                       /\ \A i \in 1..m : near[i] = code[o + i] /\ o + i \in 1..Len(code)
  <2>1. ArgsBack \in Nat /\ ArgsBack > 0
    BY DEF ArgsBack
  <2> QED BY <2>1, LastPlaces
<1>1. CallArgs(code) = back[m]
  BY DEF CallArgs, WalkStart
<1> HIDE DEF near, m
<1>2. ASSUME NEW k \in 1..m
      PROVE  near[m - k + 1] = code[Len(code) - k + 1] /\ IsInstruction(near[m - k + 1])
  <2>1. m - k + 1 \in 1..m /\ o + (m - k + 1) = Len(code) - k + 1
    BY <1>0
  <2>2. near[m - k + 1] = code[o + (m - k + 1)] /\ o + (m - k + 1) \in 1..Len(code)
    BY <1>0, <2>1
  <2> QED BY <2>1, <2>2, CodePlaces
<1>3. WalkStart \in Walks
  BY RegistersAssumption DEF WalkStart, Walks
<1>4. IsStepper(m, Walks, WalkStart, G)
  <2>1. G \in [(1..m) \X Walks -> Walks]
    BY <1>2, ArgStepType
  <2> HIDE DEF G
  <2> QED BY <1>0, <1>3, <2>1 DEF IsStepper
<1>5. PICK f \in [0..m -> Walks] : StepsFrom(f, m, WalkStart, G)
  <2> HIDE DEF G
  <2> QED BY <1>4, StepRecursion
<1>6. f = [k \in 0..m |-> Step(f, k)]
  <2>1. f[0] = WalkStart /\ \A k \in 1..m : f[k] = G[<<k, f[k - 1]>>]
    BY <1>5 DEF StepsFrom
  <2>2. \A k \in 1..m : f[k - 1] \in Walks
    <3>1. \A k \in 1..m : k - 1 \in 0..m
      BY <1>0
    <3> QED BY <1>5, <3>1
  <2>3. \A k \in 1..m, s \in Walks : G[<<k, s>>] = ArgStep(near[m - k + 1], s)
    OBVIOUS
  <2> HIDE DEF G
  <2>4. \A k \in 0..m : k = 0 \/ (k \in 1..m /\ k # 0)
    BY <1>0
  <2>5. \A k \in 0..m : f[k] = Step(f, k)
    BY <2>1, <2>2, <2>3, <2>4
  <2> HIDE DEF Step
  <2> QED BY <1>5, <2>5
<1>7. back = [k \in 0..m |-> Step(back, k)]
  <2> DEFINE P(g) == g = [k \in 0..m |-> Step(g, k)]
  <2>1. P(f)
    BY <1>6
  <2>2. back = CHOOSE g : P(g)
    OBVIOUS
  <2> HIDE DEF P, back
  <2>3. P(back)
    BY <2>1, <2>2
  <2> QED BY <2>3 DEF P
<1> HIDE DEF back
<1>8. back[0] = WalkStart /\ \A k \in 1..m : back[k] = ArgStep(near[m - k + 1], back[k - 1])
  <2>1. \A k \in 0..m : back[k] = Step(back, k)
    <3> HIDE DEF Step
    <3> QED BY <1>7
  <2>2. 0 \in 0..m /\ \A k \in 1..m : k \in 0..m /\ k # 0
    BY <1>0
  <2> QED BY <2>1, <2>2
<1>9. DOMAIN back = 0..m /\ back = [k \in 0..m |-> back[k]]
  <2> HIDE DEF Step
  <2> QED BY <1>7
<1> HIDE DEF Step, G
<1>10. \A k \in 0..m : back[k] \in Walks
  <2> DEFINE T == {k \in 0..m : back[k] \in Walks}
  <2>1. 0 \in T
    BY <1>0, <1>3, <1>8
  <2>2. ASSUME NEW k \in 0..(m - 1), k \in T PROVE k + 1 \in T
    <3>1. k + 1 \in 1..m /\ k + 1 \in 0..m /\ (k + 1) - 1 = k
      BY <1>0
    <3>2. back[k + 1] = ArgStep(near[m - (k + 1) + 1], back[k])
      BY <1>8, <3>1
    <3>3. back[k + 1] \in Walks
      BY <1>2, <2>2, <3>1, <3>2, ArgStepType
    <3> QED BY <3>1, <3>3
  <2> HIDE DEF T
  <2>3. \A k \in 0..m : k \in T
    BY <1>0, <2>1, <2>2, SetInduction
  <2> QED BY <2>3 DEF T
<1>11. WalksBack(back, code, m)
  <2>1. back \in [0..m -> Walks]
    BY <1>9, <1>10
  <2>2. \A k \in 1..m : back[k] = ArgStep(code[Len(code) - k + 1], back[k - 1])
    BY <1>2, <1>8
  <2> QED BY <1>8, <2>1, <2>2 DEF WalksBack
<1>12. m \in 0..Len(code)
  <2>1. Len(code) \in Nat
    BY CodePlaces
  <2> QED BY <1>0, <2>1
<1> QED BY <1>1, <1>11, <1>12

\* What the walk knows of the argument in r after k instructions, the value found being
\* found: that, or where the argument was then; nothing where running the code tells nothing.
Tracked(f, code, r, k, found, from) ==
  LET u == f[Len(code)][r]
  IN u # None => IF found # None THEN Low16(u) = found ELSE u = f[Len(code) - k][from]

\* One step: s is the walk's state; x are the registers before the instruction i.
LEMMA MaskStep ==
  ASSUME NEW i, IsInstruction(i), NEW s \in Walks, NEW x \in States, NEW u, u # None,
         IF s.mask # None THEN Low16(u) = s.mask ELSE u = Effect(i, x)[s.r0]
  PROVE  LET t == ArgStep(i, s)
         IN IF t.mask # None THEN Low16(u) = t.mask ELSE u = x[t.r0]
<1> DEFINE t == ArgStep(i, s)
           y == Effect(i, x)
<1>0. /\ s = [mask |-> s.mask, idx |-> s.idx, r0 |-> s.r0, r1 |-> s.r1]
      /\ s.r0 \in Registers /\ s.r1 \in Registers
      /\ DOMAIN x = Registers
  BY DEF Walks, States
<1>1. CASE i.op = "ldi"
  <2>1. y[i.dst] = i.imm /\ \A r \in Registers : r # i.dst => y[r] = x[r]
    BY <1>0, <1>1 DEF Effect, IsInstruction
  <2>2. Low16(i.imm) # None
    <3>1. Low16(i.imm) \in Int
      BY <1>1 DEF IsInstruction, Low16
    <3> QED BY <3>1, RegistersAssumption
  <2> HIDE DEF y
  <2>3. CASE i.dst = s.r0 /\ s.mask = None
    <3>1. t = [s EXCEPT !.mask = Low16(i.imm)]
      BY <1>1, <2>3 DEF ArgStep
    <3>2. t.mask = Low16(i.imm)
      BY <1>0, <3>1
    <3> HIDE DEF t
    <3>3. u = i.imm
      BY <2>1, <2>3 DEF y
    <3> QED BY <2>2, <3>2, <3>3 DEF t
  <2>4. CASE ~(i.dst = s.r0 /\ s.mask = None)
    <3>1. t = s \/ t = [s EXCEPT !.idx = Low16(i.imm)]
      BY <1>1, <2>4 DEF ArgStep
    <3>2. t.mask = s.mask /\ t.r0 = s.r0
      BY <1>0, <3>1
    <3> HIDE DEF t
    <3> QED BY <1>0, <2>1, <2>4, <3>2 DEF y, t
  <2> QED BY <2>3, <2>4
<1>2. CASE i.op = "mv"
  <2>1. y[i.dst] = x[i.src] /\ \A r \in Registers : r # i.dst => y[r] = x[r]
    BY <1>0, <1>2 DEF Effect, IsInstruction
  <2> HIDE DEF y
  <2>2. t.mask = s.mask /\ t.r0 = IF i.dst = s.r0 THEN i.src ELSE s.r0
    BY <1>0, <1>2 DEF ArgStep
  <2> HIDE DEF t
  <2> QED BY <1>0, <2>1, <2>2 DEF y, t
<1>3. CASE i.op = "other"
  <2>1. t = s /\ y[s.r0] \in {None, x[s.r0]}
    BY <1>0, <1>3 DEF Effect, ArgStep
  <2> HIDE DEF y, t
  <2> QED BY <2>1 DEF y, t
<1> QED BY <1>1, <1>2, <1>3 DEF IsInstruction

LEMMA IndexStep ==
  ASSUME NEW i, IsInstruction(i), NEW s \in Walks, NEW x \in States, NEW u, u # None, s.r0 # s.r1,
         IF s.idx # None THEN Low16(u) = s.idx ELSE u = Effect(i, x)[s.r1]
  PROVE  LET t == ArgStep(i, s)
         IN IF t.idx # None THEN Low16(u) = t.idx ELSE u = x[t.r1]
<1> DEFINE t == ArgStep(i, s)
           y == Effect(i, x)
<1>0. /\ s = [mask |-> s.mask, idx |-> s.idx, r0 |-> s.r0, r1 |-> s.r1]
      /\ s.r0 \in Registers /\ s.r1 \in Registers
      /\ DOMAIN x = Registers
  BY DEF Walks, States
<1>1. CASE i.op = "ldi"
  <2>1. y[i.dst] = i.imm /\ \A r \in Registers : r # i.dst => y[r] = x[r]
    BY <1>0, <1>1 DEF Effect, IsInstruction
  <2>2. Low16(i.imm) # None
    <3>1. Low16(i.imm) \in Int
      BY <1>1 DEF IsInstruction, Low16
    <3> QED BY <3>1, RegistersAssumption
  <2> HIDE DEF y
  <2>3. CASE i.dst = s.r1 /\ s.idx = None
    <3>1. t = [s EXCEPT !.idx = Low16(i.imm)]
      BY <1>1, <2>3 DEF ArgStep
    <3>2. t.idx = Low16(i.imm)
      BY <1>0, <3>1
    <3> HIDE DEF t
    <3>3. u = i.imm
      BY <2>1, <2>3 DEF y
    <3> QED BY <2>2, <3>2, <3>3 DEF t
  <2>4. CASE ~(i.dst = s.r1 /\ s.idx = None)
    <3>1. t = s \/ t = [s EXCEPT !.mask = Low16(i.imm)]
      BY <1>1, <2>4 DEF ArgStep
    <3>2. t.idx = s.idx /\ t.r1 = s.r1
      BY <1>0, <3>1
    <3> HIDE DEF t
    <3> QED BY <1>0, <2>1, <2>4, <3>2 DEF y, t
  <2> QED BY <2>3, <2>4
<1>2. CASE i.op = "mv"
  <2>1. y[i.dst] = x[i.src] /\ \A r \in Registers : r # i.dst => y[r] = x[r]
    BY <1>0, <1>2 DEF Effect, IsInstruction
  <2> HIDE DEF y
  <2>2. t.idx = s.idx /\ t.r1 = IF i.dst = s.r1 THEN i.src ELSE s.r1
    BY <1>0, <1>2 DEF ArgStep
  <2> HIDE DEF t
  <2> QED BY <1>0, <2>1, <2>2 DEF y, t
<1>3. CASE i.op = "other"
  <2>1. t = s /\ y[s.r1] \in {None, x[s.r1]}
    BY <1>0, <1>3 DEF Effect, ArgStep
  <2> HIDE DEF y, t
  <2> QED BY <2>1 DEF y, t
<1> QED BY <1>1, <1>2, <1>3 DEF IsInstruction

\* A step stays on the side of the registers where it was.
LEMMA SideStep ==
  ASSUME NEW i, IsInstruction(i), NEW s \in Walks, NEW P, i.op = "mv" => (i.dst \in P <=> i.src \in P),
         s.r0 \in P, s.r1 \notin P
  PROVE  ArgStep(i, s).r0 \in P /\ ArgStep(i, s).r1 \notin P
BY DEF ArgStep, IsInstruction, Walks

Sides(code, P) ==
  "r0" \in P /\ "r1" \notin P /\ \A i \in DOMAIN code : code[i].op = "mv" => (code[i].dst \in P <=> code[i].src \in P)

LEMMA WalkTracks ==
  ASSUME NEW code, IsCode(code), NEW f, Runs(f, code), NEW P,
         NEW m \in 0..Len(code), NEW w, WalksBack(w, code, m)
  PROVE  \A k \in 0..m : /\ Tracked(f, code, "r0", k, w[k].mask, w[k].r0)
                         /\ Sides(code, P) => /\ w[k].r0 \in P /\ w[k].r1 \notin P
                                             /\ Tracked(f, code, "r1", k, w[k].idx, w[k].r1)
<1> DEFINE n == Len(code)
           u == f[n]["r0"]
           v == f[n]["r1"]
           Mask(k) == u # None => IF w[k].mask # None THEN Low16(u) = w[k].mask ELSE u = f[n - k][w[k].r0]
           Index(k) == v # None => IF w[k].idx # None THEN Low16(v) = w[k].idx ELSE v = f[n - k][w[k].r1]
           T == {k \in 0..m : Mask(k) /\ (Sides(code, P) => w[k].r0 \in P /\ w[k].r1 \notin P /\ Index(k))}
<1>1. n \in Nat /\ DOMAIN code = 1..n /\ m \in Nat /\ m <= n /\ \A k \in 1..n : IsInstruction(code[k])
  BY CodePlaces
<1>2. 0 \in T
  <2>1. w[0].r0 = "r0" /\ w[0].r1 = "r1" /\ w[0].mask = None /\ w[0].idx = None
    BY DEF WalksBack, WalkStart
  <2>2. n - 0 = n
    BY <1>1
  <2> HIDE DEF n
  <2>3. Mask(0) /\ Index(0)
    BY <2>1, <2>2
  <2>4. Sides(code, P) => w[0].r0 \in P /\ w[0].r1 \notin P
    BY <2>1 DEF Sides
  <2> HIDE DEF Mask, Index
  <2> QED BY <1>1, <2>3, <2>4
<1>3. ASSUME NEW k \in 0..(m - 1), k \in T PROVE k + 1 \in T
  <2> DEFINE i == code[n - k]
             x == f[n - (k + 1)]
             s == w[k]
             t == w[k + 1]
  <2>1. /\ k + 1 \in 1..m /\ k + 1 \in 0..m /\ (k + 1) - 1 = k /\ k \in 0..m /\ n - (k + 1) + 1 = n - k
        /\ n - k \in 1..n /\ (n - k) - 1 = n - (k + 1) /\ n - (k + 1) \in 0..n
    BY <1>1
  <2>2. t = ArgStep(i, s) /\ s \in Walks
    <3>1. t = ArgStep(code[n - (k + 1) + 1], w[k])
      BY <2>1 DEF WalksBack
    <3>2. s \in Walks
      BY <2>1 DEF WalksBack
    <3> QED BY <2>1, <3>1, <3>2
  <2>3. f[n - k] = Effect(i, x) /\ x \in States
    BY <2>1 DEF Runs
  <2>4. IsInstruction(i) /\ n - k \in DOMAIN code
    BY <1>1, <2>1
  <2>5. Mask(k) /\ (Sides(code, P) => s.r0 \in P /\ s.r1 \notin P /\ Index(k))
    BY <1>3
  <2>6. Mask(k + 1)
    <3> SUFFICES ASSUME u # None PROVE IF t.mask # None THEN Low16(u) = t.mask ELSE u = x[t.r0]
      OBVIOUS
    <3>1. IF s.mask # None THEN Low16(u) = s.mask ELSE u = Effect(i, x)[s.r0]
      BY <2>3, <2>5
    <3> HIDE DEF u, i, x, s, t
    <3>2. LET tt == ArgStep(i, s) IN IF tt.mask # None THEN Low16(u) = tt.mask ELSE u = x[tt.r0]
      BY <2>2, <2>3, <2>4, <3>1, MaskStep
    <3> QED BY <2>2, <3>2
  <2>7. ASSUME Sides(code, P) PROVE t.r0 \in P /\ t.r1 \notin P /\ Index(k + 1)
    <3>1. t.r0 \in P /\ t.r1 \notin P
      <4>1. i.op = "mv" => (i.dst \in P <=> i.src \in P)
        BY <2>4, <2>7 DEF Sides
      <4>2. s.r0 \in P /\ s.r1 \notin P
        BY <2>5, <2>7
      <4> HIDE DEF i, s, t
      <4> QED BY <2>2, <2>4, <4>1, <4>2, SideStep
    <3>2. Index(k + 1)
      <4> SUFFICES ASSUME v # None PROVE IF t.idx # None THEN Low16(v) = t.idx ELSE v = x[t.r1]
        OBVIOUS
      <4>1. IF s.idx # None THEN Low16(v) = s.idx ELSE v = Effect(i, x)[s.r1]
        BY <2>3, <2>5, <2>7
      <4>2. s.r0 # s.r1
        BY <2>5, <2>7
      <4> HIDE DEF v, i, x, s, t
      <4>3. LET tt == ArgStep(i, s) IN IF tt.idx # None THEN Low16(v) = tt.idx ELSE v = x[tt.r1]
        BY <2>2, <2>3, <2>4, <4>1, <4>2, IndexStep
      <4> QED BY <2>2, <4>3
    <3> QED BY <3>1, <3>2
  <2> HIDE DEF Mask, Index
  <2> QED BY <2>1, <2>6, <2>7
<1>4. \A k \in 0..m : k \in T
  <2> HIDE DEF T
  <2> QED BY <1>1, <1>2, <1>3, SetInduction
<1> QED BY <1>4 DEF Tracked

\* The walk back from a call finds what the call passes.
LEMMA ArgsPassed ==
  ASSUME NEW code, IsCode(code)
  PROVE  LET args == CallArgs(code)
             r == Execute(code)
         IN /\ args.mask # None /\ r["r0"] # None => Low16(r["r0"]) = args.mask
            /\ args.idx # None /\ r["r1"] # None /\ ArgumentsApart(code) => Low16(r["r1"]) = args.idx
<1>1. PICK f : Runs(f, code) /\ Execute(code) = f[Len(code)]
  BY ExecuteRuns
<1>2. PICK m \in 0..Len(code) : \E w : WalksBack(w, code, m) /\ CallArgs(code) = w[m]
  BY CallArgsWalk
<1>3. PICK w : WalksBack(w, code, m) /\ CallArgs(code) = w[m]
  BY <1>2
<1>4. m \in 0..m
  BY CodePlaces
<1>5. ASSUME NEW P
      PROVE  /\ Tracked(f, code, "r0", m, w[m].mask, w[m].r0)
             /\ Sides(code, P) => Tracked(f, code, "r1", m, w[m].idx, w[m].r1)
  BY <1>1, <1>3, <1>4, WalkTracks
<1>6. ArgumentsApart(code) => Tracked(f, code, "r1", m, w[m].idx, w[m].r1)
  BY <1>5 DEF ArgumentsApart, Sides
<1> QED BY <1>1, <1>3, <1>5, <1>6 DEF Tracked

LEMMA BitOfMask ==
  ASSUME NEW mask, BitOf(mask) # None
  PROVE  2^(BitOf(mask)) = mask
<1>1. \E b \in 0..15 : 2^b = mask
  BY DEF BitOf
<1>2. BitOf(mask) = CHOOSE b \in 0..15 : 2^b = mask
  BY <1>1 DEF BitOf
<1> QED BY <1>1, <1>2

\* A setter of a trouble code is reported with the mask that its call passes, wherever
\* running the code tells, and with the index, if no copy joins the two.
THEOREM SettersHoldAlways == Spec => []SettersHold
<1>1. SelectedOK /\ PassesOK => SettersHold
  <2> SUFFICES ASSUME SelectedOK, PassesOK, obd # None, NEW x \in obd.setters
               PROVE  LET code == world.site[x.site].code
                          r == Execute(code)
                      IN /\ r["r0"] # None => Low16(r["r0"]) = 2^(x.bit)
                         /\ r["r1"] # None /\ ArgumentsApart(code) => Low16(r["r1"]) = x.word
    BY DEF SettersHold
  <2> DEFINE code == world.site[x.site].code
             args == CallArgs(code)
             r == Execute(code)
  <2>1. /\ x.site \in DOMAIN world.site /\ args.mask # None /\ args.idx # None /\ BitOf(args.mask) # None
        /\ x.word = args.idx /\ x.bit = BitOf(args.mask)
    BY DEF PassesOK, IsSetter
  <2>2. IsCode(code)
    BY <2>1, WorldFacts DEF SelectedOK, IsCode
  <2> HIDE DEF code
  <2>3. /\ r["r0"] # None => Low16(r["r0"]) = args.mask
        /\ r["r1"] # None /\ ArgumentsApart(code) => Low16(r["r1"]) = args.idx
    BY <2>1, <2>2, ArgsPassed
  <2>4. 2^(x.bit) = args.mask
    BY <2>1, BitOfMask
  <2> HIDE DEF args, r
  <2>5. /\ r["r0"] # None => Low16(r["r0"]) = 2^(x.bit)
        /\ r["r1"] # None /\ ArgumentsApart(code) => Low16(r["r1"]) = x.word
    BY <2>1, <2>3, <2>4
  <2> QED BY <2>5 DEF code, r
<1> QED BY <1>1, SelectedInvariant, PassesInvariant, PTL
=============================================================================
