-------------------------- MODULE EnrichRulesProofs --------------------------
(***************************************************************************)
(* What the rules of enrichment return: candidates, items and stores, and  *)
(* never two functions at one entry point.  First, what the clean-up       *)
(* passes of Labels do to every store: they return a store, and            *)
(* dedup_symbol_names returns one without a repeated name.                 *)
(***************************************************************************)
EXTENDS EnrichRules, OrderLemmas


\* name_<hexaddr> with any number of "_x" is a name.
LEMMA SuffixedType ==
  ASSUME NEW n \in Name, NEW a \in Nat, NEW x \in Nat
  PROVE  /\ Suffixed(n, a, x) \in Name
         /\ Len(Suffixed(n, a, x).tags) = Len(n.tags) + 1 + x
<1>1. n.tags \in Seq(Nat) /\ n.base \in Base
  BY DEF Name
<1>2. [i \in 1..x |-> X] \in Seq(Nat) /\ Len([i \in 1..x |-> X]) = x
  BY DEF X
<1>3. (n.tags \o <<a>>) \in Seq(Nat) /\ Len(n.tags \o <<a>>) = Len(n.tags) + 1
  BY <1>1
<1> DEFINE t == n.tags \o <<a>> \o [i \in 1..x |-> X]
<1>4. t \in Seq(Nat) /\ Len(t) = Len(n.tags) + 1 + x
  BY <1>1, <1>2, <1>3
<1>5. Suffixed(n, a, x) = [n EXCEPT !.tags = t]
  BY DEF Suffixed
<1> HIDE DEF t
<1> QED BY <1>1, <1>4, <1>5 DEF Name

\* Some suffix of at most Cardinality(used) times "_x" is unused: there are more
\* such suffixes than used names.
LEMMA SomeSuffixUnused ==
  ASSUME NEW n \in Name, NEW a \in Nat, NEW used, IsFiniteSet(used)
  PROVE  \E x \in 0..Cardinality(used) : Suffixed(n, a, x) \notin used
<1> DEFINE c == Cardinality(used)
           f == [x \in 0..c |-> Suffixed(n, a, x)]
<1> SUFFICES ASSUME \A x \in 0..c : Suffixed(n, a, x) \in used PROVE FALSE
  OBVIOUS
<1>1. c \in Nat
  BY FS_CardinalityType
<1>2. IsFiniteSet(0..c) /\ Cardinality(0..c) = c + 1
  BY <1>1, FS_Interval
<1>3. f \in [0..c -> used]
  OBVIOUS
<1>4. PICK x, y \in 0..c : x # y /\ f[x] = f[y]
  <2>1. c < Cardinality(0..c)
    BY <1>1, <1>2
  <2> HIDE DEF f
  <2> QED BY <1>2, <1>3, <2>1, FS_PigeonHole
<1>5. Suffixed(n, a, x).tags = Suffixed(n, a, y).tags
  BY <1>4
<1>6. x \in Nat /\ y \in Nat /\ Len(n.tags) \in Nat
  BY <1>1 DEF Name
<1> QED BY <1>4, <1>5, <1>6, SuffixedType

\* The choice of Extra is defined.
LEMMA ExtraDefined ==
  ASSUME NEW n \in Name, NEW a \in Nat, NEW used, IsFiniteSet(used)
  PROVE  /\ Extra(n, a, used) \in Nat
         /\ Suffixed(n, a, Extra(n, a, used)) \notin used
<1> DEFINE T == {x \in 0..Cardinality(used) : Suffixed(n, a, x) \notin used}
<1>0. Cardinality(used) \in Nat
  BY FS_CardinalityType
<1>1. T \in SUBSET Nat /\ T # {}
  BY <1>0, SomeSuffixUnused
<1>2. PICK m \in T : \A t \in T : m <= t
  <2> HIDE DEF T
  <2> QED BY <1>1, LeastNat
<1>3. \A y \in 0..(m - 1) : Suffixed(n, a, y) \in used
  BY <1>0, <1>2
<1>4. \E x \in 0..Cardinality(used) :
        /\ Suffixed(n, a, x) \notin used
        /\ \A y \in 0..(x - 1) : Suffixed(n, a, y) \in used
  BY <1>3
<1>5. /\ Extra(n, a, used) \in 0..Cardinality(used)
      /\ Suffixed(n, a, Extra(n, a, used)) \notin used
  BY <1>4 DEF Extra
<1> QED BY <1>0, <1>5

\* FreshName returns an unused name.
LEMMA FreshNameFresh ==
  ASSUME NEW n \in Name, NEW a \in Nat, NEW used, IsFiniteSet(used)
  PROVE  FreshName(n, a, used) \in Name \ used
BY ExtraDefined, SuffixedType DEF FreshName

\* n is b with tags appended.
Extends(n, b) ==
  /\ n \in Name /\ b \in Name
  /\ n.base = b.base /\ Len(b.tags) <= Len(n.tags)
  /\ \A i \in 1..Len(b.tags) : n.tags[i] = b.tags[i]

\* A fresh name is the old one or an extension of it.
LEMMA FreshNameExtends ==
  ASSUME NEW n \in Name, NEW a \in Nat, NEW used, IsFiniteSet(used)
  PROVE  Extends(FreshName(n, a, used), n)
<1>1. n.tags \in Seq(Nat) /\ Len(n.tags) \in Nat
  BY DEF Name
<1>2. Extends(n, n)
  BY <1>1 DEF Extends
<1>3. ASSUME NEW x \in Nat PROVE Extends(Suffixed(n, a, x), n)
  <2> DEFINE u == n.tags \o <<a>>
             xs == [i \in 1..x |-> X]
  <2>1. xs \in Seq(Nat)
    BY DEF X
  <2>2. /\ u \in Seq(Nat) /\ Len(u) = Len(n.tags) + 1
        /\ \A i \in 1..Len(n.tags) : u[i] = n.tags[i]
    BY <1>1
  <2>3. Suffixed(n, a, x).base = n.base /\ Suffixed(n, a, x).tags = u \o xs
    BY DEF Suffixed, Name
  <2> HIDE DEF u, xs
  <2>4. Len(n.tags) <= Len(u \o xs) /\ \A i \in 1..Len(n.tags) : (u \o xs)[i] = n.tags[i]
    BY <1>1, <2>1, <2>2
  <2> QED BY <2>3, <2>4, SuffixedType DEF Extends
<1> QED BY <1>2, <1>3, ExtraDefined DEF FreshName

-----------------------------------------------------------------------------
\* Before is a strict total order on places.
LEMMA BeforeOrder ==
  /\ \A j \in Slot : ~Before(j, j)
  /\ \A j, k \in Slot : j # k => Before(j, k) \/ Before(k, j)
  /\ \A i, j, k \in Slot : Before(i, j) /\ Before(j, k) => Before(i, k)
<1>1. \A j \in Slot : /\ j[1] \in Nat /\ j[2] \in Nat /\ j[3] \in Nat
                       /\ j = <<j[1], j[2], j[3]>>
  <2> TAKE j \in Slot
  <2>1. PICK a \in Addr, c \in {Function, Symbol}, n \in Nat : j = <<a, c, n>>
    BY DEF Slot
  <2>2. a \in Nat /\ c \in Nat
    BY AddrAssumption DEF Function, Symbol
  <2> QED BY <2>1, <2>2
<1>2. \A j \in Slot : ~Before(j, j)
  BY <1>1 DEF Before
<1>3. \A j, k \in Slot : j # k => Before(j, k) \/ Before(k, j)
  <2> SUFFICES ASSUME NEW j \in Slot, NEW k \in Slot, ~Before(j, k), ~Before(k, j)
               PROVE  j = k
    OBVIOUS
  <2>1. j[1] = k[1] /\ j[2] = k[2] /\ j[3] = k[3]
    BY <1>1 DEF Before
  <2> QED BY <1>1, <2>1
<1>4. \A i, j, k \in Slot : Before(i, j) /\ Before(j, k) => Before(i, k)
  <2> SUFFICES ASSUME NEW i \in Slot, NEW j \in Slot, NEW k \in Slot,
                      Before(i, j), Before(j, k)
               PROVE  Before(i, k)
    OBVIOUS
  <2>1. /\ i[1] \in Nat /\ i[2] \in Nat /\ i[3] \in Nat
        /\ j[1] \in Nat /\ j[2] \in Nat /\ j[3] \in Nat
        /\ k[1] \in Nat /\ k[2] \in Nat /\ k[3] \in Nat
    BY <1>1
  <2> QED BY <2>1 DEF Before
<1> QED BY <1>2, <1>3, <1>4

\* Every non-empty set of a store's places has a first one.
LEMMA FirstSlot ==
  ASSUME NEW P \in SUBSET Slot, IsFiniteSet(P), P # {}
  PROVE  \E k \in P : \A j \in P : ~Before(j, k)
<1> DEFINE R == {p \in P \X P : ~Before(p[1], p[2])}
<1>1. \A x, y \in P : <<x, y>> \in R <=> ~Before(x, y)
  OBVIOUS
<1>2. \A x, y \in P : <<x, y>> \in R \/ <<y, x>> \in R
  BY <1>1, BeforeOrder
<1>3. \A x, y, z \in P : <<x, y>> \in R /\ <<y, z>> \in R => <<x, z>> \in R
  <2> SUFFICES ASSUME NEW x \in P, NEW y \in P, NEW z \in P,
                      ~Before(x, y), ~Before(y, z)
               PROVE  ~Before(x, z)
    BY <1>1
  <2>1. CASE x = y \/ y = z
    BY <2>1
  <2>2. CASE x # y /\ y # z
    <3>1. Before(y, x) /\ Before(z, y)
      BY <2>2, BeforeOrder
    <3>2. Before(z, x)
      BY <3>1, BeforeOrder
    <3> QED BY <3>2, BeforeOrder
  <2> QED BY <2>1, <2>2
<1>4. PICK m \in P : \A x \in P : <<x, m>> \in R
  <2> HIDE DEF R
  <2> QED BY <1>2, <1>3, FiniteGreatest
<1> QED BY <1>1, <1>4

\* The name of k given the names nm of the places before it.
NextName(s, nm, k) == FreshName(s[k].name, k[1], {nm[j] : j \in Earlier(s, k)})

\* nm names the first places of s, P, by the rule of dedup_symbol_names.
NamesFirst(s, P, nm) ==
  /\ P \subseteq DOMAIN s
  /\ \A k \in P : Earlier(s, k) \subseteq P
  /\ nm = [k \in P |-> NextName(s, nm, k)]

\* One more place can always be named.
LEMMA NameOneMore ==
  ASSUME NEW s, IsStore(s), NEW P, NEW nm, NamesFirst(s, P, nm), P # DOMAIN s
  PROVE  \E k \in DOMAIN s \ P : \E nn : NamesFirst(s, P \cup {k}, nn)
<1> DEFINE rest == DOMAIN s \ P
<1>1. rest \in SUBSET Slot /\ IsFiniteSet(rest) /\ rest # {}
  BY FS_Difference DEF IsStore, NamesFirst
<1>2. PICK k \in rest : \A j \in rest : ~Before(j, k)
  <2> HIDE DEF rest
  <2> QED BY <1>1, FirstSlot
<1> DEFINE nn == [j \in P \cup {k} |-> NextName(s, nm, j)]
<1>3. Earlier(s, k) \subseteq P
  BY <1>2 DEF Earlier
<1>4. \A j \in P \cup {k} : Earlier(s, j) \subseteq P
  BY <1>3 DEF NamesFirst
<1>5. \A j \in P : nn[j] = nm[j]
  BY DEF NamesFirst
<1>6. \A j \in P \cup {k} : NextName(s, nn, j) = NextName(s, nm, j)
  <2> SUFFICES ASSUME NEW j \in P \cup {k}
               PROVE  {nn[i] : i \in Earlier(s, j)} = {nm[i] : i \in Earlier(s, j)}
    BY DEF NextName
  <2>1. \A i \in Earlier(s, j) : nn[i] = nm[i]
    BY <1>4, <1>5
  <2> HIDE DEF nn
  <2> QED BY <2>1
<1>7. nn = [j \in P \cup {k} |-> NextName(s, nn, j)]
  <2>1. nn = [j \in P \cup {k} |-> NextName(s, nm, j)]
    OBVIOUS
  <2> HIDE DEF nn
  <2> QED BY <2>1, <1>6
<1>8. NamesFirst(s, P \cup {k}, nn)
  BY <1>2, <1>4, <1>7 DEF NamesFirst
<1> QED BY <1>2, <1>8

\* The recursion of dedup_symbol_names has a solution: otherwise take the fewest
\* places that cannot be named.
LEMMA NamesExist ==
  ASSUME NEW s, IsStore(s)
  PROVE  \E nm : nm = [k \in DOMAIN s |-> NextName(s, nm, k)]
<1> DEFINE c == Cardinality(DOMAIN s)
           CanName(n) == \E P, nm : NamesFirst(s, P, nm) /\ IsFiniteSet(P) /\ Cardinality(P) = n
           Bad == {n \in 0..c : ~CanName(n)}
<1>1. IsFiniteSet(DOMAIN s) /\ c \in Nat
  BY FS_CardinalityType DEF IsStore
<1>2. CanName(0)
  <2>1. NamesFirst(s, {}, [k \in {} |-> NextName(s, <<>>, k)])
    BY DEF NamesFirst
  <2> QED BY <2>1, FS_EmptySet
<1>3. Bad = {}
  <2> SUFFICES ASSUME Bad # {} PROVE FALSE
    OBVIOUS
  <2>1. Bad \in SUBSET Nat
    BY <1>1
  <2>2. PICK n \in Bad : \A m \in Bad : n <= m
    <3> HIDE DEF Bad
    <3> QED BY <2>1, LeastNat
  <2>3. n \in 1..c /\ n - 1 \in 0..c /\ n - 1 \notin Bad
    <3>1. n \in 0..c /\ n # 0
      BY <1>2, <2>2
    <3>2. n \in Nat /\ n - 1 \in 0..c
      BY <1>1, <3>1
    <3> HIDE DEF Bad
    <3> QED BY <1>1, <3>1, <3>2, <2>2
  <2>4. PICK P, nm : NamesFirst(s, P, nm) /\ IsFiniteSet(P) /\ Cardinality(P) = n - 1
    BY <2>3
  <2>5. P # DOMAIN s
    BY <1>1, <2>3, <2>4
  <2>6. PICK k \in DOMAIN s \ P : \E nn : NamesFirst(s, P \cup {k}, nn)
    BY <2>4, <2>5, NameOneMore
  <2>7. IsFiniteSet(P \cup {k}) /\ Cardinality(P \cup {k}) = n
    BY <2>3, <2>4, <2>6, FS_AddElement
  <2>8. CanName(n)
    BY <2>6, <2>7
  <2> QED BY <2>2, <2>8
<1>4. CanName(c)
  BY <1>1, <1>3
<1>5. PICK P, nm : NamesFirst(s, P, nm) /\ Cardinality(P) = c
  BY <1>4
<1>6. P = DOMAIN s
  BY <1>1, <1>5, FS_Subset DEF NamesFirst
<1> QED BY <1>5, <1>6 DEF NamesFirst

\* dedup_symbol_names gives each entry the next name, given those of the entries before it.
NamedBy(s, nm) ==
  /\ nm = [k \in DOMAIN s |-> NextName(s, nm, k)]
  /\ DedupNames(s) = [k \in DOMAIN s |-> DedupNames(s)[k]]
  /\ \A k \in DOMAIN s : /\ nm[k] \in Name \ {nm[j] : j \in Earlier(s, k)}
                          /\ Extends(nm[k], s[k].name)
                          /\ DedupNames(s)[k] = [name |-> nm[k], src |-> s[k].src]

LEMMA DedupNaming ==
  ASSUME NEW s, IsStore(s)
  PROVE  \E nm : NamedBy(s, nm)
<1> DEFINE nm == CHOOSE f : f = [k \in DOMAIN s |-> NextName(s, f, k)]
           d  == [k \in DOMAIN s |-> [s[k] EXCEPT !.name = nm[k]]]
<1>1. nm = [k \in DOMAIN s |-> NextName(s, nm, k)]
  <2>1. \E f : f = [k \in DOMAIN s |-> NextName(s, f, k)]
    BY NamesExist
  <2> QED BY <2>1
<1>2. DedupNames(s) = d
  BY DEF DedupNames, NextName
<1> HIDE DEF nm
<1>3. \A k \in DOMAIN s : IsFiniteSet({nm[j] : j \in Earlier(s, k)})
  <2> TAKE k \in DOMAIN s
  <2> DEFINE E == Earlier(s, k)
             T == {nm[j] : j \in E}
             f == [j \in E |-> nm[j]]
  <2>1. IsFiniteSet(E)
    BY FS_Subset DEF Earlier, IsStore
  <2>2. f \in Surjection(E, T)
    BY DEF Surjection
  <2>3. IsFiniteSet(T)
    <3> HIDE DEF E, T, f
    <3> QED BY <2>1, <2>2, FS_Surjection
  <2> QED BY <2>3
<1>4. \A k \in DOMAIN s : /\ nm[k] \in Name \ {nm[j] : j \in Earlier(s, k)}
                          /\ Extends(nm[k], s[k].name)
  <2> TAKE k \in DOMAIN s
  <2>1. s[k].name \in Name /\ k[1] \in Nat
    BY AddrAssumption DEF IsStore, Label, Slot
  <2>2. nm[k] = FreshName(s[k].name, k[1], {nm[j] : j \in Earlier(s, k)})
    BY <1>1 DEF NextName
  <2> QED BY <1>3, <2>1, <2>2, FreshNameFresh, FreshNameExtends
<1>5. \A k \in DOMAIN s : d[k] = [name |-> nm[k], src |-> s[k].src]
  BY DEF IsStore, Label
<1>6. d = [k \in DOMAIN s |-> d[k]]
  OBVIOUS
<1>7. NamedBy(s, nm)
  <2> HIDE DEF d
  <2> QED BY <1>1, <1>2, <1>4, <1>5, <1>6 DEF NamedBy
<1> QED BY <1>7

\* dedup_symbol_names keeps the entries, in a store, repeats no name and only appends
\* to names.
THEOREM DedupNamesUnique ==
  ASSUME NEW s, IsStore(s)
  PROVE  /\ IsStore(DedupNames(s))
         /\ DOMAIN DedupNames(s) = DOMAIN s
         /\ NamesUnique(DedupNames(s))
         /\ \A k \in DOMAIN s : /\ Extends(DedupNames(s)[k].name, s[k].name)
                                /\ DedupNames(s)[k].src = s[k].src
<1>1. PICK nm : NamedBy(s, nm)
  BY DedupNaming
<1> DEFINE d == DedupNames(s)
<1>2. d = [k \in DOMAIN s |-> d[k]] /\ DOMAIN d = DOMAIN s
  BY <1>1 DEF NamedBy
<1>3. \A k \in DOMAIN s : d[k] = [name |-> nm[k], src |-> s[k].src]
  BY <1>1 DEF NamedBy
<1>4. \A k \in DOMAIN s : /\ nm[k] \in Name \ {nm[j] : j \in Earlier(s, k)}
                          /\ Extends(nm[k], s[k].name)
  BY <1>1 DEF NamedBy
<1> HIDE DEF d
<1>5. \A k \in DOMAIN s : d[k] \in Label /\ d[k].name = nm[k] /\ d[k].src = s[k].src
  <2> TAKE k \in DOMAIN s
  <2>1. s[k].src \in {"asm", "other"} /\ nm[k] \in Name
    BY <1>4 DEF IsStore, Label
  <2> DEFINE e == [name |-> nm[k], src |-> s[k].src]
  <2>2. e \in Label /\ e.name = nm[k] /\ e.src = s[k].src
    BY <2>1 DEF Label
  <2>3. d[k] = e
    BY <1>3
  <2> HIDE DEF e
  <2> QED BY <2>2, <2>3
<1>6. IsStore(d)
  BY <1>2, <1>5 DEF IsStore
<1>7. NamesUnique(d)
  <2> SUFFICES ASSUME NEW j \in DOMAIN s, NEW k \in DOMAIN s, j # k, nm[j] = nm[k]
               PROVE  FALSE
    BY <1>2, <1>5 DEF NamesUnique
  <2>1. j \in Slot /\ k \in Slot
    BY DEF IsStore
  <2>2. CASE Before(j, k)
    BY <1>4, <2>2 DEF Earlier
  <2>3. CASE Before(k, j)
    BY <1>4, <2>3 DEF Earlier
  <2> QED BY <2>1, <2>2, <2>3, BeforeOrder
<1> QED BY <1>2, <1>4, <1>5, <1>6, <1>7 DEF d

\* A second run of dedup_symbol_names gives the same names, also if some entries have
\* gone back to those they had before the first.
LEMMA DedupAgain ==
  ASSUME NEW s, IsStore(s), NEW t, IsStore(t), DOMAIN t = DOMAIN s,
         \A k \in DOMAIN s : /\ t[k].src = s[k].src
                             /\ t[k].name \in {s[k].name, DedupNames(s)[k].name}
  PROVE  DedupNames(t) = DedupNames(s)
<1>1. PICK nm : NamedBy(s, nm)
  BY DedupNaming
<1>2. PICK mm : NamedBy(t, mm)
  BY DedupNaming
<1>3. \A k \in DOMAIN s : /\ nm[k] = FreshName(s[k].name, k[1], {nm[j] : j \in Earlier(s, k)})
                          /\ mm[k] = FreshName(t[k].name, k[1], {mm[j] : j \in Earlier(t, k)})
  BY <1>1, <1>2 DEF NamedBy, NextName
<1>4. \A k \in DOMAIN s : /\ nm[k] \notin {nm[j] : j \in Earlier(s, k)}
                          /\ DedupNames(s)[k] = [name |-> nm[k], src |-> s[k].src]
                          /\ DedupNames(t)[k] = [name |-> mm[k], src |-> t[k].src]
  BY <1>1, <1>2 DEF NamedBy
<1>5. /\ DedupNames(s) = [k \in DOMAIN s |-> DedupNames(s)[k]]
      /\ DedupNames(t) = [k \in DOMAIN s |-> DedupNames(t)[k]]
  BY <1>1, <1>2 DEF NamedBy
<1> DEFINE Bad == {k \in DOMAIN s : nm[k] # mm[k]}
<1>6. Bad = {}
  <2> SUFFICES ASSUME Bad # {} PROVE FALSE
    OBVIOUS
  <2>1. Bad \in SUBSET Slot /\ IsFiniteSet(Bad)
    BY FS_Subset DEF IsStore
  <2>2. PICK k \in Bad : \A j \in Bad : ~Before(j, k)
    <3> HIDE DEF Bad
    <3> QED BY <2>1, FirstSlot
  <2>3. \A j \in Earlier(s, k) : nm[j] = mm[j]
    BY <2>2 DEF Earlier
  <2>4. Earlier(t, k) = Earlier(s, k)
    BY DEF Earlier
  <2> DEFINE used == {nm[j] : j \in Earlier(s, k)}
  <2>5. {mm[j] : j \in Earlier(t, k)} = used
    BY <2>3, <2>4
  <2>6. /\ nm[k] = FreshName(s[k].name, k[1], used)
        /\ mm[k] = FreshName(t[k].name, k[1], used)
        /\ nm[k] \notin used
    BY <1>3, <1>4, <2>2, <2>5
  <2>7. t[k].name \in {s[k].name, nm[k]}
    <3> DEFINE e == [name |-> nm[k], src |-> s[k].src]
    <3>1. DedupNames(s)[k] = e
      BY <1>4, <2>2
    <3>2. e.name = nm[k]
      OBVIOUS
    <3>3. k \in DOMAIN s
      BY <2>2
    <3> HIDE DEF e
    <3>4. t[k].name \in {s[k].name, DedupNames(s)[k].name}
      BY <3>3
    <3> QED BY <3>1, <3>2, <3>4
  <2> HIDE DEF used
  <2>8. FreshName(nm[k], k[1], used) = nm[k]
    BY <2>6 DEF FreshName
  <2> QED BY <2>2, <2>6, <2>7, <2>8
<1>7. \A k \in DOMAIN s : DedupNames(t)[k] = DedupNames(s)[k]
  BY <1>4, <1>6
<1> QED BY <1>5, <1>7

\* Dropping entries leaves a store.
LEMMA KeepStore ==
  ASSUME NEW s, IsStore(s), NEW K
  PROVE  /\ IsStore(Keep(s, K)) /\ DOMAIN Keep(s, K) = DOMAIN s \cap K
         /\ \A k \in DOMAIN s \cap K : Keep(s, K)[k] = s[k]
BY FS_Intersection DEF IsStore, Keep

\* The clean-up returns a store without a repeated name; it adds no entry, only
\* appends to names, and drops an entry only if it is from an assembly listing or
\* in erased flash.
THEOREM CleanUpUnique ==
  ASSUME NEW s, IsStore(s), NEW erased
  PROVE  /\ IsStore(CleanUp(s, erased))
         /\ NamesUnique(CleanUp(s, erased))
         /\ OneEntryPerAddress(s) => OneEntryPerAddress(CleanUp(s, erased))
         /\ DOMAIN CleanUp(s, erased) \subseteq DOMAIN s
         /\ \A k \in DOMAIN s : s[k].src # "asm" /\ k[1] \notin erased
                                => k \in DOMAIN CleanUp(s, erased)
         /\ \A k \in DOMAIN CleanUp(s, erased) :
              /\ Extends(CleanUp(s, erased)[k].name, s[k].name)
              /\ CleanUp(s, erased)[k].src = s[k].src
<1> DEFINE s1 == DropImprecise(s)
           s2 == DropErased(s1, erased)
<1>1. /\ IsStore(s1) /\ DOMAIN s1 \subseteq DOMAIN s
      /\ \A k \in DOMAIN s : s[k].src # "asm" => k \in DOMAIN s1
      /\ \A k \in DOMAIN s1 : s1[k] = s[k]
  <2> DEFINE K == {k \in DOMAIN s : ~Imprecise(s, k)}
  <2>1. s1 = Keep(s, K)
    BY DEF DropImprecise
  <2>2. \A k \in DOMAIN s : s[k].src # "asm" => k \in K
    BY DEF Imprecise
  <2> HIDE DEF s1, K
  <2>3. /\ IsStore(Keep(s, K)) /\ DOMAIN Keep(s, K) = DOMAIN s \cap K
        /\ \A k \in DOMAIN s \cap K : Keep(s, K)[k] = s[k]
    BY KeepStore
  <2> QED BY <2>1, <2>2, <2>3
<1> HIDE DEF s1
<1>2. /\ IsStore(s2) /\ DOMAIN s2 \subseteq DOMAIN s1
      /\ \A k \in DOMAIN s1 : k[1] \notin erased => k \in DOMAIN s2
      /\ \A k \in DOMAIN s2 : s2[k] = s1[k]
  <2> DEFINE K == {k \in DOMAIN s1 : ~(k[2] = Function /\ k[1] \in erased)}
  <2>1. s2 = Keep(s1, K)
    BY DEF DropErased
  <2>2. \A k \in DOMAIN s1 : k[1] \notin erased => k \in K
    OBVIOUS
  <2> HIDE DEF s2, K
  <2>3. /\ IsStore(Keep(s1, K)) /\ DOMAIN Keep(s1, K) = DOMAIN s1 \cap K
        /\ \A k \in DOMAIN s1 \cap K : Keep(s1, K)[k] = s1[k]
    BY <1>1, KeepStore
  <2> QED BY <2>1, <2>2, <2>3
<1>3. CleanUp(s, erased) = DedupNames(s2)
  BY DEF CleanUp, s1
<1> HIDE DEF s2
<1>4. OneEntryPerAddress(s) => OneEntryPerAddress(DedupNames(s2))
  BY <1>1, <1>2, DedupNamesUnique DEF OneEntryPerAddress
<1> QED BY <1>1, <1>2, <1>3, <1>4, DedupNamesUnique

\* The entries that the clean-up keeps: those that no better source names close by, and
\* that are no function in erased flash.
Kept(s, erased) ==
  {k \in DOMAIN s : ~Imprecise(s, k) /\ ~(k[2] = Function /\ k[1] \in erased)}

\* The clean-up keeps these and makes their names unique.
LEMMA CleanUpKeeps ==
  ASSUME NEW s, IsStore(s), NEW erased
  PROVE  /\ CleanUp(s, erased) = DedupNames(Keep(s, Kept(s, erased)))
         /\ IsStore(Keep(s, Kept(s, erased))) /\ DOMAIN Keep(s, Kept(s, erased)) = Kept(s, erased)
         /\ \A k \in Kept(s, erased) : Keep(s, Kept(s, erased))[k] = s[k]
<1> DEFINE K1 == {k \in DOMAIN s : ~Imprecise(s, k)}
           K2 == {k \in DOMAIN s \cap K1 : ~(k[2] = Function /\ k[1] \in erased)}
           K  == Kept(s, erased)
           one == Keep(s, K1)
           two == Keep(one, K2)
<1>1. /\ IsStore(one) /\ DOMAIN one = DOMAIN s \cap K1
      /\ \A k \in DOMAIN s \cap K1 : one[k] = s[k]
  <2> HIDE DEF K1
  <2> QED BY KeepStore
<1>2. DropErased(one, erased) = two
  BY <1>1 DEF DropErased
<1>3. /\ IsStore(Keep(s, K)) /\ DOMAIN Keep(s, K) = DOMAIN s \cap K
      /\ \A k \in DOMAIN s \cap K : Keep(s, K)[k] = s[k]
  BY KeepStore
<1>4. K = DOMAIN s \cap K1 \cap K2 /\ K \subseteq DOMAIN s
  BY DEF Kept
<1>5. Keep(s, K) = two
  <2>1. two = [k \in (DOMAIN s \cap K1) \cap K2 |-> one[k]]
    BY <1>1 DEF Keep
  <2>2. Keep(s, K) = [k \in DOMAIN s \cap K |-> s[k]]
    BY DEF Keep
  <2>3. (DOMAIN s \cap K1) \cap K2 = DOMAIN s \cap K
    BY <1>4
  <2> HIDE DEF two, one, K, K1, K2
  <2>4. \A k \in DOMAIN s \cap K : one[k] = s[k]
    BY <1>1, <1>4
  <2> QED BY <2>1, <2>2, <2>3, <2>4
<1>6. CleanUp(s, erased) = DedupNames(two)
  <2>1. DropImprecise(s) = one
    BY DEF DropImprecise
  <2> HIDE DEF one, two
  <2> QED BY <1>2, <2>1 DEF CleanUp
<1> HIDE DEF K, two
<1> QED BY <1>3, <1>4, <1>5, <1>6 DEF K

\* The clean-up returns the same store for entries of which some have the names
\* that an earlier clean-up gave them.
LEMMA CleanUpAgain ==
  ASSUME NEW s, IsStore(s), NEW t, IsStore(t), NEW erased, Kept(t, erased) = Kept(s, erased),
         \A k \in Kept(s, erased) : /\ t[k].src = s[k].src
                                    /\ t[k].name \in {s[k].name, CleanUp(s, erased)[k].name}
  PROVE  CleanUp(t, erased) = CleanUp(s, erased)
<1> DEFINE K == Kept(s, erased)
           a == Keep(s, K)
           b == Keep(t, K)
<1>1. /\ CleanUp(s, erased) = DedupNames(a) /\ IsStore(a) /\ DOMAIN a = K
      /\ \A k \in K : a[k] = s[k]
  BY CleanUpKeeps
<1>2. /\ CleanUp(t, erased) = DedupNames(b) /\ IsStore(b) /\ DOMAIN b = K
      /\ \A k \in K : b[k] = t[k]
  BY CleanUpKeeps
<1> HIDE DEF a, b, K
<1>3. \A k \in K : /\ t[k].src = s[k].src
                   /\ t[k].name \in {s[k].name, CleanUp(s, erased)[k].name}
  BY DEF K
<1>4. \A k \in DOMAIN a : /\ b[k].src = a[k].src
                          /\ b[k].name \in {a[k].name, DedupNames(a)[k].name}
  BY <1>1, <1>2, <1>3
<1>5. DedupNames(b) = DedupNames(a)
  BY <1>1, <1>2, <1>4, DedupAgain
<1> QED BY <1>1, <1>2, <1>5

\* Cleaning up a clean store changes nothing.
THEOREM CleanUpTwice ==
  ASSUME NEW s, IsStore(s), NEW erased
  PROVE  CleanUp(CleanUp(s, erased), erased) = CleanUp(s, erased)
<1> DEFINE t == CleanUp(s, erased)
           K == Kept(s, erased)
<1>1. IsStore(t) /\ NamesUnique(t) /\ \A k \in DOMAIN t : t[k].src = s[k].src
  BY CleanUpUnique
<1>2. DOMAIN t = K
  BY CleanUpKeeps, DedupNamesUnique
<1> HIDE DEF t
<1>3. \A k \in DOMAIN t : ~Imprecise(t, k)
  BY <1>1 DEF Imprecise, NamesUnique
<1>4. Kept(t, erased) = K
  BY <1>2, <1>3 DEF Kept
<1>5. \A k \in K : t[k].src = s[k].src /\ t[k].name \in {s[k].name, CleanUp(s, erased)[k].name}
  BY <1>1, <1>2 DEF t
<1>6. CleanUp(t, erased) = CleanUp(s, erased)
  BY <1>1, <1>4, <1>5, CleanUpAgain
<1> QED BY <1>6 DEF t

-----------------------------------------------------------------------------
\* The last entry of a list at an address is an entry of that list there.
LEMMA LastSlotAt ==
  ASSUME NEW s, IsStore(s), NEW a, NEW c, HasEntry(s, a, c)
  PROVE  LastSlot(s, a, c) \in DOMAIN s /\ LastSlot(s, a, c)[1] = a /\ LastSlot(s, a, c)[2] = c
<1> DEFINE K == SlotsAt(s, a, c)
           R == {p \in K \X K : p[1][3] <= p[2][3]}
<1>1. IsFiniteSet(K) /\ K # {}
  BY FS_Subset DEF IsStore, SlotsAt, HasEntry
<1>2. \A k \in K : k[3] \in Nat
  BY DEF IsStore, SlotsAt, Slot
<1>3. \A x, y \in K : <<x, y>> \in R <=> x[3] <= y[3]
  OBVIOUS
<1>4. \A x, y \in K : <<x, y>> \in R \/ <<y, x>> \in R
  <2> TAKE x \in K, y \in K
  <2>1. x[3] <= y[3] \/ y[3] <= x[3]
    BY <1>2
  <2> QED BY <2>1, <1>3
<1>5. \A x, y, z \in K : <<x, y>> \in R /\ <<y, z>> \in R => <<x, z>> \in R
  <2> HIDE DEF K, R
  <2> QED BY <1>2, <1>3
<1>6. \E m \in K : \A x \in K : <<x, m>> \in R
  <2> HIDE DEF K, R
  <2> QED BY <1>1, <1>4, <1>5, FiniteGreatest
<1>7. LastSlot(s, a, c) \in K
  <2>1. \E m \in K : \A x \in K : x[3] <= m[3]
    BY <1>3, <1>6
  <2> QED BY <2>1 DEF LastSlot
<1> QED BY <1>7 DEF SlotsAt

\* The name of a function is a name, or None.
LEMMA FnNameType ==
  ASSUME NEW s, IsStore(s), NEW a
  PROVE  FnName(s, a) \in Name \cup {NoName}
BY LastSlotAt DEF FnName, IsStore, Label

-----------------------------------------------------------------------------
\* The items enrich writes: one for a target, address and list.
WrittenItem == {i \in Item : i.row = 1}

\* At most one candidate for an address of a reference.
OnePerPlace(cs) ==
  \A c, d \in cs : c.target = d.target /\ c.addr = d.addr => c = d

\* The candidate of the highest priority source is one of the sources.
LEMMA BestIn ==
  ASSUME NEW R \in SUBSET Refs, R # {}
  PROVE  Best(R) \in R /\ \A q \in R : Priority[q] <= Priority[Best(R)]
<1> DEFINE L == {p \in R \X R : Priority[p[1]] <= Priority[p[2]]}
<1>1. IsFiniteSet(R) /\ \A q \in R : Priority[q] \in Nat
  BY PriorityAssumption, FS_Subset
<1>2. \A x, y \in R : <<x, y>> \in L <=> Priority[x] <= Priority[y]
  OBVIOUS
<1>3. \E m \in R : \A x \in R : <<x, m>> \in L
  <2> HIDE DEF L
  <2>1. \A x, y \in R : <<x, y>> \in L \/ <<y, x>> \in L
    <3> TAKE x \in R, y \in R
    <3>1. Priority[x] <= Priority[y] \/ Priority[y] <= Priority[x]
      BY <1>1
    <3> QED BY <3>1, <1>2
  <2>2. \A x, y, z \in R : <<x, y>> \in L /\ <<y, z>> \in L => <<x, z>> \in L
    BY <1>1, <1>2
  <2> QED BY <1>1, <2>1, <2>2, FiniteGreatest
<1>4. \E m \in R : \A x \in R : Priority[x] <= Priority[m]
  BY <1>2, <1>3
<1> QED BY <1>4 DEF Best

\* The backers of a proposed name are references, and there is one.
LEMMA BackersType ==
  ASSUME NEW g \in SUBSET Candidate, NEW w \in {c.proposed : c \in g}
  PROVE  Backers(g, w) \in (SUBSET Refs) \ {{}}
BY DEF Backers, Candidate

\* The vote always has a winner: among the names with the most votes, one of
\* the highest priority.
LEMMA WinnerProposed ==
  ASSUME NEW g \in SUBSET Candidate, g # {}
  PROVE  Winner(g) \in {c.proposed : c \in g}
<1> DEFINE W == {c.proposed : c \in g}
           votes(w) == Cardinality(Backers(g, w))
           prio(w) == Priority[Best(Backers(g, w))]
           N == Cardinality(Refs)
           V == {votes(w) : w \in W}
<1>1. \A w \in W : Backers(g, w) \in (SUBSET Refs) \ {{}}
  BY BackersType
<1>2. N \in Nat /\ \A w \in W : votes(w) \in Nat /\ votes(w) <= N
  BY <1>1, PriorityAssumption, FS_Subset, FS_CardinalityType
<1>3. \A w \in W : prio(w) \in Nat
  BY <1>1, BestIn, PriorityAssumption
<1> HIDE DEF W, votes, prio, N
<1>4. PICK v \in V : \A u \in V : u <= v
  <2>1. V \in SUBSET Nat /\ V # {} /\ \A u \in V : u <= N
    BY <1>2 DEF W
  <2> HIDE DEF V
  <2> QED BY <1>2, <2>1, GreatestNat
<1> DEFINE M == {w \in W : votes(w) = v}
           P == {prio(w) : w \in M}
<1>5. \A w \in W : prio(w) <= Priority[Best(Refs)]
  BY <1>1, BestIn, PriorityAssumption DEF prio
<1>6. PICK p \in P : \A q \in P : q <= p
  <2>1. P \in SUBSET Nat /\ P # {} /\ \A q \in P : q <= Priority[Best(Refs)]
    BY <1>3, <1>4, <1>5
  <2>2. Priority[Best(Refs)] \in Nat
    BY <1>1, <1>4, BestIn, PriorityAssumption
  <2> HIDE DEF P
  <2> QED BY <2>1, <2>2, GreatestNat
<1>7. PICK w \in M : prio(w) = p
  BY <1>6
<1>8. \A u \in W : ScoreLeq(Backers(g, u), Backers(g, w))
  <2> TAKE u \in W
  <2>1. votes(u) <= votes(w) /\ votes(u) \in Nat /\ votes(w) \in Nat
    BY <1>2, <1>4, <1>7
  <2>2. votes(u) = votes(w) => prio(u) <= prio(w)
    BY <1>6, <1>7
  <2>3. votes(u) < votes(w) \/ (votes(u) = votes(w) /\ prio(u) <= prio(w))
    BY <2>1, <2>2
  <2> QED BY <2>3 DEF ScoreLeq, votes, prio
<1>9. Winner(g) \in W
  BY <1>7, <1>8 DEF Winner, W
<1> QED BY <1>9 DEF W

\* Merging leaves typed candidates, one for each address of a reference.
LEMMA MergeType ==
  ASSUME NEW cs \in SUBSET Candidate
  PROVE  MergeCandidates(cs) \subseteq Merged /\ OnePerPlace(MergeCandidates(cs))
<1> DEFINE G(c) == {d \in cs : d.target = c.target /\ d.addr = c.addr}
<1>1. ASSUME NEW c \in cs
      PROVE  MergeGroup(G(c)) \in Merged /\ MergeGroup(G(c)).target = c.target
                                        /\ MergeGroup(G(c)).addr = c.addr
  <2> DEFINE g == G(c)
             first == CHOOSE d \in g : TRUE
  <2>1. g \in SUBSET Candidate /\ g # {} /\ first \in g
    OBVIOUS
  <2>2. first.target = c.target /\ first.addr = c.addr
    <3> HIDE DEF first
    <3> QED BY <2>1
  <2> HIDE DEF g, first
  <2>3. Winner(g) \in {d.proposed : d \in g}
    BY <2>1, WinnerProposed
  <2>4. Winner(g) \in Name
    BY <2>1, <2>3 DEF Candidate
  <2>5. Backers(g, Winner(g)) \in (SUBSET Refs) \ {{}}
    BY <2>1, <2>3, BackersType
  <2>6. Best(Backers(g, Winner(g))) \in Refs
    BY <2>5, BestIn
  <2>7. first \in Candidate
    BY <2>1
  <2>8. MergeGroup(g) = [target |-> first.target, addr |-> first.addr,
                         current |-> first.current, proposed |-> Winner(g),
                         source |-> Best(Backers(g, Winner(g))),
                         backers |-> Backers(g, Winner(g))]
    BY DEF MergeGroup, first
  <2>9. MergeGroup(g) \in Merged /\ MergeGroup(g).target = c.target /\ MergeGroup(g).addr = c.addr
    BY <2>2, <2>4, <2>5, <2>6, <2>7, <2>8 DEF Candidate, Merged
  <2> QED BY <2>9 DEF g
<1>2. MergeCandidates(cs) = {MergeGroup(G(c)) : c \in cs}
  BY DEF MergeCandidates
<1>3. \A c, d \in cs : c.target = d.target /\ c.addr = d.addr => G(c) = G(d)
  OBVIOUS
<1> HIDE DEF G
<1> QED BY <1>1, <1>2, <1>3 DEF OnePerPlace

\* Each backer of a merged candidate proposed its name for its place.
LEMMA BackersProposed ==
  ASSUME NEW cs \in SUBSET Candidate, NEW c \in MergeCandidates(cs), NEW q \in c.backers
  PROVE  \E d \in cs : /\ d.source = q /\ d.proposed = c.proposed
                       /\ d.target = c.target /\ d.addr = c.addr
<1>1. PICK e \in cs : c = MergeGroup({d \in cs : d.target = e.target /\ d.addr = e.addr})
  BY DEF MergeCandidates
<1> DEFINE g == {d \in cs : d.target = e.target /\ d.addr = e.addr}
           first == CHOOSE d \in g : TRUE
<1>2. first \in g
  OBVIOUS
<1>3. first.target = e.target /\ first.addr = e.addr
  <2> HIDE DEF first
  <2> QED BY <1>2
<1>4. c.target = first.target /\ c.addr = first.addr /\ c.proposed = Winner(g)
      /\ c.backers = Backers(g, Winner(g))
  <2> HIDE DEF g
  <2> QED BY <1>1 DEF MergeGroup, g, first
<1>5. PICK d \in g : d.proposed = Winner(g) /\ d.source = q
  <2> HIDE DEF g
  <2> QED BY <1>4 DEF Backers
<1> QED BY <1>3, <1>4, <1>5

\* The candidates between one reference and the others have the type of one.
LEMMA GatherType ==
  ASSUME NEW n \in Refs, NEW R \in SUBSET Refs, NEW ms \in [Refs -> SUBSET Match],
         NEW S, \A r \in Refs : IsStore(S[r])
  PROVE  Gather(n, R, ms, S) \subseteq Candidate
<1> SUFFICES ASSUME NEW r \in R
             PROVE  Forward(n, r, ms[r], S) \subseteq Candidate /\ Back(n, r, ms[r], S) \subseteq Candidate
  BY DEF Gather
<1>1. r \in Refs /\ \A m \in ms[r] : m \in Match
  OBVIOUS
<1>2. \A q \in Refs, a \in Addr : FnName(S[q], a) \in Name \cup {NoName}
  BY FnNameType
<1>3. \A m \in ms[r] : RefName(S[r], m) \in Name \cup {NoName}
  BY <1>1, <1>2 DEF RefName, Match
<1>4. Forward(n, r, ms[r], S) \subseteq Candidate
  BY <1>1, <1>2, <1>3 DEF Forward, Candidate, Match
<1>5. Back(n, r, ms[r], S) \subseteq Candidate
  BY <1>1, <1>2 DEF Back, Candidate, Match
<1> QED BY <1>4, <1>5

\* With one candidate per address, every item has row 1.
LEMMA ItemsType ==
  ASSUME NEW cs \in SUBSET Merged, OnePerPlace(cs)
  PROVE  ReconcileItems(cs) \subseteq WrittenItem /\ RenameItems(cs) \subseteq WrittenItem
<1>1. ASSUME NEW ds \in SUBSET cs PROVE ItemsOf(ds) \subseteq WrittenItem
  <2> DEFINE before(c) == {d \in ds : /\ d.target = c.target /\ d.addr = c.addr
                                      /\ SortedIds[d.source] < SortedIds[c.source]}
             item(c) == [target |-> c.target, addr |-> c.addr, cat |-> Function,
                         row |-> Cardinality(before(c)) + 1, current |-> c.current,
                         proposed |-> c.proposed, source |-> c.source, verdict |-> Proposed]
  <2>1. ASSUME NEW c \in ds PROVE Cardinality(before(c)) = 0
    <3>1. c \in Merged /\ SortedIds[c.source] \in Nat
      BY PriorityAssumption DEF Merged
    <3>2. before(c) = {}
      BY <3>1 DEF OnePerPlace
    <3> HIDE DEF before
    <3> QED BY <3>2, FS_EmptySet
  <2> HIDE DEF before
  <2>2. \A c \in ds : item(c) \in WrittenItem
    BY <2>1 DEF Merged, WrittenItem, Item, Verdict
  <2>3. ItemsOf(ds) = {item(c) : c \in ds}
    BY DEF ItemsOf, before
  <2> QED BY <2>2, <2>3
<1> QED BY <1>1 DEF ReconcileItems, RenameItems

-----------------------------------------------------------------------------
\* A verdict resolves to a name or to nothing.
LEMMA ResolvedType ==
  ASSUME NEW i \in Item
  PROVE  ResolvedName(i) \in Name \cup {NoName}
BY DEF ResolvedName, Item, Verdict

\* The places new entries get: one per address and list.
GapSlot == Addr \X {Function, Symbol} \X {1}

\* There are finitely many such places.
LEMMA GapSlotFinite == IsFiniteSet(GapSlot)
<1> DEFINE C == {Function, Symbol}
           F == Addr \X C
           f == [p \in F |-> <<p[1], p[2], 1>>]
<1>1. IsFiniteSet(C)
  <2>1. IsFiniteSet({Function})
    BY FS_Singleton
  <2>2. IsFiniteSet({Function} \cup {Symbol})
    BY <2>1, FS_AddElement
  <2>3. C = {Function} \cup {Symbol}
    OBVIOUS
  <2> QED BY <2>2, <2>3
<1>2. IsFiniteSet(F)
  <2> HIDE DEF C
  <2> QED BY <1>1, AddrAssumption, FS_Product
<1>3. f \in Surjection(F, GapSlot)
  <2>1. \A p \in F : <<p[1], p[2], 1>> \in GapSlot
    BY DEF GapSlot
  <2>2. f \in [F -> GapSlot]
    BY <2>1
  <2>3. ASSUME NEW t \in GapSlot PROVE \E p \in F : f[p] = t
    <3>1. PICK a \in Addr, c \in C : t = <<a, c, 1>>
      BY DEF GapSlot
    <3>2. <<a, c>> \in F /\ f[<<a, c>>] = t
      BY <3>1
    <3> QED BY <3>2
  <2> HIDE DEF f, F
  <2> QED BY <2>2, <2>3 DEF Surjection
<1> HIDE DEF F, f
<1> QED BY <1>2, <1>3, FS_Surjection

IsFcn(f) == f = [k \in DOMAIN f |-> f[k]]

\* Entries added at such places keep a store a store, and keep one entry per
\* address and list if they fill places that had none.
LEMMA AddedEntries ==
  ASSUME NEW s, IsStore(s), NEW K \in SUBSET GapSlot, NEW t,
         IsFcn(t), DOMAIN t = DOMAIN s \cup K, \A k \in DOMAIN t : t[k] \in Label
  PROVE  /\ IsStore(t)
         /\ (OneEntryPerAddress(s) /\ \A k \in K : k \in DOMAIN s \/ ~HasEntry(s, k[1], k[2]))
              => OneEntryPerAddress(t)
<1>1. IsFiniteSet(K) /\ IsFiniteSet(DOMAIN s)
  BY GapSlotFinite, FS_Subset DEF IsStore
<1>2. IsFiniteSet(DOMAIN s \cup K)
  BY <1>1, FS_Union
<1>3. GapSlot \subseteq Slot
  BY DEF GapSlot, Slot
<1>4. DOMAIN t = DOMAIN s \cup K
  OBVIOUS
<1>5. IsStore(t)
  BY <1>2, <1>3, <1>4 DEF IsStore, IsFcn
<1>6. ASSUME OneEntryPerAddress(s), \A k \in K : k \in DOMAIN s \/ ~HasEntry(s, k[1], k[2])
      PROVE  OneEntryPerAddress(t)
  <2> SUFFICES ASSUME NEW j \in DOMAIN t, NEW k \in DOMAIN t, j[1] = k[1], j[2] = k[2]
               PROVE  j = k
    BY DEF OneEntryPerAddress
  <2>1. CASE j \in DOMAIN s /\ k \in DOMAIN s
    BY <1>6, <2>1 DEF OneEntryPerAddress
  <2>2. CASE j \in DOMAIN s /\ k \notin DOMAIN s
    BY <1>4, <1>6, <2>2 DEF HasEntry, SlotsAt
  <2>3. CASE j \notin DOMAIN s /\ k \in DOMAIN s
    BY <1>4, <1>6, <2>3 DEF HasEntry, SlotsAt
  <2>4. CASE j \notin DOMAIN s /\ k \notin DOMAIN s
    <3>1. j \in GapSlot /\ k \in GapSlot
      BY <1>4, <2>4
    <3> QED BY <3>1 DEF GapSlot
  <2> QED BY <2>1, <2>2, <2>3, <2>4
<1> QED BY <1>5, <1>6

\* Items that apply_verdicts can be given, by enrich, by an operator or by an agent:
\* finitely many rows, and where a gap is to be filled one row.
Applicable(items) ==
  /\ \A i \in items : /\ i.addr \in Addr /\ i.cat \in {Function, Symbol} /\ i.row \in Nat
                      /\ ResolvedName(i) \in Name \cup {NoName}
                      /\ i.current = NoName => i.row = 1
  /\ \E n \in Nat : \A i \in items : i.row <= n

\* The rows of a file that enrich wrote can be applied, whatever their verdicts.
LEMMA WrittenApplicable ==
  ASSUME NEW items \in SUBSET WrittenItem
  PROVE  Applicable(items)
<1>1. \A i \in items : i \in Item /\ i.row = 1
  BY DEF WrittenItem
<1>2. \A i \in items : i.addr \in Addr /\ i.cat \in {Function, Symbol} /\ i.row <= 1
  BY <1>1 DEF Item
<1> QED BY <1>1, <1>2, ResolvedType DEF Applicable

\* apply_verdicts keeps every entry; it changes a name to one of those its address
\* and list are given, and adds entries only where there were none.
LEMMA ApplyVerdictsEntries ==
  ASSUME NEW s, IsStore(s), NEW items, Applicable(items)
  PROVE  \E K \in SUBSET GapSlot :
           LET t == ApplyVerdicts(s, items)
           IN /\ IsFcn(t) /\ DOMAIN t = DOMAIN s \cup K
              /\ \A k \in K : /\ ~HasEntry(s, k[1], k[2])
                              /\ t[k] \in Label /\ t[k].src = "other"
                              /\ t[k].name \in NamesGiven(items, k)
              /\ \A k \in DOMAIN s : /\ t[k] \in Label /\ t[k].src = s[k].src
                                     /\ t[k].name \in {s[k].name} \cup NamesGiven(items, k)
              /\ \A k \in DOMAIN s :
                   LastSlot(s, k[1], k[2]) = k /\ NamesGiven(items, k) # {} =>
                     t[k].name \in NamesGiven(items, k)
<1> DEFINE named   == {i \in items : ResolvedName(i) # NoName}
           added   == {i \in named : ~HasEntry(s, i.addr, i.cat) /\ i.current = NoName}
           slot(i) == NewSlot(s, i.addr, i.cat, i.row)
           on(k)   == {i \in named : /\ HasEntry(s, i.addr, i.cat)
                                     /\ LastSlot(s, i.addr, i.cat) = k}
           last(I) == CHOOSE i \in I : \A j \in I : j.row <= i.row
           K       == {slot(i) : i \in added}
           t       == [k \in DOMAIN s \cup K |->
                         IF k \notin DOMAIN s
                         THEN [name |-> ResolvedName(CHOOSE i \in added : slot(i) = k),
                               src |-> "other"]
                         ELSE IF on(k) = {} THEN s[k]
                         ELSE [s[k] EXCEPT !.name = ResolvedName(last(on(k)))]]
<1>1. ApplyVerdicts(s, items) = t
  BY DEF ApplyVerdicts
<1>2. \A i \in named : ResolvedName(i) \in Name /\ ResolvedName(i) # NoName
  BY DEF Applicable
<1>3. \A i \in added : slot(i) = <<i.addr, i.cat, 1>> /\ i \in named /\ ~HasEntry(s, i.addr, i.cat)
  BY DEF NewSlot, Applicable
<1>4. K \in SUBSET GapSlot
  BY <1>3 DEF GapSlot, Applicable
<1>5. ASSUME NEW k \in K
      PROVE  /\ ~HasEntry(s, k[1], k[2]) /\ k \notin DOMAIN s
             /\ t[k] \in Label /\ t[k].src = "other" /\ t[k].name \in NamesGiven(items, k)
  <2> DEFINE i == CHOOSE i \in added : slot(i) = k
  <2>1. i \in added /\ slot(i) = k
    OBVIOUS
  <2> HIDE DEF i, slot
  <2>2. k[1] = i.addr /\ k[2] = i.cat /\ ~HasEntry(s, k[1], k[2]) /\ i \in named
    BY <1>3, <2>1
  <2>3. k \notin DOMAIN s
    BY <2>2 DEF HasEntry, SlotsAt
  <2>4. t[k] = [name |-> ResolvedName(i), src |-> "other"]
    BY <2>3 DEF i
  <2>5. ResolvedName(i) \in Name /\ ResolvedName(i) \in NamesGiven(items, k)
    BY <1>2, <2>2 DEF NamesGiven
  <2> HIDE DEF t, named, added
  <2> QED BY <2>2, <2>3, <2>4, <2>5 DEF Label
<1>6. ASSUME NEW k \in DOMAIN s
      PROVE  /\ t[k] \in Label /\ t[k].src = s[k].src
             /\ t[k].name \in {s[k].name} \cup NamesGiven(items, k)
             /\ LastSlot(s, k[1], k[2]) = k /\ NamesGiven(items, k) # {} =>
                  t[k].name \in NamesGiven(items, k)
  <2>1. s[k] \in Label
    BY DEF IsStore
  <2>2. ASSUME LastSlot(s, k[1], k[2]) = k, NamesGiven(items, k) # {}
        PROVE  on(k) # {}
    <3>1. PICK i \in items : i.addr = k[1] /\ i.cat = k[2] /\ ResolvedName(i) # NoName
      BY <2>2 DEF NamesGiven
    <3>2. HasEntry(s, i.addr, i.cat)
      BY <3>1 DEF HasEntry, SlotsAt
    <3>3. i \in on(k)
      BY <2>2, <3>1, <3>2
    <3> QED BY <3>3
  <2>3. CASE on(k) = {}
    <3>1. t[k] = s[k]
      BY <2>3
    <3> HIDE DEF t, on
    <3> QED BY <2>1, <2>2, <2>3, <3>1
  <2>4. CASE on(k) # {}
    <3> DEFINE I == on(k)
               R == {i.row : i \in I}
    <3>1. \A i \in I : i \in items /\ i.row \in Nat
      BY DEF Applicable
    <3>2. PICK n \in Nat : \A i \in items : i.row <= n
      BY DEF Applicable
    <3>3. R \in SUBSET Nat /\ R # {} /\ \A r \in R : r <= n
      <4> HIDE DEF on
      <4> QED BY <2>4, <3>1, <3>2
    <3>4. PICK m \in R : \A r \in R : r <= m
      <4> HIDE DEF R
      <4> QED BY <3>3, GreatestNat
    <3>5. last(I) \in I
      <4> HIDE DEF on
      <4> QED BY <3>4
    <3>6. last(I) \in named /\ HasEntry(s, last(I).addr, last(I).cat)
                            /\ LastSlot(s, last(I).addr, last(I).cat) = k
      <4> HIDE DEF last
      <4> QED BY <3>5
    <3>7. last(I).addr = k[1] /\ last(I).cat = k[2]
      <4> HIDE DEF last, I, named
      <4> QED BY <3>6, LastSlotAt
    <3>8. t[k] = [s[k] EXCEPT !.name = ResolvedName(last(I))]
      BY <2>4
    <3>9. ResolvedName(last(I)) \in Name /\ ResolvedName(last(I)) \in NamesGiven(items, k)
      <4> HIDE DEF last, I
      <4> QED BY <1>2, <3>6, <3>7 DEF NamesGiven
    <3> HIDE DEF t, I, last
    <3> QED BY <2>1, <3>8, <3>9 DEF Label
  <2> QED BY <2>3, <2>4
<1>7. IsFcn(t) /\ DOMAIN t = DOMAIN s \cup K
  BY DEF IsFcn
<1> HIDE DEF t, K
<1> QED BY <1>1, <1>4, <1>5, <1>6, <1>7

\* Where each address has one entry, that entry is the one apply_verdicts renames.
LEMMA LoneEntryIsLast ==
  ASSUME NEW s, IsStore(s), OneEntryPerAddress(s), NEW k \in DOMAIN s
  PROVE  HasEntry(s, k[1], k[2]) /\ LastSlot(s, k[1], k[2]) = k
<1>1. HasEntry(s, k[1], k[2])
  BY DEF HasEntry, SlotsAt
<1>2. /\ LastSlot(s, k[1], k[2]) \in DOMAIN s
      /\ LastSlot(s, k[1], k[2])[1] = k[1] /\ LastSlot(s, k[1], k[2])[2] = k[2]
  BY <1>1, LastSlotAt
<1> QED BY <1>1, <1>2 DEF OneEntryPerAddress

\* apply_verdicts returns a store, drops no entry and adds no second one at an
\* address; an entry is named as its address and list are told, or as it was.
THEOREM ApplyVerdictsStore ==
  ASSUME NEW s, IsStore(s), NEW items, Applicable(items)
  PROVE  LET t == ApplyVerdicts(s, items)
         IN /\ IsStore(t)
            /\ DOMAIN s \subseteq DOMAIN t
            /\ \A k \in DOMAIN s : /\ t[k].src = s[k].src
                                   /\ t[k].name \in {s[k].name} \cup NamesGiven(items, k)
            /\ \A k \in DOMAIN t \ DOMAIN s : /\ t[k].src = "other"
                                              /\ t[k].name \in NamesGiven(items, k)
            /\ OneEntryPerAddress(s) =>
                 /\ OneEntryPerAddress(t)
                 /\ \A k \in DOMAIN t : NamesGiven(items, k) # {} =>
                                          t[k].name \in NamesGiven(items, k)
<1> DEFINE t == ApplyVerdicts(s, items)
<1>1. PICK K \in SUBSET GapSlot :
        /\ IsFcn(t) /\ DOMAIN t = DOMAIN s \cup K
        /\ \A k \in K : /\ ~HasEntry(s, k[1], k[2])
                        /\ t[k] \in Label /\ t[k].src = "other"
                        /\ t[k].name \in NamesGiven(items, k)
        /\ \A k \in DOMAIN s : /\ t[k] \in Label /\ t[k].src = s[k].src
                               /\ t[k].name \in {s[k].name} \cup NamesGiven(items, k)
        /\ \A k \in DOMAIN s :
             LastSlot(s, k[1], k[2]) = k /\ NamesGiven(items, k) # {} =>
               t[k].name \in NamesGiven(items, k)
  BY ApplyVerdictsEntries
<1> HIDE DEF t
<1>2. /\ IsStore(t)
      /\ OneEntryPerAddress(s) => OneEntryPerAddress(t)
  BY <1>1, AddedEntries
<1>3. ASSUME OneEntryPerAddress(s), NEW k \in DOMAIN t, NamesGiven(items, k) # {}
      PROVE  t[k].name \in NamesGiven(items, k)
  BY <1>1, <1>3, LoneEntryIsLast
<1> QED BY <1>1, <1>2, <1>3 DEF t

\* The places that apply_verdicts adds: those of items that found no name, where the store
\* has nothing either.
LEMMA AddedPlaces ==
  ASSUME NEW s, IsStore(s), NEW items, Applicable(items)
  PROVE  \A k : k \in DOMAIN ApplyVerdicts(s, items) <=>
                  \/ k \in DOMAIN s
                  \/ \E i \in items : /\ ResolvedName(i) # NoName /\ i.current = NoName
                                      /\ ~HasEntry(s, i.addr, i.cat) /\ k = <<i.addr, i.cat, 1>>
<1> DEFINE added   == {i \in {i \in items : ResolvedName(i) # NoName} :
                         ~HasEntry(s, i.addr, i.cat) /\ i.current = NoName}
           slot(i) == NewSlot(s, i.addr, i.cat, i.row)
<1>1. DOMAIN ApplyVerdicts(s, items) = DOMAIN s \cup {slot(i) : i \in added}
  BY DEF ApplyVerdicts
<1>2. \A i \in added : slot(i) = <<i.addr, i.cat, 1>>
  BY DEF NewSlot, Applicable
<1> HIDE DEF slot
<1> QED BY <1>1, <1>2

\* An address has one row of a file.
OneRow(items) == \A i, j \in items : i.addr = j.addr /\ i.cat = j.cat => i = j

\* Labels of the assembly listings are not in the way of items: none has the place of an
\* item that found no name, and none that is close to an entry from elsewhere is given
\* a name that is the other's with tags appended, nor the other way round.
ListingsApart(s, items) ==
  LET t == ApplyVerdicts(s, items)
  IN /\ \A k \in DOMAIN t, i \in items :
          t[k].src = "asm" /\ i.addr = k[1] /\ i.cat = k[2] => i.current # NoName
     /\ \A j, k \in DOMAIN t :
          /\ Near(j[1], k[1]) /\ t[j].src # t[k].src
          /\ NamesGiven(items, j) # {} /\ Extends(t[j].name, t[k].name)
          => t[j].name = t[k].name

\* What a second application starts from: a place is named as its item says, or else as
\* the clean-up has left it; a place that is added again has lost its entry to the erased flash.
LEMMA AppliedAgain ==
  ASSUME NEW s, IsStore(s), OneEntryPerAddress(s), NEW items, Applicable(items), OneRow(items),
         NEW erased, ListingsApart(s, items)
  PROVE  LET a    == ApplyVerdicts(s, items)
             once == CleanUp(a, erased)
             b    == ApplyVerdicts(once, items)
         IN /\ IsStore(a) /\ IsStore(b) /\ IsStore(once) /\ NamesUnique(once)
            /\ DOMAIN once \subseteq DOMAIN a \cap DOMAIN b
            /\ \A k \in DOMAIN once : /\ b[k].src = a[k].src
                                      /\ Extends(once[k].name, a[k].name)
                                      /\ IF NamesGiven(items, k) # {} THEN b[k].name = a[k].name
                                         ELSE b[k].name = once[k].name
            /\ \A k \in DOMAIN b \ DOMAIN once :
                 /\ k[2] = Function /\ k[1] \in erased
                 /\ \E j \in DOMAIN a : /\ j[1] = k[1] /\ j[2] = k[2] /\ a[j].src # "asm"
                                        /\ NamesGiven(items, j) # {} /\ a[j].name = b[k].name
<1> DEFINE a    == ApplyVerdicts(s, items)
           once == CleanUp(a, erased)
           b    == ApplyVerdicts(once, items)
<1>1. /\ IsStore(a) /\ DOMAIN s \subseteq DOMAIN a /\ OneEntryPerAddress(a)
      /\ \A k \in DOMAIN a : NamesGiven(items, k) # {} => a[k].name \in NamesGiven(items, k)
  BY ApplyVerdictsStore
<1>2. /\ ListingsApart(s, items)
      /\ \A k \in DOMAIN a, i \in items :
           a[k].src = "asm" /\ i.addr = k[1] /\ i.cat = k[2] => i.current # NoName
  BY DEF ListingsApart
<1>3. \A i \in items :
        ResolvedName(i) # NoName /\ i.current = NoName => HasEntry(a, i.addr, i.cat)
  <2> SUFFICES ASSUME NEW i \in items, ResolvedName(i) # NoName, i.current = NoName
               PROVE  \E k \in DOMAIN a : k[1] = i.addr /\ k[2] = i.cat
    BY DEF HasEntry, SlotsAt
  <2>1. CASE HasEntry(s, i.addr, i.cat)
    BY <1>1, <2>1 DEF HasEntry, SlotsAt
  <2>2. CASE ~HasEntry(s, i.addr, i.cat)
    <3> DEFINE k == <<i.addr, i.cat, 1>>
    <3>1. k \in DOMAIN a
      BY <2>2, AddedPlaces
    <3>2. k[1] = i.addr /\ k[2] = i.cat
      OBVIOUS
    <3> QED BY <3>1, <3>2
  <2> QED BY <2>1, <2>2
<1> HIDE DEF a
<1>4. /\ IsStore(once) /\ NamesUnique(once) /\ OneEntryPerAddress(once)
      /\ DOMAIN once \subseteq DOMAIN a
      /\ \A k \in DOMAIN once : /\ Extends(once[k].name, a[k].name)
                                /\ once[k].src = a[k].src
      /\ DOMAIN once = Kept(a, erased)
  <2>1. DOMAIN once = Kept(a, erased)
    BY <1>1, CleanUpKeeps, DedupNamesUnique
  <2> QED BY <1>1, <2>1, CleanUpUnique
<1> HIDE DEF once
<1>5. /\ IsStore(b) /\ DOMAIN once \subseteq DOMAIN b /\ OneEntryPerAddress(b)
      /\ \A k \in DOMAIN once : /\ b[k].src = once[k].src
                                /\ b[k].name \in {once[k].name} \cup NamesGiven(items, k)
      /\ \A k \in DOMAIN b : NamesGiven(items, k) # {} => b[k].name \in NamesGiven(items, k)
  BY <1>4, ApplyVerdictsStore
<1>6. \A k \in DOMAIN b \ DOMAIN once :
        \E i \in items : /\ ResolvedName(i) # NoName /\ i.current = NoName
                         /\ ~HasEntry(once, i.addr, i.cat) /\ k = <<i.addr, i.cat, 1>>
  BY <1>4, AddedPlaces
<1> HIDE DEF b
\* A place is given one name at most.
<1>7. \A k : \A v, w \in NamesGiven(items, k) : v = w
  BY DEF NamesGiven, OneRow
<1>8. ASSUME NEW k \in DOMAIN once
      PROVE  IF NamesGiven(items, k) # {} THEN b[k].name = a[k].name ELSE b[k].name = once[k].name
  BY <1>1, <1>4, <1>5, <1>7
<1>9. ASSUME NEW k \in DOMAIN b \ DOMAIN once
      PROVE  /\ k[2] = Function /\ k[1] \in erased
             /\ \E j \in DOMAIN a : /\ j[1] = k[1] /\ j[2] = k[2] /\ a[j].src # "asm"
                                    /\ NamesGiven(items, j) # {} /\ a[j].name = b[k].name
  <2>1. PICK i \in items : /\ ResolvedName(i) # NoName /\ i.current = NoName
                           /\ ~HasEntry(once, i.addr, i.cat) /\ k = <<i.addr, i.cat, 1>>
    BY <1>6
  <2>2. k[1] = i.addr /\ k[2] = i.cat
    BY <2>1
  <2>3. PICK j \in DOMAIN a : j[1] = i.addr /\ j[2] = i.cat
    BY <1>3, <2>1 DEF HasEntry, SlotsAt
  <2>4. j \notin Kept(a, erased)
    BY <1>4, <2>1, <2>3 DEF HasEntry, SlotsAt
  <2>5. a[j].src # "asm"
    BY <1>2, <2>1, <2>3
  <2>6. j[2] = Function /\ j[1] \in erased
    BY <2>4, <2>5 DEF Kept, Imprecise
  <2>7. ResolvedName(i) \in NamesGiven(items, j) /\ ResolvedName(i) \in NamesGiven(items, k)
    BY <2>1, <2>2, <2>3 DEF NamesGiven
  <2>8. a[j].name = ResolvedName(i) /\ b[k].name = ResolvedName(i)
    BY <1>1, <1>5, <1>7, <2>7
  <2> QED BY <2>2, <2>3, <2>5, <2>6, <2>7, <2>8
<1> QED BY <1>1, <1>4, <1>5, <1>8, <1>9 DEF a, once, b

\* Applying a file to a store that it has been applied to changes nothing, if the labels of
\* assembly listings are not in the way: names that the clean-up has made unique are made
\* so in the same way.
THEOREM ApplyVerdictsTwice ==
  ASSUME NEW s, IsStore(s), OneEntryPerAddress(s), NEW items, Applicable(items), OneRow(items),
         NEW erased, ListingsApart(s, items)
  PROVE  LET once == CleanUp(ApplyVerdicts(s, items), erased)
         IN CleanUp(ApplyVerdicts(once, items), erased) = once
<1> DEFINE a    == ApplyVerdicts(s, items)
           once == CleanUp(a, erased)
           b    == ApplyVerdicts(once, items)
<1>1. /\ IsStore(a) /\ IsStore(b) /\ IsStore(once) /\ NamesUnique(once)
      /\ DOMAIN once \subseteq DOMAIN a \cap DOMAIN b
      /\ \A k \in DOMAIN once : /\ b[k].src = a[k].src
                                /\ Extends(once[k].name, a[k].name)
                                /\ IF NamesGiven(items, k) # {} THEN b[k].name = a[k].name
                                   ELSE b[k].name = once[k].name
      /\ \A k \in DOMAIN b \ DOMAIN once :
           /\ k[2] = Function /\ k[1] \in erased
           /\ \E j \in DOMAIN a : /\ j[1] = k[1] /\ j[2] = k[2] /\ a[j].src # "asm"
                                  /\ NamesGiven(items, j) # {} /\ a[j].name = b[k].name
  BY AppliedAgain
<1>2. \A j, k \in DOMAIN a :
        /\ Near(j[1], k[1]) /\ a[j].src # a[k].src
        /\ NamesGiven(items, j) # {} /\ Extends(a[j].name, a[k].name)
        => a[j].name = a[k].name
  BY DEF ListingsApart
<1> HIDE DEF a, b
<1>3. DOMAIN once = Kept(a, erased)
  BY <1>1, CleanUpKeeps, DedupNamesUnique
<1>4. once = CleanUp(a, erased)
  OBVIOUS
<1> HIDE DEF once
<1>5. \A j, k \in Slot : Near(j[1], k[1]) => Near(k[1], j[1])
  BY DEF Near
<1>6. ASSUME NEW k \in DOMAIN once PROVE ~Imprecise(b, k)
  <2> SUFFICES ASSUME b[k].src = "asm",
                      NEW m \in DOMAIN b, b[m].src # "asm", b[m].name = b[k].name, Near(m[1], k[1])
               PROVE  FALSE
    BY DEF Imprecise
  <2>1. k \in DOMAIN a /\ a[k].src = "asm" /\ k \in Slot
    BY <1>1 DEF IsStore
  <2>2. \E j \in DOMAIN a : /\ j[1] = m[1] /\ a[j].src # "asm"
                            /\ \/ NamesGiven(items, j) # {} /\ a[j].name = b[m].name
                               \/ j = m /\ m \in DOMAIN once /\ b[m].name = once[m].name
    <3>1. CASE m \in DOMAIN once
      BY <1>1, <3>1
    <3>2. CASE m \notin DOMAIN once
      BY <1>1, <3>2
    <3> QED BY <3>1, <3>2
  <2>3. PICK j \in DOMAIN a : /\ j[1] = m[1] /\ a[j].src # "asm"
                              /\ \/ NamesGiven(items, j) # {} /\ a[j].name = b[m].name
                                 \/ j = m /\ m \in DOMAIN once /\ b[m].name = once[m].name
    BY <2>2
  <2>4. Near(j[1], k[1]) /\ Near(k[1], j[1]) /\ j \in Slot
    BY <1>1, <1>5, <2>1, <2>3 DEF IsStore
  <2>5. a[j].name # a[k].name
    <3>1. ~Imprecise(a, k)
      BY <1>3 DEF Kept
    <3> QED BY <2>1, <2>3, <2>4, <3>1 DEF Imprecise
  <2>6. CASE NamesGiven(items, k) # {}
    <3>1. b[k].name = a[k].name
      BY <1>1, <2>6
    <3>2. j = m /\ m \in DOMAIN once /\ b[m].name = once[m].name
      BY <2>3, <2>5, <3>1
    <3>3. Extends(a[k].name, a[j].name)
      BY <1>1, <3>1, <3>2
    <3> QED BY <1>2, <2>1, <2>3, <2>4, <2>5, <2>6, <3>3
  <2>7. CASE NamesGiven(items, k) = {}
    <3>1. b[k].name = once[k].name /\ Extends(once[k].name, a[k].name)
      BY <1>1, <2>7
    <3>2. CASE NamesGiven(items, j) # {} /\ a[j].name = b[m].name
      <4>1. Extends(a[j].name, a[k].name)
        BY <3>1, <3>2
      <4> QED BY <1>2, <2>1, <2>3, <2>4, <2>5, <3>2, <4>1
    <3>3. CASE j = m /\ m \in DOMAIN once /\ b[m].name = once[m].name
      <4>1. m = k
        BY <1>1, <3>1, <3>3 DEF NamesUnique
      <4> QED BY <4>1
    <3> QED BY <2>3, <3>2, <3>3
  <2> QED BY <2>6, <2>7
<1>7. Kept(b, erased) = Kept(a, erased)
  <2>1. \A k \in DOMAIN once : k \in Kept(b, erased)
    BY <1>1, <1>3, <1>6 DEF Kept
  <2>2. \A k \in Kept(b, erased) : k \in DOMAIN once
    BY <1>1 DEF Kept
  <2> QED BY <1>3, <2>1, <2>2
<1>8. \A k \in Kept(a, erased) : /\ b[k].src = a[k].src
                                 /\ b[k].name \in {a[k].name, CleanUp(a, erased)[k].name}
  BY <1>1, <1>3, <1>4
<1>9. CleanUp(b, erased) = CleanUp(a, erased)
  BY <1>1, <1>7, <1>8, CleanUpAgain
<1> QED BY <1>4, <1>9 DEF a, b, once

\* A rename item asks for what a candidate for its address proposes, one that
\* found a name there.
LEMMA RenamesProposed ==
  ASSUME NEW cs, NEW k
  PROVE  \A w \in NamesGiven(RenameItems(cs), k) :
           \E c \in cs : c.current # NoName /\ c.addr = k[1] /\ w = c.proposed
<1>1. ASSUME NEW ds, NEW i \in ItemsOf(ds)
      PROVE  i.verdict = Proposed /\ \E c \in ds : i.addr = c.addr /\ i.proposed = c.proposed
  <2> DEFINE row(c) == Cardinality({d \in ds : /\ d.target = c.target /\ d.addr = c.addr
                                               /\ SortedIds[d.source] < SortedIds[c.source]}) + 1
  <2>1. PICK c \in ds :
          i = [target |-> c.target, addr |-> c.addr, cat |-> Function, row |-> row(c),
               current |-> c.current, proposed |-> c.proposed, source |-> c.source,
               verdict |-> Proposed]
    BY DEF ItemsOf
  <2> HIDE DEF row
  <2> QED BY <2>1
<1>2. \A i : i.verdict = Proposed => ResolvedName(i) = i.proposed
  BY VerdictAssumption DEF ResolvedName
<1>3. \A i \in RenameItems(cs) : \E c \in cs : /\ c.current # NoName /\ i.addr = c.addr
                                               /\ ResolvedName(i) = c.proposed
  BY <1>1, <1>2 DEF RenameItems
<1> QED BY <1>3 DEF NamesGiven

\* The automatic phase returns a store, drops no entry and adds no second one at
\* an address; it renames an entry only to what a candidate with a name proposes,
\* and adds one only where a candidate proposes its name.
THEOREM AutoApplyStore ==
  ASSUME NEW s, IsStore(s), NEW cs \in SUBSET Merged, OnePerPlace(cs)
  PROVE  /\ IsStore(AutoApply(s, cs))
         /\ OneEntryPerAddress(s) => OneEntryPerAddress(AutoApply(s, cs))
         /\ DOMAIN s \subseteq DOMAIN AutoApply(s, cs)
         /\ \A k \in DOMAIN s :
              \/ AutoApply(s, cs)[k].name = s[k].name
              \/ \E c \in cs : /\ c.current # NoName /\ c.addr = k[1]
                               /\ AutoApply(s, cs)[k].name = c.proposed
         /\ \A k \in DOMAIN AutoApply(s, cs) \ DOMAIN s :
              \E c \in cs : c.addr = k[1] /\ AutoApply(s, cs)[k].name = c.proposed
<1> DEFINE gaps    == {c \in cs : c.current = NoName /\ c.addr \notin FnAddrs(s)}
           slot(c) == NewSlot(s, c.addr, Function, 1)
           K       == {slot(c) : c \in gaps}
           t       == [k \in DOMAIN s \cup K |->
                         IF k \in DOMAIN s THEN s[k]
                         ELSE [name |-> (CHOOSE c \in gaps : slot(c) = k).proposed,
                               src |-> "other"]]
<1>1. AppendFunctions(s, cs) = t
  BY DEF AppendFunctions
<1>0. \A c \in gaps : ~HasEntry(s, c.addr, Function) /\ slot(c) = <<c.addr, Function, 1>>
  BY DEF NewSlot, HasEntry, SlotsAt, FnAddrs
<1>2. K \in SUBSET GapSlot
  BY <1>0 DEF GapSlot, Merged
<1>3. \A k \in DOMAIN s \cup K : t[k] \in Label
  <2> SUFFICES ASSUME NEW k \in DOMAIN s \cup K PROVE t[k] \in Label
    OBVIOUS
  <2>1. CASE k \in DOMAIN s
    BY <2>1 DEF IsStore
  <2>2. CASE k \notin DOMAIN s
    <3>1. (CHOOSE c \in gaps : slot(c) = k) \in Merged
      BY <2>2
    <3>2. (CHOOSE c \in gaps : slot(c) = k).proposed \in Name
      <4> HIDE DEF gaps, slot
      <4> QED BY <3>1 DEF Merged
    <3>3. t[k] = [name |-> (CHOOSE c \in gaps : slot(c) = k).proposed, src |-> "other"]
      BY <2>2
    <3> HIDE DEF t, gaps, slot
    <3> QED BY <3>2, <3>3 DEF Label
  <2> QED BY <2>1, <2>2
<1>4. \A k \in K : ~HasEntry(s, k[1], k[2])
  BY <1>0
<1>5. IsFcn(t) /\ DOMAIN t = DOMAIN s \cup K /\ \A k \in DOMAIN s : t[k] = s[k]
  BY DEF IsFcn
<1>13. ASSUME NEW k \in DOMAIN t \ DOMAIN s
       PROVE  \E c \in cs : c.addr = k[1] /\ t[k].name = c.proposed
  <2> DEFINE c == CHOOSE c \in gaps : slot(c) = k
  <2>1. c \in gaps /\ slot(c) = k
    OBVIOUS
  <2>2. t[k] = [name |-> c.proposed, src |-> "other"]
    OBVIOUS
  <2> HIDE DEF c, t, slot
  <2> QED BY <1>0, <2>1, <2>2
<1> HIDE DEF t, K
<1>6. /\ IsStore(AppendFunctions(s, cs))
      /\ OneEntryPerAddress(s) => OneEntryPerAddress(AppendFunctions(s, cs))
  BY <1>1, <1>2, <1>3, <1>4, <1>5, AddedEntries
<1> DEFINE a == AppendFunctions(s, cs)
           u == ApplyVerdicts(a, RenameItems(cs))
<1>7. Applicable(RenameItems(cs))
  BY ItemsType, WrittenApplicable
<1>8. /\ IsStore(u) /\ DOMAIN a \subseteq DOMAIN u
      /\ OneEntryPerAddress(a) => OneEntryPerAddress(u)
      /\ \A k \in DOMAIN a : u[k].name \in {a[k].name} \cup NamesGiven(RenameItems(cs), k)
      /\ \A k \in DOMAIN u \ DOMAIN a : u[k].name \in NamesGiven(RenameItems(cs), k)
  <2> HIDE DEF a
  <2> QED BY <1>6, <1>7, ApplyVerdictsStore DEF a
<1>9. DOMAIN s \subseteq DOMAIN a /\ \A k \in DOMAIN s : a[k] = s[k]
  BY <1>1, <1>5
<1>14. \A k \in DOMAIN a \ DOMAIN s : \E c \in cs : c.addr = k[1] /\ a[k].name = c.proposed
  BY <1>1, <1>13
<1> HIDE DEF a, u
<1>10. \A k \in DOMAIN s :
         \/ u[k].name = s[k].name
         \/ \E c \in cs : c.current # NoName /\ c.addr = k[1] /\ u[k].name = c.proposed
  BY <1>8, <1>9, RenamesProposed
<1>11. OneEntryPerAddress(s) => OneEntryPerAddress(u)
  BY <1>6, <1>8 DEF a
<1>12. AutoApply(s, cs) = u
  BY DEF AutoApply, a, u
<1>15. \A k \in DOMAIN u \ DOMAIN s : \E c \in cs : c.addr = k[1] /\ u[k].name = c.proposed
  <2> TAKE k \in DOMAIN u \ DOMAIN s
  <2>1. CASE u[k].name \in NamesGiven(RenameItems(cs), k)
    BY <2>1, RenamesProposed
  <2>2. CASE k \in DOMAIN a /\ u[k].name = a[k].name
    BY <1>14, <2>2
  <2> QED BY <1>8, <2>1, <2>2
<1> QED BY <1>8, <1>9, <1>10, <1>11, <1>12, <1>15

-----------------------------------------------------------------------------
\* A gathered candidate shows the name that its place has, and proposes one that no
\* other function of its target has.
LEMMA GatherShows ==
  ASSUME NEW n, NEW R, NEW ms, NEW S, NEW d \in Gather(n, R, ms, S)
  PROVE  /\ d.current = FnName(S[d.target], d.addr)
         /\ Unclaimed(S[d.target], d.proposed, d.addr)
<1>1. PICK r \in R : d \in Forward(n, r, ms[r], S) \/ d \in Back(n, r, ms[r], S)
  BY DEF Gather
<1>2. CASE d \in Forward(n, r, ms[r], S)
  BY <1>2 DEF Forward
<1>3. CASE d \in Back(n, r, ms[r], S)
  BY <1>3 DEF Back
<1> QED BY <1>1, <1>2, <1>3

\* So does a merged one.
LEMMA MergeShows ==
  ASSUME NEW n \in Refs, NEW R \in SUBSET Refs, NEW ms \in [Refs -> SUBSET Match],
         NEW S, \A r \in Refs : IsStore(S[r]), NEW c \in MergeCandidates(Gather(n, R, ms, S))
  PROVE  /\ c.current = FnName(S[c.target], c.addr)
         /\ Unclaimed(S[c.target], c.proposed, c.addr)
<1> DEFINE cs == Gather(n, R, ms, S)
<1>1. cs \in SUBSET Candidate
  BY GatherType
<1>2. \A d \in cs : /\ d.current = FnName(S[d.target], d.addr)
                    /\ Unclaimed(S[d.target], d.proposed, d.addr)
  BY GatherShows
<1>3. c \in MergeCandidates(cs)
  OBVIOUS
<1> HIDE DEF cs
<1>4. PICK e \in cs : c = MergeGroup({d \in cs : d.target = e.target /\ d.addr = e.addr})
  BY <1>3 DEF MergeCandidates
<1> DEFINE g == {d \in cs : d.target = e.target /\ d.addr = e.addr}
           first == CHOOSE d \in g : TRUE
<1>5. first \in g /\ g \in SUBSET Candidate /\ g # {}
  BY <1>1
<1>6. first \in cs /\ first.target = e.target /\ first.addr = e.addr
  <2> HIDE DEF first
  <2> QED BY <1>5
<1>7. c.target = first.target /\ c.addr = first.addr /\ c.current = first.current
      /\ c.proposed = Winner(g)
  <2> HIDE DEF g
  <2> QED BY <1>4 DEF MergeGroup, g, first
<1>8. PICK d \in g : d.proposed = Winner(g)
  <2> HIDE DEF g, first
  <2>1. Winner(g) \in {d.proposed : d \in g}
    BY <1>5, WinnerProposed
  <2> QED BY <2>1
<1> HIDE DEF first
<1> QED BY <1>2, <1>6, <1>7, <1>8

\* Extending a name twice extends it.
LEMMA ExtendsTwice ==
  ASSUME NEW a, NEW b, NEW c, Extends(a, b), Extends(b, c)
  PROVE  Extends(a, c)
<1>1. /\ a \in Name /\ b \in Name /\ c \in Name /\ a.base = c.base
      /\ Len(a.tags) \in Nat /\ Len(b.tags) \in Nat /\ Len(c.tags) \in Nat
      /\ Len(c.tags) <= Len(b.tags) /\ Len(b.tags) <= Len(a.tags)
  BY DEF Extends, Name
<1>2. \A i \in 1..Len(c.tags) : i \in 1..Len(b.tags)
  BY <1>1
<1>3. \A i \in 1..Len(c.tags) : a.tags[i] = c.tags[i]
  BY <1>2 DEF Extends
<1>4. Len(c.tags) <= Len(a.tags)
  BY <1>1
<1> QED BY <1>1, <1>3, <1>4 DEF Extends

\* Where no candidate is, the automatic phase and the clean-up after it fill no gap and
\* leave a function's name, at most made unique: what the candidates propose elsewhere is
\* nobody else's name, so no listing's function is taken for a duplicate.
THEOREM AutoApplyLeaves ==
  ASSUME NEW s, IsStore(s), NamesUnique(s), OneEntryPerAddress(s),
         NEW cs \in SUBSET Merged, OnePerPlace(cs), NEW erased, NEW a,
         \A c \in cs : c.addr # a /\ Unclaimed(s, c.proposed, c.addr)
  PROVE  LET t == CleanUp(AutoApply(s, cs), erased)
         IN /\ FnName(s, a) = NoName => FnName(t, a) = NoName
            /\ FnName(s, a) # NoName /\ a \notin erased => Extends(FnName(t, a), FnName(s, a))
<1> DEFINE u == AutoApply(s, cs)
           t == CleanUp(u, erased)
<1>1. /\ IsStore(u) /\ OneEntryPerAddress(u) /\ DOMAIN s \subseteq DOMAIN u
      /\ \A k \in DOMAIN s :
           \/ u[k].name = s[k].name
           \/ \E c \in cs : c.addr = k[1] /\ u[k].name = c.proposed
      /\ \A k \in DOMAIN u \ DOMAIN s : \E c \in cs : c.addr = k[1] /\ u[k].name = c.proposed
  BY AutoApplyStore
<1> HIDE DEF u
<1>2. /\ IsStore(t) /\ OneEntryPerAddress(t) /\ DOMAIN t \subseteq DOMAIN u
      /\ \A k \in DOMAIN t : Extends(t[k].name, u[k].name)
  BY <1>1, CleanUpUnique
<1>3. DOMAIN t = Kept(u, erased)
  BY <1>1, CleanUpKeeps, DedupNamesUnique
<1> HIDE DEF t
<1>4. \A k \in DOMAIN u : k[1] = a => k \in DOMAIN s /\ u[k].name = s[k].name
  BY <1>1
<1>5. ASSUME FnName(s, a) = NoName PROVE FnName(t, a) = NoName
  <2>1. ~HasEntry(s, a, Function)
    BY <1>5, LastSlotAt, NoNameAssumption DEF FnName, IsStore, Label
  <2>2. ~HasEntry(t, a, Function)
    BY <1>2, <1>4, <2>1 DEF HasEntry, SlotsAt
  <2> QED BY <2>2 DEF FnName
<1>6. ASSUME FnName(s, a) # NoName, a \notin erased PROVE Extends(FnName(t, a), FnName(s, a))
  <2> DEFINE k == LastSlot(s, a, Function)
  <2>1. HasEntry(s, a, Function) /\ FnName(s, a) = s[k].name
    BY <1>6 DEF FnName
  <2>2. k \in DOMAIN s /\ k[1] = a /\ k[2] = Function
    BY <2>1, LastSlotAt
  <2> HIDE DEF k
  <2>3. k \in DOMAIN u /\ u[k].name = s[k].name
    BY <1>1, <1>4, <2>2
  <2>4. \A j \in DOMAIN s : s[j].name = s[k].name => j = k
    BY <2>2 DEF NamesUnique
  <2>5. \A c \in cs : c.proposed # s[k].name
    <3> SUFFICES ASSUME NEW c \in cs, c.proposed = s[k].name PROVE FALSE
      OBVIOUS
    <3> DEFINE owners == {b \in FnAddrs(s) : FnName(s, b) = c.proposed}
    <3>1. a \in owners
      BY <2>1, <2>2 DEF FnAddrs
    <3>2. c.addr \in FnAddrs(s) /\ FnName(s, c.addr) = s[k].name
      BY <3>1 DEF Unclaimed
    <3>3. HasEntry(s, c.addr, Function) /\ s[LastSlot(s, c.addr, Function)].name = s[k].name
      BY <3>2 DEF FnName, FnAddrs, HasEntry, SlotsAt
    <3>4. LastSlot(s, c.addr, Function) = k /\ k[1] = c.addr
      BY <2>4, <3>3, LastSlotAt
    <3> QED BY <2>2, <3>4
  <2>6. \A j \in DOMAIN u : u[j].name = u[k].name => j = k
    BY <1>1, <2>3, <2>4, <2>5
  <2>7. k \in DOMAIN t
    BY <1>3, <1>6, <2>2, <2>3, <2>6 DEF Kept, Imprecise
  <2>8. HasEntry(t, a, Function) /\ LastSlot(t, a, Function) = k
    BY <1>2, <2>2, <2>7, LoneEntryIsLast
  <2> QED BY <1>2, <2>1, <2>3, <2>7, <2>8 DEF FnName
<1> QED BY <1>5, <1>6 DEF t, u
=============================================================================
