-------------------------- MODULE AgentEnrichProofs --------------------------
(***************************************************************************)
(* For every ROM, queue, answer and interruption of the agent naming loop: *)
(* its files stay well formed, the stores list nothing twice, and no       *)
(* candidate leaves a queue before its answer has taken effect.            *)
(***************************************************************************)
EXTENDS AgentEnrich, EnrichRulesProofs, SequenceTheorems

\* Where the functions, or the variables, of a ROM are.
GhidraAt(c, r) == IF c = Function THEN GhidraFns[r] ELSE GhidraVars[r]

\* Candidates: entries for something the ROM has.
Found == {e \in Entry : e.addr \in GhidraAt(e.cat, e.rom)}

\* A queue that can be read: candidates of its kind, best first.
GoodQueue(q, c) ==
  /\ q \in Seq(Found)
  /\ \A i \in DOMAIN q : q[i].cat = c
  /\ \A i, j \in DOMAIN q : i <= j => q[j].priority <= q[i].priority

GoodAnswers(f) ==
  /\ DOMAIN f \subseteq Refs \X Addr
  /\ \A k \in DOMAIN f : /\ f[k] \in Answer /\ f[k].name \in AgentNames
                         /\ k[2] \in GhidraAt(f[k].cat, k[1])

\* A row for review: what some agent proposed.
ReviewRow == {i \in Row : i.proposed \in AgentNames}

FileTypes ==
  /\ corpus = Unreadable \/ corpus \in Seq(ReviewRow)
  /\ queue = [c \in Kinds |-> queue[c]]
  /\ \A c \in Kinds : queue[c] = Unreadable \/ GoodQueue(queue[c], c)
  /\ poor \in [Kinds -> 0..Window \cup {Unreadable}] /\ done \in [Kinds -> BOOLEAN]
  /\ batch \subseteq Found /\ ctx \subseteq Refs \X Addr
  /\ GoodAnswers(result) /\ GoodAnswers(asked)
  /\ summary \in [named : [Kinds -> SUBSET Addr], applied : [Kinds -> Nat]]
  /\ savesLeft \subseteq Kinds \X Refs

\* A round has something to do, and the queues it came from are readable.
RoundReady ==
  /\ step # "idle" => batch # {} /\ \A c \in RoundKinds : GoodQueue(queue[c], c)
  /\ kindsLeft \subseteq Kinds
  /\ step \in {"deleted", "rescored", "removed", "recorded"} => kindsLeft # {} /\ kindsLeft \subseteq RoundKinds

\* What every writer has established about a store.
StoresGood ==
  /\ store = [r \in Refs |-> store[r]]
  /\ \A r \in Refs : IsStore(store[r]) /\ OneEntryPerAddress(store[r])

TypeInv == FileTypes /\ RoundReady /\ StoresGood

-----------------------------------------------------------------------------
\* A name that stays real when tags are appended to it.
Lasting(n) == IsReal(n) /\ n.base \notin AutoBase

\* The store has a name of an agent, or one as good, in an entry no clean-up drops.
Taken(s, a, c) ==
  \E k \in DOMAIN s : k[1] = a /\ k[2] = c /\ s[k].src = "other" /\ Lasting(s[k].name)

UpForReview(k) ==
  \E i \in DOMAIN corpus :
    /\ corpus[i].target = k[1] /\ corpus[i].addr = k[2] /\ corpus[i].cat = asked[k].cat
    /\ corpus[i].proposed = asked[k].name

\* The answers a round works on take effect one after the other, and what an
\* earlier one of them did is not undone.
AnswersKept ==
  /\ step \in {"answered", "save", "summarise", "applied"} => asked = result
  /\ step = "save" =>
       \A k \in With("high") : <<result[k].cat, k[1]>> \notin savesLeft =>
                                 Taken(store[k[1]], k[2], result[k].cat)
  /\ step \in {"summarise", "applied", "deleted", "rescored"} =>
       \A k \in DOMAIN asked :
         /\ asked[k].confidence = "high" => Taken(store[k[1]], k[2], asked[k].cat)
         /\ asked[k].confidence = "medium" /\ corpus # Unreadable => UpForReview(k)
-----------------------------------------------------------------------------
\* What a queue is made of.

\* Ghidra shows a name for everything.
LEMMA ShownType ==
  ASSUME NEW s, IsStore(s), NEW a \in Addr, NEW c \in Kinds
  PROVE  Shown(s, a, c) \in Name
<1>1. CASE HasEntry(s, a, c)
  BY <1>1, LastSlotAt DEF Shown, NameAt, IsStore, Label
<1>2. CASE ~HasEntry(s, a, c)
  <2>1. <<a>> \in Seq(Nat) /\ FunBase \in Base /\ DataBase \in Base
    BY AddrAssumption, AgentAssumption
  <2> QED BY <1>2, <2>1 DEF Shown, Name
<1> QED BY <1>1, <1>2

\* Sets of addresses can be counted.
LEMMA AddrCount ==
  ASSUME NEW A \in SUBSET Addr
  PROVE  IsFiniteSet(A) /\ Cardinality(A) \in Nat
BY AddrAssumption, FS_Subset, FS_CardinalityType

\* Candidates of one kind, one for each address of a ROM.
Candidates(C, c) ==
  /\ C \subseteq Found
  /\ \A e \in C : e.cat = c
  /\ \A d, e \in C : Key(d) = Key(e) => d = e

\* enrich_init lists functions of the ROM, each once.
LEMMA FunctionsFound ==
  ASSUME NEW s, IsStore(s), NEW r \in Refs
  PROVE  Candidates(Functions(s, r), Function) /\ \A e \in Functions(s, r) : e.rom = r
<1> DEFINE entry(a) ==
      [rom |-> r, addr |-> a, cat |-> Function, current |-> Shown(s, a, Function),
       priority |-> Cardinality(NamedFns(s, Neighbors[r][a])),
       neighbors |-> Neighbors[r][a], siblings |-> {}]
           A == {a \in GhidraFns[r] : Unnamed(Shown(s, a, Function))}
<1>1. A \subseteq GhidraFns[r] /\ GhidraFns[r] \subseteq Addr
  BY AgentAssumption
<1>2. ASSUME NEW a \in A PROVE entry(a) \in Found
  <2>1. a \in Addr /\ a \in GhidraFns[r] /\ Neighbors[r][a] \in SUBSET Addr /\ Function \in Kinds
    BY <1>1, AgentAssumption DEF Kinds
  <2>2. Shown(s, a, Function) \in Name
    BY <2>1, ShownType
  <2>3. Cardinality(NamedFns(s, Neighbors[r][a])) \in Nat
    BY <2>1, AddrCount DEF NamedFns
  <2> QED BY <2>1, <2>2, <2>3 DEF Found, Entry, GhidraAt
<1>3. Functions(s, r) = {entry(a) : a \in A}
  BY DEF Functions
<1>4. \A a \in A : entry(a).addr = a /\ entry(a).cat = Function /\ entry(a).rom = r
  OBVIOUS
<1> HIDE DEF entry, A
<1> QED BY <1>2, <1>3, <1>4 DEF Candidates, Key

\* enrich_init_vars lists variables of the ROM, each once.
LEMMA VariablesFound ==
  ASSUME NEW s, IsStore(s), NEW r \in Refs
  PROVE  Candidates(Variables(s, r), Symbol) /\ \A e \in Variables(s, r) : e.rom = r
<1> DEFINE covered == {k[1] : k \in {k \in DOMAIN s : k[2] = Symbol /\ ~Unnamed(s[k].name)}}
           open == GhidraVars[r] \ covered
           entry(a) ==
             [rom |-> r, addr |-> a, cat |-> Symbol, current |-> Shown(s, a, Symbol),
              priority |-> Cardinality(NamedFns(s, Readers[r][a]))
                           + Cardinality(NamedFns(s, Writers[r][a]))
                           + Cardinality(Siblings[r][a] \cap covered),
              neighbors |-> NamedFns(s, Readers[r][a] \cup Writers[r][a]),
              siblings |-> Siblings[r][a] \cap open]
<1>1. Variables(s, r) = {entry(a) : a \in open}
  BY DEF Variables
<1> HIDE DEF covered
<1>2. open \subseteq GhidraVars[r] /\ GhidraVars[r] \subseteq Addr
  BY AgentAssumption
<1>3. ASSUME NEW a \in open PROVE entry(a) \in Found
  <2>1. /\ a \in Addr /\ a \in GhidraVars[r] /\ Symbol \in Kinds /\ Symbol # Function
        /\ Readers[r][a] \in SUBSET Addr /\ Writers[r][a] \in SUBSET Addr
        /\ Siblings[r][a] \in SUBSET Addr
    BY <1>2, AgentAssumption DEF Kinds, Symbol, Function
  <2>2. Shown(s, a, Symbol) \in Name
    BY <2>1, ShownType
  <2>3. \A A \in SUBSET Addr : NamedFns(s, A) \in SUBSET Addr
    BY DEF NamedFns
  <2>4. /\ Cardinality(NamedFns(s, Readers[r][a])) \in Nat
        /\ Cardinality(NamedFns(s, Writers[r][a])) \in Nat
        /\ Cardinality(Siblings[r][a] \cap covered) \in Nat
    BY <2>1, <2>3, AddrCount
  <2>5. /\ NamedFns(s, Readers[r][a] \cup Writers[r][a]) \in SUBSET Addr
        /\ Siblings[r][a] \cap open \in SUBSET Addr
    BY <2>1, <2>3
  <2> HIDE DEF open
  <2> DEFINE p == Cardinality(NamedFns(s, Readers[r][a]))
                  + Cardinality(NamedFns(s, Writers[r][a]))
                  + Cardinality(Siblings[r][a] \cap covered)
  <2>6. p \in Nat
    BY <2>4
  <2> HIDE DEF p
  <2>7. entry(a) \in Entry
    BY <2>1, <2>2, <2>5, <2>6 DEF Entry, p
  <2> QED BY <2>1, <2>7 DEF Found, GhidraAt
<1>4. \A a \in open : entry(a).addr = a /\ entry(a).cat = Symbol /\ entry(a).rom = r
  OBVIOUS
<1> HIDE DEF entry, open
<1> QED BY <1>1, <1>3, <1>4 DEF Candidates, Key

\* The first queue of a kind can be read.
LEMMA InitQueueGood ==
  ASSUME NEW C, NEW c, Candidates(C, c)
  PROVE  GoodQueue(InitQueue(C), c)
<1> DEFINE ahead(d, e) == \/ d.priority > e.priority
                          \/ /\ d.priority = e.priority
                             /\ \/ SortedIds[d.rom] < SortedIds[e.rom]
                                \/ d.rom = e.rom /\ d.addr < e.addr
           R == {p \in C \X C : ahead(p[1], p[2])}
<1>1. \A d, e \in C : <<d, e>> \in R <=> ahead(d, e)
  OBVIOUS
<1>2. \A e \in C : /\ e \in Found /\ e.cat = c /\ e.priority \in Nat
                   /\ SortedIds[e.rom] \in Nat /\ e.rom \in Refs /\ e.addr \in Nat /\ e.addr \in Addr
  BY AddrAssumption, PriorityAssumption DEF Candidates, Found, Entry
<1>3. \A d, e \in C : SortedIds[d.rom] = SortedIds[e.rom] /\ d.addr = e.addr => d = e
  BY <1>2, PriorityAssumption DEF Candidates, Key
<1>4. IsFiniteSet(C)
  <2> DEFINE f == [e \in C |-> <<e.rom, e.addr>>]
  <2>1. f \in Injection(C, Refs \X Addr)
    BY <1>2 DEF Candidates, Key, Injection, IsInjective
  <2>2. IsFiniteSet(Refs \X Addr)
    BY PriorityAssumption, AddrAssumption, FS_Product
  <2> QED BY <2>1, <2>2, FS_Injection
<1>5. IsStrictOrder(R, C)
  <2>1. \A e \in C : ~ahead(e, e)
    BY <1>2
  <2>2. \A d, e \in C : d # e => ahead(d, e) \/ ahead(e, d)
    <3> SUFFICES ASSUME NEW d \in C, NEW e \in C, ~ahead(d, e), ~ahead(e, d) PROVE d = e
      OBVIOUS
    <3>1. d.priority = e.priority
      BY <1>2
    <3>2. SortedIds[d.rom] = SortedIds[e.rom]
      BY <1>2, <3>1
    <3>3. d.rom = e.rom
      BY <1>2, <3>2, PriorityAssumption
    <3>4. d.addr = e.addr
      BY <1>2, <3>1, <3>3
    <3> QED BY <1>3, <3>2, <3>4
  <2>3. \A d, e, f \in C : ahead(d, e) /\ ahead(e, f) => ahead(d, f)
    <3> SUFFICES ASSUME NEW d \in C, NEW e \in C, NEW f \in C, ahead(d, e), ahead(e, f)
                 PROVE  ahead(d, f)
      OBVIOUS
    <3>1. /\ d.priority \in Nat /\ e.priority \in Nat /\ f.priority \in Nat
          /\ SortedIds[d.rom] \in Nat /\ SortedIds[e.rom] \in Nat /\ SortedIds[f.rom] \in Nat
          /\ d.addr \in Nat /\ e.addr \in Nat /\ f.addr \in Nat
      BY <1>2
    <3> QED BY <3>1
  <2> HIDE DEF ahead, R
  <2> QED BY <1>1, <2>1, <2>2, <2>3 DEF IsStrictOrder
<1>6. InitQueue(C) = Listing(C, R)
  <2> DEFINE r(e) == Cardinality({d \in C : ahead(d, e)})
  <2>1. \A e \in C : {d \in C : ahead(d, e)} = Under(C, R, e)
    BY <1>1 DEF Under
  <2>2. InitQueue(C) = [p \in 1..Cardinality(C) |-> CHOOSE e \in C : r(e) = p - 1]
    BY DEF InitQueue, Arrange
  <2>3. \A e \in C : r(e) = RankIn(C, R, e)
    BY <2>1 DEF RankIn
  <2> HIDE DEF r
  <2> QED BY <2>2, <2>3 DEF Listing
<1> HIDE DEF R
<1> DEFINE f == InitQueue(C)
<1>7. /\ f \in Seq(C)
      /\ \A p, q \in DOMAIN f : p < q => <<f[p], f[q]>> \in R
  BY <1>4, <1>5, <1>6, Enumeration
<1> HIDE DEF f
<1>8. DOMAIN f \subseteq Nat /\ \A p \in DOMAIN f : f[p] \in C
  BY <1>7
<1>9. f \in Seq(Found)
  BY <1>2, <1>7, SeqMonotonic
<1>10. \A i, j \in DOMAIN f : i <= j => f[j].priority <= f[i].priority
  <2> SUFFICES ASSUME NEW i \in DOMAIN f, NEW j \in DOMAIN f, i <= j
               PROVE  f[j].priority <= f[i].priority
    OBVIOUS
  <2>1. i = j \/ i < j
    BY <1>8
  <2>2. f[i].priority \in Nat /\ f[j].priority \in Nat
    BY <1>2, <1>8
  <2>3. i < j => ahead(f[i], f[j])
    BY <1>1, <1>7, <1>8
  <2> QED BY <2>1, <2>2, <2>3
<1> QED BY <1>2, <1>8, <1>9, <1>10 DEF GoodQueue, f
\* A queue stays readable when it is sorted by priority, ties by gain.
LEMMA SortQueueGood ==
  ASSUME NEW c, NEW q \in Seq(Found), \A i \in DOMAIN q : q[i].cat = c,
         NEW gain, \A i \in DOMAIN q : gain[i] \in Nat
  PROVE  GoodQueue(SortQueue(q, gain), c)
<1> DEFINE C == DOMAIN q
           ahead(i, j) == \/ q[i].priority > q[j].priority
                          \/ q[i].priority = q[j].priority /\ gain[i] > gain[j]
                          \/ q[i].priority = q[j].priority /\ gain[i] = gain[j] /\ i < j
           R == {p \in C \X C : ahead(p[1], p[2])}
           o == Listing(C, R)
           t == [p \in C |-> q[o[p]]]
<1>1. \A i, j \in C : <<i, j>> \in R <=> ahead(i, j)
  OBVIOUS
<1>2. \A i \in C : i \in Nat /\ q[i] \in Found /\ q[i].priority \in Nat /\ gain[i] \in Nat
  BY DEF Found, Entry
<1>3. C = 1..Len(q) /\ IsFiniteSet(C) /\ Cardinality(C) = Len(q) /\ Len(q) \in Nat
  <2>1. C = 1..Len(q) /\ Len(q) \in Nat
    OBVIOUS
  <2>2. /\ IsFiniteSet(1..Len(q))
        /\ Cardinality(1..Len(q)) = IF 1 > Len(q) THEN 0 ELSE Len(q) - 1 + 1
    BY <2>1, FS_Interval
  <2> QED BY <2>1, <2>2
<1>4. IsStrictOrder(R, C)
  <2>1. \A i \in C : ~ahead(i, i)
    BY <1>2
  <2>2. \A i, j \in C : i # j => ahead(i, j) \/ ahead(j, i)
    BY <1>2
  <2>3. \A i, j, k \in C : ahead(i, j) /\ ahead(j, k) => ahead(i, k)
    BY <1>2
  <2> HIDE DEF ahead, R, C
  <2> QED BY <1>1, <2>1, <2>2, <2>3 DEF IsStrictOrder
<1>5. SortQueue(q, gain) = t
  <2> DEFINE r(e) == Cardinality({d \in C : ahead(d, e)})
             a == [p \in 1..Cardinality(C) |-> CHOOSE e \in C : r(e) = p - 1]
  <2>1. SortQueue(q, gain) = [p \in C |-> q[a[p]]]
    BY DEF SortQueue, Arrange
  <2>2. \A e \in C : {d \in C : ahead(d, e)} = Under(C, R, e)
    BY <1>1 DEF Under
  <2>3. \A e \in C : r(e) = RankIn(C, R, e)
    BY <2>2 DEF RankIn
  <2> HIDE DEF r, C, R
  <2>4. a = o
    BY <2>3 DEF Listing
  <2> HIDE DEF a, o
  <2> QED BY <2>1, <2>4
<1> HIDE DEF R
<1>6. /\ o \in Seq(C) /\ DOMAIN o = 1..Cardinality(C)
      /\ \A p, p2 \in DOMAIN o : p < p2 => <<o[p], o[p2]>> \in R
  BY <1>3, <1>4, Enumeration
<1> HIDE DEF o
<1>7. DOMAIN o = C /\ \A p \in C : o[p] \in C
  BY <1>3, <1>6
<1>8. \A p \in C : t[p] \in Found /\ t[p].cat = c
  BY <1>2, <1>7
<1>9. \A i, j \in C : i <= j => t[j].priority <= t[i].priority
  <2> SUFFICES ASSUME NEW i \in C, NEW j \in C, i <= j
               PROVE  q[o[j]].priority <= q[o[i]].priority
    OBVIOUS
  <2>1. i = j \/ i < j
    BY <1>2
  <2>2. o[i] \in C /\ o[j] \in C /\ q[o[i]].priority \in Nat /\ q[o[j]].priority \in Nat
    BY <1>2, <1>7
  <2>3. i < j => ahead(o[i], o[j])
    BY <1>1, <1>6, <1>7
  <2> HIDE DEF C
  <2> QED BY <2>1, <2>2, <2>3
<1>10. t \in [1..Len(q) -> Found] /\ DOMAIN t = C
  BY <1>3, <1>8
<1> HIDE DEF t
<1>11. t \in Seq(Found)
  BY <1>3, <1>10
<1> QED BY <1>5, <1>8, <1>9, <1>10, <1>11 DEF GoodQueue

\* rescore_neighbors and rescore_var_neighbors return a readable queue.
LEMMA RescoreGood ==
  ASSUME NEW c, NEW q, GoodQueue(q, c), NEW named \in [Kinds -> SUBSET Addr]
  PROVE  GoodQueue(RescoreNeighbors(q, c, named), c)
<1> DEFINE t == [i \in DOMAIN q |-> [q[i] EXCEPT !.priority = @ + Gain(q[i], named)]]
           gain == [i \in DOMAIN q |-> IF c = Symbol THEN Gain(q[i], named) ELSE 0]
<1>1. \A i \in DOMAIN q : q[i] \in Found /\ q[i].cat = c
  BY DEF GoodQueue
<1>2. ASSUME NEW e \in Found PROVE Gain(e, named) \in Nat
  <2> DEFINE A == e.neighbors \cap UNION {named[k] : k \in Kinds}
             B == e.siblings \cap named[Symbol]
  <2>1. A \in SUBSET Addr /\ B \in SUBSET Addr
    BY DEF Found, Entry
  <2> HIDE DEF A, B
  <2>2. Cardinality(A) \in Nat /\ Cardinality(B) \in Nat
    BY <2>1, AddrCount
  <2>3. Gain(e, named) = Cardinality(A) + Cardinality(B)
    BY DEF Gain, A, B
  <2> QED BY <2>2, <2>3
<1>3. \A i \in DOMAIN q : gain[i] \in Nat
  BY <1>1, <1>2
<1>4. \A i \in DOMAIN q : t[i] \in Found /\ t[i].cat = c
  <2> TAKE i \in DOMAIN q
  <2>1. q[i] \in Found /\ q[i].cat = c /\ Gain(q[i], named) \in Nat
    BY <1>1, <1>2
  <2>2. t[i] = [q[i] EXCEPT !.priority = q[i].priority + Gain(q[i], named)]
    OBVIOUS
  <2> HIDE DEF t
  <2> QED BY <2>1, <2>2 DEF Found, Entry
<1>5. DOMAIN q = 1..Len(q) /\ Len(q) \in Nat
  BY DEF GoodQueue
<1>6. DOMAIN t = DOMAIN q /\ t = [i \in DOMAIN q |-> t[i]]
  OBVIOUS
<1>7. RescoreNeighbors(q, c, named) = SortQueue(t, gain)
  BY DEF RescoreNeighbors
<1> HIDE DEF t, gain
<1>8. t \in [1..Len(q) -> Found]
  BY <1>4, <1>5, <1>6
<1>9. t \in Seq(Found)
  BY <1>5, <1>8
<1> QED BY <1>3, <1>4, <1>6, <1>7, <1>9, SortQueueGood

\* A queue stays readable when the batch is taken out of it.
LEMMA WithoutBatchGood ==
  ASSUME NEW c, NEW q, GoodQueue(q, c)
  PROVE  GoodQueue(WithoutBatch(q), c)
<1> DEFINE C == {i \in DOMAIN q : Key(q[i]) \notin {Key(e) : e \in batch}}
           R == {p \in C \X C : p[1] < p[2]}
           o == Listing(C, R)
           t == [p \in DOMAIN o |-> q[o[p]]]
<1>1. /\ DOMAIN q = 1..Len(q) /\ Len(q) \in Nat
      /\ \A i \in DOMAIN q : q[i] \in Found /\ q[i].cat = c /\ q[i].priority \in Nat
      /\ \A i, j \in DOMAIN q : i <= j => q[j].priority <= q[i].priority
  BY DEF GoodQueue, Found, Entry
<1>2. C \subseteq DOMAIN q /\ IsFiniteSet(C)
  <2>1. IsFiniteSet(1..Len(q))
    BY <1>1, FS_Interval
  <2> QED BY <1>1, <2>1, FS_Subset
<1>3. WithoutBatch(q) = t
  <2> DEFINE r(e) == Cardinality({d \in C : d < e})
             a == [p \in 1..Cardinality(C) |-> CHOOSE e \in C : r(e) = p - 1]
  <2>1. WithoutBatch(q) = [p \in DOMAIN a |-> q[a[p]]]
    BY DEF WithoutBatch, Arrange
  <2>2. \A e \in C : {d \in C : d < e} = Under(C, R, e)
    BY DEF Under
  <2>3. \A e \in C : r(e) = RankIn(C, R, e)
    BY <2>2 DEF RankIn
  <2> HIDE DEF r, C
  <2>4. a = o
    BY <2>3 DEF Listing
  <2> HIDE DEF a, o
  <2> QED BY <2>1, <2>4
<1> HIDE DEF C
<1>4. \A i \in C : i \in Nat /\ i \in DOMAIN q
  BY <1>1, <1>2
<1>5. IsStrictOrder(R, C)
  BY <1>4 DEF IsStrictOrder
<1>6. /\ o \in Seq(C)
      /\ \A p, p2 \in DOMAIN o : p < p2 => <<o[p], o[p2]>> \in R
  BY <1>2, <1>5, Enumeration
<1> HIDE DEF o
<1>7. DOMAIN o = 1..Len(o) /\ Len(o) \in Nat /\ \A p \in DOMAIN o : o[p] \in C
  BY <1>6
<1>8. \A p \in DOMAIN o : t[p] \in Found /\ t[p].cat = c
  BY <1>1, <1>4, <1>7
<1>9. \A i, j \in DOMAIN o : i <= j => t[j].priority <= t[i].priority
  <2> SUFFICES ASSUME NEW i \in DOMAIN o, NEW j \in DOMAIN o, i <= j
               PROVE  q[o[j]].priority <= q[o[i]].priority
    OBVIOUS
  <2>1. i = j \/ i < j
    BY <1>7
  <2>2. i < j => o[i] < o[j]
    BY <1>6
  <2>3. o[i] \in Nat /\ o[j] \in Nat /\ o[i] \in DOMAIN q /\ o[j] \in DOMAIN q
    BY <1>4, <1>7
  <2>4. o[i] <= o[j]
    BY <2>1, <2>2, <2>3
  <2> QED BY <1>1, <2>3, <2>4
<1>10. t \in [1..Len(o) -> Found] /\ DOMAIN t = DOMAIN o
  BY <1>7, <1>8
<1> HIDE DEF t
<1>11. t \in Seq(Found)
  BY <1>7, <1>10
<1> QED BY <1>3, <1>8, <1>9, <1>10, <1>11 DEF GoodQueue
-----------------------------------------------------------------------------
\* What enrich_apply and the operator write.

\* Every uncertain answer has its row, with its name.
LEMMA ReviewRowsGood ==
  ASSUME GoodAnswers(result)
  PROVE  /\ ReviewRows \in Seq(ReviewRow)
         /\ \A k \in With("medium") : \E p \in DOMAIN ReviewRows :
              /\ ReviewRows[p].target = k[1] /\ ReviewRows[p].addr = k[2]
              /\ ReviewRows[p].cat = result[k].cat /\ ReviewRows[p].proposed = result[k].name
<1> DEFINE C == With("medium")
           ahead(j, k) == \/ result[j].cat < result[k].cat
                          \/ /\ result[j].cat = result[k].cat
                             /\ \/ SortedIds[j[1]] < SortedIds[k[1]]
                                \/ j[1] = k[1] /\ j[2] < k[2]
           R == {p \in C \X C : ahead(p[1], p[2])}
           o == Listing(C, R)
           row(k) == [target |-> k[1], addr |-> k[2], cat |-> result[k].cat,
                      current |-> result[k].current, proposed |-> result[k].name]
           t == [p \in DOMAIN o |-> row(o[p])]
<1>1. \A j, k \in C : <<j, k>> \in R <=> ahead(j, k)
  OBVIOUS
<1>2. \A k \in C : /\ k \in Refs \X Addr /\ k[1] \in Refs /\ k[2] \in Addr /\ k[2] \in Nat
                   /\ SortedIds[k[1]] \in Nat /\ result[k] \in Answer /\ result[k].cat \in Nat
                   /\ result[k].name \in AgentNames
  <2> HIDE DEF R, o, t, row, ahead
  <2> SUFFICES ASSUME NEW k \in C
               PROVE  /\ k \in Refs \X Addr /\ k[1] \in Refs /\ k[2] \in Addr /\ k[2] \in Nat
                      /\ SortedIds[k[1]] \in Nat /\ result[k] \in Answer /\ result[k].cat \in Nat
                      /\ result[k].name \in AgentNames
    OBVIOUS
  <2>1. k \in DOMAIN result
    BY DEF With
  <2>2. k \in Refs \X Addr /\ result[k] \in Answer /\ result[k].name \in AgentNames
    BY <2>1 DEF GoodAnswers
  <2>3. k[1] \in Refs /\ k[2] \in Addr
    BY <2>2
  <2>4. k[2] \in Nat /\ SortedIds[k[1]] \in Nat
    BY <2>3, AddrAssumption, PriorityAssumption
  <2>5. result[k].cat \in Nat
    BY <2>2 DEF Answer, Kinds, Function, Symbol
  <2> QED BY <2>2, <2>3, <2>4, <2>5
<1>3. \A j, k \in C : j[1] = k[1] /\ j[2] = k[2] => j = k
  BY <1>2
<1>4. IsFiniteSet(C)
  <2>1. C \in SUBSET (Refs \X Addr)
    BY <1>2
  <2>2. IsFiniteSet(Refs \X Addr)
    BY PriorityAssumption, AddrAssumption, FS_Product
  <2> QED BY <2>1, <2>2, FS_Subset
<1> HIDE DEF C
<1>5. IsStrictOrder(R, C)
  <2>1. \A k \in C : ~ahead(k, k)
    BY <1>2
  <2>2. \A j, k \in C : j # k => ahead(j, k) \/ ahead(k, j)
    <3> SUFFICES ASSUME NEW j \in C, NEW k \in C, ~ahead(j, k), ~ahead(k, j) PROVE j = k
      OBVIOUS
    <3>1. result[j].cat = result[k].cat
      BY <1>2
    <3>2. SortedIds[j[1]] = SortedIds[k[1]]
      BY <1>2, <3>1
    <3>3. j[1] = k[1]
      BY <1>2, <3>2, PriorityAssumption
    <3>4. j[2] = k[2]
      BY <1>2, <3>1, <3>3
    <3> QED BY <1>3, <3>3, <3>4
  <2>3. \A i, j, k \in C : ahead(i, j) /\ ahead(j, k) => ahead(i, k)
    <3> SUFFICES ASSUME NEW i \in C, NEW j \in C, NEW k \in C, ahead(i, j), ahead(j, k)
                 PROVE  ahead(i, k)
      OBVIOUS
    <3>1. /\ result[i].cat \in Nat /\ result[j].cat \in Nat /\ result[k].cat \in Nat
          /\ SortedIds[i[1]] \in Nat /\ SortedIds[j[1]] \in Nat /\ SortedIds[k[1]] \in Nat
          /\ i[2] \in Nat /\ j[2] \in Nat /\ k[2] \in Nat
      BY <1>2
    <3> QED BY <3>1
  <2> HIDE DEF ahead, R
  <2> QED BY <1>1, <2>1, <2>2, <2>3 DEF IsStrictOrder
<1>6. ReviewRows = t
  <2> DEFINE r(e) == Cardinality({d \in C : ahead(d, e)})
             a == [p \in 1..Cardinality(C) |-> CHOOSE e \in C : r(e) = p - 1]
  <2>1. ReviewRows = [p \in DOMAIN a |-> row(a[p])]
    BY DEF ReviewRows, Arrange, C
  <2>2. \A e \in C : {d \in C : ahead(d, e)} = Under(C, R, e)
    BY <1>1 DEF Under
  <2>3. \A e \in C : r(e) = RankIn(C, R, e)
    BY <2>2 DEF RankIn
  <2> HIDE DEF r, R
  <2>4. a = o
    BY <2>3 DEF Listing
  <2> HIDE DEF a, o, row
  <2> QED BY <2>1, <2>4
<1> HIDE DEF R
<1>7. o \in Seq(C) /\ \A k \in C : \E p \in DOMAIN o : o[p] = k
  BY <1>4, <1>5, Enumeration
<1> HIDE DEF o
<1>8. DOMAIN o = 1..Len(o) /\ Len(o) \in Nat /\ \A p \in DOMAIN o : o[p] \in C
  BY <1>7
<1>9. \A k \in C : row(k) \in ReviewRow
  BY <1>2 DEF ReviewRow, Row, Answer, GoodAnswers, AgentAssumption
<1>10. t \in [1..Len(o) -> ReviewRow]
  <2> HIDE DEF row
  <2> QED BY <1>8, <1>9
<1>11. ASSUME NEW k \in C
       PROVE  \E p \in DOMAIN t : /\ t[p].target = k[1] /\ t[p].addr = k[2]
                                  /\ t[p].cat = result[k].cat /\ t[p].proposed = result[k].name
  <2>1. PICK p \in DOMAIN o : o[p] = k
    BY <1>7
  <2>2. p \in DOMAIN t /\ t[p] = row(k)
    BY <2>1
  <2> HIDE DEF t
  <2> QED BY <2>2
<1> HIDE DEF t
<1>12. t \in Seq(ReviewRow)
  BY <1>8, <1>10
<1> QED BY <1>6, <1>11, <1>12 DEF C

\* The operator can apply the rows, and they give what agents proposed.
LEMMA CorpusApplicable ==
  ASSUME corpus \in Seq(ReviewRow), NEW r \in Refs
  PROVE  /\ Applicable(CorpusItems(r))
         /\ \A k : NamesGiven(CorpusItems(r), k) \subseteq AgentNames
<1> DEFINE same(i, j) == /\ corpus[i].target = corpus[j].target /\ corpus[i].addr = corpus[j].addr
                         /\ corpus[i].cat = corpus[j].cat
           row(i) == Cardinality({j \in 1..i : same(i, j)})
           item(i) == [target |-> r, addr |-> corpus[i].addr, cat |-> corpus[i].cat,
                       row |-> row(i), current |-> corpus[i].current,
                       proposed |-> corpus[i].proposed, verdict |-> Proposed]
           I == {i \in DOMAIN corpus : corpus[i].target = r}
<1>1. DOMAIN corpus = 1..Len(corpus) /\ Len(corpus) \in Nat
  OBVIOUS
<1>2. ASSUME NEW i \in I
      PROVE  corpus[i] \in ReviewRow /\ row(i) \in Nat /\ row(i) <= Len(corpus)
  <2>1. i \in Nat /\ i <= Len(corpus) /\ corpus[i] \in ReviewRow
    BY <1>1
  <2>2. IsFiniteSet(1..i) /\ Cardinality(1..i) = IF 1 > i THEN 0 ELSE i - 1 + 1
    BY <2>1, FS_Interval
  <2>3. row(i) \in Nat /\ row(i) <= Cardinality(1..i)
    <3> HIDE DEF same
    <3> QED BY <2>2, FS_Subset, FS_CardinalityType
  <2> HIDE DEF row
  <2> QED BY <1>1, <2>1, <2>2, <2>3
<1>3. CorpusItems(r) = {item(i) : i \in I}
  BY DEF CorpusItems
<1> HIDE DEF row, I
<1>4. \A i \in I : /\ item(i).addr \in Addr /\ item(i).cat \in {Function, Symbol}
                   /\ item(i).row \in Nat /\ item(i).row <= Len(corpus)
                   /\ item(i).current \in Name /\ item(i).verdict = Proposed
                   /\ item(i).proposed \in AgentNames
  BY <1>2 DEF ReviewRow, Row, Kinds
<1> HIDE DEF item
<1>5. \A i : i.verdict = Proposed => ResolvedName(i) = i.proposed
  BY VerdictAssumption DEF ResolvedName
<1>6. \A i \in I : ResolvedName(item(i)) \in AgentNames
  BY <1>4, <1>5
<1>7. \A i \in I : ResolvedName(item(i)) \in Name /\ item(i).current # NoName
  BY <1>4, <1>6, NoNameAssumption, AgentAssumption
<1>8. Applicable(CorpusItems(r))
  BY <1>1, <1>3, <1>4, <1>7 DEF Applicable
<1> QED BY <1>3, <1>6, <1>8 DEF NamesGiven

\* The operator's own row can be applied.
LEMMA OtherApplicable ==
  ASSUME NEW r \in Refs, NEW a \in GhidraFns[r], NEW n \in AgentNames, NEW cur
  PROVE  LET items == {[target |-> r, addr |-> a, cat |-> Function, row |-> 1,
                        current |-> cur, proposed |-> n, verdict |-> Proposed]}
         IN Applicable(items) /\ \A k : NamesGiven(items, k) \subseteq AgentNames
<1> DEFINE i == [target |-> r, addr |-> a, cat |-> Function, row |-> 1,
                 current |-> cur, proposed |-> n, verdict |-> Proposed]
<1>1. /\ i.addr \in Addr /\ i.cat \in {Function, Symbol} /\ i.row = 1
      /\ i.verdict = Proposed /\ i.proposed = n
  BY AgentAssumption
<1> HIDE DEF i
<1>2. ResolvedName(i) = n
  BY <1>1, VerdictAssumption DEF ResolvedName
<1>3. Applicable({i})
  BY <1>1, <1>2, AgentAssumption DEF Applicable
<1>4. \A k : NamesGiven({i}, k) \subseteq AgentNames
  BY <1>2 DEF NamesGiven
<1> QED BY <1>3, <1>4 DEF i

\* A lasting name stays one when tags are appended.
LEMMA LastingExtends ==
  ASSUME NEW n, NEW b, Lasting(b), Extends(n, b)
  PROVE  Lasting(n)
<1>1. /\ n \in Name /\ b \in Name /\ n.base = b.base
      /\ n.tags \in Seq(Nat) /\ b.tags \in Seq(Nat) /\ Len(b.tags) <= Len(n.tags)
  BY DEF Extends, Name
<1>2. ~IsPlaceholder(n) /\ ~IsAuto(n) /\ n.base \notin AutoBase
  BY <1>1 DEF Lasting, IsReal, IsPlaceholder, IsAuto
<1>3. ~IsGeneric(n)
  <2> SUFFICES ASSUME IsGeneric(n) PROVE FALSE
    OBVIOUS
  <2>1. n.base \in GenericBase /\ n.tags = <<>>
    BY DEF IsGeneric
  <2>2. Len(n.tags) = 0
    BY <2>1
  <2>3. Len(b.tags) = 0
    BY <1>1, <2>2
  <2>4. b.tags = <<>>
    BY <1>1, <2>3
  <2> QED BY <1>1, <2>1, <2>4 DEF Lasting, IsReal, IsGeneric
<1> QED BY <1>1, <1>2, <1>3 DEF Lasting, IsReal

\* enrich_apply drops no entry of a store and adds no second one at an address;
\* what it changes it names as an agent did, and every confident answer for the
\* list it saves has an entry with its name.
LEMMA NamedStore ==
  ASSUME GoodAnswers(result), NEW s, IsStore(s), NEW c \in Kinds, NEW r \in Refs
  PROVE  LET t == Named(s, c, r)
         IN /\ IsStore(t)
            /\ OneEntryPerAddress(s) => OneEntryPerAddress(t)
            /\ \A k \in DOMAIN s : /\ k \in DOMAIN t
                                   /\ \/ t[k] = s[k]
                                      \/ t[k].src = "other" /\ t[k].name \in AgentNames
            /\ \A k \in Confident(c) : k[1] = r =>
                 \E j \in DOMAIN t : /\ j[1] = k[2] /\ j[2] = c
                                     /\ t[j].src = "other" /\ t[j].name \in AgentNames
<1> DEFINE A == Answered(c, r)
           slot(a) == IF HasEntry(s, a, c) THEN LastSlot(s, a, c) ELSE NewSlot(s, a, c, 1)
           slots == {slot(a) : a \in A}
           K == slots \ DOMAIN s
           given(k) == [name |-> result[<<r, k[1]>>].name, src |-> "other"]
           t == [k \in DOMAIN s \cup slots |-> IF k \in slots THEN given(k) ELSE s[k]]
<1>1. Named(s, c, r) = t
  <2> DEFINE f == [a \in A |-> slot(a)]
  <2>1. {f[a] : a \in DOMAIN f} = slots
    OBVIOUS
  <2>2. Named(s, c, r) = PutNames(s, r, f)
    BY DEF Named
  <2> HIDE DEF f, slots
  <2> QED BY <2>1, <2>2 DEF PutNames
<1>2. ASSUME NEW a \in A
      PROVE  a \in Addr /\ result[<<r, a>>].name \in AgentNames
  <2>1. PICK k \in Confident(c) : k[1] = r /\ k[2] = a
    BY DEF Answered
  <2>2. k \in DOMAIN result /\ k \in Refs \X Addr /\ result[k].name \in AgentNames
    BY <2>1 DEF Confident, With, GoodAnswers
  <2>3. k = <<r, a>>
    BY <2>1, <2>2
  <2> QED BY <2>1, <2>2, <2>3
<1>3. ASSUME NEW a \in A
      PROVE  /\ slot(a)[1] = a /\ slot(a)[2] = c
             /\ \/ slot(a) \in DOMAIN s
                \/ slot(a) \in GapSlot /\ ~HasEntry(s, a, c)
  <2>1. CASE HasEntry(s, a, c)
    BY <2>1, LastSlotAt
  <2>2. CASE ~HasEntry(s, a, c)
    <3>1. slot(a) = <<a, c, 1>>
      BY <2>2 DEF NewSlot
    <3>2. a \in Addr /\ c \in {Function, Symbol}
      BY <1>2 DEF Kinds
    <3> HIDE DEF slot, A
    <3> QED BY <2>2, <3>1, <3>2 DEF GapSlot
  <2> QED BY <2>1, <2>2
<1> HIDE DEF A, slot
<1>4. /\ K \in SUBSET GapSlot /\ DOMAIN t = DOMAIN s \cup K
      /\ \A k \in K : ~HasEntry(s, k[1], k[2])
  BY <1>3
<1>5. \A k \in slots : given(k) \in Label /\ given(k).src = "other" /\ given(k).name \in AgentNames
  BY <1>2, <1>3, AgentAssumption DEF Label
<1> HIDE DEF given
<1>6. \A k \in DOMAIN t : t[k] \in Label
  BY <1>5 DEF IsStore
<1>7. IsStore(t) /\ (OneEntryPerAddress(s) => OneEntryPerAddress(t))
  <2>1. IsFcn(t)
    BY DEF IsFcn
  <2> HIDE DEF t, K
  <2> QED BY <1>4, <1>6, <2>1, AddedEntries
<1>8. \A k \in DOMAIN s : /\ k \in DOMAIN t
                          /\ \/ t[k] = s[k]
                             \/ t[k].src = "other" /\ t[k].name \in AgentNames
  BY <1>5
<1>9. ASSUME NEW k \in Confident(c), k[1] = r
      PROVE  \E j \in DOMAIN t : /\ j[1] = k[2] /\ j[2] = c
                                 /\ t[j].src = "other" /\ t[j].name \in AgentNames
  <2>1. k[2] \in A
    BY <1>9 DEF A, Answered
  <2>2. slot(k[2]) \in DOMAIN t /\ t[slot(k[2])] = given(slot(k[2]))
    BY <2>1
  <2> HIDE DEF t
  <2> QED BY <1>3, <1>5, <2>1, <2>2
<1> HIDE DEF t
<1> QED BY <1>1, <1>7, <1>8, <1>9

\* Nothing enrich_apply writes takes a lasting name away.
LEMMA NamedKeeps ==
  ASSUME GoodAnswers(result), NEW s, IsStore(s), NEW c \in Kinds, NEW r \in Refs,
         \A n \in AgentNames : Lasting(n)
  PROVE  /\ \A a, d : Taken(s, a, d) => Taken(Named(s, c, r), a, d)
         /\ \A k \in Confident(c) : k[1] = r => Taken(Named(s, c, r), k[2], c)
<1> DEFINE t == Named(s, c, r)
<1>1. /\ \A k \in DOMAIN s : /\ k \in DOMAIN t
                             /\ \/ t[k] = s[k]
                                \/ t[k].src = "other" /\ t[k].name \in AgentNames
      /\ \A k \in Confident(c) : k[1] = r =>
           \E j \in DOMAIN t : /\ j[1] = k[2] /\ j[2] = c
                               /\ t[j].src = "other" /\ t[j].name \in AgentNames
  BY NamedStore
<1> HIDE DEF t
<1> QED BY <1>1 DEF Taken, t

\* Nor does the operator, with rows that give agents' names.
LEMMA AppliedKeeps ==
  ASSUME NEW s, IsStore(s), NEW items, Applicable(items),
         \A k : NamesGiven(items, k) \subseteq AgentNames
  PROVE  LET t == CleanUp(ApplyVerdicts(s, items), {})
         IN /\ IsStore(t)
            /\ OneEntryPerAddress(s) => OneEntryPerAddress(t)
            /\ (\A n \in AgentNames : Lasting(n)) =>
                 \A a, d : Taken(s, a, d) => Taken(t, a, d)
<1> DEFINE u == ApplyVerdicts(s, items)
           t == CleanUp(u, {})
<1>1. /\ IsStore(u) /\ DOMAIN s \subseteq DOMAIN u
      /\ OneEntryPerAddress(s) => OneEntryPerAddress(u)
      /\ \A k \in DOMAIN s : /\ u[k].src = s[k].src
                             /\ u[k].name \in {s[k].name} \cup NamesGiven(items, k)
  BY ApplyVerdictsStore
<1> HIDE DEF u
<1>2. /\ IsStore(t)
      /\ OneEntryPerAddress(u) => OneEntryPerAddress(t)
      /\ \A k \in DOMAIN u : u[k].src # "asm" /\ k[1] \notin {} => k \in DOMAIN t
      /\ \A k \in DOMAIN t : Extends(t[k].name, u[k].name) /\ t[k].src = u[k].src
  BY <1>1, CleanUpUnique
<1> HIDE DEF t
<1>3. ASSUME \A n \in AgentNames : Lasting(n), NEW a, NEW d, Taken(s, a, d)
      PROVE  Taken(t, a, d)
  <2>1. PICK k \in DOMAIN s : k[1] = a /\ k[2] = d /\ s[k].src = "other" /\ Lasting(s[k].name)
    BY <1>3 DEF Taken
  <2>2. Lasting(u[k].name) /\ u[k].src = "other" /\ k \in DOMAIN u
    BY <1>1, <1>3, <2>1
  <2>3. k \in DOMAIN t
    BY <1>2, <2>2
  <2>4. Lasting(t[k].name) /\ t[k].src = "other"
    BY <1>2, <2>2, <2>3, LastingExtends
  <2> QED BY <2>1, <2>3, <2>4 DEF Taken
<1> QED BY <1>1, <1>2, <1>3 DEF t, u

\* While saves are left there is a next one.
LEMMA NextSaveLeft ==
  ASSUME savesLeft \subseteq Kinds \X Refs, savesLeft # {}
  PROVE  NextSave \in savesLeft
<1> DEFINE upto(p, q) == p[1] < q[1] \/ (p[1] = q[1] /\ SortedIds[p[2]] <= SortedIds[q[2]])
           R == {w \in savesLeft \X savesLeft : upto(w[2], w[1])}
<1>1. \A p \in savesLeft : p[1] \in Nat /\ SortedIds[p[2]] \in Nat
  BY PriorityAssumption DEF Kinds, Function, Symbol
<1>2. IsFiniteSet(savesLeft)
  <2>1. IsFiniteSet({Function})
    BY FS_Singleton
  <2>2. IsFiniteSet({Function} \cup {Symbol})
    BY <2>1, FS_AddElement
  <2>3. Kinds = {Function} \cup {Symbol}
    BY DEF Kinds
  <2>4. IsFiniteSet(Kinds \X Refs)
    BY <2>2, <2>3, PriorityAssumption, FS_Product
  <2> QED BY <2>4, FS_Subset
<1>3. \A p, q \in savesLeft : <<p, q>> \in R <=> upto(q, p)
  OBVIOUS
<1>4. \A p, q \in savesLeft : upto(q, p) \/ upto(p, q)
  <2> SUFFICES ASSUME NEW p \in savesLeft, NEW q \in savesLeft PROVE upto(q, p) \/ upto(p, q)
    OBVIOUS
  <2>1. p[1] \in Nat /\ q[1] \in Nat /\ SortedIds[p[2]] \in Nat /\ SortedIds[q[2]] \in Nat
    BY <1>1
  <2> QED BY <2>1
<1>5. \A p, q, w \in savesLeft : upto(q, p) /\ upto(w, q) => upto(w, p)
  <2> SUFFICES ASSUME NEW p \in savesLeft, NEW q \in savesLeft, NEW w \in savesLeft,
                      upto(q, p), upto(w, q)
               PROVE  upto(w, p)
    OBVIOUS
  <2>1. /\ p[1] \in Nat /\ q[1] \in Nat /\ w[1] \in Nat
        /\ SortedIds[p[2]] \in Nat /\ SortedIds[q[2]] \in Nat /\ SortedIds[w[2]] \in Nat
    BY <1>1
  <2> QED BY <2>1
<1>6. \E m \in savesLeft : \A p \in savesLeft : <<p, m>> \in R
  <2>1. \A p, q \in savesLeft : <<p, q>> \in R \/ <<q, p>> \in R
    BY <1>3, <1>4
  <2>2. \A p, q, w \in savesLeft : <<p, q>> \in R /\ <<q, w>> \in R => <<p, w>> \in R
    <3> HIDE DEF upto, R
    <3> QED BY <1>3, <1>5
  <2> HIDE DEF R
  <2> QED BY <1>2, <2>1, <2>2, FiniteGreatest
<1>7. \E m \in savesLeft : \A p \in savesLeft : upto(m, p)
  <2> HIDE DEF upto, R
  <2> QED BY <1>3, <1>6
<1> QED BY <1>7 DEF NextSave
-----------------------------------------------------------------------------
\* The files stay well formed.

\* The first queues can be read, and the stores are as they were found.
LEMMA InitTypeInv == Init => TypeInv
<1> SUFFICES ASSUME Init PROVE TypeInv
  OBVIOUS
<1>1. /\ store = [r \in Refs |-> store[r]]
      /\ \A r \in Refs : IsStore(store[r]) /\ OneEntryPerAddress(store[r])
  BY AgentAssumption DEF Init
<1>2. ASSUME NEW c \in Kinds PROVE GoodQueue(queue[c], c)
  <2> DEFINE of(r) == IF c = Function THEN Functions(store[r], r) ELSE Variables(store[r], r)
             C == UNION {of(r) : r \in Refs}
  <2>1. ASSUME NEW r \in Refs
        PROVE  Candidates(of(r), c) /\ \A e \in of(r) : e.rom = r
    BY <1>1, FunctionsFound, VariablesFound DEF Kinds
  <2>2. queue[c] = InitQueue(C)
    BY DEF Init
  <2> HIDE DEF of
  <2>3. C \subseteq Found /\ \A e \in C : e.cat = c
    BY <2>1 DEF Candidates
  <2>4. ASSUME NEW d \in C, NEW e \in C, Key(d) = Key(e) PROVE d = e
    <3>1. d.rom = e.rom
      BY <2>4 DEF Key
    <3>2. PICK r \in Refs : d \in of(r)
      OBVIOUS
    <3>3. PICK q \in Refs : e \in of(q)
      OBVIOUS
    <3>4. q = r
      BY <2>1, <3>1, <3>2, <3>3
    <3> QED BY <2>1, <2>4, <3>2, <3>3, <3>4 DEF Candidates
  <2>5. Candidates(C, c)
    BY <2>3, <2>4 DEF Candidates
  <2> HIDE DEF C
  <2> QED BY <2>2, <2>5, InitQueueGood
<1>3. /\ queue = [c \in Kinds |-> queue[c]]
      /\ poor \in [Kinds -> 0..Window \cup {Unreadable}] /\ done \in [Kinds -> BOOLEAN]
  BY DEF Init, Window
<1>4. corpus \in Seq(ReviewRow)
  BY DEF Init
<1>5. GoodAnswers(result) /\ GoodAnswers(asked)
  BY DEF Init, GoodAnswers
<1>6. summary \in [named : [Kinds -> SUBSET Addr], applied : [Kinds -> Nat]]
  BY DEF Init, NoSummary
<1>7. FileTypes
  BY <1>2, <1>3, <1>4, <1>5, <1>6 DEF Init, FileTypes
<1>8. RoundReady
  BY DEF Init, RoundReady
<1> QED BY <1>1, <1>7, <1>8 DEF TypeInv, StoresGood

\* A round that starts takes something from every queue that is not empty.
LEMMA StartRoundGood == TypeInv /\ StartRound => TypeInv'
<1> SUFFICES ASSUME TypeInv, StartRound PROVE TypeInv'
  OBVIOUS
<1> USE DEF TypeInv
<1>1. PICK K \in (SUBSET {c \in Kinds : ~done[c]}) \ {{}} :
        /\ \A c \in K : queue[c] # Unreadable
        /\ done' = [c \in Kinds |-> done[c] \/ c \in K \ {d \in K : queue[d] # <<>>}]
        /\ IF {d \in K : queue[d] # <<>>} = {} THEN UNCHANGED <<step, batch>>
           ELSE /\ batch' = UNION {PopBatch(c) : c \in {d \in K : queue[d] # <<>>}}
                /\ step' = "batched"
  BY DEF StartRound
<1> DEFINE filled == {d \in K : queue[d] # <<>>}
<1>2. \A c \in K : c \in Kinds /\ GoodQueue(queue[c], c)
  BY <1>1 DEF FileTypes
<1>3. ASSUME NEW c \in K
      PROVE  PopBatch(c) \subseteq Found /\ \A e \in PopBatch(c) : e.cat = c
  <2>1. queue[c] \in Seq(Found) /\ \A i \in DOMAIN queue[c] : queue[c][i].cat = c
    BY <1>2 DEF GoodQueue
  <2> QED BY <2>1 DEF PopBatch
<1>4. ASSUME NEW c \in filled PROVE PopBatch(c) # {}
  <2>1. queue[c] \in Seq(Found) /\ queue[c] # <<>>
    BY <1>2 DEF GoodQueue
  <2>2. 1 \in DOMAIN queue[c]
    BY <2>1
  <2>3. queue[c][1] \in PopBatch(c)
    BY <2>2, AgentAssumption DEF PopBatch
  <2> QED BY <2>3
<1>5. done' \in [Kinds -> BOOLEAN]
  BY <1>1 DEF FileTypes
<1>6. /\ batch' \subseteq Found
      /\ filled # {} => batch' # {} /\ \A e \in batch' : e.cat \in K
  <2>1. CASE filled = {}
    BY <1>1, <2>1 DEF FileTypes
  <2>2. CASE filled # {}
    <3>1. batch' = UNION {PopBatch(c) : c \in filled}
      BY <1>1, <2>2
    <3> QED BY <1>3, <1>4, <2>2, <3>1
  <2> QED BY <2>1, <2>2
<1>7. FileTypes'
  BY <1>5, <1>6 DEF FileTypes, StartRound
<1>8. RoundReady'
  <2>1. step = "idle" /\ UNCHANGED <<queue, kindsLeft>>
    BY DEF StartRound
  <2>2. CASE filled = {}
    BY <1>1, <2>1, <2>2 DEF RoundReady
  <2>3. CASE filled # {}
    <3>1. step' = "batched"
      BY <1>1, <2>3
    <3>2. RoundKinds' \subseteq K
      BY <1>6, <2>3 DEF RoundKinds
    <3> QED BY <1>2, <1>6, <2>1, <2>3, <3>1, <3>2 DEF RoundReady
  <2> QED BY <2>2, <2>3
<1>9. StoresGood'
  BY DEF StartRound, StoresGood
<1> QED BY <1>7, <1>8, <1>9

\* A context is about an entry of the batch.
LEMMA DecompileGood == TypeInv /\ Decompile => TypeInv'
<1> SUFFICES ASSUME TypeInv, Decompile PROVE TypeInv'
  OBVIOUS
<1> USE DEF TypeInv, Decompile
<1>1. \A e \in batch : Key(e) \in Refs \X Addr
  BY DEF FileTypes, Found, Entry, Key
<1>2. ctx' \subseteq Refs \X Addr
  BY <1>1 DEF FileTypes
<1>3. FileTypes'
  BY <1>2 DEF FileTypes
<1>4. RoundReady'
  BY DEF RoundReady, RoundKinds
<1> QED BY <1>3, <1>4 DEF StoresGood

\* An answer is about an entry of the batch and gives a name.
LEMMA AnalyzeGood == TypeInv /\ Analyze => TypeInv'
<1> SUFFICES ASSUME TypeInv, Analyze PROVE TypeInv'
  OBVIOUS
<1> USE DEF TypeInv
<1>1. PICK A \in SUBSET {e \in batch : Key(e) \in ctx} :
        \E name \in [A -> AgentNames], sure \in [A -> {"high", "medium", "other"}] :
          LET new == {Key(e) : e \in A}
              of(k) == CHOOSE e \in A : Key(e) = k
          IN result' = [k \in new \cup DOMAIN result |->
                          IF k \notin new THEN result[k]
                          ELSE [name |-> name[of(k)], cat |-> of(k).cat,
                                current |-> of(k).current, confidence |-> sure[of(k)]]]
  BY DEF Analyze
<1>2. PICK name \in [A -> AgentNames], sure \in [A -> {"high", "medium", "other"}] :
          LET new == {Key(e) : e \in A}
              of(k) == CHOOSE e \in A : Key(e) = k
          IN result' = [k \in new \cup DOMAIN result |->
                          IF k \notin new THEN result[k]
                          ELSE [name |-> name[of(k)], cat |-> of(k).cat,
                                current |-> of(k).current, confidence |-> sure[of(k)]]]
  BY <1>1
<1> DEFINE new == {Key(e) : e \in A}
           of(k) == CHOOSE e \in A : Key(e) = k
           given(k) == [name |-> name[of(k)], cat |-> of(k).cat,
                        current |-> of(k).current, confidence |-> sure[of(k)]]
<1>3. result' = [k \in new \cup DOMAIN result |-> IF k \notin new THEN result[k] ELSE given(k)]
  BY <1>2
<1>4. \A e \in A : /\ e \in Found /\ Key(e) \in Refs \X Addr
                   /\ Key(e)[1] = e.rom /\ Key(e)[2] = e.addr
  BY DEF FileTypes, Found, Entry, Key
<1>5. \A k \in new : of(k) \in A /\ Key(of(k)) = k
  OBVIOUS
<1> HIDE DEF of
<1>6. ASSUME NEW k \in new
      PROVE  /\ k \in Refs \X Addr /\ given(k) \in Answer /\ given(k).name \in AgentNames
             /\ k[2] \in GhidraAt(given(k).cat, k[1])
  <2>1. of(k) \in A /\ of(k) \in Found /\ k = Key(of(k))
    BY <1>4, <1>5
  <2>2. name[of(k)] \in AgentNames /\ sure[of(k)] \in {"high", "medium", "other"}
    BY <2>1
  <2>3. given(k) \in Answer
    BY <2>1, <2>2, AgentAssumption DEF Found, Entry, Answer
  <2>4. k[2] \in GhidraAt(of(k).cat, k[1])
    BY <1>4, <2>1 DEF Found
  <2> QED BY <1>4, <2>1, <2>2, <2>3, <2>4
<1> HIDE DEF given, new
<1>7. GoodAnswers(result)
  BY DEF FileTypes
<1>8. GoodAnswers(result')
  BY <1>3, <1>6, <1>7 DEF GoodAnswers
<1>9. FileTypes'
  BY <1>8 DEF FileTypes, Analyze
<1>10. RoundReady'
  BY DEF RoundReady, RoundKinds, Analyze
<1> QED BY <1>9, <1>10 DEF StoresGood, Analyze

\* What is confident, or is not, is an answer.
LEMMA ConfidentAnswers ==
  ASSUME GoodAnswers(result), NEW sure
  PROVE  \A k \in With(sure) : /\ k \in DOMAIN result /\ k[1] \in Refs /\ k[2] \in Addr
                               /\ result[k].cat \in Kinds
BY DEF GoodAnswers, With, Answer

\* The stores to be saved are those of confident answers.
LEMMA ApplyStartGood == TypeInv /\ ApplyStart => TypeInv'
<1> SUFFICES ASSUME TypeInv, ApplyStart PROVE TypeInv'
  OBVIOUS
<1> USE DEF TypeInv
<1>1. GoodAnswers(result)
  BY DEF FileTypes
<1>2. summary' \in [named : [Kinds -> SUBSET Addr], applied : [Kinds -> Nat]]
  BY DEF ApplyStart, NoSummary, FileTypes
<1>3. savesLeft' \subseteq Kinds \X Refs
  BY <1>1, ConfidentAnswers DEF ApplyStart, FileTypes
<1>4. FileTypes'
  BY <1>2, <1>3 DEF FileTypes, ApplyStart
<1>5. RoundReady'
  BY DEF RoundReady, RoundKinds, ApplyStart
<1> QED BY <1>4, <1>5 DEF StoresGood, ApplyStart

\* A save changes one list of one store.
LEMMA SaveRomGood == TypeInv /\ SaveRom => TypeInv'
<1> SUFFICES ASSUME TypeInv, SaveRom PROVE TypeInv'
  OBVIOUS
<1> USE DEF TypeInv
<1>1. NextSave \in savesLeft
  BY NextSaveLeft DEF SaveRom, FileTypes
<1>2. NextSave[1] \in Kinds /\ NextSave[2] \in Refs /\ GoodAnswers(result)
  BY <1>1 DEF FileTypes
<1> DEFINE r == NextSave[2]
           t == Named(store[r], NextSave[1], r)
<1>3. IsStore(t) /\ OneEntryPerAddress(t)
  <2>1. IsStore(store[r]) /\ OneEntryPerAddress(store[r])
    BY <1>2 DEF StoresGood
  <2> QED BY <1>2, <2>1, NamedStore
<1>4. store' = [store EXCEPT ![r] = t]
  BY DEF SaveRom
<1> HIDE DEF t, r
<1>5. StoresGood'
  BY <1>3, <1>4 DEF StoresGood
<1>6. FileTypes'
  BY DEF FileTypes, SaveRom, files
<1>7. RoundReady'
  BY DEF RoundReady, RoundKinds, SaveRom, files
<1> QED BY <1>5, <1>6, <1>7

\* The rows for review follow those the file had.
LEMMA SaveReviewGood == TypeInv /\ SaveReview => TypeInv'
<1> SUFFICES ASSUME TypeInv, SaveReview PROVE TypeInv'
  OBVIOUS
<1> USE DEF TypeInv
<1>1. corpus' = Unreadable \/ corpus' \in Seq(ReviewRow)
  <2>1. ReviewRows \in Seq(ReviewRow)
    BY ReviewRowsGood DEF FileTypes
  <2>2. corpus \in Seq(ReviewRow) => corpus \o ReviewRows \in Seq(ReviewRow)
    BY <2>1, ConcatProperties
  <2> QED BY <2>2 DEF SaveReview, FileTypes
<1>2. FileTypes'
  BY <1>1 DEF FileTypes, SaveReview, files
<1>3. RoundReady'
  BY DEF RoundReady, RoundKinds, SaveReview, files
<1> QED BY <1>2, <1>3 DEF StoresGood, SaveReview

\* The summary counts the answers of each kind.
LEMMA SummariseGood == TypeInv /\ Summarise => TypeInv'
<1> SUFFICES ASSUME TypeInv, Summarise PROVE TypeInv'
  OBVIOUS
<1> USE DEF TypeInv
<1>1. ASSUME NEW c \in Kinds
      PROVE  {k[2] : k \in Confident(c)} \subseteq Addr /\ Cardinality(Confident(c)) \in Nat
  <2>1. \A k \in Confident(c) : k \in With("high")
    BY DEF Confident
  <2>2. Confident(c) \in SUBSET (Refs \X Addr)
    BY <2>1, ConfidentAnswers DEF FileTypes, GoodAnswers
  <2>3. IsFiniteSet(Refs \X Addr)
    BY PriorityAssumption, AddrAssumption, FS_Product
  <2>4. Cardinality(Confident(c)) \in Nat
    BY <2>2, <2>3, FS_Subset, FS_CardinalityType
  <2> QED BY <2>2, <2>4
<1>2. summary' \in [named : [Kinds -> SUBSET Addr], applied : [Kinds -> Nat]]
  BY <1>1 DEF Summarise
<1>3. FileTypes'
  BY <1>2 DEF FileTypes, Summarise
<1>4. RoundReady'
  BY DEF RoundReady, RoundKinds, Summarise
<1> QED BY <1>3, <1>4 DEF StoresGood, Summarise

\* The kinds of a batch, and whose turn it is.
LEMMA TurnLeft ==
  ASSUME kindsLeft \subseteq Kinds, kindsLeft # {}
  PROVE  Turn \in kindsLeft /\ Turn \in Kinds
BY DEF Turn, Kinds

\* A round has kinds.
LEMMA RoundKindsLeft ==
  ASSUME FileTypes, batch # {}
  PROVE  RoundKinds # {} /\ RoundKinds \subseteq Kinds
BY DEF RoundKinds, FileTypes, Found, Entry

\* The round goes on with queues that can be read.
LEMMA AdvanceReady ==
  ASSUME FileTypes, RoundReady, step \in {"deleted", "rescored", "removed", "recorded"},
         NEW next \in {"rescored", "removed", "recorded", "idle"}, Advance(next),
         UNCHANGED batch, \A c \in RoundKinds : GoodQueue(queue'[c], c)
  PROVE  RoundReady'
<1>1. batch # {} /\ kindsLeft # {} /\ kindsLeft \subseteq RoundKinds /\ kindsLeft \subseteq Kinds
  BY DEF RoundReady
<1>2. RoundKinds # {} /\ RoundKinds \subseteq Kinds /\ RoundKinds' = RoundKinds
  BY <1>1, RoundKindsLeft DEF RoundKinds
<1>3. Turn \in kindsLeft
  BY <1>1, TurnLeft
<1>4. CASE kindsLeft = {Turn}
  BY <1>1, <1>2, <1>4 DEF Advance, RoundReady
<1>5. CASE kindsLeft # {Turn}
  <2>1. kindsLeft' = kindsLeft \ {Turn} /\ UNCHANGED step
    BY <1>5 DEF Advance
  <2>2. kindsLeft' # {}
    BY <1>3, <1>5, <2>1
  <2> QED BY <1>1, <1>2, <2>1, <2>2 DEF RoundReady
<1> QED BY <1>4, <1>5

\* The end of a round begins with all its kinds.
LEMMA DeleteFilesGood == TypeInv /\ DeleteFiles => TypeInv'
<1> SUFFICES ASSUME TypeInv, DeleteFiles PROVE TypeInv'
  OBVIOUS
<1> USE DEF TypeInv
<1>1. GoodAnswers(result')
  BY DEF GoodAnswers, DeleteFiles
<1>2. FileTypes'
  BY <1>1 DEF FileTypes, DeleteFiles
<1>3. batch # {}
  BY DEF RoundReady, DeleteFiles
<1>4. RoundKinds # {} /\ RoundKinds \subseteq Kinds /\ RoundKinds' = RoundKinds
  BY <1>3, RoundKindsLeft DEF RoundKinds, DeleteFiles
<1>5. RoundReady'
  BY <1>3, <1>4 DEF RoundReady, DeleteFiles
<1> QED BY <1>2, <1>5 DEF StoresGood, DeleteFiles

\* Whose turn it is has a queue that can be read, at each step of the end.
LEMMA TurnReady ==
  ASSUME RoundReady, step \in {"deleted", "rescored", "removed", "recorded"}
  PROVE  /\ Turn \in kindsLeft /\ Turn \in Kinds /\ Turn \in RoundKinds
         /\ GoodQueue(queue[Turn], Turn)
<1>1. kindsLeft \subseteq Kinds /\ kindsLeft # {} /\ kindsLeft \subseteq RoundKinds
  BY DEF RoundReady
<1> QED BY <1>1, TurnLeft DEF RoundReady

\* A queue is replaced by one that can be read.
LEMMA RescoreStepGood == TypeInv /\ Rescore => TypeInv'
<1> SUFFICES ASSUME TypeInv, Rescore PROVE TypeInv'
  OBVIOUS
<1> USE DEF TypeInv
<1> DEFINE q == RescoreNeighbors(queue[Turn], Turn, summary.named)
<1>1. step = "deleted" /\ Advance("rescored") /\ queue' = [queue EXCEPT ![Turn] = q]
  BY DEF Rescore
<1>2. Turn \in Kinds /\ GoodQueue(queue[Turn], Turn)
  BY <1>1, TurnReady
<1>3. GoodQueue(q, Turn)
  <2>1. summary.named \in [Kinds -> SUBSET Addr]
    BY DEF FileTypes
  <2> QED BY <1>2, <2>1, RescoreGood
<1> HIDE DEF q
<1>4. queue' = [c \in Kinds |-> queue'[c]]
  BY <1>1 DEF FileTypes
<1>5. \A c \in Kinds : queue'[c] = Unreadable \/ GoodQueue(queue'[c], c)
  BY <1>1, <1>3 DEF FileTypes
<1>6. \A c \in RoundKinds : GoodQueue(queue'[c], c)
  <2>1. \A c \in RoundKinds : c \in Kinds /\ GoodQueue(queue[c], c)
    BY <1>1 DEF RoundReady, RoundKinds, FileTypes, Found, Entry
  <2> QED BY <1>1, <1>3, <2>1 DEF FileTypes
<1>7. FileTypes'
  <2>1. UNCHANGED <<corpus, poor, done, files, savesLeft, asked>>
    BY DEF Rescore
  <2> QED BY <1>4, <1>5, <2>1 DEF FileTypes, files
<1>8. RoundReady'
  <2>1. UNCHANGED batch
    BY DEF Rescore, files
  <2> QED BY <1>1, <1>6, <2>1, AdvanceReady
<1> QED BY <1>7, <1>8 DEF StoresGood, Rescore

\* So it is when the batch is removed.
LEMMA RemoveBatchGood == TypeInv /\ RemoveBatch => TypeInv'
<1> SUFFICES ASSUME TypeInv, RemoveBatch PROVE TypeInv'
  OBVIOUS
<1> USE DEF TypeInv
<1> DEFINE q == WithoutBatch(queue[Turn])
<1>1. step = "rescored" /\ Advance("removed") /\ queue' = [queue EXCEPT ![Turn] = q]
  BY DEF RemoveBatch
<1>2. Turn \in Kinds /\ GoodQueue(queue[Turn], Turn)
  BY <1>1, TurnReady
<1>3. GoodQueue(q, Turn)
  BY <1>2, WithoutBatchGood
<1> HIDE DEF q
<1>4. queue' = [c \in Kinds |-> queue'[c]]
  BY <1>1 DEF FileTypes
<1>5. \A c \in Kinds : queue'[c] = Unreadable \/ GoodQueue(queue'[c], c)
  BY <1>1, <1>3 DEF FileTypes
<1>6. \A c \in RoundKinds : GoodQueue(queue'[c], c)
  <2>1. \A c \in RoundKinds : c \in Kinds /\ GoodQueue(queue[c], c)
    BY <1>1 DEF RoundReady, RoundKinds, FileTypes, Found, Entry
  <2> QED BY <1>1, <1>3, <2>1 DEF FileTypes
<1>7. FileTypes'
  <2>1. UNCHANGED <<corpus, poor, done, files, savesLeft, asked>>
    BY DEF RemoveBatch
  <2> QED BY <1>4, <1>5, <2>1 DEF FileTypes, files
<1>8. RoundReady'
  <2>1. UNCHANGED batch
    BY DEF RemoveBatch, files
  <2> QED BY <1>1, <1>6, <2>1, AdvanceReady
<1> QED BY <1>7, <1>8 DEF StoresGood, RemoveBatch

\* A yield counts up to the window.
LEMMA AppendYieldGood == TypeInv /\ AppendYield => TypeInv'
<1> SUFFICES ASSUME TypeInv, AppendYield PROVE TypeInv'
  OBVIOUS
<1> USE DEF TypeInv
<1>1. step = "removed" /\ UNCHANGED <<queue, files>>
  BY DEF AppendYield
<1>2. CASE poor[Turn] = Unreadable
  <2>1. step' = "idle" /\ kindsLeft' = {} /\ UNCHANGED poor
    BY <1>2 DEF AppendYield
  <2>2. FileTypes'
    BY <2>1 DEF FileTypes, AppendYield, files
  <2>3. RoundReady'
    BY <2>1 DEF RoundReady
  <2> QED BY <2>2, <2>3 DEF StoresGood, AppendYield
<1>3. CASE poor[Turn] # Unreadable
  <2>1. Turn \in Kinds /\ Advance("recorded")
    BY <1>1, <1>3, TurnReady DEF AppendYield
  <2>2. poor' \in [Kinds -> 0..Window \cup {Unreadable}]
    <3>1. poor[Turn] \in 0..Window
      BY <1>3, <2>1 DEF FileTypes
    <3>2. (IF poor[Turn] < Window THEN poor[Turn] + 1 ELSE Window) \in 0..Window /\ 0 \in 0..Window
      BY <3>1 DEF Window
    <3> QED BY <1>3, <3>2 DEF AppendYield, FileTypes
  <2>3. FileTypes'
    BY <2>2 DEF FileTypes, AppendYield, files
  <2>4. RoundReady'
    <3>1. \A c \in RoundKinds : GoodQueue(queue'[c], c)
      BY <1>1 DEF RoundReady
    <3> QED BY <1>1, <2>1, <3>1, AdvanceReady DEF files
  <2> QED BY <2>3, <2>4 DEF StoresGood, AppendYield
<1> QED BY <1>2, <1>3

\* A sentinel exists or does not.
LEMMA CheckStopGood == TypeInv /\ CheckStop => TypeInv'
<1> SUFFICES ASSUME TypeInv, CheckStop PROVE TypeInv'
  OBVIOUS
<1> USE DEF TypeInv
<1>1. step = "recorded" /\ Advance("idle") /\ UNCHANGED <<queue, files>>
  BY DEF CheckStop
<1>2. done' \in [Kinds -> BOOLEAN]
  <2> DEFINE b == StopCondition(Turn)
  <2>1. b \in BOOLEAN
    BY DEF StopCondition
  <2>2. done' = [done EXCEPT ![Turn] = b]
    BY DEF CheckStop
  <2> HIDE DEF b
  <2> QED BY <2>1, <2>2 DEF FileTypes
<1>3. FileTypes'
  BY <1>2 DEF FileTypes, CheckStop, files
<1>4. RoundReady'
  <2>1. \A c \in RoundKinds : GoodQueue(queue'[c], c)
    BY <1>1 DEF RoundReady
  <2> QED BY <1>1, <2>1, AdvanceReady DEF files
<1> QED BY <1>3, <1>4 DEF StoresGood, CheckStop

\* A file that a session died over keeps leading rows, or cannot be read.
LEMMA CrashGood == TypeInv /\ Crash => TypeInv'
<1> SUFFICES ASSUME TypeInv, Crash PROVE TypeInv'
  OBVIOUS
<1> USE DEF TypeInv
<1>1. /\ queue' = [c \in Kinds |-> queue'[c]]
      /\ \A c \in Kinds : queue'[c] = Unreadable \/ GoodQueue(queue'[c], c)
  BY DEF Crash, FileTypes
<1>2. poor' \in [Kinds -> 0..Window \cup {Unreadable}]
  BY DEF Crash, FileTypes
<1>3. corpus' = Unreadable \/ corpus' \in Seq(ReviewRow)
  <2>1. ReviewRows \in Seq(ReviewRow)
    BY ReviewRowsGood DEF FileTypes
  <2>2. ASSUME corpus \in Seq(ReviewRow), NEW n \in 0..Len(corpus \o ReviewRows)
        PROVE  SubSeq(corpus \o ReviewRows, 1, n) \in Seq(ReviewRow)
    <3>1. corpus \o ReviewRows \in Seq(ReviewRow)
      BY <2>1, <2>2, ConcatProperties
    <3> DEFINE w == corpus \o ReviewRows
    <3> HIDE DEF w
    <3>2. \A i \in 1..n : w[i] \in ReviewRow
      BY <3>1, <2>2 DEF w
    <3>3. n \in Int /\ 1 \in Int
      BY <2>2, <3>1
    <3>4. SubSeq(w, 1, n) \in Seq(ReviewRow)
      BY <3>2, <3>3, SubSeqProperties
    <3> QED BY <3>4 DEF w
  <2>3. \/ UNCHANGED corpus
        \/ /\ corpus # Unreadable
           /\ corpus' \in {Unreadable} \cup {SubSeq(corpus \o ReviewRows, 1, n) :
                                               n \in 0..Len(corpus \o ReviewRows)}
    BY DEF Crash
  <2> QED BY <2>2, <2>3 DEF FileTypes
<1>4. FileTypes'
  BY <1>1, <1>2, <1>3 DEF FileTypes, Crash, files
<1>5. RoundReady'
  BY DEF RoundReady, Crash
<1> QED BY <1>4, <1>5 DEF StoresGood, Crash

\* What the operator does to the stores.  Lasting names stay where they are.
OperatorKeeps ==
  /\ store' = [r \in Refs |-> store'[r]]
  /\ \A r \in Refs :
       /\ IsStore(store'[r]) /\ OneEntryPerAddress(store'[r])
       /\ (\A n \in AgentNames : Lasting(n)) =>
            \A a, c : Taken(store[r], a, c) => Taken(store'[r], a, c)
  /\ UNCHANGED <<corpus, queue, poor, done, step, kindsLeft, files, savesLeft, asked>>

\* The corpus file is applied to every store that has rows in it.
LEMMA ApplyCorpusKeeps == TypeInv /\ ApplyCorpus => OperatorKeeps
<1> SUFFICES ASSUME TypeInv, ApplyCorpus PROVE OperatorKeeps
  OBVIOUS
<1> USE DEF TypeInv
<1>1. corpus \in Seq(ReviewRow)
  BY DEF ApplyCorpus, FileTypes
<1> DEFINE t(r) == CleanUp(ApplyVerdicts(store[r], CorpusItems(r)), {})
<1>2. ASSUME NEW r \in Refs
      PROVE  /\ IsStore(t(r)) /\ OneEntryPerAddress(t(r))
             /\ (\A n \in AgentNames : Lasting(n)) =>
                  \A a, c : Taken(store[r], a, c) => Taken(t(r), a, c)
  <2>1. /\ Applicable(CorpusItems(r))
        /\ \A k : NamesGiven(CorpusItems(r), k) \subseteq AgentNames
    BY <1>1, CorpusApplicable
  <2>2. IsStore(store[r]) /\ OneEntryPerAddress(store[r])
    BY DEF StoresGood
  <2> QED BY <2>1, <2>2, AppliedKeeps
<1>3. store' = [r \in Refs |-> IF CorpusItems(r) = {} THEN store[r] ELSE t(r)]
  BY DEF ApplyCorpus
<1> HIDE DEF t
<1> QED BY <1>2, <1>3 DEF OperatorKeeps, ApplyCorpus, StoresGood

\* Another file is applied to one store.
LEMMA ApplyOtherKeeps ==
  ASSUME NEW r \in Refs
  PROVE  TypeInv /\ ApplyOther(r) => OperatorKeeps
<1> SUFFICES ASSUME TypeInv, ApplyOther(r) PROVE OperatorKeeps
  OBVIOUS
<1> USE DEF TypeInv
<1> DEFINE items(a, n) ==
             {[target |-> r, addr |-> a, cat |-> Function, row |-> 1,
               current |-> FnName(store[r], a), proposed |-> n, verdict |-> Proposed]}
           t(a, n) == CleanUp(ApplyVerdicts(store[r], items(a, n)), {})
<1>1. PICK a \in GhidraFns[r], n \in AgentNames : store' = [store EXCEPT ![r] = t(a, n)]
  BY DEF ApplyOther
<1>2. Applicable(items(a, n)) /\ \A k : NamesGiven(items(a, n), k) \subseteq AgentNames
  BY OtherApplicable
<1> HIDE DEF items
<1>3. IsStore(store[r]) /\ OneEntryPerAddress(store[r])
  BY DEF StoresGood
<1>4. /\ IsStore(t(a, n)) /\ OneEntryPerAddress(t(a, n))
      /\ (\A m \in AgentNames : Lasting(m)) =>
           \A b, c : Taken(store[r], b, c) => Taken(t(a, n), b, c)
  BY <1>2, <1>3, AppliedKeeps
<1> HIDE DEF t
<1> QED BY <1>1, <1>4 DEF OperatorKeeps, ApplyOther, StoresGood

\* The operator leaves the round's files alone.
LEMMA OperatorGood == TypeInv /\ OperatorKeeps => TypeInv'
<1> SUFFICES ASSUME TypeInv, OperatorKeeps PROVE TypeInv'
  OBVIOUS
<1> USE DEF TypeInv
<1>1. StoresGood'
  BY DEF OperatorKeeps, StoresGood
<1>2. FileTypes'
  BY DEF FileTypes, OperatorKeeps, files
<1>3. RoundReady'
  BY DEF RoundReady, RoundKinds, OperatorKeeps, files
<1> QED BY <1>1, <1>2, <1>3

\* Every step of a round, every crash and every command of the operator.
LEMMA NextTypeInv == TypeInv /\ [Next]_vars => TypeInv'
<1> SUFFICES ASSUME TypeInv, [Next]_vars PROVE TypeInv'
  OBVIOUS
<1>1. CASE StartRound
  BY <1>1, StartRoundGood
<1>2. CASE Decompile
  BY <1>2, DecompileGood
<1>3. CASE Analyze
  BY <1>3, AnalyzeGood
<1>4. CASE EnrichApply
  BY <1>4, ApplyStartGood, SaveRomGood, SaveReviewGood, SummariseGood DEF EnrichApply
<1>5. CASE DeleteFiles \/ Rescore \/ RemoveBatch \/ AppendYield \/ CheckStop
  BY <1>5, DeleteFilesGood, RescoreStepGood, RemoveBatchGood, AppendYieldGood, CheckStopGood
<1>6. CASE Crash
  BY <1>6, CrashGood
<1>7. CASE ApplyCorpus \/ \E r \in Refs : ApplyOther(r)
  BY <1>7, ApplyCorpusKeeps, ApplyOtherKeeps, OperatorGood
<1>8. CASE UNCHANGED vars
  <2>1. UNCHANGED <<store, corpus, queue, poor, done, step, kindsLeft, savesLeft, asked>>
    BY <1>8 DEF vars
  <2>2. UNCHANGED <<batch, ctx, result, summary>>
    BY <1>8 DEF vars, files
  <2>3. FileTypes'
    BY <2>1, <2>2 DEF TypeInv, FileTypes
  <2>4. RoundReady'
    BY <2>1, <2>2 DEF TypeInv, RoundReady, RoundKinds
  <2> QED BY <2>1, <2>3, <2>4 DEF TypeInv, StoresGood
<1> QED BY <1>1, <1>2, <1>3, <1>4, <1>5, <1>6, <1>7, <1>8 DEF Next, Round

\* The files of the loop are always well formed.
LEMMA SpecTypeInv == Spec => []TypeInv
BY InitTypeInv, NextTypeInv, PTL DEF Spec

\* Whatever agents answer and wherever a session dies, every file that can be
\* read has its type, and the queues are in priority order (rescore_neighbors
\* and save_queue sort them).
THEOREM LoopTypeCorrect == Spec => []TypeOK
<1>1. TypeInv => TypeOK
  <2> SUFFICES ASSUME TypeInv PROVE TypeOK
    OBVIOUS
  <2> USE DEF TypeInv
  <2>1. corpus = Unreadable \/ \A i \in DOMAIN corpus : corpus[i] \in Row
    BY DEF FileTypes, ReviewRow
  <2>2. ASSUME NEW c \in Kinds, queue[c] # Unreadable PROVE IsQueue(queue[c], c)
    <3> DEFINE q == queue[c]
    <3>1. q \in Seq(Found) /\ GoodQueue(q, c)
      BY <2>2 DEF FileTypes, GoodQueue
    <3> HIDE DEF q
    <3>2. ASSUME NEW i \in DOMAIN q
          PROVE  /\ q[i] \in Entry /\ q[i].cat = c
                 /\ i > 1 => q[i].priority <= q[i - 1].priority
      <4>1. DOMAIN q = 1..Len(q) /\ Len(q) \in Nat
        BY <3>1
      <4>2. q[i] \in Entry /\ q[i].cat = c
        BY <3>1 DEF GoodQueue, Found
      <4>3. i > 1 => i - 1 \in DOMAIN q /\ i - 1 <= i
        BY <4>1
      <4>4. \A j \in DOMAIN q : j <= i => q[i].priority <= q[j].priority
        BY <3>1 DEF GoodQueue
      <4> QED BY <4>2, <4>3, <4>4
    <3> QED BY <3>2 DEF IsQueue, q
  <2>3. DOMAIN result \subseteq Refs \X Addr /\ \A k \in DOMAIN result : result[k] \in Answer
    BY DEF FileTypes, GoodAnswers
  <2>4. batch \subseteq Entry
    BY DEF FileTypes, Found
  <2> QED BY <2>1, <2>2, <2>3, <2>4 DEF FileTypes, RoundReady, StoresGood, TypeOK
<1> QED BY <1>1, SpecTypeInv, PTL

\* No function and no variable of a store is listed twice: enrich_apply renames
\* what the store has, and apply_verdicts adds only where there is nothing
\* (fn_by_ep, sym_by_addr).
THEOREM NothingListedTwice == Spec => []OneFunctionPerAddress
<1>1. TypeInv => OneFunctionPerAddress
  BY DEF TypeInv, StoresGood, OneFunctionPerAddress
<1> QED BY <1>1, SpecTypeInv, PTL
-----------------------------------------------------------------------------
\* Answers take effect.

\* What agents propose stays a real name when the clean-up appends to it.
RealNames == \A n \in AgentNames : Lasting(n)

\* Nothing is asked yet.
LEMMA InitAnswersKept == Init => AnswersKept
BY DEF Init, AnswersKept

\* After a save, its answers are in the store, beside those saved before.
LEMMA SaveRomKeeps == TypeInv /\ AnswersKept /\ RealNames /\ SaveRom => AnswersKept'
<1> SUFFICES ASSUME TypeInv, AnswersKept, RealNames, SaveRom PROVE AnswersKept'
  OBVIOUS
<1>1. NextSave \in savesLeft /\ savesLeft \subseteq Kinds \X Refs /\ GoodAnswers(result)
  BY NextSaveLeft DEF SaveRom, TypeInv, FileTypes
<1>2. PICK c \in Kinds, r \in Refs : NextSave = <<c, r>>
  BY <1>1
<1> DEFINE t == Named(store[r], c, r)
<1>3. /\ store' = [store EXCEPT ![r] = t] /\ savesLeft' = savesLeft \ {<<c, r>>}
      /\ step = "save" /\ step' = "save" /\ result' = result /\ asked' = asked
  BY <1>2 DEF SaveRom, files
<1>4. IsStore(store[r])
  BY DEF TypeInv, StoresGood
<1>5. /\ \A a, d : Taken(store[r], a, d) => Taken(t, a, d)
      /\ \A k \in Confident(c) : k[1] = r => Taken(t, k[2], c)
  BY <1>1, <1>4, NamedKeeps DEF RealNames
<1> HIDE DEF t
<1>6. \A q \in Refs : store'[q] = IF q = r THEN t ELSE store[q]
  BY <1>3 DEF TypeInv, StoresGood
<1>7. asked' = result'
  BY <1>3 DEF AnswersKept
<1>8. ASSUME NEW k \in With("high"), <<result[k].cat, k[1]>> \notin savesLeft'
      PROVE  Taken(store'[k[1]], k[2], result[k].cat)
  <2>1. k[1] \in Refs
    BY <1>1, ConfidentAnswers
  <2>2. CASE <<result[k].cat, k[1]>> = <<c, r>>
    <3>1. k \in Confident(c) /\ k[1] = r /\ result[k].cat = c
      BY <2>2 DEF Confident
    <3> QED BY <1>5, <1>6, <3>1
  <2>3. CASE <<result[k].cat, k[1]>> # <<c, r>>
    <3>1. Taken(store[k[1]], k[2], result[k].cat)
      BY <1>3, <1>8, <2>3 DEF AnswersKept
    <3> QED BY <1>5, <1>6, <2>1, <3>1
  <2> QED BY <2>2, <2>3
<1>9. With("high")' = With("high")
  BY <1>3 DEF With
<1> QED BY <1>3, <1>7, <1>8, <1>9 DEF AnswersKept

\* After the review file is saved, every answer has taken effect.
LEMMA SaveReviewKeeps == TypeInv /\ AnswersKept /\ SaveReview => AnswersKept'
<1> SUFFICES ASSUME TypeInv, AnswersKept, SaveReview, step' = "summarise" PROVE AnswersKept'
  BY DEF SaveReview, AnswersKept
<1>1. /\ UNCHANGED <<store, result, asked>> /\ savesLeft = {} /\ step = "save" /\ asked = result
      /\ \/ With("medium") = {}
         \/ corpus # Unreadable /\ corpus' = corpus \o ReviewRows
  BY DEF SaveReview, files, AnswersKept
<1>2. GoodAnswers(result) /\ (corpus # Unreadable => corpus \in Seq(ReviewRow))
  BY DEF TypeInv, FileTypes
<1>3. ASSUME NEW k \in DOMAIN asked, asked[k].confidence = "high"
      PROVE  Taken(store[k[1]], k[2], asked[k].cat)
  BY <1>1, <1>3 DEF AnswersKept, With
<1>4. ASSUME NEW k \in DOMAIN asked, asked[k].confidence = "medium"
      PROVE  UpForReview(k)'
  <2>1. k \in With("medium") /\ asked[k] = result[k]
    BY <1>1, <1>4 DEF With
  <2>2. corpus' = corpus \o ReviewRows /\ corpus \in Seq(ReviewRow)
    BY <1>1, <1>2, <2>1
  <2>3. ReviewRows \in Seq(ReviewRow)
    BY <1>2, ReviewRowsGood
  <2>4. PICK p \in DOMAIN ReviewRows :
          /\ ReviewRows[p].target = k[1] /\ ReviewRows[p].addr = k[2]
          /\ ReviewRows[p].cat = result[k].cat /\ ReviewRows[p].proposed = result[k].name
    BY <1>2, <2>1, ReviewRowsGood
  <2> DEFINE w == ReviewRows
             i == Len(corpus) + p
  <2>5. p \in 1..Len(w) /\ Len(w) \in Nat /\ Len(corpus) \in Nat
    BY <2>2, <2>3, <2>4
  <2>6. corpus'[i] = w[p] /\ i \in DOMAIN corpus'
    <3> HIDE DEF w
    <3>1. /\ corpus \o w \in Seq(ReviewRow) /\ Len(corpus \o w) = Len(corpus) + Len(w)
          /\ \A j \in 1..Len(corpus) + Len(w) : (corpus \o w)[j] =
                  IF j <= Len(corpus) THEN corpus[j] ELSE w[j - Len(corpus)]
      BY <2>2, <2>3, ConcatProperties DEF w
    <3>2. i \in 1..Len(corpus) + Len(w) /\ ~(i <= Len(corpus)) /\ i - Len(corpus) = p
      BY <2>5
    <3>3. DOMAIN (corpus \o w) = 1..Len(corpus) + Len(w)
      BY <3>1
    <3> QED BY <2>2, <3>1, <3>2, <3>3 DEF w
  <2> HIDE DEF i
  <2> QED BY <1>1, <2>1, <2>4, <2>6 DEF UpForReview, w
<1> QED BY <1>1, <1>3, <1>4 DEF AnswersKept

\* No other step undoes what an answer did.
LEMMA NextAnswersKept == TypeInv /\ AnswersKept /\ RealNames /\ [Next]_vars => AnswersKept'
<1> SUFFICES ASSUME TypeInv, AnswersKept, RealNames, [Next]_vars PROVE AnswersKept'
  OBVIOUS
<1>1. CASE StartRound
  BY <1>1 DEF StartRound, AnswersKept
<1>2. CASE Decompile
  BY <1>2 DEF Decompile, AnswersKept
<1>3. CASE Analyze
  BY <1>3 DEF Analyze, AnswersKept
<1>4. CASE ApplyStart
  <2>1. UNCHANGED <<store, corpus, result, asked>> /\ asked = result
    BY <1>4 DEF ApplyStart, AnswersKept
  <2>2. CASE result = << >>
    <3>1. DOMAIN asked = {} /\ step' = "applied"
      BY <1>4, <2>1, <2>2 DEF ApplyStart
    <3> QED BY <2>1, <3>1 DEF AnswersKept
  <2>3. CASE result # << >>
    <3>1. step' = "save" /\ savesLeft' = {<<result[k].cat, k[1]>> : k \in With("high")}
      BY <1>4, <2>3 DEF ApplyStart
    <3>2. With("high")' = With("high")
      BY <2>1 DEF With
    <3> QED BY <2>1, <3>1, <3>2 DEF AnswersKept
  <2> QED BY <2>2, <2>3
<1>5. CASE SaveRom
  BY <1>5, SaveRomKeeps
<1>6. CASE SaveReview
  BY <1>6, SaveReviewKeeps
<1>7. CASE Summarise \/ DeleteFiles
  <2>1. UNCHANGED <<store, corpus, asked>> /\ step \in {"summarise", "applied"}
    BY <1>7 DEF Summarise, DeleteFiles
  <2>2. \/ step' = "applied" /\ step = "summarise" /\ result' = result
        \/ step' = "deleted"
    BY <1>7 DEF Summarise, DeleteFiles
  <2>3. \A k : UpForReview(k)' <=> UpForReview(k)
    BY <2>1 DEF UpForReview
  <2> QED BY <2>1, <2>2, <2>3 DEF AnswersKept
<1>8. CASE Rescore
  <2>1. UNCHANGED <<store, corpus, asked>> /\ step = "deleted" /\ step' \in {"deleted", "rescored"}
    BY <1>8 DEF Rescore, Advance
  <2>2. \A k : UpForReview(k)' <=> UpForReview(k)
    BY <2>1 DEF UpForReview
  <2> QED BY <2>1, <2>2 DEF AnswersKept
<1>9. CASE RemoveBatch
  <2>1. UNCHANGED <<store, corpus, asked>> /\ step = "rescored" /\ step' \in {"rescored", "removed"}
    BY <1>9 DEF RemoveBatch, Advance
  <2>2. \A k : UpForReview(k)' <=> UpForReview(k)
    BY <2>1 DEF UpForReview
  <2> QED BY <2>1, <2>2 DEF AnswersKept
<1>10. CASE AppendYield \/ CheckStop
  <2>1. step' \in {"removed", "recorded", "idle"}
    BY <1>10 DEF AppendYield, CheckStop, Advance
  <2> QED BY <2>1 DEF AnswersKept
<1>11. CASE Crash
  BY <1>11 DEF Crash, AnswersKept
<1>12. CASE OperatorKeeps
  <2>1. UNCHANGED <<corpus, step, result, savesLeft, asked>>
    BY <1>12 DEF OperatorKeeps, files
  <2>2. \A r \in Refs : \A a, c : Taken(store[r], a, c) => Taken(store'[r], a, c)
    BY <1>12 DEF OperatorKeeps, RealNames
  <2>3. \A k : UpForReview(k)' <=> UpForReview(k)
    BY <2>1 DEF UpForReview
  <2>4. /\ \A k \in DOMAIN asked : k[1] \in Refs
        /\ \A k \in With("high") : k[1] \in Refs
    BY ConfidentAnswers DEF TypeInv, FileTypes, GoodAnswers
  <2>5. With("high")' = With("high")
    BY <2>1 DEF With
  <2> QED BY <2>1, <2>2, <2>3, <2>4, <2>5 DEF AnswersKept
<1>13. CASE UNCHANGED vars
  <2>1. UNCHANGED <<store, corpus, step, result, savesLeft, asked>>
    BY <1>13 DEF vars, files
  <2>2. (\A k : UpForReview(k)' <=> UpForReview(k)) /\ With("high")' = With("high")
    BY <2>1 DEF UpForReview, With
  <2> QED BY <2>1, <2>2 DEF AnswersKept
<1>14. (ApplyCorpus \/ \E r \in Refs : ApplyOther(r)) => OperatorKeeps
  BY ApplyCorpusKeeps, ApplyOtherKeeps
<1> QED BY <1>1, <1>2, <1>3, <1>4, <1>5, <1>6, <1>7, <1>8, <1>9, <1>10, <1>11, <1>12, <1>13, <1>14
        DEF Next, Round, EnrichApply

\* If agents propose real names, a candidate leaves the queue only when its
\* answer has taken effect: a confident name is in the store, an uncertain one
\* among the rows for review, wherever a session died and whatever the operator
\* applied in between (enrich_apply before the removal).
THEOREM AnswersAlwaysTakeEffect ==
  ASSUME RealNames
  PROVE  Spec => AnswersTakeEffect
<1>1. ASSUME TypeInv, AnswersKept, RemoveBatch, NEW e \in batch, Key(e) \in DOMAIN asked
      PROVE  /\ asked[Key(e)].confidence = "high" => IsReal(NameAt(store[e.rom], e.addr, e.cat))
             /\ asked[Key(e)].confidence = "medium" /\ corpus # Unreadable =>
                  \E i \in DOMAIN corpus :
                    /\ corpus[i].target = e.rom /\ corpus[i].addr = e.addr
                    /\ corpus[i].cat = e.cat /\ corpus[i].proposed = asked[Key(e)].name
  <2>1. e \in Found /\ GoodAnswers(asked) /\ step = "rescored"
    BY <1>1 DEF TypeInv, FileTypes, RemoveBatch
  <2>2. Key(e)[1] = e.rom /\ Key(e)[2] = e.addr /\ e.rom \in Refs /\ e.cat \in Kinds
    BY <2>1 DEF Key, Found, Entry
  <2>3. asked[Key(e)].cat = e.cat
    <3>1. asked[Key(e)].cat \in Kinds /\ e.addr \in GhidraAt(asked[Key(e)].cat, e.rom)
      BY <1>1, <2>1, <2>2 DEF GoodAnswers, Answer
    <3>2. e.addr \in GhidraAt(e.cat, e.rom)
      BY <2>1 DEF Found
    <3> QED BY <2>2, <3>1, <3>2, AgentAssumption DEF GhidraAt, Kinds
  <2>4. ASSUME asked[Key(e)].confidence = "high"
        PROVE  IsReal(NameAt(store[e.rom], e.addr, e.cat))
    <3> DEFINE s == store[e.rom]
    <3>1. Taken(s, e.addr, e.cat)
      BY <1>1, <2>1, <2>2, <2>3, <2>4 DEF AnswersKept
    <3>2. IsStore(s) /\ OneEntryPerAddress(s)
      BY <1>1, <2>2 DEF TypeInv, StoresGood
    <3> HIDE DEF s
    <3>3. PICK k \in DOMAIN s : k[1] = e.addr /\ k[2] = e.cat /\ Lasting(s[k].name)
      BY <3>1 DEF Taken
    <3>4. HasEntry(s, e.addr, e.cat) /\ LastSlot(s, e.addr, e.cat) = k
      BY <3>2, <3>3, LoneEntryIsLast
    <3> QED BY <3>3, <3>4 DEF NameAt, Lasting, s
  <2>5. asked[Key(e)].confidence = "medium" /\ corpus # Unreadable => UpForReview(Key(e))
    BY <1>1, <2>1 DEF AnswersKept
  <2> QED BY <2>2, <2>3, <2>4, <2>5 DEF UpForReview
<1>2. TypeInv /\ AnswersKept /\ [Next]_vars => AnswersKept'
  BY NextAnswersKept
<1>3. TypeInv /\ AnswersKept => (RemoveBatch => BatchSettled)
  BY <1>1 DEF BatchSettled
<1> QED BY <1>2, <1>3, InitAnswersKept, InitTypeInv, NextTypeInv, PTL DEF Spec, AnswersTakeEffect
=============================================================================
