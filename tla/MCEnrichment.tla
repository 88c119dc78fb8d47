---------------------------- MODULE MCEnrichment ----------------------------
(***************************************************************************)
(* Small instances of Enrichment: registries of a few references with two  *)
(* or three functions each.                                                *)
(***************************************************************************)
EXTENDS Enrichment, TLC

CONSTANTS T, B, C, D  \* reference ids; T has the highest priority

MCBase == {"FUN", "out", "call", "foo", "bar", "baz"}

Nm(b)  == [base |-> b, tags |-> <<>>]
Fun(a) == [base |-> "FUN", tags |-> <<a>>]     \* Ghidra's default name

\* A store of functions from a partial map of addresses to names.
Fns(f) == [k \in {<<a, Function, 1>> : a \in DOMAIN f} |->
             [name |-> f[k[1]], src |-> "other"]]

\* The same store with a data symbol: of an .S file, or of another source.
WithSym(s, a, n) == (<<a, Symbol, 1>> :> [name |-> n, src |-> "asm"]) @@ s
WithData(s, a, n) == (<<a, Symbol, 1>> :> [name |-> n, src |-> "other"]) @@ s

\* Every store of functions with distinct names out of N.
FnStores(As, N) ==
  {Fns(f) : f \in {g \in UNION {[E -> N] : E \in SUBSET As} :
                     \A x, y \in DOMAIN g : g[x] = g[y] => x = y}}

Stores(Ts, Bs, Cs) == {(T :> t) @@ (B :> b) @@ (C :> c) : t \in Ts, b \in Bs, c \in Cs}

MCAddr == {16, 20}
MCRefs == {T, B, C}
MCPriority == (T :> 100) @@ (B :> 90) @@ (C :> 50)
MCSorted == (T :> 1) @@ (B :> 2) @@ (C :> 0)
MCVariant == [r \in Refs |-> "fp8000"]
MCNoErased == [r \in Refs |-> {}]
MCErased == [r \in Refs |-> IF r = C THEN {16} ELSE {}]

\* Matches from pairs of addresses, with Ghidra's default name.
Pairs(P) == {[new |-> p[1], ref |-> p[2], name |-> Fun(p[2])] : p \in P}
Straight == Pairs({<<a, b>> \in Addr \X Addr : a = b})
Crossed  == Pairs({<<a, b>> \in Addr \X Addr : a # b})

\* Each pair of references is matched straight, or crossed if it is in P, the
\* same both ways: two functions of one ROM may then claim one name.
World(P) == [n \in Refs |-> [r \in Refs |->
               IF n = r THEN {} ELSE IF {n, r} \in P THEN Crossed ELSE Straight]]
Worlds == {World(P) : P \in SUBSET {{T, B}, {T, C}, {B, C}}}

-----------------------------------------------------------------------------
\* One whole cycle: enrich, an edited verdict, apply-enrichment, one crash.
CycleStores ==
  Stores({Fns(16 :> Nm("foo")), Fns(<<>>)},
         {Fns((16 :> Nm("baz")) @@ (20 :> Nm("foo"))), Fns(16 :> Nm("baz")),
          Fns(20 :> Nm("foo")), Fns(20 :> Nm("baz"))},
         {Fns((16 :> Nm("out")) @@ (20 :> Nm("bar"))), Fns(20 :> Nm("out")),
          Fns(20 :> Nm("baz")), Fns(16 :> Nm("bar")), WithSym(Fns(20 :> Nm("bar")), 16, Nm("foo"))})
MCCustom == {Nm("foo")}

\* What a behaviour may start from: any of these stores and matchings.
Setup(S, M, b) == {[store |-> s, matches |-> m, budget |-> b] : s \in S, m \in M}

Bounds(n, over) == [crash |-> n, edit |-> n, apply |-> n, overlap |-> over]

CycleSetups == Setup(CycleStores, {World({{T, C}})}, Bounds(1, FALSE))

\* The automatic phase gives B's function at 16 the name of a data symbol there; the
\* clean-up tags the symbol with 16, which is the name of B's function at 20, and so
\* tags that one: a row of the file shows it without its new tag.
TaggedStores ==
  Stores({Fns(16 :> Nm("call"))},
         {WithData(Fns(20 :> [base |-> "call", tags |-> <<16>>]), 16, Nm("call"))},
         {Fns(20 :> Nm("bar"))})
TaggedWorld ==
  LET only16 == {m \in Straight : m.new = 16}
  IN [World({}) EXCEPT ![B] = [@ EXCEPT ![T] = only16], ![T] = [@ EXCEPT ![B] = only16]]
TaggedSetups == Setup(TaggedStores, {TaggedWorld}, Bounds(1, FALSE))

\* Both commands at once.  B already owns the suffixed name that a second foo
\* would be given, so making names unique takes more than one attempt, and a
\* gap of B that one file fills with C's junk name is filled by T at the same time.
OverlapStores ==
  Stores({Fns((16 :> Nm("foo")) @@ (20 :> Nm("bar")))},
         {WithSym(Fns(20 :> Nm("call")), 16, [base |-> "foo", tags |-> <<20>>]),
          Fns((16 :> [base |-> "foo", tags |-> <<20>>]) @@ (20 :> Nm("baz")))},
         {Fns(20 :> Nm("foo")), Fns(16 :> Nm("out"))})
OverlapSetups ==
  Setup(OverlapStores, {World({}), World({{T, C}, {B, C}})}, Bounds(1, TRUE))

\* Endless enrichment: the symbols make dedup_symbol_names rename.
SettleStores ==
  Stores(FnStores(Addr, {Nm("foo"), Nm("bar")}),
         {WithSym(s, a, Nm("foo")) : s \in FnStores(Addr, {Nm("baz"), Nm("call")}), a \in Addr},
         FnStores(Addr, {Nm("foo"), Nm("baz")}))
SettleSetups == Setup(SettleStores, Worlds, Bounds(0, FALSE))

MCSetups == CycleSetups \cup TaggedSetups \cup OverlapSetups \cup SettleSetups

-----------------------------------------------------------------------------
(***************************************************************************)
(* A sentence of the README that the code does not keep: four references,  *)
(* where two must outvote the authority.                                   *)
(***************************************************************************)
FourRefs == {T, B, C, D}
FourPriority == MCPriority @@ (D :> 40)
FourSorted == MCSorted @@ (D :> 3)
Four(t, b, c, d) == (T :> t) @@ (B :> b) @@ (C :> c) @@ (D :> d)

\* B's baz against the authority's foo and two votes for bar.
OutvotedStores ==
  {Four(Fns(16 :> Nm("foo")), Fns(16 :> Nm("baz")), Fns(16 :> Nm("bar")), Fns(16 :> d)) :
     d \in {Nm("foo"), Nm("bar")}}

OutvotedSetups == Setup(OutvotedStores, {World({})}, Bounds(0, FALSE))
=============================================================================
