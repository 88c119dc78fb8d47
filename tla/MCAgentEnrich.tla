---------------------------- MODULE MCAgentEnrich ----------------------------
(***************************************************************************)
(* Small instances of AgentEnrich: two ROMs, one with two functions and    *)
(* two variables, one with one of each.                                    *)
(***************************************************************************)
EXTENDS AgentEnrich, TLC

CONSTANTS T, B  \* reference ids

Nm(b) == [base |-> b, tags |-> <<>>]
Entries(f, c) == [k \in {<<a, c, 1>> : a \in DOMAIN f} |-> [name |-> f[k[1]], src |-> "other"]]
Store(fns, syms) == Entries(fns, Function) @@ Entries(syms, Symbol)

MCAddr == {16, 20, 40, 41}
MCBase == {"FUN", "DAT", "call", "foo", "bar"}
MCRefs == {T, B}
MCPriority == (T :> 100) @@ (B :> 90)
MCSorted == (T :> 1) @@ (B :> 0)
MCGhidraFns == (T :> {16, 20}) @@ (B :> {16})
MCGhidraVars == (T :> {40, 41}) @@ (B :> {40})
MCNeighbors == (T :> [a \in Addr |-> {16, 20} \ {a}]) @@ (B :> [a \in Addr |-> {}])
MCReaders == [r \in MCRefs |-> [a \in Addr |-> MCGhidraFns[r]]]
MCWriters == (T :> [a \in Addr |-> {16}]) @@ (B :> [a \in Addr |-> {}])
MCSiblings == (T :> [a \in Addr |-> {40, 41} \ {a}]) @@ (B :> [a \in Addr |-> {}])
MCAgentNames == {Nm("foo")}

\* All of A is named after its address.
NamedAll(A) == [a \in A |-> [base |-> "bar", tags |-> <<a, 1>>]]

\* Functions only: T's second one has a placeholder's name or a real one.
FunctionStores ==
  {(T :> Store(20 :> t, NamedAll({40, 41}))) @@ (B :> Store(<<>>, NamedAll({40}))) :
     t \in {Nm("call"), Nm("bar")}}

\* Variables only: B's has a placeholder's name.
VariableStores ==
  {(T :> Store(NamedAll({16, 20}), <<>>)) @@ (B :> Store(NamedAll({16}), 40 :> Nm("call")))}

\* One function and one variable of the same ROM.
MixedStores ==
  {(T :> Store(NamedAll({20}), NamedAll({41}))) @@ (B :> Store(NamedAll({16}), NamedAll({40})))}

LoopStores == FunctionStores \cup VariableStores \cup MixedStores
=============================================================================
