----------------------------- MODULE MCMatching -----------------------------
(***************************************************************************)
(* Small instances of Matching: two ROMs of four to eight functions.       *)
(* Where not said otherwise, sizes are 8, 8, 32 and unknown in the         *)
(* reference, 8, 12, 16 and unknown in the new ROM: 32 and 8 both fit the  *)
(* unknown, and 16 fits 32 only where half the size will do.               *)
(***************************************************************************)
EXTENDS Matching, TLC

\* A ROM whose reset handler is at 512; mut and dtc are the users of its tables.
ROM(callees, second, tail, mut, dtc) ==
  [entries |-> DOMAIN callees, callees |-> callees, vectors |-> <<512, second, second>>,
   icu |-> <<None>>, tails |-> [f \in DOMAIN callees |-> IF f = 512 THEN tail ELSE <<>>],
   mut |-> mut, dtc |-> <<dtc, None>>]

RefGraphs ==
  {(512 :> a) @@ (520 :> b) @@ (528 :> c) @@ (560 :> d) :
     a \in {<<520, 528>>, <<528, 520, 560>>, <<560>>}, b \in {<<528>>, <<560, 528>>},
     c \in {<<560>>, <<520>>}, d \in {<<>>, <<528>>}}
NewGraphs ==
  {(512 :> a) @@ (520 :> b) @@ (532 :> c) @@ (548 :> d) :
     a \in {<<520, 532>>, <<532, 520, 548>>, <<548>>}, b \in {<<>>, <<532, 548>>},
     c \in {<<548>>, <<520>>}, d \in {<<>>, <<532>>}}

World(rg, ng, second, tail, mut, dtc, named, unlike, occurs) ==
  [ref |-> ROM(rg, second[1], tail[1], mut[1], dtc[1]),
   new |-> ROM(ng, second[2], tail[2], mut[2], dtc[2]),
   named |-> named, similar |-> ((DOMAIN rg) \X (DOMAIN ng)) \ unlike, occurs |-> occurs]

Nowhere == <<None, None>>

\* One vector, and every pair of call graphs.
SearchWorlds ==
  {World(rg, ng, Nowhere, <<<<>>, <<>>>>, Nowhere, Nowhere, {520}, unlike,
         [f \in DOMAIN rg |-> IF f = 528 /\ unlike = {} THEN {532} ELSE {}]) :
     rg \in RefGraphs, ng \in NewGraphs, unlike \in {{}, {<<528, 532>>}}}

\* Tables that disagree with each other and with the search, and bodies that
\* occur where another function is.
ClaimWorlds ==
  {World(rg, ng, second, tail, mut, dtc, {512, 520, 560}, {},
         [f \in DOMAIN rg |-> IF f \in {520, 528} THEN {520} ELSE {}]) :
     rg \in {g \in RefGraphs : g[520] = <<528>> /\ g[528] = <<560>>},
     ng \in {g \in NewGraphs : g[520] = <<>> /\ g[532] = <<548>>},
     second \in {Nowhere, <<520, 532>>}, tail \in {<<<<>>, <<>>>>, <<<<560>>, <<548>>>>},
     mut \in {Nowhere, <<528, 520>>}, dtc \in {Nowhere, <<560, 532>>}}

\* Two callers with two to four callees of sizes 12, 16, 24 and 40: 12 fits 16,
\* 16 fits 24 and 24 fits 40, each no other.
Lists == {l \in UNION {[1..k -> {520, 532, 548, 572}] : k \in 2..4} :
            \A i, j \in DOMAIN l : l[i] = l[j] => i = j}
Caller(l) == [f \in {512, 520, 532, 548, 572, 612} |-> IF f = 512 THEN l ELSE <<>>]
AlignWorlds ==
  {World(Caller(rl), Caller(nl), Nowhere, <<<<>>, <<>>>>, Nowhere, Nowhere, {}, {},
         [f \in DOMAIN Caller(rl) |-> {}]) : rl \in Lists, nl \in Lists}

\* A chain of calls longer than the search is deep, with a short cut or without.
Chain(first) ==
  [f \in {512 + 8 * i : i \in 0..7} |-> IF f = 512 THEN first ELSE IF f = 568 THEN <<>> ELSE <<f + 8>>]
ChainWorlds ==
  {World(Chain(rl), Chain(nl), Nowhere, <<<<>>, <<>>>>, Nowhere, Nowhere, {536, 552}, {},
         [f \in DOMAIN Chain(rl) |-> {}]) :
     rl \in {<<520>>, <<520, 536>>}, nl \in {<<520>>, <<536, 520>>}}

MCWorlds == SearchWorlds \cup ClaimWorlds \cup AlignWorlds \cup ChainWorlds

VT(r, n, sim) == Matched(r, n, "vt_diff", sim)
MCVtResults == {<<>>, <<VT(560, 548, 10), VT(528, 548, 10), VT(520, 532, 9)>>, <<VT(520, 520, 6), VT(528, 532, 10)>>}
MCSigScores == {[p \in {} |-> 0],
                (<<528, 548>> :> 8) @@ (<<560, 548>> :> 7) @@ (<<528, 532>> :> 7) @@ (<<560, 532>> :> 7)}
=============================================================================
