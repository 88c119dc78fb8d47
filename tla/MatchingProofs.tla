--------------------------- MODULE MatchingProofs ---------------------------
(***************************************************************************)
(* What match_reference keeps for any two ROMs, any result of the version  *)
(* tracking and any signatures: each phase adds claims, gap filling claims *)
(* no function twice, and the result is one-to-one and loses no claim that *)
(* outranks its rivals.  Every variable keeps its type; the alignments are *)
(* longest; the breadth-first search finds all that is in its reach; gap   *)
(* filling leaves nothing it could add; and every step makes progress.     *)
(***************************************************************************)
EXTENDS Matching, CallGraphProofs

Early == phase \in {"bootstrap", "bfs", "vt"}
Arbitrated == phase \in {"signatures", "done"}

\* Every phase's result is a list of claims.
ClaimsInv ==
  /\ world \in Worlds /\ phase \in Phases
  /\ ClaimList(anchors) /\ ClaimList(bfs) /\ ClaimList(vt) /\ ClaimList(gap)

\* The functions of q are taken, as far as gap filling knows.
Taken(q) == \A i \in DOMAIN q : q[i].ref \in DOMAIN gapRef /\ q[i].new \in gapNew

\* Gap filling starts with nothing, knows what the others have taken, and
\* repeats neither them nor itself.
GapInv ==
  /\ Early => gap = <<>>
  /\ ~Early => Taken(vt) /\ Taken(anchors) /\ Taken(bfs) /\ Taken(gap)
  /\ \A i, j \in DOMAIN gap : i # j => gap[i].ref # gap[j].ref /\ gap[i].new # gap[j].new
  /\ ~Early =>
       \A i \in DOMAIN gap : \A q \in {vt, anchors, bfs} : \A j \in DOMAIN q :
         gap[i].ref # q[j].ref /\ gap[i].new # q[j].new

\* There is no result before the arbitration; after it, all it has kept is in
\* the result, which is one-to-one.
ResultInv ==
  /\ ~Arbitrated => matches = {}
  /\ Arbitrated => Arbitrate(Claims) \subseteq matches
  /\ PairedOnce(matches)

MatchInv == ClaimsInv /\ GapInv /\ ResultInv

-----------------------------------------------------------------------------
LEMMA InitMatchInv == Init => MatchInv
<1> SUFFICES ASSUME Init PROVE MatchInv
  OBVIOUS
<1>1. ClaimList(<<>>)
  BY DEF ClaimList
<1>2. ClaimsInv
  BY <1>1 DEF Init, ClaimsInv, Phases
<1>3. GapInv
  BY DEF Init, GapInv, Early
<1>4. ResultInv
  BY DEF Init, ResultInv, Arbitrated, PairedOnce
<1> QED BY <1>2, <1>3, <1>4 DEF MatchInv

\* The ROMs of a world.
LEMMA WorldRoms ==
  ASSUME NEW w \in Worlds
  PROVE  /\ IsRom(w.ref) /\ IsRom(w.new)
         /\ Len(w.ref.vectors) = Len(w.new.vectors) /\ Len(w.ref.icu) = Len(w.new.icu)
         /\ Len(w.ref.dtc) = Len(w.new.dtc)
         /\ \A r \in w.ref.entries : w.occurs[r] \subseteq Nat
BY MatchingAssumption

\* Every claim is among those that are arbitrated.
LEMMA ClaimsType ==
  ASSUME ClaimsInv
  PROVE  ClaimList(Claims)
<1>1. ClaimList(Found)
  BY ClaimListConcat DEF ClaimsInv, Found
<1>2. /\ IsFiniteSet(world.ref.entries) /\ world.ref.entries \subseteq Nat
      /\ \A r \in world.ref.entries : world.occurs[r] \subseteq Nat
  BY WorldRoms DEF ClaimsInv, IsRom
<1>3. ClaimList(IdentityMatches(world.ref, world.occurs, Found))
  BY <1>2, IdentityMatchesClaims
<1> QED BY <1>1, <1>3, ClaimListConcat DEF Claims

\* What gap filling picks for a caller: aligned functions of the two ROMs that are
\* free, none twice; all that are free and aligned; nothing for a caller without
\* a match.
LEMMA GapPicks ==
  ASSUME ClaimsInv, NEW c
  PROVE  PicksOnce(Filter(GapPairs(c), Open), GapPairs(c), Open, world.ref, world.new)
<1> DEFINE b == GapPairs(c)
           new == Filter(b, Open)
<1>1. CASE c \in DOMAIN gapRef
  <2>1. b = AlignCallees(world.ref, world.new, c, gapRef[c], 5)
    BY <1>1 DEF GapPairs
  <2>2. IsRom(world.ref) /\ IsRom(world.new)
    BY WorldRoms DEF ClaimsInv
  <2> QED BY <2>1, <2>2, AlignedOnce
<1>2. CASE c \notin DOMAIN gapRef
  <2>1. b = <<>>
    BY <1>2 DEF GapPairs
  <2>2. b \in Seq(Nat \X Nat) /\ DOMAIN b = {}
    <3> SUFFICES <<>> \in Seq(Nat \X Nat) /\ DOMAIN <<>> = {}
      BY <2>1
    <3> HIDE DEF b, new
    <3> QED OBVIOUS
  <2> DEFINE S == Nat \X Nat
  <2>3. new \in Seq(S \cap Open) /\ \E h : h \in [DOMAIN new -> {}]
    <3>1. b \in Seq(S) /\ DOMAIN b = {}
      BY <2>2
    <3> HIDE DEF b, S
    <3>2. Filter(b, Open) \in Seq(S \cap Open)
      BY <3>1, FilterSubsequence
    <3>3. \E h : h \in [DOMAIN Filter(b, Open) -> {}]
      BY <3>1, FilterSubsequence
    <3> QED BY <3>2, <3>3
  <2> HIDE DEF b, new
  <2>4. DOMAIN new = {} /\ new \in Seq(Nat \X Nat)
    BY <2>3
  <2>5. PicksOnce(new, b, Open, world.ref, world.new)
    BY <2>2, <2>4 DEF PicksOnce
  <2> QED BY <2>5 DEF b, new
<1> QED BY <1>1, <1>2

LEMMA BootstrapInv ==
  ASSUME MatchInv, Bootstrap
  PROVE  MatchInv'
<1> USE DEF MatchInv
<1>1. /\ phase = "bootstrap" /\ phase' = "bfs"
      /\ UNCHANGED <<world, bfs, vt, gapRef, gapNew, gap, matches>>
      /\ anchors' = BootstrapAnchors(world.ref, world.new)
  BY DEF Bootstrap
<1>2. ClaimList(anchors')
  BY <1>1, WorldRoms, BootstrapClaims DEF ClaimsInv
<1>3. ClaimsInv'
  BY <1>1, <1>2 DEF ClaimsInv, Phases
<1>4. GapInv'
  BY <1>1 DEF GapInv, Early
<1>5. ResultInv'
  BY <1>1 DEF ResultInv, Arbitrated
<1> QED BY <1>3, <1>4, <1>5

LEMMA BfsExpandInv ==
  ASSUME MatchInv, BfsExpand
  PROVE  MatchInv'
<1> USE DEF MatchInv
<1> DEFINE r == Head(queue)[1]
           n == Head(queue)[2]
           depth == Head(queue)[3]
           new == IF depth >= MaxBfsDepth THEN <<>> ELSE Discovered(r, n)
           named == Named(new)
           more == [i \in DOMAIN named |-> Matched(named[i][1], named[i][2], "callgraph_bfs", 8)]
<1>1. /\ phase = "bfs" /\ UNCHANGED <<world, phase, anchors, vt, gapRef, gapNew, gap, matches>>
      /\ bfs' = bfs \o more
  BY DEF BfsExpand
<1>2. new \in Seq(Nat \X Nat)
  <2>1. Discovered(r, n) \in Seq(Nat \X Nat)
    BY WorldRoms, AlignedOnce DEF ClaimsInv, Discovered, PicksOnce
  <2> HIDE DEF r, n
  <2> QED BY <2>1
<1> HIDE DEF new
<1>3. named \in Seq(Nat \X Nat)
  <2> DEFINE T == {p \in world.similar : p[1] \in world.named}
  <2>1. named \in Seq((Nat \X Nat) \cap T)
    <3> HIDE DEF T
    <3>1. named = Filter(new, T)
      BY DEF Named, T
    <3> HIDE DEF named
    <3> QED BY <1>2, <3>1, FilterSubsequence
  <2> HIDE DEF named, T
  <2> QED BY <2>1
<1> HIDE DEF named
<1>4. ClaimList(more)
  <2>1. "callgraph_bfs" \in MatchSource /\ 8 \in 0..10
    BY DEF MatchSource
  <2> QED BY <1>3, <2>1, MatchedListClaims
<1> HIDE DEF more
<1>5. ClaimsInv'
  BY <1>1, <1>4, ClaimListConcat DEF ClaimsInv
<1>6. GapInv'
  BY <1>1 DEF GapInv, Early
<1>7. ResultInv'
  BY <1>1 DEF ResultInv, Arbitrated
<1> QED BY <1>5, <1>6, <1>7

LEMMA VtDiffInv ==
  ASSUME MatchInv, VtDiff
  PROVE  MatchInv'
<1> USE DEF MatchInv
<1> DEFINE known == vt' \o anchors \o bfs
<1>1. /\ phase = "vt" /\ phase' = "gap" /\ UNCHANGED <<world, anchors, bfs, gap, matches>>
      /\ vt' \in VtResults
      /\ DOMAIN gapRef' = {known[i].ref : i \in DOMAIN known}
      /\ gapNew' = {known[i].new : i \in DOMAIN known}
  BY DEF VtDiff
<1>2. ClaimList(vt')
  BY <1>1, MatchingAssumption DEF ClaimList
<1>3. ClaimsInv'
  BY <1>1, <1>2 DEF ClaimsInv, Phases
<1>4. Within(vt', known) /\ Within(anchors, known) /\ Within(bfs, known)
  <2> DEFINE part == vt' \o anchors
  <2>1. ClaimList(part) /\ Within(vt', part) /\ Within(anchors, part)
    BY <1>2, ClaimListConcat, ConcatWithin DEF ClaimsInv
  <2> HIDE DEF part
  <2>2. Within(part, part \o bfs) /\ Within(bfs, part \o bfs)
    BY <2>1, ConcatWithin DEF ClaimsInv
  <2>3. known = part \o bfs
    BY DEF part
  <2> HIDE DEF known
  <2> QED BY <2>1, <2>2, <2>3 DEF Within
<1> HIDE DEF known
<1>5. Taken(vt)' /\ Taken(anchors)' /\ Taken(bfs)'
  BY <1>1, <1>4 DEF Taken, Within
<1>6. gap' = <<>>
  BY <1>1 DEF GapInv, Early
<1>7. GapInv'
  BY <1>1, <1>5, <1>6 DEF GapInv, Early, Taken
<1>8. ResultInv'
  BY <1>1 DEF ResultInv, Arbitrated
<1> QED BY <1>3, <1>7, <1>8

LEMMA GapFillCallerInv ==
  ASSUME MatchInv, GapFillCaller
  PROVE  MatchInv'
<1> USE DEF MatchInv
<1> DEFINE new == Filter(GapPairs(Head(callers)), Open)
           more == [i \in DOMAIN new |-> Matched(new[i][1], new[i][2], "callgraph_gap", 7)]
<1>1. /\ phase = "gap" /\ UNCHANGED <<world, phase, anchors, bfs, vt, matches>>
      /\ DOMAIN gapRef' = DOMAIN gapRef \cup {new[i][1] : i \in DOMAIN new}
      /\ gapNew' = gapNew \cup {new[i][2] : i \in DOMAIN new}
      /\ gap' = gap \o more
  BY DEF GapFillCaller
<1>2. /\ new \in Seq(Nat \X Nat)
      /\ \A k \in DOMAIN new : new[k] \in Open
      /\ \A k, l \in DOMAIN new : k # l => new[k][1] # new[l][1] /\ new[k][2] # new[l][2]
  BY GapPicks DEF PicksOnce
<1> HIDE DEF new
<1>3. ClaimList(more)
  <2>1. "callgraph_gap" \in MatchSource /\ 7 \in 0..10
    BY DEF MatchSource
  <2> QED BY <1>2, <2>1, MatchedListClaims
<1>4. DOMAIN more = DOMAIN new /\ \A i \in DOMAIN more : more[i].ref = new[i][1] /\ more[i].new = new[i][2]
  BY DEF Matched
<1> HIDE DEF more
<1>5. ClaimsInv'
  BY <1>1, <1>3, ClaimListConcat DEF ClaimsInv
<1>6. /\ Taken(vt) /\ Taken(anchors) /\ Taken(bfs) /\ Taken(gap)
      /\ \A i, j \in DOMAIN gap : i # j => gap[i].ref # gap[j].ref /\ gap[i].new # gap[j].new
      /\ \A i \in DOMAIN gap : \A q \in {vt, anchors, bfs} : \A j \in DOMAIN q :
           gap[i].ref # q[j].ref /\ gap[i].new # q[j].new
  BY <1>1 DEF GapInv, Early
<1>7. \A k \in DOMAIN more : /\ more[k].ref \notin DOMAIN gapRef /\ more[k].new \notin gapNew
                             /\ more[k].ref \in DOMAIN gapRef' /\ more[k].new \in gapNew'
  BY <1>1, <1>2, <1>4 DEF Open
<1>8. \A k, l \in DOMAIN more : k # l => more[k].ref # more[l].ref /\ more[k].new # more[l].new
  BY <1>2, <1>4
<1>9. /\ Len(gap) \in Nat /\ DOMAIN gap = 1..Len(gap)
      /\ \A i \in DOMAIN gap' :
           \/ (i \in DOMAIN gap /\ gap'[i] = gap[i])
           \/ (i - Len(gap) \in DOMAIN more /\ gap'[i] = more[i - Len(gap)])
      /\ DOMAIN gap' \subseteq Nat
  <2>1. gap \in Seq(MatchedFunction) /\ more \in Seq(MatchedFunction)
    BY <1>3 DEF ClaimsInv, ClaimList
  <2> QED BY <1>1, <2>1
<1>10. Taken(vt)' /\ Taken(anchors)' /\ Taken(bfs)' /\ Taken(gap)'
  <2>1. DOMAIN gapRef \subseteq DOMAIN gapRef' /\ gapNew \subseteq gapNew'
    BY <1>1
  <2>2. Taken(gap)'
    <3> SUFFICES ASSUME NEW i \in DOMAIN gap'
                 PROVE  gap'[i].ref \in DOMAIN gapRef' /\ gap'[i].new \in gapNew'
      BY DEF Taken
    <3> QED BY <1>6, <1>7, <1>9, <2>1 DEF Taken
  <2> QED BY <1>1, <1>6, <2>1, <2>2 DEF Taken
<1>11. \A i, j \in DOMAIN gap' : i # j => gap'[i].ref # gap'[j].ref /\ gap'[i].new # gap'[j].new
  <2> SUFFICES ASSUME NEW i \in DOMAIN gap', NEW j \in DOMAIN gap', i # j
               PROVE  gap'[i].ref # gap'[j].ref /\ gap'[i].new # gap'[j].new
    OBVIOUS
  <2>1. CASE i \in DOMAIN gap /\ gap'[i] = gap[i]
    BY <1>6, <1>7, <1>9, <2>1 DEF Taken
  <2>2. CASE i - Len(gap) \in DOMAIN more /\ gap'[i] = more[i - Len(gap)]
    <3>1. CASE j \in DOMAIN gap /\ gap'[j] = gap[j]
      BY <1>6, <1>7, <2>2, <3>1 DEF Taken
    <3>2. CASE j - Len(gap) \in DOMAIN more /\ gap'[j] = more[j - Len(gap)]
      <4>1. i - Len(gap) # j - Len(gap)
        BY <1>9
      <4> QED BY <1>8, <2>2, <3>2, <4>1
    <3> QED BY <1>9, <3>1, <3>2
  <2> QED BY <1>9, <2>1, <2>2
<1>12. \A i \in DOMAIN gap' : \A q \in {vt, anchors, bfs} : \A j \in DOMAIN q :
         gap'[i].ref # q[j].ref /\ gap'[i].new # q[j].new
  BY <1>6, <1>7, <1>9 DEF Taken
<1>13. GapInv'
  BY <1>1, <1>10, <1>11, <1>12 DEF GapInv, Early
<1>14. ResultInv'
  BY <1>1 DEF ResultInv, Arbitrated
<1> QED BY <1>5, <1>13, <1>14

\* What the arbitration is given does not change afterwards.
LEMMA ClaimsSame ==
  ASSUME UNCHANGED <<world, anchors, bfs, vt, gap>>
  PROVE  Claims' = Claims
BY DEF Claims, Found

LEMMA ArbitrateInv ==
  ASSUME MatchInv, ArbitrateClaims
  PROVE  MatchInv'
<1> USE DEF MatchInv
<1>1. /\ phase = "arbitrate" /\ phase' = "signatures" /\ matches' = Arbitrate(Claims)
      /\ UNCHANGED <<world, anchors, bfs, vt, gapRef, gapNew, gap>>
  BY DEF ArbitrateClaims
<1>2. ClaimsInv'
  BY <1>1 DEF ClaimsInv, Phases
<1>3. GapInv'
  BY <1>1 DEF GapInv, Early, Taken
<1>4. Claims' = Claims
  BY <1>1, ClaimsSame
<1>5. PairedOnce(matches')
  BY <1>1, ClaimsType, ArbitrateOneToOne
<1>6. ResultInv'
  BY <1>1, <1>4, <1>5 DEF ResultInv, Arbitrated
<1> QED BY <1>2, <1>3, <1>6

LEMMA AddSignaturesInv ==
  ASSUME MatchInv, AddSignatures
  PROVE  MatchInv'
<1> USE DEF MatchInv
<1>1. /\ phase = "signatures" /\ phase' = "done"
      /\ UNCHANGED <<world, anchors, bfs, vt, gapRef, gapNew, gap>>
  BY DEF AddSignatures
<1>2. PICK s \in SigScores : matches' = matches \cup RamSignatureMatches(s, matches)
  BY DEF AddSignatures
<1>3. ClaimsInv'
  BY <1>1 DEF ClaimsInv, Phases
<1>4. GapInv'
  BY <1>1 DEF GapInv, Early, Taken
<1>5. Claims' = Claims
  BY <1>1, ClaimsSame
<1>6. PairedOnce(matches')
  <2>1. DOMAIN s \subseteq Nat \X Nat /\ \A p \in DOMAIN s : s[p] \in Nat
    BY MatchingAssumption
  <2>2. PairedOnce(matches)
    BY DEF ResultInv
  <2> QED BY <1>2, <2>1, <2>2, SignaturesOneToOne
<1>7. ResultInv'
  BY <1>1, <1>2, <1>5, <1>6 DEF ResultInv, Arbitrated
<1> QED BY <1>3, <1>4, <1>7

LEMMA NextMatchInv ==
  ASSUME MatchInv, [Next]_vars
  PROVE  MatchInv'
<1> USE DEF MatchInv
<1>1. CASE BfsEnd
  <2>1. /\ phase = "bfs" /\ phase' = "vt"
        /\ UNCHANGED <<world, anchors, bfs, vt, gapRef, gapNew, gap, matches>>
    BY <1>1 DEF BfsEnd
  <2> QED BY <2>1 DEF ClaimsInv, GapInv, ResultInv, Phases, Early, Arbitrated, Taken
<1>2. CASE GapEndPass
  <2>1. /\ phase = "gap" /\ phase' \in {"gap", "arbitrate"}
        /\ UNCHANGED <<world, anchors, bfs, vt, gapRef, gapNew, gap, matches>>
    BY <1>2 DEF GapEndPass
  <2> QED BY <2>1 DEF ClaimsInv, GapInv, ResultInv, Phases, Early, Arbitrated, Taken
<1>3. CASE Returned \/ UNCHANGED vars
  <2>1. UNCHANGED <<world, phase, anchors, bfs, vt, gapRef, gapNew, gap, matches>>
    BY <1>3 DEF Returned, vars
  <2>2. Claims' = Claims
    BY <2>1, ClaimsSame
  <2> QED BY <2>1, <2>2 DEF ClaimsInv, GapInv, ResultInv, Early, Arbitrated, Taken
<1> QED
  BY <1>1, <1>2, <1>3, BootstrapInv, BfsExpandInv, VtDiffInv, GapFillCallerInv,
     ArbitrateInv, AddSignaturesInv DEF Next, GapFill

THEOREM MatchInvariant == Spec => []MatchInv
<1>1. Init => MatchInv
  BY InitMatchInv
<1>2. MatchInv /\ [Next]_vars => MatchInv'
  BY NextMatchInv
<1> QED BY <1>1, <1>2, PTL DEF Spec
-----------------------------------------------------------------------------
\* The result maps no function of either ROM twice, for any two ROMs, whatever the
\* version tracking returns and the signatures add (match_reference's arbitration).
THEOREM ResultOneToOne == Spec => []OneToOne
<1>1. MatchInv => OneToOne
  BY DEF MatchInv, ResultInv, PairedOnce, OneToOne
<1> QED BY <1>1, MatchInvariant, PTL

\* Gap filling matches no function again that anything before it, or itself in an
\* earlier pass, has matched (gap_fill's two sets).
THEOREM GapsFilledOnce == Spec => []GapOneToOne
<1>1. MatchInv => GapOneToOne
  <2> SUFFICES ASSUME MatchInv PROVE GapOneToOne
    OBVIOUS
  <2> DEFINE known == vt \o anchors \o bfs
  <2>1. CASE gap = <<>>
    BY <2>1 DEF GapOneToOne
  <2>2. CASE gap # <<>>
    <3>1. ~Early
      BY <2>2 DEF MatchInv, GapInv
    <3>2. \A j \in DOMAIN known : \E q \in {vt, anchors, bfs} : \E i \in DOMAIN q : known[j] = q[i]
      <4>1. /\ vt \in Seq(MatchedFunction) /\ anchors \in Seq(MatchedFunction)
            /\ bfs \in Seq(MatchedFunction)
        BY DEF MatchInv, ClaimsInv, ClaimList
      <4>2. \A j \in DOMAIN known :
              \/ j \in DOMAIN vt /\ known[j] = vt[j]
              \/ j - Len(vt) \in DOMAIN anchors /\ known[j] = anchors[j - Len(vt)]
              \/ j - Len(vt) - Len(anchors) \in DOMAIN bfs
                 /\ known[j] = bfs[j - Len(vt) - Len(anchors)]
        BY <4>1
      <4> HIDE DEF known
      <4> QED BY <4>2
    <3> HIDE DEF known
    <3>3. \A i \in DOMAIN gap : \A j \in DOMAIN known :
            gap[i].ref # known[j].ref /\ gap[i].new # known[j].new
      BY <3>1, <3>2 DEF MatchInv, GapInv
    <3>4. \A i, j \in DOMAIN gap : i # j => gap[i].ref # gap[j].ref /\ gap[i].new # gap[j].new
      BY DEF MatchInv, GapInv
    <3> QED BY <3>3, <3>4 DEF GapOneToOne, known
  <2> QED BY <2>1, <2>2
<1> QED BY <1>1, MatchInvariant, PTL

\* A claim that outranks all its rivals is in the result (best_by_ref, best_by_new).
THEOREM UndisputedStay == Spec => []UndisputedKept
<1>1. MatchInv => UndisputedKept
  <2> SUFFICES ASSUME MatchInv, phase \in {"signatures", "done"}, NEW i \in DOMAIN Claims,
                      \A j \in {j \in DOMAIN Claims \ {i} :
                              Claims[j].ref = Claims[i].ref \/ Claims[j].new = Claims[i].new} :
                        Rank(Claims[j]) < Rank(Claims[i])
               PROVE  Claims[i] \in matches
    BY DEF UndisputedKept
  <2>1. ClaimList(Claims) /\ Arbitrate(Claims) \subseteq matches
    BY ClaimsType DEF MatchInv, ResultInv, Arbitrated
  <2>2. Claims[i] \in Arbitrate(Claims)
    BY <2>1, UndisputedSurvives
  <2> QED BY <2>1, <2>2
<1> QED BY <1>1, MatchInvariant, PTL
-----------------------------------------------------------------------------
\* The alignment of two lists of distinct callees is among the longest.
LEMMA LongestAlignment ==
  ASSUME NEW A, NEW rc \in Seq(A), NEW nc \in Seq(A), NEW ok,
         \A i, j \in DOMAIN rc : rc[i] = rc[j] => i = j,
         \A i, j \in DOMAIN nc : nc[i] = nc[j] => i = j
  PROVE  IsLongestAlignment(rc, nc, ok)
<1> DEFINE m == Len(rc)
           n == Len(nc)
           a == LcsAlign(rc, nc, ok)
           dp == LcsTable(rc, nc, ok)
           S == {p \in (1..m) \X (1..n) : \E k \in DOMAIN a : a[k] = <<rc[p[1]], nc[p[2]]>>}
<1>1. /\ m \in Nat /\ n \in Nat /\ DOMAIN rc = 1..m /\ DOMAIN nc = 1..n
  OBVIOUS
<1>2. /\ a \in Seq(A \X A) /\ Len(a) = dp[<<m, n>>]
      /\ \A k \in DOMAIN a : a[k] \in ok
      /\ InCallOrder(a, rc, nc)
  <2>1. IsAlignment(LcsAlign(rc, nc, ok), A, rc, nc, ok)
    BY AlignmentInOrder
  <2> QED BY <2>1 DEF IsAlignment
<1>3. LcsEntries(dp, rc, nc, ok)
  BY LcsTableEntries
<1>4. Alignments(rc, nc, ok) = PrefixAlignments(rc, nc, ok, m, n)
  BY DEF Alignments, PrefixAlignments
<1> HIDE DEF m, n, a, dp
<1>5. \A T \in Alignments(rc, nc, ok) : Cardinality(T) <= Len(a)
  BY <1>1, <1>2, <1>3, <1>4, NoLongerAlignment DEF m, n
<1>6. PICK g \in [DOMAIN a -> 1..m], h \in [DOMAIN a -> 1..n] :
        /\ \A k \in DOMAIN a : a[k] = <<rc[g[k]], nc[h[k]]>>
        /\ \A k, l \in DOMAIN a : k < l => g[k] < g[l] /\ h[k] < h[l]
  BY <1>2 DEF InCallOrder, m, n
<1> DEFINE f == [k \in DOMAIN a |-> <<g[k], h[k]>>]
<1>7. \A k \in DOMAIN a : f[k] \in S
  BY <1>6
<1>8. \A p \in S : \E k \in DOMAIN a : p = <<g[k], h[k]>>
  <2> SUFFICES ASSUME NEW p \in S PROVE \E k \in DOMAIN a : p = <<g[k], h[k]>>
    OBVIOUS
  <2>1. PICK k \in DOMAIN a : a[k] = <<rc[p[1]], nc[p[2]]>>
    OBVIOUS
  <2>2. rc[g[k]] = rc[p[1]] /\ nc[h[k]] = nc[p[2]]
    BY <1>6, <2>1
  <2>3. p[1] \in 1..m /\ p[2] \in 1..n /\ p = <<p[1], p[2]>>
    OBVIOUS
  <2>4. g[k] = p[1] /\ h[k] = p[2]
    BY <1>1, <2>2, <2>3
  <2> QED BY <2>3, <2>4
<1>9. DOMAIN a = 1..Len(a) /\ Len(a) \in Nat
  BY <1>2
<1>10. \A k, l \in DOMAIN a : g[k] = g[l] => k = l
  <2> SUFFICES ASSUME NEW k \in DOMAIN a, NEW l \in DOMAIN a, g[k] = g[l], k # l PROVE FALSE
    OBVIOUS
  <2>1. k < l \/ l < k
    BY <1>9
  <2>2. g[k] \in Int /\ ~ (g[k] < g[l]) /\ ~ (g[l] < g[k])
    OBVIOUS
  <2> QED BY <1>6, <2>1, <2>2
<1>11. IsFiniteSet(S) /\ Cardinality(S) = Len(a)
  <2>1. f \in [1..Len(a) -> S]
    <3> HIDE DEF S
    <3> QED BY <1>7, <1>9
  <2>2. \A k, l \in 1..Len(a) : f[k] = f[l] => k = l
    BY <1>9, <1>10
  <2>3. \A p \in S : \E k \in 1..Len(a) : f[k] = p
    <3> HIDE DEF S
    <3> QED BY <1>8, <1>9
  <2> HIDE DEF S, f
  <2> QED BY <1>9, <2>1, <2>2, <2>3, ListedOnce
<1>12. S \in Alignments(rc, nc, ok)
  <2>1. \A p \in S : p \in (1..m) \X (1..n) /\ <<rc[p[1]], nc[p[2]]>> \in ok
    BY <1>2
  <2>2. \A p, q \in S : p # q => \/ (p[1] < q[1] /\ p[2] < q[2])
                                 \/ (q[1] < p[1] /\ q[2] < p[2])
    <3> SUFFICES ASSUME NEW p \in S, NEW q \in S, p # q
                 PROVE  \/ (p[1] < q[1] /\ p[2] < q[2])
                        \/ (q[1] < p[1] /\ q[2] < p[2])
      OBVIOUS
    <3>1. PICK k \in DOMAIN a : p = <<g[k], h[k]>>
      BY <1>8
    <3>2. PICK l \in DOMAIN a : q = <<g[l], h[l]>>
      BY <1>8
    <3>3. k < l \/ l < k
      BY <1>9, <3>1, <3>2
    <3>4. p[1] = g[k] /\ p[2] = h[k] /\ q[1] = g[l] /\ q[2] = h[l]
      BY <3>1, <3>2
    <3> QED BY <1>6, <3>3, <3>4
  <2> HIDE DEF S
  <2> QED BY <2>1, <2>2 DEF Alignments, m, n
<1> QED BY <1>5, <1>11, <1>12 DEF IsLongestAlignment, a, m, n

\* Whenever the search aligns the callees of two functions, it pairs as many of them
\* as can be paired in call order, although size compatibility is not transitive
\* (_lcs_align).
THEOREM AlignmentsAreLongest == Spec => []AlignmentOptimal
<1>1. MatchInv => AlignmentOptimal
  <2> SUFFICES ASSUME MatchInv, phase = "bfs", queue # <<>> PROVE AlignmentOptimal
    BY DEF AlignmentOptimal
  <2> DEFINE rc == Callees(world.ref, Head(queue)[1])
             nc == Callees(world.new, Head(queue)[2])
             ok == Compatible(world.ref, world.new, rc, nc, 4)
  <2>1. IsRom(world.ref) /\ IsRom(world.new)
    BY WorldRoms DEF MatchInv, ClaimsInv
  <2>2. /\ rc \in Seq(Nat) /\ \A i, j \in DOMAIN rc : rc[i] = rc[j] => i = j
        /\ nc \in Seq(Nat) /\ \A i, j \in DOMAIN nc : nc[i] = nc[j] => i = j
    BY <2>1, CalleeList
  <2> HIDE DEF rc, nc, ok
  <2>3. IsLongestAlignment(rc, nc, ok)
    BY <2>2, LongestAlignment
  <2> QED BY <2>3 DEF AlignmentOptimal, rc, nc, ok
<1> QED BY <1>1, MatchInvariant, PTL
-----------------------------------------------------------------------------
\* The aligned and similar callees of a pair of functions.
Successors(p) ==
  LET a == AlignCallees(world.ref, world.new, p[1], p[2], 4)
  IN {a[k] : k \in DOMAIN a} \cap world.similar

\* What the search finds at the head of its queue.
Fresh ==
  IF Head(queue)[3] >= MaxBfsDepth THEN <<>> ELSE Discovered(Head(queue)[1], Head(queue)[2])

\* The search finds every successor of the head that it has not marked, each once,
\* unless the head is as deep as it goes.
LEMMA BfsPicks ==
  ASSUME ClaimsInv
  PROVE  /\ Fresh \in Seq(Nat \X Nat)
         /\ \A k \in DOMAIN Fresh : /\ Fresh[k] \in world.ref.entries \X world.new.entries
                                   /\ Fresh[k] \notin marked
         /\ {Fresh[k] : k \in DOMAIN Fresh} =
              IF Head(queue)[3] >= MaxBfsDepth THEN {}
              ELSE Successors(<<Head(queue)[1], Head(queue)[2]>>) \ marked
         /\ \A k, l \in DOMAIN Fresh : k # l => Fresh[k] # Fresh[l]
<1> DEFINE r == Head(queue)[1]
           n == Head(queue)[2]
<1>1. CASE Head(queue)[3] >= MaxBfsDepth
  <2>1. Fresh = <<>>
    BY <1>1 DEF Fresh
  <2>2. <<>> \in Seq(Nat \X Nat) /\ DOMAIN <<>> = {}
    OBVIOUS
  <2> QED BY <1>1, <2>1, <2>2
<1>2. CASE ~(Head(queue)[3] >= MaxBfsDepth)
  <2> DEFINE b == AlignCallees(world.ref, world.new, r, n, 4)
             T == world.similar \ marked
  <2>1. Fresh = Filter(b, T)
    BY <1>2 DEF Fresh, Discovered
  <2>2. IsRom(world.ref) /\ IsRom(world.new)
    BY WorldRoms DEF ClaimsInv
  <2>3. /\ Fresh \in Seq(Nat \X Nat)
        /\ \A k \in DOMAIN Fresh : Fresh[k] \in T /\ Fresh[k] \in world.ref.entries \X world.new.entries
        /\ {Fresh[k] : k \in DOMAIN Fresh} = {b[k] : k \in DOMAIN b} \cap T
        /\ \A k, l \in DOMAIN Fresh : k # l => Fresh[k][1] # Fresh[l][1]
    <3>1. PicksOnce(Filter(b, T), b, T, world.ref, world.new)
      <4> HIDE DEF T
      <4> QED BY <2>2, AlignedOnce
    <3> HIDE DEF b, T
    <3> QED BY <2>1, <3>1 DEF PicksOnce
  <2>4. Successors(<<r, n>>) = {b[k] : k \in DOMAIN b} \cap world.similar
    BY DEF Successors
  <2>5. {b[k] : k \in DOMAIN b} \cap T = ({b[k] : k \in DOMAIN b} \cap world.similar) \ marked
    <3> HIDE DEF b
    <3> QED OBVIOUS
  <2>6. {Fresh[k] : k \in DOMAIN Fresh} = Successors(<<r, n>>) \ marked
    <3> HIDE DEF b, T, r, n
    <3> QED BY <2>3, <2>4, <2>5
  <2>7. \A k, l \in DOMAIN Fresh : k # l => Fresh[k] # Fresh[l]
    BY <2>3
  <2>8. \A k \in DOMAIN Fresh : Fresh[k] \notin marked
    BY <2>3
  <2> QED BY <1>2, <2>3, <2>6, <2>7, <2>8
<1> QED BY <1>1, <1>2

\* One step of the search.
LEMMA BfsStep ==
  ASSUME BfsExpand
  PROVE  /\ phase = "bfs" /\ queue # <<>>
         /\ marked' = marked \cup {Fresh[k] : k \in DOMAIN Fresh}
         /\ queue' = Tail(queue) \o [k \in DOMAIN Fresh |-> <<Fresh[k][1], Fresh[k][2], Head(queue)[3] + 1>>]
         /\ UNCHANGED <<world, phase, anchors, vt, gapRef, gapNew, gap, callers, changed, matches>>
BY DEF BfsExpand, Fresh
-----------------------------------------------------------------------------
\* The search and the gap filling keep their types: the queue holds marked pairs
\* within the bound, every taken function was taken by a match, and the callers
\* of a pass are functions of the reference.
TypeInv ==
  /\ queue \in Seq(Nat \X Nat \X (0..MaxBfsDepth)) /\ marked \subseteq Nat \X Nat
  /\ \A i \in DOMAIN queue : <<queue[i][1], queue[i][2]>> \in marked
  /\ changed \in BOOLEAN
  /\ gapRef \in [DOMAIN gapRef -> gapNew] /\ DOMAIN gapRef \subseteq Nat /\ gapNew \subseteq Nat
  /\ callers \in Seq(world.ref.entries)
  /\ matches \subseteq MatchedFunction

\* A list of claims names functions by address.
LEMMA ClaimFields ==
  ASSUME NEW q, ClaimList(q)
  PROVE  \A i \in DOMAIN q : q[i] \in MatchedFunction /\ q[i].ref \in Nat /\ q[i].new \in Nat
<1>1. \A i \in DOMAIN q : q[i] \in MatchedFunction
  BY DEF ClaimList
<1>2. \A m \in MatchedFunction : m.ref \in Nat /\ m.new \in Nat
  BY DEF MatchedFunction
<1> QED BY <1>1, <1>2

\* The last match of a function with a match.
LEMMA LastMatchOfList ==
  ASSUME NEW q, ClaimList(q), NEW i \in DOMAIN q
  PROVE  LastMatch(q, q[i].ref) \in {q[k].new : k \in DOMAIN q}
<1> DEFINE r == q[i].ref
           T == {k \in DOMAIN q : q[k].ref = r}
<1>1. DOMAIN q = 1..Len(q) /\ Len(q) \in Nat
  BY DEF ClaimList
<1>2. T \in SUBSET Nat /\ i \in T /\ \A t \in T : t <= Len(q)
  BY <1>1
<1>3. PICK m \in T : \A t \in T : t <= m
  <2> HIDE DEF T
  <2> QED BY <1>1, <1>2, GreatestNat
<1>4. \E k \in DOMAIN q : q[k].ref = r /\ \A j \in DOMAIN q : q[j].ref = r => j <= k
  BY <1>3
<1> HIDE DEF r
<1>5. LastMatch(q, r) \in {q[k].new : k \in DOMAIN q}
  BY <1>4 DEF LastMatch
<1> QED BY <1>5 DEF r

\* A pass begins with the reference's functions.
LEMMA CallerOrderList ==
  ASSUME ClaimsInv
  PROVE  /\ CallerOrder \in Seq(world.ref.entries) /\ Len(CallerOrder) = Cardinality(world.ref.entries)
         /\ \A e \in world.ref.entries : \E p \in DOMAIN CallerOrder : CallerOrder[p] = e
<1>1. world.ref.entries \in SUBSET Int /\ IsFiniteSet(world.ref.entries)
  BY WorldRoms DEF ClaimsInv, IsRom
<1> QED BY <1>1, SortedList DEF CallerOrder

LEMMA BootstrapType ==
  ASSUME ClaimsInv, TypeInv, Bootstrap, ClaimList(anchors')
  PROVE  TypeInv'
<1>1. /\ queue' = [i \in DOMAIN anchors' |-> <<anchors'[i].ref, anchors'[i].new, 0>>]
      /\ marked' = {<<anchors'[i].ref, anchors'[i].new>> : i \in DOMAIN anchors'}
      /\ UNCHANGED <<world, gapRef, gapNew, callers, changed, matches>>
  BY DEF Bootstrap
<1>2. \A i \in DOMAIN anchors' : anchors'[i].ref \in Nat /\ anchors'[i].new \in Nat
  BY ClaimFields
<1>3. DOMAIN anchors' = 1..Len(anchors') /\ Len(anchors') \in Nat
  BY DEF ClaimList
<1>4. queue' \in Seq(Nat \X Nat \X (0..MaxBfsDepth))
  BY <1>1, <1>2, <1>3 DEF MaxBfsDepth
<1>5. marked' \subseteq Nat \X Nat /\ \A i \in DOMAIN queue' : <<queue'[i][1], queue'[i][2]>> \in marked'
  BY <1>1, <1>2
<1> QED BY <1>1, <1>4, <1>5 DEF TypeInv

LEMMA BfsExpandType ==
  ASSUME ClaimsInv, TypeInv, BfsExpand
  PROVE  TypeInv'
<1> DEFINE d == Head(queue)[3]
           more == [k \in DOMAIN Fresh |-> <<Fresh[k][1], Fresh[k][2], d + 1>>]
           new == {Fresh[k] : k \in DOMAIN Fresh}
           Q == Nat \X Nat \X (0..MaxBfsDepth)
<1>1. /\ queue # <<>> /\ queue' = Tail(queue) \o more /\ marked' = marked \cup new
      /\ UNCHANGED <<world, gapRef, gapNew, callers, changed, matches>>
  BY BfsStep
<1>2. queue \in Seq(Q) /\ d \in 0..MaxBfsDepth
  BY <1>1 DEF TypeInv
<1>3. Fresh \in Seq(Nat \X Nat) /\ (d >= MaxBfsDepth => new = {})
  BY BfsPicks
<1> HIDE DEF d
<1>4. \A k \in DOMAIN Fresh : more[k] \in Q
  <2> SUFFICES ASSUME NEW k \in DOMAIN Fresh PROVE <<Fresh[k][1], Fresh[k][2], d + 1>> \in Q
    OBVIOUS
  <2>1. ~(d >= MaxBfsDepth)
    BY <1>3
  <2>2. d + 1 \in 0..MaxBfsDepth
    BY <1>2, <2>1 DEF MaxBfsDepth
  <2> QED BY <1>3, <2>2
<1>5. more \in Seq(Q)
  <2>1. Len(Fresh) \in Nat /\ DOMAIN Fresh = 1..Len(Fresh)
    BY <1>3
  <2> HIDE DEF Q
  <2> QED BY <1>4, <2>1
<1>6. \A k \in DOMAIN more : <<more[k][1], more[k][2]>> = Fresh[k] /\ Fresh[k] \in new
  BY <1>3
<1> HIDE DEF more, new, Q
<1>7. queue' \in Seq(Q)
  BY <1>1, <1>2, <1>5
<1>8. \A i \in DOMAIN queue' :
        \/ i + 1 \in DOMAIN queue /\ queue'[i] = queue[i + 1]
        \/ i - Len(Tail(queue)) \in DOMAIN more /\ queue'[i] = more[i - Len(Tail(queue))]
  BY <1>1, <1>2, <1>5
<1>9. \A i \in DOMAIN more : <<more[i][1], more[i][2]>> \in marked'
  <2>1. DOMAIN more = DOMAIN Fresh
    BY DEF more
  <2> QED BY <1>1, <1>6, <2>1
<1>10. \A i \in DOMAIN queue' : <<queue'[i][1], queue'[i][2]>> \in marked'
  BY <1>1, <1>8, <1>9 DEF TypeInv
<1>11. marked' \subseteq Nat \X Nat
  BY <1>1, <1>3 DEF TypeInv, new
<1> QED BY <1>1, <1>7, <1>10, <1>11 DEF TypeInv, Q
LEMMA VtDiffType ==
  ASSUME MatchInv, TypeInv, VtDiff, ClaimsInv'
  PROVE  TypeInv'
<1> DEFINE known == vt' \o anchors \o bfs
<1>1. /\ UNCHANGED <<world, anchors, bfs, queue, marked, matches>>
      /\ gapRef' = [r \in {known[i].ref : i \in DOMAIN known} |-> LastMatch(known, r)]
      /\ gapNew' = {known[i].new : i \in DOMAIN known}
      /\ callers' = CallerOrder /\ changed' = FALSE
  BY DEF VtDiff
<1>2. ClaimList(known)
  BY <1>1, ClaimListConcat DEF ClaimsInv, MatchInv
<1> HIDE DEF known
<1>3. \A r \in {known[i].ref : i \in DOMAIN known} : LastMatch(known, r) \in gapNew'
  BY <1>1, <1>2, LastMatchOfList
<1>4. DOMAIN gapRef' \subseteq Nat /\ gapNew' \subseteq Nat
  BY <1>1, <1>2, ClaimFields
<1>5. gapRef' \in [DOMAIN gapRef' -> gapNew']
  BY <1>1, <1>3
<1>6. callers' \in Seq(world'.ref.entries)
  BY <1>1, CallerOrderList DEF MatchInv
<1> QED BY <1>1, <1>4, <1>5, <1>6 DEF TypeInv

\* One caller of a pass: what is taken was taken before or is picked now.
LEMMA GapStep ==
  ASSUME ClaimsInv, TypeInv, GapFillCaller, NEW new, new = Filter(GapPairs(Head(callers)), Open)
  PROVE  /\ DOMAIN gapRef' = DOMAIN gapRef \cup {new[i][1] : i \in DOMAIN new}
         /\ gapNew' = gapNew \cup {new[i][2] : i \in DOMAIN new}
         /\ \A r \in DOMAIN gapRef : gapRef'[r] = gapRef[r]
         /\ gapRef' \in [DOMAIN gapRef' -> gapNew']
         /\ changed' = (changed \/ new # <<>>)
<1> DEFINE hit(r) == CHOOSE i \in DOMAIN new : new[i][1] = r
           D == DOMAIN gapRef \cup {new[i][1] : i \in DOMAIN new}
<1>1. /\ gapRef' = [r \in D |-> IF r \in DOMAIN gapRef THEN gapRef[r] ELSE new[hit(r)][2]]
      /\ gapNew' = gapNew \cup {new[i][2] : i \in DOMAIN new}
      /\ changed' = (changed \/ new # <<>>)
  BY DEF GapFillCaller
<1>2. \A r \in D : r \in DOMAIN gapRef => gapRef[r] \in gapNew
  BY DEF TypeInv
<1>3. \A r \in D : r \notin DOMAIN gapRef => hit(r) \in DOMAIN new
  OBVIOUS
<1> HIDE DEF hit, D
<1>4. \A r \in D : gapRef'[r] \in gapNew'
  BY <1>1, <1>2, <1>3
<1> QED BY <1>1, <1>4 DEF D

LEMMA GapFillCallerType ==
  ASSUME MatchInv, TypeInv, GapFillCaller
  PROVE  TypeInv'
<1> DEFINE new == Filter(GapPairs(Head(callers)), Open)
<1>1. /\ UNCHANGED <<world, queue, marked, matches>> /\ callers # <<>> /\ callers' = Tail(callers)
  BY DEF GapFillCaller
<1>2. PicksOnce(new, GapPairs(Head(callers)), Open, world.ref, world.new)
  BY GapPicks DEF MatchInv
<1> HIDE DEF new
<1>3. /\ DOMAIN gapRef' = DOMAIN gapRef \cup {new[i][1] : i \in DOMAIN new}
      /\ gapNew' = gapNew \cup {new[i][2] : i \in DOMAIN new}
      /\ gapRef' \in [DOMAIN gapRef' -> gapNew']
      /\ changed' = (changed \/ new # <<>>)
  BY GapStep DEF MatchInv, new
<1>4. \A i \in DOMAIN new : new[i][1] \in Nat /\ new[i][2] \in Nat
  BY <1>2 DEF PicksOnce
<1>5. DOMAIN gapRef' \subseteq Nat /\ gapNew' \subseteq Nat
  BY <1>3, <1>4 DEF TypeInv
<1>6. callers' \in Seq(world'.ref.entries)
  <2>1. callers \in Seq(world.ref.entries)
    BY DEF TypeInv
  <2> QED BY <1>1, <2>1
<1>7. changed' \in BOOLEAN
  BY <1>3
<1> QED BY <1>1, <1>3, <1>5, <1>6, <1>7 DEF TypeInv

\* The signatures add matches.
LEMMA SignatureType ==
  ASSUME NEW score, \A p \in DOMAIN score : score[p] \in 0..10,
         DOMAIN score \subseteq Nat \X Nat, NEW kept
  PROVE  RamSignatureMatches(score, kept) \subseteq MatchedFunction
<1>1. \A p \in DOMAIN score : Matched(p[1], p[2], "ram_signature", score[p]) \in MatchedFunction
  <2> SUFFICES ASSUME NEW p \in DOMAIN score
               PROVE  Matched(p[1], p[2], "ram_signature", score[p]) \in MatchedFunction
    OBVIOUS
  <2>1. p[1] \in Nat /\ p[2] \in Nat /\ score[p] \in 0..10
    OBVIOUS
  <2>2. "ram_signature" \in MatchSource
    BY DEF MatchSource
  <2> QED BY <2>1, <2>2, MatchedType
<1> QED BY <1>1 DEF RamSignatureMatches

LEMMA NextTypeInv ==
  ASSUME MatchInv, MatchInv', TypeInv, [Next]_vars
  PROVE  TypeInv'
<1>1. CASE Bootstrap
  BY <1>1, BootstrapType DEF MatchInv, ClaimsInv
<1>2. CASE BfsExpand
  BY <1>2, BfsExpandType DEF MatchInv
<1>3. CASE BfsEnd
  BY <1>3 DEF BfsEnd, TypeInv
<1>4. CASE VtDiff
  BY <1>4, VtDiffType DEF MatchInv
<1>5. CASE GapFillCaller
  BY <1>5, GapFillCallerType
<1>6. CASE GapEndPass
  <2>1. /\ UNCHANGED <<world, queue, marked, gapRef, gapNew, matches>>
        /\ callers' \in {callers, CallerOrder} /\ changed' \in {changed, FALSE}
    BY <1>6 DEF GapEndPass
  <2>2. callers' \in Seq(world.ref.entries)
    BY <2>1, CallerOrderList DEF TypeInv, MatchInv
  <2>3. changed' \in BOOLEAN
    BY <2>1 DEF TypeInv
  <2> QED BY <2>1, <2>2, <2>3 DEF TypeInv
<1>7. CASE ArbitrateClaims
  <2>1. /\ UNCHANGED <<world, queue, marked, gapRef, gapNew, callers, changed>>
        /\ matches' = Arbitrate(Claims)
    BY <1>7 DEF ArbitrateClaims
  <2>2. BestByNew(Claims, BestByRef(Claims)) \subseteq DOMAIN Claims
    BY DEF BestByNew, BestByRef
  <2>3. \A i \in DOMAIN Claims : Claims[i] \in MatchedFunction
    BY ClaimsType, ClaimFields DEF MatchInv
  <2>4. matches' \subseteq MatchedFunction
    BY <2>1, <2>2, <2>3 DEF Arbitrate
  <2> QED BY <2>1, <2>4 DEF TypeInv
<1>8. CASE AddSignatures
  <2>1. PICK s \in SigScores : matches' = matches \cup RamSignatureMatches(s, matches)
    BY <1>8 DEF AddSignatures
  <2>2. UNCHANGED <<world, queue, marked, gapRef, gapNew, callers, changed>>
    BY <1>8 DEF AddSignatures
  <2>3. RamSignatureMatches(s, matches) \subseteq MatchedFunction
    BY MatchingAssumption, SignatureType
  <2>4. matches' \subseteq MatchedFunction
    BY <2>1, <2>3 DEF TypeInv
  <2> QED BY <2>2, <2>4 DEF TypeInv
<1>9. CASE Returned \/ UNCHANGED vars
  BY <1>9 DEF Returned, vars, TypeInv
<1> QED
  BY <1>1, <1>2, <1>3, <1>4, <1>5, <1>6, <1>7, <1>8, <1>9 DEF Next, GapFill

THEOREM TypeInvariant == Spec => [](MatchInv /\ TypeInv)
<1>1. Init => TypeInv
  <2> SUFFICES ASSUME Init PROVE TypeInv
    OBVIOUS
  <2>1. /\ queue = <<>> /\ marked = {} /\ changed = FALSE /\ gapRef = << >> /\ gapNew = {}
        /\ callers = <<>> /\ matches = {}
    BY DEF Init
  <2>2. \A S : <<>> \in Seq(S) /\ DOMAIN <<>> = {} /\ << >> \in [{} -> S]
    OBVIOUS
  <2> QED BY <2>1, <2>2 DEF TypeInv
<1>2. MatchInv /\ MatchInv' /\ TypeInv /\ [Next]_vars => TypeInv'
  BY NextTypeInv
<1> QED BY <1>1, <1>2, MatchInvariant, PTL DEF Spec

\* Every phase's result is a list of matches, all that is queued is marked and
\* within the depth bound, and what gap filling has taken are functions
\* (match_reference's lists, bfs_preseed's queue, gap_fill's dict and set).
THEOREM MatchingTypes == Spec => []TypeOK
<1>1. MatchInv /\ TypeInv => TypeOK
  <2> SUFFICES ASSUME MatchInv, TypeInv PROVE TypeOK
    OBVIOUS
  <2>1. /\ phase \in Phases /\ changed \in BOOLEAN
        /\ \A q \in {anchors, bfs, vt, gap} : q \in Seq(MatchedFunction)
    BY DEF MatchInv, ClaimsInv, TypeInv, ClaimList
  <2>2. Claims \in Seq(MatchedFunction)
    BY ClaimsType DEF MatchInv, ClaimList
  <2>3. \A i \in DOMAIN queue : queue[i] \in Nat \X Nat \X (0..MaxBfsDepth)
    BY DEF TypeInv
  <2> QED BY <2>1, <2>2, <2>3 DEF TypeInv, TypeOK
<1> QED BY <1>1, TypeInvariant, PTL
-----------------------------------------------------------------------------
\* Nothing is left for a caller: no two similar callees that align are both free.
Settled(c) == Filter(GapPairs(c), Open) = <<>>

\* As long as a pass has added nothing, the callers it has been through are settled:
\* what they were checked against has not changed since.
PassInv ==
  /\ phase = "gap" /\ ~changed =>
       \A c \in world.ref.entries : (\A i \in DOMAIN callers : callers[i] # c) => Settled(c)
  /\ phase = "arbitrate" => \A c \in world.ref.entries : Settled(c)

LEMMA SettledSame ==
  ASSUME UNCHANGED <<world, gapRef, gapNew>>
  PROVE  \A c : Settled(c) => Settled(c)'
BY DEF Settled, GapPairs, Open

\* What is no function calls nothing.
LEMMA StrangerSettled ==
  ASSUME ClaimsInv, NEW c, c \notin world.ref.entries
  PROVE  Settled(c)
<1> DEFINE b == GapPairs(c)
           new == Filter(b, Open)
<1>1. DOMAIN b = {}
  <2>1. CASE c \in DOMAIN gapRef
    <3> DEFINE rc == Callees(world.ref, c)
               nc == Callees(world.new, gapRef[c])
               ok == Compatible(world.ref, world.new, rc, nc, 5)
    <3>1. IsRom(world.ref) /\ IsRom(world.new)
      BY WorldRoms DEF ClaimsInv
    <3>2. rc \in Seq(Nat) /\ rc = <<>>
      BY <3>1, CalleeList
    <3>3. nc \in Seq(Nat)
      BY <3>1, CalleeList
    <3>4. b = LcsAlign(rc, nc, ok)
      BY <2>1 DEF GapPairs, AlignCallees
    <3> HIDE DEF b, rc, nc, ok
    <3>5. InCallOrder(b, rc, nc)
      BY <3>2, <3>3, <3>4, AlignmentInOrder DEF IsAlignment
    <3>6. PICK g : g \in [DOMAIN b -> 1..Len(rc)]
      BY <3>5 DEF InCallOrder
    <3>7. 1..Len(rc) = {}
      BY <3>2
    <3> QED BY <3>6, <3>7
  <2>2. CASE c \notin DOMAIN gapRef
    <3>1. b = <<>>
      BY <2>2 DEF GapPairs
    <3>2. DOMAIN <<>> = {}
      OBVIOUS
    <3> HIDE DEF b
    <3> QED BY <3>1, <3>2
  <2> QED BY <2>1, <2>2
<1>2. PicksOnce(new, b, Open, world.ref, world.new)
  BY GapPicks
<1> HIDE DEF b, new
<1>3. new \in Seq(Nat \X Nat) /\ DOMAIN new = {}
  <2>1. \A k \in DOMAIN new : new[k] \in {b[j] : j \in DOMAIN b}
    BY <1>2 DEF PicksOnce
  <2> QED BY <1>1, <1>2, <2>1 DEF PicksOnce
<1>4. new = <<>>
  BY <1>3
<1> QED BY <1>4 DEF Settled, new, b

LEMMA GapFillCallerPass ==
  ASSUME MatchInv, TypeInv, PassInv, GapFillCaller
  PROVE  PassInv'
<1> DEFINE h == Head(callers)
           new == Filter(GapPairs(h), Open)
<1>1. /\ phase = "gap" /\ UNCHANGED <<world, phase>> /\ callers # <<>> /\ callers' = Tail(callers)
  BY DEF GapFillCaller
<1>2. /\ DOMAIN gapRef' = DOMAIN gapRef \cup {new[i][1] : i \in DOMAIN new}
      /\ gapNew' = gapNew \cup {new[i][2] : i \in DOMAIN new}
      /\ \A r \in DOMAIN gapRef : gapRef'[r] = gapRef[r]
      /\ gapRef' \in [DOMAIN gapRef' -> gapNew']
      /\ changed' = (changed \/ new # <<>>)
  <2> HIDE DEF new
  <2> QED BY GapStep DEF MatchInv, new, h
<1>3. Settled(h) <=> new = <<>>
  BY DEF Settled
<1> HIDE DEF new
<1>4. callers \in Seq(world.ref.entries)
  BY DEF TypeInv
<1>5. ASSUME ~changed', NEW c \in world.ref.entries, \A i \in DOMAIN callers' : callers'[i] # c
      PROVE  Settled(c)'
  <2>1. ~changed /\ new = <<>>
    BY <1>2, <1>5
  <2>2. DOMAIN new = {}
    BY <2>1
  <2>3. UNCHANGED <<world, gapRef, gapNew>>
    <3>1. DOMAIN gapRef' = DOMAIN gapRef /\ gapNew' = gapNew
      BY <1>2, <2>2
    <3>2. gapRef \in [DOMAIN gapRef -> gapNew]
      BY DEF TypeInv
    <3>3. gapRef' = gapRef
      BY <1>2, <3>1, <3>2
    <3> QED BY <1>1, <3>1, <3>3
  <2>4. Settled(c)
    <3>1. CASE c = h
      BY <1>3, <2>1, <3>1
    <3>2. CASE c # h
      <4>1. \A i \in DOMAIN callers : callers[i] # c
        <5> SUFFICES ASSUME NEW i \in DOMAIN callers PROVE callers[i] # c
          OBVIOUS
        <5>1. CASE i = 1
          BY <1>1, <1>4, <3>2, <5>1
        <5>2. CASE i # 1
          <6>1. i - 1 \in DOMAIN callers' /\ callers'[i - 1] = callers[i]
            BY <1>1, <1>4, <5>2
          <6> QED BY <1>5, <6>1
        <5> QED BY <5>1, <5>2
      <4> QED BY <1>1, <2>1, <4>1 DEF PassInv
    <3> QED BY <3>1, <3>2
  <2> QED BY <2>3, <2>4, SettledSame
<1> QED BY <1>1, <1>5 DEF PassInv

LEMMA NextPassInv ==
  ASSUME MatchInv, TypeInv, PassInv, [Next]_vars
  PROVE  PassInv'
<1>1. CASE VtDiff
  <2>1. UNCHANGED world /\ callers' = CallerOrder /\ phase' = "gap"
    BY <1>1 DEF VtDiff
  <2>2. \A c \in world.ref.entries : \E i \in DOMAIN callers' : callers'[i] = c
    BY <2>1, CallerOrderList DEF MatchInv
  <2> QED BY <2>1, <2>2 DEF PassInv
<1>2. CASE GapEndPass
  <2>1. phase = "gap" /\ callers = <<>> /\ UNCHANGED <<world, gapRef, gapNew>>
    BY <1>2 DEF GapEndPass
  <2>2. CASE changed
    <3>1. phase' = "gap" /\ callers' = CallerOrder
      BY <1>2, <2>1, <2>2 DEF GapEndPass
    <3>2. \A c \in world.ref.entries : \E i \in DOMAIN callers' : callers'[i] = c
      BY <3>1, CallerOrderList DEF MatchInv
    <3> QED BY <2>1, <3>1, <3>2 DEF PassInv
  <2>3. CASE ~changed
    <3>1. phase' = "arbitrate"
      BY <1>2, <2>3 DEF GapEndPass
    <3>2. \A c \in world.ref.entries : Settled(c)
      <4>1. DOMAIN callers = {}
        BY <2>1
      <4> QED BY <2>1, <2>3, <4>1 DEF PassInv
    <3>3. \A c \in world'.ref.entries : Settled(c)'
      BY <2>1, <3>2, SettledSame
    <3> QED BY <3>1, <3>3 DEF PassInv
  <2> QED BY <2>2, <2>3
<1>3. CASE Returned \/ UNCHANGED vars
  <2>1. UNCHANGED <<world, phase, gapRef, gapNew, callers, changed>>
    BY <1>3 DEF Returned, vars
  <2> QED BY <2>1, SettledSame DEF PassInv
<1>4. CASE Bootstrap \/ BfsExpand \/ BfsEnd \/ ArbitrateClaims \/ AddSignatures
  <2>1. phase' \in {"bfs", "vt", "signatures", "done"}
    BY <1>4 DEF Bootstrap, BfsExpand, BfsEnd, ArbitrateClaims, AddSignatures
  <2> QED BY <2>1 DEF PassInv
<1> QED BY <1>1, <1>2, <1>3, <1>4, GapFillCallerPass DEF Next, GapFill

THEOREM PassInvariant == Spec => [](MatchInv /\ TypeInv /\ PassInv)
<1>1. Init => PassInv
  BY DEF Init, PassInv
<1>2. MatchInv /\ TypeInv /\ PassInv /\ [Next]_vars => PassInv'
  BY NextPassInv
<1> QED BY <1>1, <1>2, TypeInvariant, PTL DEF Spec

\* Gap filling ends at a fixed point: when it stops, no matched caller has two
\* similar callees left that align and are both free (gap_fill's changed flag).
THEOREM GapFillingCloses == Spec => []GapClosed
<1>1. MatchInv /\ PassInv => GapClosed
  BY StrangerSettled DEF MatchInv, PassInv, GapClosed, Settled
<1> QED BY <1>1, PassInvariant, PTL
-----------------------------------------------------------------------------
\* What is left to do while the search runs, and while gap filling does.
BfsWork == Len(queue) + 2 * Cardinality((world.ref.entries \X world.new.entries) \ marked)

Pass == Cardinality(world.ref.entries) + 1

GapWork ==
  Len(callers) + (IF changed THEN Pass ELSE 0)
    + Pass * Cardinality(world.ref.entries \ DOMAIN gapRef)

PhaseSteps ==
  {<<"bootstrap", "bfs">>, <<"bfs", "vt">>, <<"vt", "gap">>, <<"gap", "arbitrate">>,
   <<"arbitrate", "signatures">>, <<"signatures", "done">>}

\* To expand a pair takes it off the queue, and puts there no more pairs than the
\* search may not mark again.
LEMMA BfsProgress ==
  ASSUME MatchInv, TypeInv, BfsExpand
  PROVE  BfsWork' < BfsWork
<1> DEFINE E == world.ref.entries \X world.new.entries
           n == Len(Fresh)
           more == [k \in DOMAIN Fresh |-> <<Fresh[k][1], Fresh[k][2], Head(queue)[3] + 1>>]
           x == Cardinality(E \ marked)
           y == Cardinality(E \ marked')
<1>1. /\ queue # <<>> /\ queue' = Tail(queue) \o more /\ UNCHANGED world
      /\ marked' = marked \cup {Fresh[k] : k \in DOMAIN Fresh}
  BY BfsStep
<1>2. /\ Fresh \in Seq(Nat \X Nat) /\ DOMAIN Fresh = 1..n /\ n \in Nat
      /\ \A k \in DOMAIN Fresh : Fresh[k] \in E /\ Fresh[k] \notin marked
      /\ \A k, l \in DOMAIN Fresh : k # l => Fresh[k] # Fresh[l]
  BY BfsPicks DEF MatchInv
<1>3. IsFiniteSet(E)
  <2>1. IsFiniteSet(world.ref.entries) /\ IsFiniteSet(world.new.entries)
    BY WorldRoms DEF MatchInv, ClaimsInv, IsRom
  <2> QED BY <2>1, FS_Product
<1>4. x \in Nat /\ y \in Nat /\ y = x - n
  <2> DEFINE M == marked
             N == marked'
  <2> HIDE DEF E, n, M, N
  <2>1. Fresh \in [1..n -> E]
    <3>1. Fresh = [k \in 1..n |-> Fresh[k]]
      BY <1>2
    <3>2. \A k \in 1..n : Fresh[k] \in E
      BY <1>2
    <3> QED BY <3>1, <3>2
  <2>2. Adds(E, M, N, n, Fresh)
    <3>1. \A k, l \in 1..n : Fresh[k] = Fresh[l] => k = l
      BY <1>2
    <3>2. \A k \in 1..n : Fresh[k] \notin M
      BY <1>2 DEF M
    <3>3. N = M \cup {Fresh[k] : k \in 1..n}
      BY <1>1, <1>2 DEF M, N
    <3> QED BY <1>2, <2>1, <3>1, <3>2, <3>3 DEF Adds
  <2>3. /\ Cardinality(E \ M) \in Nat /\ Cardinality(E \ N) \in Nat
        /\ Cardinality(E \ N) = Cardinality(E \ M) - n
    BY <1>3, <2>2, TakenAway
  <2> QED BY <2>3 DEF M, N
<1>5. Len(queue') = Len(queue) - 1 + n /\ Len(queue) \in Nat
  <2>1. Len(more) = n /\ more \in Seq(Nat \X Nat \X Int)
    <3>1. Head(queue)[3] + 1 \in Int
      BY <1>1 DEF TypeInv
    <3> HIDE DEF n
    <3> QED BY <1>2, <3>1
  <2>2. queue \in Seq(Nat \X Nat \X (0..MaxBfsDepth))
    BY DEF TypeInv
  <2> HIDE DEF more, n
  <2>3. Len(Tail(queue)) = Len(queue) - 1 /\ Len(queue) \in Nat
    BY <1>1, <2>2
  <2>4. Len(queue') = Len(Tail(queue)) + Len(more)
    <3> DEFINE S == Nat \X Nat \X (0..MaxBfsDepth)
               T == Nat \X Nat \X Int
    <3>1. Tail(queue) \in Seq(S) /\ more \in Seq(T)
      BY <1>1, <2>1, <2>2
    <3> HIDE DEF S, T
    <3>2. Tail(queue) \in Seq(S \cup T) /\ more \in Seq(S \cup T)
      BY <3>1
    <3> QED BY <1>1, <3>2
  <2> QED BY <2>1, <2>3, <2>4
<1>6. BfsWork = Len(queue) + 2 * x /\ BfsWork' = Len(queue') + 2 * y
  BY <1>1 DEF BfsWork
<1> HIDE DEF x, y, n, E
<1> QED BY <1>2, <1>4, <1>5, <1>6

\* Fewer passes are left by at least one whole pass.
LEMMA PassSpent ==
  ASSUME NEW p \in Nat, NEW a \in Nat, NEW k \in 1..a
  PROVE  p * (a - k) + p <= p * a /\ p * (a - k) \in Nat
<1> DEFINE b == a - k
<1>1. b \in Nat /\ k \in Nat /\ k - 1 \in Nat /\ a = b + 1 + (k - 1)
  OBVIOUS
<1> HIDE DEF b
<1>2. p * (k - 1) \in Nat /\ p * b \in Nat
  BY <1>1
<1>3. p * (b + 1 + (k - 1)) = p * b + p + p * (k - 1)
  BY <1>1
<1> QED BY <1>1, <1>2, <1>3 DEF b

\* A caller for which something is found costs at most the pass that it causes.
LEMMA GapProgress ==
  ASSUME MatchInv, TypeInv, GapFillCaller
  PROVE  GapWork' < GapWork
<1> DEFINE E == world.ref.entries
           new == Filter(GapPairs(Head(callers)), Open)
           n == Len(new)
           f == [k \in 1..n |-> new[k][1]]
           a == Cardinality(E \ DOMAIN gapRef)
           b == Cardinality(E \ DOMAIN gapRef')
<1>1. /\ UNCHANGED world /\ callers # <<>> /\ callers' = Tail(callers)
  BY DEF GapFillCaller
<1>3. /\ DOMAIN gapRef' = DOMAIN gapRef \cup {new[i][1] : i \in DOMAIN new}
      /\ changed' = (changed \/ new # <<>>)
  <2> HIDE DEF new
  <2> QED BY GapStep DEF MatchInv, new
<1>4. /\ new \in Seq(Nat \X Nat) /\ DOMAIN new = 1..n /\ n \in Nat
      /\ \A k \in DOMAIN new : new[k] \in Open /\ new[k] \in E \X world.new.entries
      /\ \A k, l \in DOMAIN new : k # l => new[k][1] # new[l][1]
  BY GapPicks DEF MatchInv, PicksOnce
<1> HIDE DEF new
<1>5. \A k \in DOMAIN new : new[k][1] \notin DOMAIN gapRef /\ new[k][1] \in E
  BY <1>4 DEF Open
<1>6. IsFiniteSet(E) /\ Pass \in Nat /\ Pass = Cardinality(E) + 1
  <2>1. IsFiniteSet(E)
    BY WorldRoms DEF MatchInv, ClaimsInv, IsRom
  <2> QED BY <2>1, FS_CardinalityType DEF Pass
<1>7. a \in Nat /\ b \in Nat /\ b = a - n
  <2> HIDE DEF E, n
  <2>1. f \in [1..n -> E] /\ \A k \in 1..n : f[k] \notin DOMAIN gapRef
    BY <1>4, <1>5
  <2>2. \A k, l \in 1..n : f[k] = f[l] => k = l
    BY <1>4
  <2>3. DOMAIN gapRef' = DOMAIN gapRef \cup {f[k] : k \in 1..n}
    BY <1>3, <1>4
  <2> DEFINE M == DOMAIN gapRef
             N == DOMAIN gapRef'
  <2> HIDE DEF f, M, N
  <2>4. Adds(E, M, N, n, f)
    BY <1>4, <2>1, <2>2, <2>3 DEF M, N, Adds
  <2>5. /\ Cardinality(E \ M) \in Nat /\ Cardinality(E \ N) \in Nat
        /\ Cardinality(E \ N) = Cardinality(E \ M) - n
    BY <1>6, <2>4, TakenAway
  <2> QED BY <2>5 DEF M, N
<1>8. Len(callers') = Len(callers) - 1 /\ Len(callers) \in Nat /\ Len(callers') \in Nat
  <2>1. callers \in Seq(E)
    BY DEF TypeInv
  <2> HIDE DEF E
  <2> QED BY <1>1, <2>1
<1>9. /\ GapWork = Len(callers) + (IF changed THEN Pass ELSE 0) + Pass * a
      /\ GapWork' = Len(callers') + (IF changed' THEN Pass ELSE 0) + Pass * b
  BY <1>1 DEF GapWork, Pass
<1>10. Pass * a \in Nat /\ Pass * b \in Nat
  BY <1>6, <1>7
<1> HIDE DEF E, a, b
<1>11. CASE new = <<>>
  <2>1. n = 0
    BY <1>11
  <2>2. b = a /\ changed' = changed
    BY <1>3, <1>7, <1>11, <2>1 DEF TypeInv
  <2> HIDE DEF n
  <2> QED BY <1>6, <1>8, <1>9, <1>10, <2>2
<1>12. CASE new # <<>>
  <2>1. n \in 1..a
    <3>1. n # 0
      BY <1>4, <1>12
    <3> HIDE DEF n
    <3> QED BY <1>4, <1>7, <3>1
  <2> HIDE DEF n
  <2>2. Pass * b + Pass <= Pass * a
    BY <1>6, <1>7, <2>1, PassSpent
  <2>3. changed'
    BY <1>3, <1>12
  <2> QED BY <1>6, <1>8, <1>9, <1>10, <2>2, <2>3
<1> QED BY <1>11, <1>12

\* A pass that has added something costs the one it promised.
LEMMA NextPassProgress ==
  ASSUME MatchInv, TypeInv, GapEndPass, changed
  PROVE  phase = "gap" /\ phase' = phase /\ GapWork' < GapWork
<1> DEFINE c == Cardinality(world.ref.entries)
           a == Cardinality(world.ref.entries \ DOMAIN gapRef)
<1>1. /\ UNCHANGED <<world, gapRef>> /\ phase = "gap" /\ phase' = phase
      /\ callers = <<>> /\ callers' = CallerOrder /\ ~changed'
  BY DEF GapEndPass
<1>2. Len(callers) = 0 /\ Len(callers') = c
  BY <1>1, CallerOrderList DEF MatchInv
<1>3. c \in Nat /\ a \in Nat
  <2>1. IsFiniteSet(world.ref.entries)
    BY WorldRoms DEF MatchInv, ClaimsInv, IsRom
  <2>2. IsFiniteSet(world.ref.entries \ DOMAIN gapRef)
    BY <2>1, FS_Difference
  <2> QED BY <2>1, <2>2, FS_CardinalityType
<1>4. GapWork = 0 + (c + 1) + (c + 1) * a /\ GapWork' = c + 0 + (c + 1) * a
  BY <1>1, <1>2 DEF GapWork, Pass
<1> HIDE DEF c, a
<1>5. (c + 1) * a \in Nat
  BY <1>3
<1> QED BY <1>1, <1>3, <1>4, <1>5

\* Matching ends: no step but the last repeats itself, since each begins the next
\* phase or leaves less to do in its own (bfs_preseed's matched set, gap_fill's
\* changed flag).
THEOREM MatchingProgresses == Spec => EveryStepProgresses
<1> DEFINE Progress == \/ phase' = phase /\ Work' < Work
                       \/ <<phase, phase'>> \in PhaseSteps
<1>1. ASSUME MatchInv, TypeInv, [Next]_vars
      PROVE  [Progress]_vars
  <2>1. CASE BfsExpand
    <3>1. phase = "bfs" /\ phase' = "bfs"
      BY <2>1 DEF BfsExpand
    <3>2. Work = BfsWork /\ Work' = BfsWork'
      BY <3>1 DEF Work, BfsWork
    <3>3. BfsWork' < BfsWork
      BY <1>1, <2>1, BfsProgress
    <3> QED BY <3>1, <3>2, <3>3
  <2>2. CASE GapFillCaller \/ (GapEndPass /\ changed)
    <3>1. phase = "gap" /\ phase' = "gap" /\ GapWork' < GapWork
      <4>1. CASE GapFillCaller
        BY <1>1, <4>1, GapProgress DEF GapFillCaller
      <4>2. CASE GapEndPass /\ changed
        BY <1>1, <4>2, NextPassProgress
      <4> QED BY <2>2, <4>1, <4>2
    <3>2. Work = GapWork /\ Work' = GapWork'
      BY <3>1 DEF Work, GapWork, Pass
    <3> QED BY <3>1, <3>2
  <2>3. CASE \/ Bootstrap \/ BfsEnd \/ VtDiff \/ ArbitrateClaims \/ AddSignatures
             \/ (GapEndPass /\ ~changed)
    <3>1. <<phase, phase'>> \in PhaseSteps
      BY <2>3 DEF Bootstrap, BfsEnd, VtDiff, ArbitrateClaims, AddSignatures, GapEndPass, PhaseSteps
    <3> QED BY <3>1
  <2>4. CASE Returned \/ UNCHANGED vars
    BY <2>4 DEF Returned
  <2> HIDE DEF Progress
  <2> QED BY <1>1, <2>1, <2>2, <2>3, <2>4 DEF Next, GapFill
<1>2. MatchInv /\ TypeInv /\ [Next]_vars =>
        [\/ phase' = phase /\ Work' < Work
         \/ <<phase, phase'>> \in {<<"bootstrap", "bfs">>, <<"bfs", "vt">>, <<"vt", "gap">>,
                                  <<"gap", "arbitrate">>, <<"arbitrate", "signatures">>,
                                  <<"signatures", "done">>}]_vars
  BY <1>1 DEF PhaseSteps
<1> QED BY <1>2, TypeInvariant, PTL DEF Spec, EveryStepProgresses
-----------------------------------------------------------------------------
\* The pairs within d aligned calls of an anchor, for d up to the bound.
AnchorPairs == {<<anchors[i].ref, anchors[i].new>> : i \in DOMAIN anchors}

Grow(S) == S \cup UNION {Successors(p) : p \in S}

Near(d) ==
  IF d = 0 THEN AnchorPairs
  ELSE IF d = 1 THEN Grow(AnchorPairs)
  ELSE IF d = 2 THEN Grow(Grow(AnchorPairs))
  ELSE Grow(Grow(Grow(AnchorPairs)))

\* How deep the next pair to be expanded is.
FrontDepth == IF queue = <<>> THEN MaxBfsDepth ELSE Head(queue)[3]

PairAt(i) == <<queue[i][1], queue[i][2]>>

Queued(p) == \E i \in DOMAIN queue : PairAt(i) = p

\* The search goes level by level.  The queue is ordered by depth, over two levels at
\* most, and a pair is no nearer to an anchor than its depth.  All pairs as near as the
\* front are marked, and what is marked but not queued has its successors marked.
FrontInv ==
  /\ \A i, j \in DOMAIN queue : i < j => queue[i][3] <= queue[j][3]
  /\ \A i \in DOMAIN queue : queue[i][3] <= FrontDepth + 1
  /\ \A i \in DOMAIN queue : PairAt(i) \in Near(queue[i][3])
  /\ \A i \in DOMAIN queue : queue[i][3] = FrontDepth + 1 => PairAt(i) \notin Near(FrontDepth)
  /\ marked \subseteq Near(MaxBfsDepth) /\ Near(FrontDepth) \subseteq marked
  /\ FrontDepth < MaxBfsDepth => \A p \in marked : Queued(p) \/ Successors(p) \subseteq marked

SearchInv ==
  /\ phase = "bfs" => FrontInv
  /\ phase = "vt" => marked = Near(MaxBfsDepth)

\* Each level adds the successors of the one before, and none if there is no anchor.
Levels ==
  /\ Near(0) = AnchorPairs
  /\ \A d \in 0..2 : Near(d + 1) = Near(d) \cup UNION {Successors(p) : p \in Near(d)}
  /\ \A d \in 0..3 : Near(0) \subseteq Near(d) /\ Near(d) \subseteq Near(3)
  /\ Near(0) = {} => Near(3) = {}

LEMMA NearLevels == Levels
<1>1. \A S : Grow(S) = S \cup UNION {Successors(p) : p \in S} /\ S \subseteq Grow(S)
  BY DEF Grow
<1>2. /\ Near(0) = AnchorPairs /\ Near(1) = Grow(Near(0))
      /\ Near(2) = Grow(Near(1)) /\ Near(3) = Grow(Near(2))
  BY DEF Near
<1>3. \A d \in 0..2 : d = 0 \/ d = 1 \/ d = 2
  OBVIOUS
<1>4. \A d \in 0..2 : Near(d + 1) = Grow(Near(d))
  <2>1. 0 + 1 = 1 /\ 1 + 1 = 2 /\ 2 + 1 = 3
    OBVIOUS
  <2> QED BY <1>2, <1>3, <2>1
<1>5. Near(0) \subseteq Near(1) /\ Near(1) \subseteq Near(2) /\ Near(2) \subseteq Near(3)
  BY <1>1, <1>2
<1>6. \A d \in 0..3 : d = 0 \/ d = 1 \/ d = 2 \/ d = 3
  OBVIOUS
<1>7. \A d \in 0..3 : Near(0) \subseteq Near(d) /\ Near(d) \subseteq Near(3)
  BY <1>5, <1>6
<1>8. Near(0) = {} => Near(3) = {}
  <2>1. Grow({}) = {}
    BY DEF Grow
  <2> QED BY <1>2, <2>1
<1> QED BY <1>1, <1>2, <1>4, <1>7, <1>8 DEF Levels

\* A set that has the anchors and the successors of its pairs has all that is near.
LEMMA ClosedHasNear ==
  ASSUME NEW M, Near(0) \subseteq M, \A p \in M : Successors(p) \subseteq M
  PROVE  Near(3) \subseteq M
<1>1. \A d \in 0..2 : Near(d) \subseteq M => Near(d + 1) \subseteq M
  BY NearLevels DEF Levels
<1>2. Near(1) \subseteq M
  BY <1>1
<1>3. Near(2) \subseteq M
  BY <1>1, <1>2
<1> QED BY <1>1, <1>3

LEMMA NearSame ==
  ASSUME UNCHANGED <<world, anchors>>
  PROVE  (\A d : Near(d)' = Near(d)) /\ (\A p : Successors(p)' = Successors(p))
BY DEF Near, Grow, AnchorPairs, Successors

LEMMA BootstrapFront ==
  ASSUME TypeInv', Bootstrap
  PROVE  FrontInv'
<1>1. /\ queue' = [i \in DOMAIN anchors' |-> <<anchors'[i].ref, anchors'[i].new, 0>>]
      /\ marked' = {<<anchors'[i].ref, anchors'[i].new>> : i \in DOMAIN anchors'}
  BY DEF Bootstrap
<1>2. /\ marked' = Near(0)' /\ Near(0)' \subseteq Near(3)'
      /\ Near(0)' = {} => Near(3)' = {}
  <2>1. AnchorPairs' = marked'
    BY <1>1 DEF AnchorPairs
  <2>2. Levels'
    BY NearLevels, PTL
  <2>3. Near(0)' = AnchorPairs' /\ (Near(0)' = {} => Near(3)' = {})
    BY <2>2 DEF Levels
  <2>4. Near(0)' \subseteq Near(3)'
    BY <2>2 DEF Levels
  <2> QED BY <2>1, <2>3, <2>4
<1>3. \A i \in DOMAIN queue' : queue'[i][3] = 0 /\ PairAt(i)' \in marked'
  BY <1>1 DEF PairAt
<1>4. \A p \in marked' : Queued(p)'
  BY <1>1 DEF Queued, PairAt
<1>5. CASE queue' = <<>>
  <2>1. marked' = {} /\ DOMAIN queue' = {}
    <3>1. DOMAIN queue' = {}
      BY <1>5
    <3> QED BY <1>4, <3>1 DEF Queued
  <2>2. FrontDepth' = 3
    BY <1>5 DEF FrontDepth, MaxBfsDepth
  <2>3. Near(3)' \subseteq marked'
    BY <1>2, <2>1
  <2> QED BY <2>1, <2>2, <2>3 DEF FrontInv, MaxBfsDepth
<1>6. CASE queue' # <<>>
  <2>1. FrontDepth' = 0
    <3>1. 1 \in DOMAIN queue' /\ Head(queue') = queue'[1]
      BY <1>6 DEF TypeInv
    <3> QED BY <1>3, <1>6, <3>1 DEF FrontDepth
  <2> QED BY <1>2, <1>3, <1>4, <2>1 DEF FrontInv, MaxBfsDepth
<1> QED BY <1>5, <1>6
\* r is q, of length L, without its head and with more at its end.
Requeued(r, q, more, L) ==
  /\ \A i \in DOMAIN r :
       \/ i < L /\ i + 1 \in DOMAIN q /\ r[i] = q[i + 1]
       \/ i >= L /\ i - (L - 1) \in DOMAIN more /\ r[i] = more[i - (L - 1)]
  /\ \A i \in 2..L : i - 1 \in DOMAIN r /\ r[i - 1] = q[i]
  /\ \A k \in DOMAIN more : L - 1 + k \in DOMAIN r /\ r[L - 1 + k] = more[k]

LEMMA TailAndMore ==
  ASSUME NEW S, NEW q \in Seq(S), q # <<>>, NEW T, NEW more \in Seq(T)
  PROVE  Requeued(Tail(q) \o more, q, more, Len(q))
<1> DEFINE L == Len(q)
           t == Tail(q)
           U == S \cup T
           r == t \o more
           n == Len(more)
<1>1. /\ t \in Seq(S) /\ Len(t) = L - 1 /\ L \in Nat \ {0} /\ DOMAIN q = 1..L
      /\ \A i \in 1..(L - 1) : t[i] = q[i + 1]
  OBVIOUS
<1>2. t \in Seq(U) /\ more \in Seq(U)
  BY <1>1
<1>3. n \in Nat /\ DOMAIN more = 1..n
  OBVIOUS
<1>4. /\ DOMAIN r = 1..(Len(t) + n)
      /\ \A i \in 1..Len(t) : r[i] = t[i]
      /\ \A k \in 1..n : r[Len(t) + k] = more[k]
  <2> HIDE DEF t, U
  <2> QED BY <1>2
<1> HIDE DEF t, U, r, L, n
<1>5. /\ DOMAIN r = 1..(L - 1 + n)
      /\ \A i \in 1..(L - 1) : r[i] = q[i + 1]
      /\ \A k \in 1..n : r[L - 1 + k] = more[k]
  BY <1>1, <1>4
<1>6. ASSUME NEW i \in DOMAIN r
      PROVE  \/ i < L /\ i + 1 \in DOMAIN q /\ r[i] = q[i + 1]
             \/ i >= L /\ i - (L - 1) \in DOMAIN more /\ r[i] = more[i - (L - 1)]
  <2>1. CASE i < L
    BY <1>1, <1>3, <1>5, <2>1
  <2>2. CASE i >= L
    <3> DEFINE k == i - (L - 1)
    <3>1. k \in 1..n /\ L - 1 + k = i
      BY <1>1, <1>3, <1>5, <2>2
    <3> QED BY <1>3, <1>5, <2>2, <3>1
  <2> QED BY <1>1, <1>3, <1>5, <2>1, <2>2
<1>7. ASSUME NEW i \in 2..L
      PROVE  i - 1 \in DOMAIN r /\ r[i - 1] = q[i]
  <2>1. i - 1 \in 1..(L - 1) /\ i - 1 + 1 = i /\ i - 1 \in DOMAIN r
    BY <1>1, <1>3, <1>5
  <2> QED BY <1>5, <2>1
<1>8. \A k \in DOMAIN more : L - 1 + k \in DOMAIN r /\ r[L - 1 + k] = more[k]
  BY <1>1, <1>3, <1>5
<1>9. Requeued(r, q, more, L)
  BY <1>6, <1>7, <1>8 DEF Requeued
<1> QED BY <1>9 DEF r, t, L

\* Pairs as queue entries.
LEMMA QueueEntries ==
  ASSUME NEW s \in Seq(Nat \X Nat), NEW e \in Int
  PROVE  LET more == [k \in DOMAIN s |-> <<s[k][1], s[k][2], e>>]
         IN /\ more \in Seq(Nat \X Nat \X Int) /\ DOMAIN more = DOMAIN s
            /\ \A k \in DOMAIN s : <<more[k][1], more[k][2]>> = s[k] /\ more[k][3] = e
OBVIOUS

LEMMA BfsExpandFront ==
  ASSUME ClaimsInv, TypeInv, TypeInv', FrontInv, BfsExpand
  PROVE  FrontInv'
<1> DEFINE d == Head(queue)[3]
           p0 == <<Head(queue)[1], Head(queue)[2]>>
           new == {Fresh[k] : k \in DOMAIN Fresh}
           L == Len(queue)
<1>1. /\ queue # <<>> /\ marked' = marked \cup new /\ UNCHANGED <<world, anchors>>
      /\ queue' = Tail(queue) \o [k \in DOMAIN Fresh |-> <<Fresh[k][1], Fresh[k][2], d + 1>>]
  BY BfsStep
<1>2. /\ queue \in Seq(Nat \X Nat \X (0..3)) /\ L \in Nat \ {0} /\ DOMAIN queue = 1..L
      /\ d \in 0..3 /\ queue[1][3] = d /\ PairAt(1) = p0 /\ Head(queue) = queue[1]
  <2>1. queue \in Seq(Nat \X Nat \X (0..3))
    BY DEF TypeInv, MaxBfsDepth
  <2>2. L \in Nat \ {0} /\ DOMAIN queue = 1..L /\ Head(queue) = queue[1]
    BY <1>1, <2>1
  <2> QED BY <2>1, <2>2 DEF PairAt
<1>3. /\ Fresh \in Seq(Nat \X Nat) /\ (\A k \in DOMAIN Fresh : Fresh[k] \notin marked)
      /\ new = IF d >= 3 THEN {} ELSE Successors(p0) \ marked
  BY BfsPicks DEF MaxBfsDepth
<1>4. FrontDepth = d
  BY <1>1 DEF FrontDepth
<1> DEFINE more == [k \in DOMAIN Fresh |-> <<Fresh[k][1], Fresh[k][2], d + 1>>]
<1>a. /\ more \in Seq(Nat \X Nat \X Int) /\ DOMAIN more = DOMAIN Fresh
      /\ \A k \in DOMAIN Fresh : <<more[k][1], more[k][2]>> = Fresh[k] /\ more[k][3] = d + 1
  <2>1. d + 1 \in Int
    BY <1>2
  <2> HIDE DEF d
  <2> QED BY <1>3, <2>1, QueueEntries
<1>b. Requeued(queue', queue, more, L)
  <2> HIDE DEF more
  <2>1. Requeued(Tail(queue) \o more, queue, more, Len(queue))
    BY <1>1, <1>2, <1>a, TailAndMore
  <2>2. queue' = Tail(queue) \o more
    BY <1>1 DEF more
  <2> QED BY <2>1, <2>2
<1> HIDE DEF more
<1>5. \A i \in DOMAIN queue' :
        \/ /\ i < L /\ i + 1 \in DOMAIN queue
           /\ queue'[i][3] = queue[i + 1][3] /\ PairAt(i)' = PairAt(i + 1)
        \/ i >= L /\ queue'[i][3] = d + 1 /\ PairAt(i)' \in new
  BY <1>a, <1>b DEF PairAt, Requeued
<1>6. /\ \A i \in 2..L : i - 1 \in DOMAIN queue' /\ PairAt(i - 1)' = PairAt(i)
      /\ \A q \in new : Queued(q)'
  <2>1. \A k \in DOMAIN Fresh : \E i \in DOMAIN queue' : PairAt(i)' = Fresh[k]
    BY <1>a, <1>b DEF PairAt, Requeued
  <2>2. \A i \in 2..L : i - 1 \in DOMAIN queue' /\ PairAt(i - 1)' = PairAt(i)
    BY <1>b DEF PairAt, Requeued
  <2> QED BY <2>1, <2>2 DEF Queued
<1> HIDE DEF d, p0, new, L
<1>7. /\ queue' \in Seq(Nat \X Nat \X (0..3)) /\ DOMAIN queue' \subseteq Nat \ {0}
      /\ queue' # <<>> => 1 \in DOMAIN queue' /\ FrontDepth' = queue'[1][3]
      /\ queue' = <<>> => FrontDepth' = 3 /\ DOMAIN queue' = {}
      /\ \A i \in DOMAIN queue' : queue'[i][3] \in 0..3 /\ queue' # <<>>
  BY DEF TypeInv, MaxBfsDepth, FrontDepth
<1>8. \A i \in DOMAIN queue : d <= queue[i][3] /\ queue[i][3] <= d + 1 /\ queue[i][3] \in 0..3
  <2>1. \A i \in DOMAIN queue : queue[i][3] \in 0..3
    BY <1>2
  <2>2. \A i \in DOMAIN queue : i = 1 \/ 1 < i
    BY <1>2
  <2>3. \A i \in DOMAIN queue : queue[1][3] <= queue[i][3] /\ queue[i][3] <= d + 1
    <3> SUFFICES ASSUME NEW i \in DOMAIN queue
                 PROVE  queue[1][3] <= queue[i][3] /\ queue[i][3] <= d + 1
      OBVIOUS
    <3>1. queue[i][3] <= d + 1
      BY <1>4 DEF FrontInv
    <3>2. 1 \in DOMAIN queue
      BY <1>2
    <3>3. queue[1][3] <= queue[i][3]
      BY <2>1, <2>2, <3>2 DEF FrontInv
    <3> QED BY <3>1, <3>3
  <2> QED BY <1>2, <2>1, <2>3
<1>9. \A i \in DOMAIN queue' : d <= queue'[i][3] /\ queue'[i][3] <= d + 1
  BY <1>2, <1>5, <1>8
<1>10. \A i, j \in DOMAIN queue' : i < j => queue'[i][3] <= queue'[j][3]
  <2> SUFFICES ASSUME NEW i \in DOMAIN queue', NEW j \in DOMAIN queue', i < j
               PROVE  queue'[i][3] <= queue'[j][3]
    OBVIOUS
  <2>1. i \in Nat /\ j \in Nat
    BY <1>7
  <2>2. CASE j < L
    <3>1. i < L
      BY <1>2, <2>1, <2>2
    <3>2. /\ i + 1 \in DOMAIN queue /\ queue'[i][3] = queue[i + 1][3]
          /\ j + 1 \in DOMAIN queue /\ queue'[j][3] = queue[j + 1][3]
      BY <1>2, <1>5, <2>1, <2>2, <3>1
    <3>3. i + 1 < j + 1
      BY <2>1
    <3> QED BY <3>2, <3>3 DEF FrontInv
  <2>3. CASE j >= L
    <3>1. queue'[j][3] = d + 1
      BY <1>2, <1>5, <2>1, <2>3
    <3> QED BY <1>9, <3>1
  <2> QED BY <1>2, <2>1, <2>2, <2>3
<1>11. \A i \in DOMAIN queue' : FrontDepth' <= queue'[i][3] /\ FrontDepth' \in {d, d + 1}
  <2> SUFFICES ASSUME NEW i \in DOMAIN queue'
               PROVE  FrontDepth' <= queue'[i][3] /\ FrontDepth' \in {d, d + 1}
    OBVIOUS
  <2>1. 1 \in DOMAIN queue' /\ FrontDepth' = queue'[1][3] /\ i \in Nat \ {0}
    BY <1>7
  <2>2. i = 1 \/ 1 < i
    BY <2>1
  <2>3. queue'[1][3] \in 0..3 /\ queue'[i][3] \in 0..3
    BY <1>7, <2>1
  <2>4. d <= queue'[1][3] /\ queue'[1][3] <= d + 1
    BY <1>9, <2>1
  <2>5. FrontDepth' \in {d, d + 1}
    BY <1>2, <2>1, <2>3, <2>4
  <2>6. FrontDepth' <= queue'[i][3]
    BY <1>10, <2>1, <2>2, <2>3
  <2> QED BY <2>5, <2>6
<1>12. \A e : Near(e)' = Near(e)
  BY <1>1, NearSame
<1>13. \A q : Successors(q)' = Successors(q)
  BY <1>1, NearSame
<1>14. Near(d) \subseteq marked /\ marked \subseteq Near(3) /\ p0 \in Near(d)
  BY <1>2, <1>4 DEF FrontInv, MaxBfsDepth
\* What is found belongs to the next level.
<1>15. new \subseteq Near(d + 1) /\ (new # {} => d \in 0..2)
  <2> SUFFICES ASSUME NEW q \in new PROVE q \in Near(d + 1) /\ d \in 0..2
    OBVIOUS
  <2>1. d \in 0..2 /\ q \in Successors(p0)
    BY <1>2, <1>3
  <2> QED BY <1>14, <2>1, NearLevels DEF Levels
<1>16. \A i \in DOMAIN queue' : PairAt(i)' \in Near(queue'[i][3])
  <2>1. \A i \in DOMAIN queue : PairAt(i) \in Near(queue[i][3])
    BY DEF FrontInv
  <2> QED BY <1>5, <1>15, <2>1
<1>17. marked' \subseteq Near(3)
  <2>1. new \subseteq Near(3)
    <3> SUFFICES ASSUME new # {} PROVE new \subseteq Near(3)
      OBVIOUS
    <3>1. d + 1 \in 0..3
      BY <1>15
    <3> QED BY <1>15, <3>1, NearLevels DEF Levels
  <2> QED BY <1>1, <1>14, <2>1
\* No pair of the next level is as near as this one.
<1>18. \A i \in DOMAIN queue' : queue'[i][3] = d + 1 => PairAt(i)' \notin Near(d)
  <2> SUFFICES ASSUME NEW i \in DOMAIN queue', queue'[i][3] = d + 1
               PROVE  PairAt(i)' \notin Near(d)
    OBVIOUS
  <2>1. CASE i + 1 \in DOMAIN queue /\ queue'[i][3] = queue[i + 1][3] /\ PairAt(i)' = PairAt(i + 1)
    BY <1>4, <2>1 DEF FrontInv
  <2>2. CASE PairAt(i)' \in new
    <3>1. \A q \in new : q \notin marked
      BY <1>3 DEF new
    <3> QED BY <1>14, <2>2, <3>1
  <2> QED BY <1>5, <2>1, <2>2
<1>19. d < 3 => \A p \in marked' : Queued(p)' \/ Successors(p) \subseteq marked'
  <2> SUFFICES ASSUME d < 3, NEW p \in marked'
               PROVE  Queued(p)' \/ Successors(p) \subseteq marked'
    OBVIOUS
  <2>1. CASE p \in new
    BY <1>6, <2>1
  <2>2. CASE p \in marked /\ Successors(p) \subseteq marked
    BY <1>1, <2>2
  <2>3. CASE p \in marked /\ Queued(p)
    <3>1. PICK i \in DOMAIN queue : PairAt(i) = p
      BY <2>3 DEF Queued
    <3>2. CASE i = 1
      <4>1. p = p0
        BY <1>2, <3>1, <3>2
      <4>2. ~(d >= 3)
        BY <1>2
      <4>3. new = Successors(p0) \ marked
        BY <1>3, <4>2
      <4> QED BY <1>1, <4>1, <4>3
    <3>3. CASE i # 1
      <4>1. i \in 2..L
        BY <1>2, <3>3
      <4>2. i - 1 \in DOMAIN queue' /\ PairAt(i - 1)' = p
        BY <1>6, <3>1, <4>1
      <4> QED BY <4>2 DEF Queued
    <3> QED BY <3>2, <3>3
  <2> QED BY <1>1, <1>4, <2>1, <2>2, <2>3 DEF FrontInv, MaxBfsDepth
\* A level is complete when its last pair has been expanded.
<1>20. Near(FrontDepth') \subseteq marked'
  <2>1. CASE d = 3
    <3>1. marked' = marked
      BY <1>1, <1>3, <2>1
    <3>2. FrontDepth' = 3
      <4>1. CASE queue' = <<>>
        BY <1>7, <4>1
      <4>2. CASE queue' # <<>>
        BY <1>7, <1>9, <2>1, <4>2
      <4> QED BY <4>1, <4>2
    <3> QED BY <1>14, <2>1, <3>1, <3>2
  <2>2. CASE d # 3 /\ queue' = <<>>
    <3>1. \A p \in marked' : Successors(p) \subseteq marked'
      BY <1>2, <1>7, <1>19, <2>2 DEF Queued
    <3>2. Near(0) \subseteq marked'
      BY <1>1, <1>2, <1>14, NearLevels DEF Levels
    <3>3. Near(3) \subseteq marked'
      <4> DEFINE M == marked'
      <4> HIDE DEF M
      <4>1. Near(0) \subseteq M /\ \A p \in M : Successors(p) \subseteq M
        BY <3>1, <3>2 DEF M
      <4>2. Near(3) \subseteq M
        BY <4>1, ClosedHasNear
      <4> QED BY <4>2 DEF M
    <3> QED BY <1>7, <2>2, <3>3
  <2>3. CASE d # 3 /\ queue' # <<>> /\ FrontDepth' = d
    BY <1>1, <1>14, <2>3
  <2>4. CASE d # 3 /\ queue' # <<>> /\ FrontDepth' = d + 1
    <3>1. d \in 0..2 /\ d < 3
      BY <1>2, <2>4
    <3>2. Near(d + 1) = Near(d) \cup UNION {Successors(p) : p \in Near(d)}
      BY <3>1, NearLevels DEF Levels
    <3>3. ASSUME NEW p \in Near(d)
          PROVE  Successors(p) \subseteq marked'
      <4>1. ~Queued(p)'
        <5> SUFFICES ASSUME NEW i \in DOMAIN queue', PairAt(i)' = p PROVE FALSE
          BY DEF Queued
        <5>1. queue'[i][3] = d + 1
          <6>1. d + 1 <= queue'[i][3] /\ queue'[i][3] <= d + 1 /\ queue'[i][3] \in Int
            BY <1>7, <1>9, <1>11, <2>4
          <6> QED BY <1>2, <6>1
        <5> QED BY <1>18, <3>3, <5>1
      <4> QED BY <1>1, <1>14, <1>19, <3>1, <3>3, <4>1
    <3> QED BY <1>1, <1>14, <2>4, <3>2, <3>3
  <2> QED BY <1>7, <1>11, <2>1, <2>2, <2>3, <2>4
<1>21. \A i \in DOMAIN queue' : queue'[i][3] <= FrontDepth' + 1
  <2> SUFFICES ASSUME NEW i \in DOMAIN queue' PROVE queue'[i][3] <= FrontDepth' + 1
    OBVIOUS
  <2>1. queue'[i][3] <= d + 1 /\ FrontDepth' \in {d, d + 1} /\ queue'[i][3] \in 0..3
    BY <1>7, <1>9, <1>11
  <2> QED BY <1>2, <2>1
<1>22. \A i \in DOMAIN queue' : queue'[i][3] = FrontDepth' + 1 => PairAt(i)' \notin Near(FrontDepth')
  <2> SUFFICES ASSUME NEW i \in DOMAIN queue', queue'[i][3] = FrontDepth' + 1
               PROVE  PairAt(i)' \notin Near(FrontDepth')
    OBVIOUS
  <2>1. FrontDepth' = d
    BY <1>2, <1>7, <1>9, <1>11
  <2> QED BY <1>18, <2>1
<1>23. FrontDepth' < 3 => \A p \in marked' : Queued(p)' \/ Successors(p) \subseteq marked'
  <2> SUFFICES ASSUME FrontDepth' < 3 PROVE d < 3
    BY <1>19
  <2>1. 1 \in DOMAIN queue'
    BY <1>7
  <2>2. FrontDepth' \in {d, d + 1} /\ d \in 0..3
    BY <1>2, <1>11, <2>1
  <2> HIDE DEF d
  <2> QED BY <2>2
<1> QED
  BY <1>10, <1>12, <1>13, <1>16, <1>17, <1>20, <1>21, <1>22, <1>23 DEF FrontInv, MaxBfsDepth
LEMMA NextSearchInv ==
  ASSUME MatchInv, TypeInv, TypeInv', SearchInv, [Next]_vars
  PROVE  SearchInv'
<1>1. CASE Bootstrap
  <2>1. FrontInv' /\ phase' = "bfs"
    BY <1>1, BootstrapFront DEF Bootstrap
  <2> QED BY <2>1 DEF SearchInv
<1>2. CASE BfsExpand
  <2>1. phase = "bfs" /\ phase' = "bfs"
    BY <1>2 DEF BfsExpand
  <2> QED BY <1>2, <2>1, BfsExpandFront DEF SearchInv, MatchInv
<1>3. CASE BfsEnd
  <2>1. /\ phase = "bfs" /\ phase' = "vt" /\ queue = <<>>
        /\ UNCHANGED <<world, anchors, marked>>
    BY <1>3 DEF BfsEnd
  <2>2. marked = Near(MaxBfsDepth)
    BY <2>1 DEF SearchInv, FrontInv, FrontDepth
  <2>3. Near(MaxBfsDepth)' = Near(MaxBfsDepth)
    BY <2>1, NearSame DEF MaxBfsDepth
  <2> QED BY <2>1, <2>2, <2>3 DEF SearchInv
<1>4. CASE Returned \/ UNCHANGED vars
  <2>1. UNCHANGED <<world, phase, anchors, queue, marked>>
    BY <1>4 DEF Returned, vars
  <2>2. (\A d : Near(d)' = Near(d)) /\ (\A p : Successors(p)' = Successors(p))
    BY <2>1, NearSame
  <2> QED BY <2>1, <2>2 DEF SearchInv, FrontInv, FrontDepth, PairAt, Queued, MaxBfsDepth
<1>5. CASE VtDiff \/ GapFillCaller \/ GapEndPass \/ ArbitrateClaims \/ AddSignatures
  <2>1. phase' \notin {"bfs", "vt"}
    BY <1>5 DEF VtDiff, GapFillCaller, GapEndPass, ArbitrateClaims, AddSignatures
  <2> QED BY <2>1 DEF SearchInv
<1> QED BY <1>1, <1>2, <1>3, <1>4, <1>5 DEF Next, GapFill

THEOREM SearchInvariant == Spec => [](TypeInv /\ SearchInv)
<1>1. Init => SearchInv
  BY DEF Init, SearchInv
<1>2. MatchInv /\ TypeInv /\ TypeInv' /\ SearchInv /\ [Next]_vars => SearchInv'
  BY NextSearchInv
<1> QED BY <1>1, <1>2, TypeInvariant, PTL DEF Spec

\* Reach is what is near up to the bound.
LEMMA ReachIsNear == Reach = Near(3)
<1> DEFINE Step(f, d) ==
             IF d = 0 THEN {<<anchors[i].ref, anchors[i].new>> : i \in DOMAIN anchors}
             ELSE LET prev == f[d - 1]
                  IN prev \cup UNION {LET a == AlignCallees(world.ref, world.new, p[1], p[2], 4)
                                      IN {a[k] : k \in DOMAIN a} \cap world.similar : p \in prev}
           reach == CHOOSE f : f = [d \in 0..MaxBfsDepth |-> Step(f, d)]
           near == [d \in 0..MaxBfsDepth |-> Near(d)]
<1>1. Reach = reach[MaxBfsDepth]
  BY DEF Reach
<1>2. \A f, d : Step(f, d) = IF d = 0 THEN AnchorPairs ELSE Grow(f[d - 1])
  BY DEF AnchorPairs, Grow, Successors
<1> HIDE DEF Step
<1>3. near = [d \in 0..MaxBfsDepth |-> Step(near, d)]
  <2>1. \A d \in 0..MaxBfsDepth : Near(d) = Step(near, d)
    <3> SUFFICES ASSUME NEW d \in 0..MaxBfsDepth PROVE Near(d) = Step(near, d)
      OBVIOUS
    <3>1. CASE d = 0
      BY <1>2, <3>1, NearLevels DEF Levels
    <3>2. CASE d # 0
      <4>1. d - 1 \in 0..2 /\ d - 1 \in 0..MaxBfsDepth /\ (d - 1) + 1 = d
        BY <3>2 DEF MaxBfsDepth
      <4>2. Near(d) = Grow(Near(d - 1))
        BY <4>1, NearLevels DEF Levels, Grow
      <4> QED BY <1>2, <3>2, <4>1, <4>2
    <3> QED BY <3>1, <3>2
  <2> HIDE DEF near
  <2>2. near = [d \in 0..MaxBfsDepth |-> Near(d)]
    BY DEF near
  <2> QED BY <2>1, <2>2
<1>4. reach = [d \in 0..MaxBfsDepth |-> Step(reach, d)]
  <2> HIDE DEF near
  <2> QED BY <1>3
<1> HIDE DEF reach
<1>5. \A d \in {0, 1, 2, 3} : reach[d] = Step(reach, d)
  BY <1>4 DEF MaxBfsDepth
<1>6. reach[0] = AnchorPairs
  BY <1>2, <1>5
<1>7. reach[1] = Grow(reach[0]) /\ reach[2] = Grow(reach[1]) /\ reach[3] = Grow(reach[2])
  <2>1. 1 - 1 = 0 /\ 2 - 1 = 1 /\ 3 - 1 = 2
    OBVIOUS
  <2> QED BY <1>2, <1>5, <2>1
<1>8. reach[3] = Near(3)
  BY <1>6, <1>7 DEF Near
<1> QED BY <1>1, <1>8 DEF MaxBfsDepth

\* The search finds exactly the pairs within three aligned calls of an anchor,
\* though it expands no pair twice and whatever order it meets them in
\* (bfs_preseed's depth and its matched set).
THEOREM SearchIsComplete == Spec => []BfsComplete
<1>1. SearchInv => BfsComplete
  BY ReachIsNear DEF SearchInv, BfsComplete, MaxBfsDepth
<1> QED BY <1>1, SearchInvariant, PTL
=============================================================================
