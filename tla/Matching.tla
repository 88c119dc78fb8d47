------------------------------ MODULE Matching ------------------------------
(***************************************************************************)
(* The matching of a new ROM's functions with one reference's              *)
(* (pipeline/reference.match_reference and callgraph.py): anchors, a       *)
(* breadth-first search down the call graphs, Ghidra's version tracking    *)
(* (external), gap filling to a fixed point, identical bodies, arbitration *)
(* to one match per function, and RAM signatures.                          *)
(***************************************************************************)
EXTENDS CallGraph

CONSTANTS
  Worlds,      \* pairs of ROMs and what their bytes say of them
  VtResults,   \* what the version tracking may return
  SigScores    \* what the RAM signatures may come to

\* ref, new: the ROMs, whose tables have as many slots; named: reference functions
\* that its store names;
\* similar: pairs whose bodies share at least 15% of their words; occurs: where
\* a reference body is found in the new ROM.
ASSUME MatchingAssumption ==
  /\ \A w \in Worlds :
       /\ w = [ref |-> w.ref, new |-> w.new, named |-> w.named,
               similar |-> w.similar, occurs |-> w.occurs]
       /\ IsRom(w.ref) /\ IsRom(w.new)
       /\ Len(w.ref.vectors) = Len(w.new.vectors) /\ Len(w.ref.icu) = Len(w.new.icu)
       /\ Len(w.ref.dtc) = Len(w.new.dtc)
       /\ \A r \in w.ref.entries : w.occurs[r] \subseteq Nat
  /\ \A v \in VtResults : v \in Seq(MatchedFunction)
  /\ \A s \in SigScores : DOMAIN s \subseteq Nat \X Nat /\ \A p \in DOMAIN s : s[p] \in 0..10

VARIABLES
  world,    \* the two ROMs, fixed for a behaviour
  phase,    \* where match_reference is
  anchors,  \* bootstrap_anchors' result
  queue,    \* bfs_preseed: <<ref, new, depth>> to be expanded
  marked,   \* bfs_preseed: pairs seen so far
  bfs,      \* bfs_preseed: the matches with a name
  vt,       \* run_vt_diff's result
  gapRef,   \* gap_fill: reference function -> new function
  gapNew,   \* gap_fill: new functions taken
  gap,      \* gap_fill: the matches it adds
  callers,  \* gap_fill: reference callers left in this pass, in order
  changed,  \* gap_fill: has this pass added a match?
  matches   \* the result

vars == <<world, phase, anchors, queue, marked, bfs, vt, gapRef, gapNew, gap,
          callers, changed, matches>>

MaxBfsDepth == 3

Phases == {"bootstrap", "bfs", "vt", "gap", "arbitrate", "signatures", "done"}

Init ==
  /\ world \in Worlds
  /\ phase = "bootstrap"
  /\ anchors = <<>> /\ queue = <<>> /\ marked = {} /\ bfs = <<>> /\ vt = <<>>
  /\ gapRef = << >> /\ gapNew = {} /\ gap = <<>> /\ callers = <<>> /\ changed = FALSE
  /\ matches = {}

Bootstrap ==
  /\ phase = "bootstrap"
  /\ anchors' = BootstrapAnchors(world.ref, world.new)
  /\ queue' = [i \in DOMAIN anchors' |-> <<anchors'[i].ref, anchors'[i].new, 0>>]
  /\ marked' = {<<anchors'[i].ref, anchors'[i].new>> : i \in DOMAIN anchors'}
  /\ phase' = "bfs"
  /\ UNCHANGED <<world, bfs, vt, gapRef, gapNew, gap, callers, changed, matches>>

-----------------------------------------------------------------------------
\* bfs_preseed

\* The aligned callees of the pair at the head that are new and similar enough.
Discovered(r, n) ==
  Filter(AlignCallees(world.ref, world.new, r, n, 4), world.similar \ marked)

Named(pairs) == Filter(pairs, {p \in world.similar : p[1] \in world.named})

\* Mutant: the depth bound is off by one.
BfsExpandDeep ==
  /\ phase = "bfs" /\ queue # <<>>
  /\ LET r == Head(queue)[1]  n == Head(queue)[2]  depth == Head(queue)[3]
         new == IF depth > MaxBfsDepth THEN <<>> ELSE Discovered(r, n)
         named == Named(new)
     IN /\ marked' = marked \cup {new[i] : i \in DOMAIN new}
        /\ queue' = Tail(queue) \o [i \in DOMAIN new |-> <<new[i][1], new[i][2], depth + 1>>]
        /\ bfs' = bfs \o [i \in DOMAIN named |-> Matched(named[i][1], named[i][2], "callgraph_bfs", 8)]
  /\ UNCHANGED <<world, phase, anchors, vt, gapRef, gapNew, gap, callers, changed, matches>>

BfsExpand ==
  /\ phase = "bfs" /\ queue # <<>>
  /\ LET r == Head(queue)[1]  n == Head(queue)[2]  depth == Head(queue)[3]
         new == IF depth >= MaxBfsDepth THEN <<>> ELSE Discovered(r, n)
         named == Named(new)
     IN /\ marked' = marked \cup {new[i] : i \in DOMAIN new}
        /\ queue' = Tail(queue) \o [i \in DOMAIN new |-> <<new[i][1], new[i][2], depth + 1>>]
        /\ bfs' = bfs \o [i \in DOMAIN named |-> Matched(named[i][1], named[i][2], "callgraph_bfs", 8)]
  /\ UNCHANGED <<world, phase, anchors, vt, gapRef, gapNew, gap, callers, changed, matches>>

BfsEnd ==
  /\ phase = "bfs" /\ queue = <<>>
  /\ phase' = "vt"
  /\ UNCHANGED <<world, anchors, queue, marked, bfs, vt, gapRef, gapNew, gap, callers, changed, matches>>

-----------------------------------------------------------------------------
\* run_vt_diff, and the start of gap_fill

\* The order of ref_run.callees: functions by address.
CallerOrder == Sorted(world.ref.entries)

\* The dict of the matches so far: the last match of a reference function counts.
LastMatch(q, r) ==
  q[CHOOSE i \in DOMAIN q : q[i].ref = r /\ \A j \in DOMAIN q : q[j].ref = r => j <= i].new

\* Ghidra matches functions of the one program with functions of the other.
VtDiff ==
  /\ phase = "vt"
  /\ \E v \in VtResults :
       /\ \A i \in DOMAIN v : v[i].ref \in world.ref.entries /\ v[i].new \in world.new.entries
       /\ vt' = v
  /\ LET known == vt' \o anchors \o bfs
     IN /\ gapRef' = [r \in {known[i].ref : i \in DOMAIN known} |-> LastMatch(known, r)]
        /\ gapNew' = {known[i].new : i \in DOMAIN known}
  /\ callers' = CallerOrder
  /\ changed' = FALSE
  /\ phase' = "gap"
  /\ UNCHANGED <<world, anchors, queue, marked, bfs, gap, matches>>

-----------------------------------------------------------------------------
\* gap_fill

\* The aligned callees, at half the size, of a caller and its match.
GapPairs(c) ==
  IF c \in DOMAIN gapRef THEN AlignCallees(world.ref, world.new, c, gapRef[c], 5) ELSE <<>>

\* Mutant: only the reference's side is looked at.
OpenRef == {p \in world.similar : p[1] \notin DOMAIN gapRef}

\* The similar pairs of functions of which neither is matched.
Open == {p \in world.similar : p[1] \notin DOMAIN gapRef /\ p[2] \notin gapNew}

\* Mutant: a pass counts as changed once it has found a similar pair, free or not.
GapFillCallerAgain ==
  /\ phase = "gap" /\ callers # <<>>
  /\ LET new == Filter(GapPairs(Head(callers)), Open)
         hit(r) == CHOOSE i \in DOMAIN new : new[i][1] = r
     IN /\ gapRef' = [r \in DOMAIN gapRef \cup {new[i][1] : i \in DOMAIN new} |->
                        IF r \in DOMAIN gapRef THEN gapRef[r] ELSE new[hit(r)][2]]
        /\ gapNew' = gapNew \cup {new[i][2] : i \in DOMAIN new}
        /\ gap' = gap \o [i \in DOMAIN new |-> Matched(new[i][1], new[i][2], "callgraph_gap", 7)]
        /\ changed' = (changed \/ Filter(GapPairs(Head(callers)), world.similar) # <<>>)
  /\ callers' = Tail(callers)
  /\ UNCHANGED <<world, phase, anchors, queue, marked, bfs, vt, matches>>

\* One caller of the pass over ref_run.callees.
GapFillCaller ==
  /\ phase = "gap" /\ callers # <<>>
  /\ LET new == Filter(GapPairs(Head(callers)), Open)
         hit(r) == CHOOSE i \in DOMAIN new : new[i][1] = r
     IN /\ gapRef' = [r \in DOMAIN gapRef \cup {new[i][1] : i \in DOMAIN new} |->
                        IF r \in DOMAIN gapRef THEN gapRef[r] ELSE new[hit(r)][2]]
        /\ gapNew' = gapNew \cup {new[i][2] : i \in DOMAIN new}
        /\ gap' = gap \o [i \in DOMAIN new |-> Matched(new[i][1], new[i][2], "callgraph_gap", 7)]
        /\ changed' = (changed \/ new # <<>>)
  /\ callers' = Tail(callers)
  /\ UNCHANGED <<world, phase, anchors, queue, marked, bfs, vt, matches>>

\* Mutant: one pass is made.
GapEndPassOnce ==
  /\ phase = "gap" /\ callers = <<>>
  /\ phase' = "arbitrate"
  /\ UNCHANGED <<world, anchors, queue, marked, bfs, vt, gapRef, gapNew, gap, callers, changed, matches>>

\* The next pass, as long as the last one has added something.
GapEndPass ==
  /\ phase = "gap" /\ callers = <<>>
  /\ IF changed THEN callers' = CallerOrder /\ changed' = FALSE /\ UNCHANGED phase
                ELSE phase' = "arbitrate" /\ UNCHANGED <<callers, changed>>
  /\ UNCHANGED <<world, anchors, queue, marked, bfs, vt, gapRef, gapNew, gap, matches>>

-----------------------------------------------------------------------------
\* Identical bodies, the arbitration, RAM signatures.

Found == vt \o anchors \o bfs \o gap

Claims == Found \o IdentityMatches(world.ref, world.occurs, Found)

ArbitrateClaims ==
  /\ phase = "arbitrate"
  /\ matches' = Arbitrate(Claims)
  /\ phase' = "signatures"
  /\ UNCHANGED <<world, anchors, queue, marked, bfs, vt, gapRef, gapNew, gap, callers, changed>>

AddSignatures ==
  /\ phase = "signatures"
  /\ \E s \in SigScores :
       /\ DOMAIN s \subseteq world.ref.entries \X world.new.entries
       /\ matches' = matches \cup RamSignatureMatches(s, matches)
  /\ phase' = "done"
  /\ UNCHANGED <<world, anchors, queue, marked, bfs, vt, gapRef, gapNew, gap, callers, changed>>

GapFill == GapFillCaller \/ GapEndPass

\* match_reference has returned.
Returned == phase = "done" /\ UNCHANGED vars

Next == \/ Bootstrap \/ BfsExpand \/ BfsEnd \/ VtDiff \/ GapFill
        \/ ArbitrateClaims \/ AddSignatures \/ Returned

Spec == Init /\ [][Next]_vars

-----------------------------------------------------------------------------
(***************************************************************************)
(* What must hold.                                                         *)
(***************************************************************************)

\* Every variable has its type; the queue holds marked pairs, no deeper than
\* the bound.
TypeOK ==
  /\ phase \in Phases /\ changed \in BOOLEAN
  /\ \A q \in {anchors, bfs, vt, gap} : q \in Seq(MatchedFunction)
  /\ \A i \in DOMAIN queue : /\ queue[i] \in Nat \X Nat \X (0..MaxBfsDepth)
                             /\ <<queue[i][1], queue[i][2]>> \in marked
  /\ marked \subseteq Nat \X Nat
  /\ gapRef \in [DOMAIN gapRef -> gapNew] /\ DOMAIN gapRef \cup gapNew \subseteq Nat
  /\ callers \in Seq(world.ref.entries)
  /\ phase = "arbitrate" => Claims \in Seq(MatchedFunction)
  /\ matches \subseteq MatchedFunction

\* Sets of index pairs that could be an alignment.
Alignments(rc, nc, ok) ==
  {S \in SUBSET {p \in (1..Len(rc)) \X (1..Len(nc)) : <<rc[p[1]], nc[p[2]]>> \in ok} :
     \A p, q \in S : p # q => (p[1] < q[1] /\ p[2] < q[2]) \/ (q[1] < p[1] /\ q[2] < p[2])}

IsLongestAlignment(rc, nc, ok) ==
  LET a == LcsAlign(rc, nc, ok)
      S == {p \in (1..Len(rc)) \X (1..Len(nc)) : \E k \in DOMAIN a : a[k] = <<rc[p[1]], nc[p[2]]>>}
      all == Alignments(rc, nc, ok)
  IN /\ S \in all
     /\ Cardinality(S) = Len(a)
     /\ \A T \in all : Cardinality(T) <= Len(a)

\* The alignment is in call order on both sides, pairs only compatible callees,
\* and no longer one exists, although size compatibility is not transitive and
\* the recurrence always pairs the last two callees when it can (_lcs_align).
AlignmentOptimal ==
  phase = "bfs" /\ queue # <<>> =>
    LET rc == Callees(world.ref, Head(queue)[1])
        nc == Callees(world.new, Head(queue)[2])
    IN IsLongestAlignment(rc, nc, Compatible(world.ref, world.new, rc, nc, 4))

\* The pairs within d aligned calls of an anchor.
Reach ==
  LET reach[d \in 0..MaxBfsDepth] ==
        IF d = 0 THEN {<<anchors[i].ref, anchors[i].new>> : i \in DOMAIN anchors}
        ELSE LET prev == reach[d - 1]
             IN prev \cup UNION {LET a == AlignCallees(world.ref, world.new, p[1], p[2], 4)
                                 IN {a[k] : k \in DOMAIN a} \cap world.similar : p \in prev}
  IN reach[MaxBfsDepth]

\* The search finds exactly the pairs within three aligned calls of an anchor,
\* in whatever order it meets them and though it expands no pair twice
\* (bfs_preseed's depth and its matched set).
BfsComplete == phase = "vt" => marked = Reach

\* A function that was matched before gap filling, or earlier in it, is never
\* matched again (gap_fill's two sets, over all of its passes).
GapOneToOne ==
  LET before == vt \o anchors \o bfs
  IN \A i \in DOMAIN gap :
       /\ \A j \in DOMAIN before : gap[i].ref # before[j].ref /\ gap[i].new # before[j].new
       /\ \A j \in DOMAIN gap : i # j => gap[i].ref # gap[j].ref /\ gap[i].new # gap[j].new

\* Gap filling stops only when no matched caller has two similar callees left
\* that align and are both free (gap_fill's changed flag).
GapClosed ==
  phase = "arbitrate" =>
    \A c \in DOMAIN gapRef : Filter(GapPairs(c), Open) = <<>>

\* The result is one-to-one, whatever the phases claimed, the version tracking
\* returned and the RAM signatures added (best_by_ref, best_by_new,
\* match_by_ram_signature).
OneToOne ==
  \A m, k \in matches : m.ref = k.ref \/ m.new = k.new => m = k

\* A claim that outranks every other claim to either of its functions is in
\* the result: the first pass of the arbitration cannot lose it to the second.
UndisputedKept ==
  phase \in {"signatures", "done"} =>
    LET claims == Claims
        rivals(i) == {j \in DOMAIN claims \ {i} :
                        claims[j].ref = claims[i].ref \/ claims[j].new = claims[i].new}
    IN \A i \in DOMAIN claims :
         (\A j \in rivals(i) : Rank(claims[j]) < Rank(claims[i])) => claims[i] \in matches

\* What is left to do in a phase: pairs to expand or yet to be marked; callers of
\* this pass, the pass after it, and the passes that free functions allow.
Work ==
  CASE phase = "bfs" ->
         Len(queue) + 2 * Cardinality((world.ref.entries \X world.new.entries) \ marked)
    [] phase = "gap" ->
         LET pass == Cardinality(world.ref.entries) + 1
         IN Len(callers) + (IF changed THEN pass ELSE 0)
              + pass * Cardinality(world.ref.entries \ DOMAIN gapRef)
    [] OTHER -> 0

\* Matching ends: each step begins the next phase or leaves less to do in its
\* own, and no step but the last is the end (bfs_preseed's matched set, gap_fill's
\* changed flag; deadlock is checked as well).
EveryStepProgresses ==
  [][\/ phase' = phase /\ Work' < Work
     \/ <<phase, phase'>> \in {<<"bootstrap", "bfs">>, <<"bfs", "vt">>, <<"vt", "gap">>,
                              <<"gap", "arbitrate">>, <<"arbitrate", "signatures">>,
                              <<"signatures", "done">>}]_vars

-----------------------------------------------------------------------------
(***************************************************************************)
(* What the comments say and the code does not do.                         *)
(***************************************************************************)

\* merge.py:12-13 "Structural ROM-invariant sources override
\* bytecode-comparison matches": no match of the version tracking is kept for a
\* reference function that an anchor maps elsewhere (SOURCE_PRIORITY does not
\* list dtc_table).
StructuralOverrides ==
  \A m \in matches : m.src = "vt_diff" =>
    \A i \in DOMAIN anchors : anchors[i].ref = m.ref => anchors[i].new = m.new
=============================================================================
