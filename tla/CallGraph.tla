----------------------------- MODULE CallGraph ------------------------------
(***************************************************************************)
(* What rom_analyzer/callgraph.py finds out about two ROMs without state:  *)
(* which functions may correspond by size, how two callee lists align, and *)
(* the anchors that the vector, MUT and trouble-code tables give.          *)
(*                                                                         *)
(* A ROM is what the code decodes from it: the function entries, the       *)
(* callees of each in call order, the branch targets of the vector table,  *)
(* the addresses of the ICU table, the branches that leave a function's    *)
(* body, and the functions that use the MUT, trouble-code and bitmask      *)
(* tables.  Whatever is absent or undecodable is None.                     *)
(***************************************************************************)
EXTENDS Integers, Sequences, FiniteSets

CONSTANT None    \* no address

CodeStart == 512    \* 0x200: below it lie the vectors themselves

\* Only functions call, and only functions are called: both come from the one
\* list of the program's functions.
IsRom(rom) ==
  /\ IsFiniteSet(rom.entries) /\ rom.entries \subseteq Nat
  /\ DOMAIN rom.callees \subseteq rom.entries
  /\ \A f \in DOMAIN rom.callees :
       /\ rom.callees[f] \in Seq(rom.entries)
       /\ \A i, j \in DOMAIN rom.callees[f] : rom.callees[f][i] = rom.callees[f][j] => i = j
  /\ {rom.vectors, rom.icu, rom.dtc} \subseteq Seq(Nat \cup {None}) /\ rom.mut \in Nat \cup {None}
  /\ rom.entries \subseteq DOMAIN rom.tails
  /\ \A f \in rom.entries : rom.tails[f] \in Seq(Nat)

MatchSource == {"vector_table", "icu_vector_table", "mut_table", "dtc_table", "callgraph_bfs",
                "callgraph_gap", "vt_diff", "bytecode_identity", "ram_signature"}

\* ref, new: entry points; src: who claims it; sim: the similarity in tenths.
MatchedFunction == [ref : Nat, new : Nat, src : MatchSource, sim : 0..10]

Matched(r, n, src, sim) == [ref |-> r, new |-> n, src |-> src, sim |-> sim]

\* sorted(S)
Sorted(S) == [i \in 1..Cardinality(S) |-> CHOOSE e \in S : Cardinality({d \in S : d < e}) = i - 1]

\* The elements of s that are in T, in their order.
Filter(s, T) ==
  LET sel[i \in 0..Len(s)] ==
        IF i = 0 THEN <<>> ELSE IF s[i] \in T THEN Append(sel[i - 1], s[i]) ELSE sel[i - 1]
  IN sel[Len(s)]

Callees(rom, f) == IF f \in DOMAIN rom.callees THEN rom.callees[f] ELSE <<>>

-----------------------------------------------------------------------------
\* The distance to the next entry; 0, unknown, for the last one and for strangers.
FuncSize(rom, f) ==
  LET later == {e \in rom.entries : e > f}
  IN IF f \notin rom.entries \/ later = {} THEN 0
     ELSE (CHOOSE e \in later : \A d \in later : e <= d) - f

\* min / max >= 1 - tol, with the tolerance in tenths.
SizeRatioOk(ref, new, r, n, tol) ==
  LET x == FuncSize(ref, r)
      y == FuncSize(new, n)
  IN \/ x = 0 \/ y = 0
     \/ 10 * x >= (10 - tol) * y /\ 10 * y >= (10 - tol) * x

\* The pairs of two callee lists that may correspond.
Compatible(ref, new, rc, nc, tol) ==
  {p \in {rc[i] : i \in DOMAIN rc} \X {nc[j] : j \in DOMAIN nc} :
     SizeRatioOk(ref, new, p[1], p[2], tol)}

\* dp[<<i, j>>]: the longest common subsequence of the first i and j callees.
LcsTable(rc, nc, ok) ==
  LET dp[c \in (0..Len(rc)) \X (0..Len(nc))] ==
        LET i == c[1]
            j == c[2]
        IN IF i = 0 \/ j = 0 THEN 0
           ELSE IF <<rc[i], nc[j]>> \in ok THEN dp[<<i - 1, j - 1>>] + 1
           ELSE IF dp[<<i - 1, j>>] >= dp[<<i, j - 1>>] THEN dp[<<i - 1, j>>] ELSE dp[<<i, j - 1>>]
  IN dp

\* Mutant: the comparison is the wrong way round.
LcsAlignTurned(rc, nc, ok) ==
  LET dp == LcsTable(rc, nc, ok)
      back[c \in (0..Len(rc)) \X (0..Len(nc))] ==
        LET i == c[1]
            j == c[2]
        IN IF i = 0 \/ j = 0 THEN <<>>
           ELSE IF <<rc[i], nc[j]>> \in ok THEN Append(back[<<i - 1, j - 1>>], <<rc[i], nc[j]>>)
           ELSE IF dp[<<i - 1, j>>] <= dp[<<i, j - 1>>] THEN back[<<i - 1, j>>] ELSE back[<<i, j - 1>>]
  IN back[<<Len(rc), Len(nc)>>]

\* _lcs_align: back through the table from its last cell.
LcsAlign(rc, nc, ok) ==
  LET dp == LcsTable(rc, nc, ok)
      back[c \in (0..Len(rc)) \X (0..Len(nc))] ==
        LET i == c[1]
            j == c[2]
        IN IF i = 0 \/ j = 0 THEN <<>>
           ELSE IF <<rc[i], nc[j]>> \in ok THEN Append(back[<<i - 1, j - 1>>], <<rc[i], nc[j]>>)
           ELSE IF dp[<<i - 1, j>>] >= dp[<<i, j - 1>>] THEN back[<<i - 1, j>>] ELSE back[<<i, j - 1>>]
  IN back[<<Len(rc), Len(nc)>>]

\* The aligned callees of one matched pair of callers.
AlignCallees(ref, new, r, n, tol) ==
  LET rc == Callees(ref, r)
      nc == Callees(new, n)
  IN LcsAlign(rc, nc, Compatible(ref, new, rc, nc, tol))

-----------------------------------------------------------------------------
\* bootstrap_anchors

\* The slots that give an anchor: decodable on both sides, neither function
\* seen in an earlier anchor of the same table.
AnchorSlots(rs, ns, low) ==
  LET ok(i) == rs[i] # None /\ ns[i] # None /\ rs[i] >= low /\ ns[i] >= low
      acc[i \in 0..Len(rs)] ==
        IF i = 0 THEN {}
        ELSE IF ok(i) /\ \A j \in acc[i - 1] : rs[j] # rs[i] /\ ns[j] # ns[i]
             THEN acc[i - 1] \cup {i} ELSE acc[i - 1]
  IN acc[Len(rs)]

\* The chosen slots in order, as matches.
AnchorList(rs, ns, low, src) ==
  LET slots == Filter([i \in DOMAIN rs |-> i], AnchorSlots(rs, ns, low))
  IN [k \in DOMAIN slots |-> Matched(rs[slots[k]], ns[slots[k]], src, 10)]

\* Where a reset handler goes: its last branch out of its body to a function
\* that is no handler, or else its largest such callee.  Handlers of either ROM
\* are excluded from both.
BestMain(rom, reset, handlers) ==
  LET jumps   == Filter(rom.tails[reset], {a \in Nat : a >= CodeStart} \ handlers)
      outside == Filter(Callees(rom, reset), rom.entries \ handlers)
      larger(i, j) == FuncSize(rom, outside[i]) >= FuncSize(rom, outside[j])
  IN IF FuncSize(rom, reset) > 0 /\ jumps # <<>> THEN jumps[Len(jumps)]
     ELSE IF outside = <<>> THEN None
     ELSE outside[CHOOSE i \in DOMAIN outside :
            /\ \A j \in DOMAIN outside : larger(i, j)
            /\ \A j \in 1..(i - 1) : ~larger(j, i)]

VectorAnchors(ref, new) ==
  LET table    == AnchorList(ref.vectors, new.vectors, CodeStart, "vector_table")
      handlers == UNION {{table[i].ref, table[i].new} : i \in DOMAIN table}
      r == BestMain(ref, table[1].ref, handlers)
      n == BestMain(new, table[1].new, handlers)
  IN IF table = <<>> \/ r = None \/ n = None THEN table
     ELSE Append(table, Matched(r, n, "vector_table", 9))

IcuAnchors(ref, new) == AnchorList(ref.icu, new.icu, 0, "icu_vector_table")

MutAnchors(ref, new) ==
  IF ref.mut = None \/ new.mut = None THEN <<>>
  ELSE <<Matched(ref.mut, new.mut, "mut_table", 10)>>

DtcAnchors(ref, new) == AnchorList(ref.dtc, new.dtc, 0, "dtc_table")

BootstrapAnchors(ref, new) ==
  VectorAnchors(ref, new) \o IcuAnchors(ref, new) \o MutAnchors(ref, new) \o DtcAnchors(ref, new)

-----------------------------------------------------------------------------
\* bytecode_identity_match

\* Reference functions in address order that are still free, whose body of 8 to
\* 128 bytes occurs at one aligned address of the new ROM, itself still free.
\* occurs[r]: the aligned addresses of the new ROM where the body of r is found.
IdentityMatches(ref, occurs, existing) ==
  LET order == Sorted(ref.entries)
      usedRef == {existing[i].ref : i \in DOMAIN existing}
      usedNew == {existing[i].new : i \in DOMAIN existing}
      acc[i \in 0..Len(order)] ==
        IF i = 0 THEN <<>>
        ELSE LET r == order[i]
                 free == {n \in occurs[r] : /\ occurs[r] = {n} /\ n \notin usedNew
                                            /\ \A k \in DOMAIN acc[i - 1] : acc[i - 1][k].new # n}
             IN IF r \notin usedRef /\ FuncSize(ref, r) \in 8..128 /\ free # {}
                THEN Append(acc[i - 1], Matched(r, CHOOSE n \in free : TRUE, "bytecode_identity", 10))
                ELSE acc[i - 1]
  IN acc[Len(order)]

-----------------------------------------------------------------------------
\* match_by_ram_signature

\* score[<<r, n>>]: the Jaccard index, in tenths, of the RAM variables that r and n
\* use; 0 when it is below 0.6, they share fewer than three, or one has none.
RamSignatureMatches(score, existing) ==
  LET usedRef == {m.ref : m \in existing}
      usedNew == {m.new : m \in existing}
      open == {p \in DOMAIN score : p[1] \notin usedRef /\ p[2] \notin usedNew /\ score[p] > 0}
      \* p is its reference function's only best; of those, its new function's only best.
      best == {p \in open : \A q \in open \ {p} : q[1] = p[1] => score[q] < score[p]}
      pick == {p \in best : \A q \in best \ {p} : q[2] = p[2] => score[q] < score[p]}
  IN {Matched(p[1], p[2], "ram_signature", score[p]) : p \in pick}

-----------------------------------------------------------------------------
\* The arbitration of merge.match_rank and match_reference.

Tier(src) ==
  CASE src \in {"vector_table", "icu_vector_table"}  -> 3
    [] src \in {"bytecode_identity", "mut_table"}    -> 2
    [] src \in {"callgraph_bfs", "callgraph_gap"}    -> 1
    [] OTHER -> 0

\* Tier first, then similarity, which is at most 10.
Rank(m) == 11 * Tier(m.src) + m.sim

\* best_by_ref: per reference function the highest rank, the first of equals.
BestByRef(q) ==
  {i \in DOMAIN q : \A j \in DOMAIN q \ {i} : q[j].ref = q[i].ref =>
     \/ Rank(q[j]) < Rank(q[i])
     \/ Rank(q[j]) = Rank(q[i]) /\ i < j}

\* A dict keeps a key where it was first inserted.
FirstOfRef(q, i) == CHOOSE j \in 1..i : /\ q[j].ref = q[i].ref
                                        /\ \A k \in 1..(j - 1) : q[k].ref # q[i].ref

\* Mutant: the first claim of a new address is kept.
BestByNewFirst(q, I) ==
  {i \in I : \A j \in I \ {i} : q[j].new = q[i].new => FirstOfRef(q, i) < FirstOfRef(q, j)}

\* Mutant: equals are both kept.
BestByNewTies(q, I) ==
  {i \in I : \A j \in I \ {i} : q[j].new = q[i].new => Rank(q[j]) <= Rank(q[i])}

\* best_by_new: the same per new address, among what best_by_ref has left.
BestByNew(q, I) ==
  {i \in I : \A j \in I \ {i} : q[j].new = q[i].new =>
     \/ Rank(q[j]) < Rank(q[i])
     \/ Rank(q[j]) = Rank(q[i]) /\ FirstOfRef(q, i) < FirstOfRef(q, j)}

Arbitrate(q) == {q[i] : i \in BestByNew(q, BestByRef(q))}
=============================================================================
