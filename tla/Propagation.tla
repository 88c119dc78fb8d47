----------------------------- MODULE Propagation -----------------------------
(***************************************************************************)
(* How names travel from a reference to the new ROM along matched          *)
(* functions, and how the names of several references are arbitrated       *)
(* (propagate.py, data_refs.py, ram_signature.py, merge.py).               *)
(*                                                                         *)
(* An access is what one instruction does to an address: its offset from   *)
(* the function's entry, the address, and whether it reads, writes or only *)
(* loads it as a constant ("scalar").  Symbols are a function from         *)
(* addresses to a name and a category.  Every address with a symbol has a  *)
(* label in the reference's program, for the import puts it there.         *)
(***************************************************************************)
EXTENDS CallGraph, SequencesExt

CONSTANTS
  FlashEnd,       \* 0x80000
  RamLo, RamHi,   \* 0x804000, 0x820000
  Window          \* how far apart two paired accesses may be: 8

ASSUME PropagationAssumption ==
  FlashEnd \in Nat /\ RamLo \in Nat /\ RamHi \in Nat /\ FlashEnd <= RamLo /\ Window \in Nat

InFlash(a) == a < FlashEnd
InRam(a) == RamLo <= a /\ a < RamHi

Symbol(name, ref, new, cat, conf, src, score) ==
  [name |-> name, ref |-> ref, new |-> new, cat |-> cat, conf |-> conf, src |-> src,
   score |-> score, reference |-> None, familyMatch |-> TRUE]

\* At least 0.95, at least 0.70, in tenths.
TierForScore(sim) ==
  IF 20 * sim >= 190 THEN "high" ELSE IF sim >= 7 THEN "medium" ELSE "low"

Trusted(matches) == Filter(matches, {m \in ToSet(matches) : TierForScore(m.sim) # "low"})

\* The name a match was given, else that of the reference's symbol.
MatchName(m, syms) ==
  IF m.name # None THEN m.name
  ELSE IF m.ref \in DOMAIN syms /\ syms[m.ref].cat = "function" THEN syms[m.ref].name ELSE None

FunctionLabels(matches, syms) ==
  LET named == Filter(Trusted(matches), {m \in ToSet(matches) : MatchName(m, syms) # None})
  IN [i \in DOMAIN named |->
        Symbol(MatchName(named[i], syms), named[i].ref, named[i].new, "function",
               TierForScore(named[i].sim), named[i].src, named[i].sim)]

-----------------------------------------------------------------------------
\* Data and RAM labels

\* collect_data_refs_within: what does not read counts as a constant.
CollectData(acc) ==
  LET flash == Filter(acc, {a \in ToSet(acc) : InFlash(a.addr)})
  IN [i \in DOMAIN flash |-> [flash[i] EXCEPT !.kind = IF @ = "read" THEN "read" ELSE "scalar"]]

\* collect_ram_refs_within
CollectRam(acc) == Filter(acc, {a \in ToSet(acc) : a.kind # "scalar" /\ InRam(a.addr)})

Distance(o, p) == IF o < p THEN p - o ELSE o - p

\* Mutant: an access of any offset is paired with the nearest, however far.
PairedFar(q, off) ==
  LET offs == {q[i].off : i \in DOMAIN q}
      best == CHOOSE o \in offs : \A p \in offs : Distance(o, off) <= Distance(p, off)
  IN IF q = <<>> THEN None ELSE q[CHOOSE i \in DOMAIN q : q[i].off = best]

\* The access of q that is taken to correspond to one at the offset: the last at the
\* nearest offset in the window, after it rather than before.
Paired(q, off) ==
  LET near == {q[i].off : i \in {i \in DOMAIN q : Distance(q[i].off, off) <= Window}}
      best == CHOOSE o \in near : \A p \in near :
                \/ Distance(o, off) < Distance(p, off)
                \/ Distance(o, off) = Distance(p, off) /\ o >= p
      at == {i \in DOMAIN q : q[i].off = best}
  IN IF near = {} THEN None ELSE q[Max(at)]

\* What one matched pair proposes: new addresses for names.  A read never pairs
\* with a constant.
PairProposals(m, refAcc, newAcc, syms) ==
  LET new(r) == Paired(newAcc[m.new], r.off)
      hit(r) == /\ r.addr \in DOMAIN syms
                /\ new(r) # None
                /\ (new(r).kind = "scalar" => r.kind = "scalar")
      use == Filter(refAcc[m.ref], {r \in ToSet(refAcc[m.ref]) : hit(r)})
  IN IF m.ref \notin DOMAIN refAcc \/ m.new \notin DOMAIN newAcc THEN <<>>
     ELSE [i \in DOMAIN use |-> [name |-> syms[use[i].addr].name, ref |-> use[i].addr,
                                 new |-> new(use[i]).addr, tier |-> TierForScore(m.sim),
                                 scalar |-> new(use[i]).kind = "scalar"]]

Proposals(matches, refAcc, newAcc, syms) ==
  LET ms == Trusted(matches)
  IN FlattenSeq([i \in DOMAIN ms |-> PairProposals(ms[i], refAcc, newAcc, syms)])

Source(cat, ps) ==
  IF cat = "ram_global" THEN "ram_refs"
  ELSE IF \E p \in ps : ~p.scalar THEN "data_refs" ELSE "data_refs_scalar"

\* propagate_data_labels, propagate_ram_labels: one label per name, at the address
\* proposed first, in doubt if another was proposed too.
AccessLabels(cat, matches, refAcc, newAcc, syms) ==
  LET ps == Proposals(matches, refAcc, newAcc, syms)
      of(i) == {j \in DOMAIN ps : ps[j].name = ps[i].name}
      firsts == Sorted({i \in DOMAIN ps : i = Min(of(i))})
      label(i) == Symbol(ps[i].name, ps[Max(of(i))].ref, ps[i].new, cat,
                         IF \E j \in of(i) : ps[j].new # ps[i].new THEN "low" ELSE ps[i].tier,
                         Source(cat, {ps[j] : j \in of(i)}), 10)
  IN [k \in DOMAIN firsts |-> label(firsts[k])]

-----------------------------------------------------------------------------
\* RAM signatures

\* build_ram_signatures: the named variables that a function uses.
Signatures(acc, label) ==
  LET names(f) == {label[acc[f][i].addr] : i \in {i \in DOMAIN acc[f] : acc[f][i].addr \in DOMAIN label}}
  IN [f \in {f \in DOMAIN acc : names(f) # {}} |-> names(f)]

\* The Jaccard index in tenths, of at least three names in common and at least 0.6;
\* no two indices of the instances are made equal by it.
SignatureScores(refSigs, newSigs) ==
  [p \in (DOMAIN refSigs) \X (DOMAIN newSigs) |->
     LET shared == Cardinality(refSigs[p[1]] \cap newSigs[p[2]])
         all == Cardinality(refSigs[p[1]] \cup newSigs[p[2]])
     IN IF shared >= 3 /\ 10 * shared >= 6 * all THEN (10 * shared) \div all ELSE 0]

\* match_by_ram_signature, listed by reference function.
SignatureMatches(refAcc, newAcc, refLabel, newLabel, matches, syms) ==
  LET scores == SignatureScores(Signatures(refAcc, refLabel), Signatures(newAcc, newLabel))
      found == RamSignatureMatches(scores, ToSet(matches))
      named(m) == [ref |-> m.ref, new |-> m.new, src |-> m.src, sim |-> m.sim,
                   name |-> IF m.ref \in DOMAIN syms THEN syms[m.ref].name ELSE "FUN"]
      order == Sorted({m.ref : m \in found})
  IN [k \in DOMAIN order |-> named(CHOOSE m \in found : m.ref = order[k])]

-----------------------------------------------------------------------------
\* Where a label comes from, and the arbitration between references

\* Mutant: flash data is taken to be the same in all families.
RiskyRam(s) == s.cat = "ram_global"

Risky(s) == s.cat \in {"data", "ram_global"}

\* apply_reference_provenance
ApplyProvenance(labels, reference, familyMatch) ==
  [i \in DOMAIN labels |->
     IF ~familyMatch /\ Risky(labels[i])
     THEN [labels[i] EXCEPT !.reference = reference, !.conf = "low", !.familyMatch = FALSE]
     ELSE [labels[i] EXCEPT !.reference = reference]]

ConfidenceRank == [high |-> 4, medium |-> 3, low |-> 1]

\* a comes after b in the order of tuples.
Above(a, b) == \E k \in DOMAIN a : a[k] > b[k] /\ \A j \in 1..(k - 1) : a[j] = b[j]

SymbolRank(s, priority) == <<ConfidenceRank[s.conf], priority[s.reference], s.score>>

\* The first of the highest rank.
BestSymbol(group, priority) ==
  group[CHOOSE i \in DOMAIN group : \A j \in DOMAIN group :
          /\ ~Above(SymbolRank(group[j], priority), SymbolRank(group[i], priority))
          /\ (j < i => Above(SymbolRank(group[i], priority), SymbolRank(group[j], priority)))]

LabelsAt(labels, a) == Filter(labels, {s \in ToSet(labels) : s.new = a})

Addresses(labels) == {labels[i].new : i \in DOMAIN labels}

\* arbitrate_symbols: a winner per address,
Winners(labels, priority) ==
  LET order == Sorted(Addresses(labels))
  IN [k \in DOMAIN order |-> BestSymbol(LabelsAt(labels, order[k]), priority)]

\* Mutant: a disagreement needs two references.
ContestedBetween(labels) ==
  {a \in Addresses(labels) : \E s, t \in ToSet(LabelsAt(labels, a)) :
     s.name # t.name /\ s.reference # t.reference}

Contested(labels) ==
  {a \in Addresses(labels) : \E s, t \in ToSet(LabelsAt(labels, a)) : s.name # t.name}

\* and the addresses with more than one name.
Disagreements(labels, priority) ==
  {[addr |-> a, candidates |-> {<<s.reference, s.name>> : s \in ToSet(LabelsAt(labels, a))},
    winner |-> BestSymbol(LabelsAt(labels, a), priority).name] : a \in Contested(labels)}

\* merge_matches: a match per new address, where the address came up first.
MergeMatches(all, priority) ==
  LET rank(m) == <<Tier(m.src), m.sim, priority[m.reference]>>
      at(i) == {j \in DOMAIN all : all[j].new = all[i].new}
      best(i) == CHOOSE j \in at(i) : \A k \in at(i) :
                   /\ ~Above(rank(all[k]), rank(all[j]))
                   /\ (k < j => Above(rank(all[j]), rank(all[k])))
      firsts == Sorted({i \in DOMAIN all : i = Min(at(i))})
  IN [k \in DOMAIN firsts |-> all[best(firsts[k])]]
=============================================================================
