------------------------------- MODULE Analyze -------------------------------
(***************************************************************************)
(* The analyze command (cli.py, pipeline/reference.py, arbitrate.py,       *)
(* post_match.py, output.py): for each reference names are propagated to   *)
(* the new ROM, in two passes, and stamped with where they come from; then *)
(* the references are arbitrated, passes over the new ROM correct and add  *)
(* labels, and the files are written.                                      *)
(*                                                                         *)
(* How the functions are matched is the subject of Matching, the checksum  *)
(* and the free space that of FreeSpace.                                   *)
(***************************************************************************)
EXTENDS Propagation, CallSites

CONSTANTS
  Worlds,    \* the new ROM, the registry and the options of a run
  Handlers   \* names of slot handlers -> <<slot, direction>>

\* What the functions of a ROM access: an instruction has an address, and so has what it
\* accesses.
IsAccesses(acc) ==
  /\ IsFiniteSet(DOMAIN acc) /\ DOMAIN acc \subseteq Nat
  /\ \A f \in DOMAIN acc :
       /\ acc[f] \in Seq(ToSet(acc[f]))
       /\ \A a \in ToSet(acc[f]) : a = [off |-> a.off, addr |-> a.addr, kind |-> a.kind]
                                  /\ a.off \in Int /\ f + a.off \in Nat /\ a.addr \in Nat

\* A reference: matches is what the phases of Matching leave of the matches with the new
\* ROM, bfs what the breadth-first search suggests, once per address, inside the function
\* around an address.
IsReference(e) ==
  /\ e.id # None /\ e.priority \in Int /\ {e.isTarget, e.hasRom} \subseteq BOOLEAN
  /\ IsFiniteSet(DOMAIN e.syms) /\ DOMAIN e.syms \subseteq Nat
  /\ IsAccesses(e.acc)
  /\ e.matches \in Seq(ToSet(e.matches))
  /\ \A m \in ToSet(e.matches) :
       /\ m = [ref |-> m.ref, new |-> m.new, src |-> m.src, sim |-> m.sim, name |-> m.name]
       /\ m.ref \in Nat /\ m.new \in Nat /\ m.sim \in 0..10
  /\ e.bfs \in Seq(ToSet(e.bfs))
  /\ \A a \in DOMAIN e.inside : e.inside[a] \in Nat

\* refs: the registry; acc: what each function of the new ROM accesses; cell: what
\* lies at an address of its flash; dtc: the used cells of the table at an address;
\* helpers: what the search by opcodes takes for the two trouble-code helpers;
\* calls: the calls of a function; site: the code before a call; refused: the labels that
\* Ghidra does not take (no such address, no function can be made there, an illegal name).
ASSUME AnalyzeAssumption ==
  \A w \in Worlds :
    /\ w = [refs |-> w.refs, acc |-> w.acc, cell |-> w.cell, dtc |-> w.dtc, helpers |-> w.helpers,
            calls |-> w.calls, site |-> w.site, variant |-> w.variant, options |-> w.options,
            refused |-> w.refused]
    /\ w.refs \in Seq(ToSet(w.refs)) /\ \A e \in ToSet(w.refs) : IsReference(e)
    /\ \A i, j \in DOMAIN w.refs : w.refs[i].id = w.refs[j].id => i = j
    /\ IsAccesses(w.acc)
    /\ \A f \in DOMAIN w.calls :
         IsFiniteSet(w.calls[f]) /\ w.calls[f] \subseteq Nat \cap DOMAIN w.site
    /\ \A s \in DOMAIN w.site :
         /\ w.site[s].code \in Seq(ToSet(w.site[s].code))
         /\ \A i \in ToSet(w.site[s].code) : IsInstruction(i)
         /\ w.site[s].halves \in Seq(Int)
    /\ w.options \subseteq {"obd", "can", "mode23", "project"}

VARIABLES
  world,     \* fixed for a behaviour
  phase,
  refs,      \* the references selected, the primary first
  current,   \* match_reference: its locals
  results,   \* what it returned, per reference
  merged,    \* arbitrate_references' result
  obd, slots, splices,   \* what the later passes found
  project,   \* the labels in the new ROM's program in Ghidra
  files      \* what is written

vars == <<world, phase, refs, current, results, merged, obd, slots, splices, project, files>>

NoResult == [matches |-> <<>>, labels |-> <<>>, ram |-> <<>>]

Init ==
  /\ world \in Worlds
  /\ phase = "select"
  /\ refs = <<>> /\ current = NoResult /\ results = <<>>
  /\ merged = [matches |-> <<>>, labels |-> <<>>, disagreements |-> {}, crossFamily |-> {}]
  /\ obd = None /\ slots = << >> /\ splices = {}
  /\ project = [fn |-> << >>, data |-> {}]
  /\ files = None

-----------------------------------------------------------------------------
\* The references

\* select_references, partition_available: of the variant and with a ROM, by falling
\* priority, equals in the registry's order.
Select ==
  /\ phase = "select"
  /\ LET use == {i \in DOMAIN world.refs : world.refs[i].variant = world.variant /\ world.refs[i].hasRom}
         before(i, j) == \/ world.refs[i].priority > world.refs[j].priority
                         \/ world.refs[i].priority = world.refs[j].priority /\ i < j
         order == [k \in 1..Cardinality(use) |->
                     CHOOSE i \in use : Cardinality({j \in use : before(j, i)}) = k - 1]
     IN /\ refs' = [k \in DOMAIN order |-> world.refs[order[k]]]
        /\ phase' = IF use = {} THEN "refused" ELSE "propagate"
  /\ UNCHANGED <<world, current, results, merged, obd, slots, splices, project, files>>

\* Whether the new ROM is the primary reference's: decided once, used for all.
SelfDiff == refs[1].isTarget

Priority == [id \in {refs[i].id : i \in DOMAIN refs} |->
               refs[CHOOSE i \in DOMAIN refs : refs[i].id = id].priority]

Entry == refs[Len(results) + 1]

Collected(acc, Collect(_)) == [f \in DOMAIN acc |-> Collect(acc[f])]

\* Mutant: a function that has a name keeps it.
RenameUnnamed(fn, a, name) == IF a \in DOMAIN fn THEN fn[a] ELSE name

Rename(fn, a, name) == name

\* The labels that do not fail; one that does is passed over without a word.
Taken(labels) == Filter(labels, {s \in ToSet(labels) : <<s.new, s.name>> \notin world.refused})

\* The labels of functions are the functions' names; others add up.
ApplyLabels(p, all) ==
  LET labels == Taken(all)
      fns == Filter(labels, {s \in ToSet(labels) : s.cat = "function"})
      last(a) == Max({i \in DOMAIN fns : fns[i].new = a})
  IN [fn |-> [a \in DOMAIN p.fn \cup Addresses(fns) |->
                IF a \in Addresses(fns) THEN Rename(p.fn, a, fns[last(a)].name) ELSE p.fn[a]],
      data |-> p.data \cup {<<s.new, s.name>> : s \in ToSet(labels) \ ToSet(fns)}]

\* Two ROMs: the matches, functions' names, and what the accesses of matched functions
\* tell of data and RAM.
PropagateCross(e) ==
  LET data == AccessLabels("data", e.matches, Collected(e.acc, CollectData),
                           Collected(world.acc, CollectData), e.syms)
      ram == AccessLabels("ram_global", e.matches, Collected(e.acc, CollectRam),
                          Collected(world.acc, CollectRam), e.syms)
  IN [matches |-> e.matches, labels |-> FunctionLabels(e.matches, e.syms) \o data \o ram, ram |-> ram]

SymbolsOf(e, cat) == Sorted({a \in DOMAIN e.syms : e.syms[a].cat = cat})

RamRefs == {a \in UNION {{world.acc[f][i].addr : i \in DOMAIN world.acc[f]} : f \in DOMAIN world.acc} : InRam(a)}

\* One ROM: every symbol at its own address; RAM only where the ROM refers to it.
PropagateIdentity(e) ==
  LET same(cat, src) == [i \in DOMAIN SymbolsOf(e, cat) |->
                           LET a == SymbolsOf(e, cat)[i]
                           IN Symbol(e.syms[a].name, a, a, cat, "high", src, 10)]
      fns == SymbolsOf(e, "function")
      matches == [i \in DOMAIN fns |-> [ref |-> fns[i], new |-> fns[i], src |-> "identity", sim |-> 10,
                                        name |-> e.syms[fns[i]].name]]
      used == same("ram_global", "ram_global")
      ram == Filter(used, {s \in ToSet(used) : s.new \in RamRefs})
  IN [matches |-> matches, labels |-> FunctionLabels(matches, e.syms) \o ram \o same("data", "identity"),
      ram |-> <<>>]

\* The first pass; what the breadth-first search suggests goes into the project at once.
Propagate ==
  /\ phase = "propagate"
  /\ current' = IF SelfDiff THEN PropagateIdentity(Entry) ELSE PropagateCross(Entry)
  /\ project' = IF SelfDiff THEN project ELSE ApplyLabels(project, Entry.bfs)
  /\ phase' = "second"
  /\ UNCHANGED <<world, refs, results, merged, obd, slots, splices, files>>

\* The functions that use the same RAM variables, as far as the first pass has named them.
NewSignatures(e) ==
  LET ref == [a \in {a \in DOMAIN e.syms : e.syms[a].cat = "ram_global"} |-> e.syms[a].name]
      new == [a \in Addresses(current.ram) |->
                current.ram[Max({i \in DOMAIN current.ram : current.ram[i].new = a})].name]
  IN IF current.ram = <<>> THEN <<>>
     ELSE SignatureMatches(Collected(e.acc, CollectRam), Collected(world.acc, CollectRam),
                           ref, new, current.matches, e.syms)

\* What a second pass over all matches adds, when there are new ones.
SecondLabels(e, sig, all) ==
  FunctionLabels(sig, e.syms)
    \o AccessLabels("ram_global", all, Collected(e.acc, CollectRam), Collected(world.acc, CollectRam), e.syms)
    \o AccessLabels("data", all, Collected(e.acc, CollectData), Collected(world.acc, CollectData), e.syms)

\* Mutant: the new matches come first.
SigMatchesFirst(matches, sig) == sig \o matches

Extended(matches, sig) == matches \o sig

SecondPass ==
  /\ phase = "second"
  /\ LET sig == IF SelfDiff THEN <<>> ELSE NewSignatures(Entry)
         all == Extended(current.matches, sig)
     IN current' = IF sig = <<>> THEN current
                   ELSE [current EXCEPT !.matches = all, !.labels = @ \o SecondLabels(Entry, sig, all)]
  /\ phase' = "stamp"
  /\ UNCHANGED <<world, refs, results, merged, obd, slots, splices, project, files>>

Stamped(e) ==
  [id |-> e.id, ram |-> current.ram,
   matches |-> [i \in DOMAIN current.matches |->
                  LET m == current.matches[i]
                  IN [ref |-> m.ref, new |-> m.new, src |-> m.src, sim |-> m.sim, name |-> m.name,
                      reference |-> e.id]],
   labels |-> ApplyProvenance(current.labels, e.id, e.family = refs[1].family)]

\* Mutant: the last reference comes first.
AddedInFront(r) == <<r>> \o results

Added(r) == Append(results, r)

Stamp ==
  /\ phase = "stamp"
  /\ results' = Added(Stamped(Entry))
  /\ current' = NoResult
  /\ phase' = IF Len(results') = Len(refs) THEN "merge" ELSE "propagate"
  /\ UNCHANGED <<world, refs, merged, obd, slots, splices, project, files>>

-----------------------------------------------------------------------------
\* All references

AllLabels == FlattenSeq([k \in DOMAIN results |-> results[k].labels])
AllMatches == FlattenSeq([k \in DOMAIN results |-> results[k].matches])

Merge ==
  /\ phase = "merge"
  /\ LET won == Winners(AllLabels, Priority)
     IN merged' = [matches |-> MergeMatches(AllMatches, Priority), labels |-> won,
                   disagreements |-> Disagreements(AllLabels, Priority),
                   crossFamily |-> {s \in ToSet(won) : ~s.familyMatch}]
  /\ phase' = "mut"
  /\ UNCHANGED <<world, refs, current, results, obd, slots, splices, project, files>>

FirstMatch(name) ==
  LET at == {i \in DOMAIN merged.matches : merged.matches[i].name = name}
  IN IF at = {} THEN None ELSE merged.matches[Min(at)].new
LastMatch(name) ==
  LET at == {i \in DOMAIN merged.matches : merged.matches[i].name = name}
  IN IF at = {} THEN None ELSE merged.matches[Max(at)].new

\* The reads of get_mut_pointer that lead to something of a kind.
MutReads(f, kind) ==
  IF f \notin DOMAIN world.acc THEN <<>>
  ELSE LET reads == CollectData(world.acc[f])
       IN Filter(reads, {a \in ToSet(reads) : a.kind = "read" /\ a.addr \in DOMAIN world.cell
                                                  /\ world.cell[a.addr] = kind})

\* find_mut_table_in_run: one read of a plausible size, one of a table of RAM addresses.
MutTable ==
  LET f == FirstMatch("get_mut_pointer")
  IN IF SelfDiff \/ f = None \/ Len(MutReads(f, "size")) # 1 \/ Len(MutReads(f, "table")) # 1
     THEN None ELSE MutReads(f, "table")[1].addr

SymbolAddress(e, name) ==
  LET at == {a \in DOMAIN e.syms : e.syms[a].name = name} IN IF at = {} THEN None ELSE Min(at)

MutSize == MutReads(FirstMatch("get_mut_pointer"), "size")[1].addr

\* Mutant: what was there before stays.
KeepAll(labels) == labels

\* The pass knows best: it takes the place of all labels of that name.
Superseded(labels) == Filter(labels, {s \in ToSet(labels) : s.name # "mut_table"})

MutSymbol ==
  Symbol("mut_table", SymbolAddress(refs[1], "mut_table"), MutTable, "data", "high", "mut_table_data_refs", 10)

MutPass ==
  /\ phase = "mut"
  /\ merged' = IF MutTable = None THEN merged
               ELSE [merged EXCEPT !.labels = Append(Superseded(@), MutSymbol)]
  /\ project' = IF MutTable = None \/ "project" \notin world.options THEN project
                ELSE [project EXCEPT !.data = @ \cup {<<MutTable, "mut_table">>, <<MutSize, "mut_table_size">>}]
  /\ phase' = "obd"
  /\ UNCHANGED <<world, refs, current, results, obd, slots, splices, files>>

Calls(f) == IF f \in DOMAIN world.calls THEN world.calls[f] ELSE {}

\* Who sets and resets which trouble code: calls with a mask of one bit and an index
\* for a cell the table uses.
Setters(table, f, isSet) ==
  {[site |-> s, isSet |-> isSet, word |-> CallArgs(world.site[s].code).idx,
    bit |-> BitOf(CallArgs(world.site[s].code).mask)] :
     s \in {s \in Calls(f) :
              LET args == CallArgs(world.site[s].code)
              IN /\ args.mask # None /\ args.idx # None /\ BitOf(args.mask) # None
                 /\ table \in DOMAIN world.dtc /\ <<args.idx, BitOf(args.mask)>> \in world.dtc[table]}}

FallbackTable == 299    \* 0x12948, where the first reference has it

\* The helpers as matched, a missing one as the search by opcodes has it.
ObdPass ==
  /\ phase = "obd"
  /\ LET at == {i \in DOMAIN merged.labels : merged.labels[i].name = "dtc_table"}
         table == IF at = {} THEN FallbackTable ELSE merged.labels[Min(at)].new
         helper(name, k) == IF LastMatch(name) # None THEN LastMatch(name) ELSE world.helpers[k]
     IN obd' = IF "obd" \notin world.options THEN None
               ELSE [table |-> table,
                     setters |-> Setters(table, helper("set_dtc", 1), TRUE)
                                   \cup Setters(table, helper("reset_dtc", 2), FALSE)]
  /\ phase' = "can"
  /\ UNCHANGED <<world, refs, current, results, merged, slots, splices, project, files>>

\* The handlers of each slot by name, of duplicates the lowest; only when the function
\* that checks the slots' identifiers is known.
CanPass ==
  /\ phase = "can"
  /\ LET named == {s \in ToSet(merged.labels) : s.name \in DOMAIN Handlers}
         known == \/ \E s \in ToSet(merged.labels) : s.name = "check_sid"
                  \/ FirstMatch("check_sid") # None
     IN slots' = IF "can" \notin world.options \/ ~known THEN << >>
                 ELSE [h \in {Handlers[s.name] : s \in named} |->
                         Min({s.new : s \in {s \in named : Handlers[s.name] = h}})]
  /\ phase' = "mode23"
  /\ UNCHANGED <<world, refs, current, results, merged, obd, splices, project, files>>

\* The read of sio0_tx_count in the function that corresponds to the dispatcher.
KlineSite ==
  LET hook == SymbolAddress(refs[1], "kline_hook")
      count == SymbolAddress(refs[1], "tx_count")
      old == IF hook \in DOMAIN refs[1].inside THEN refs[1].inside[hook] ELSE None
      matched == {i \in DOMAIN merged.matches : merged.matches[i].ref = old}
      new == IF SelfDiff THEN old ELSE IF matched = {} THEN None ELSE merged.matches[Max(matched)].new
      labels == {i \in DOMAIN merged.labels : merged.labels[i].name = "tx_count"}
      var == IF labels = {} THEN count ELSE merged.labels[Max(labels)].new
      reads == IF new \notin DOMAIN world.acc THEN {}
               ELSE {new + a.off : a \in {a \in ToSet(world.acc[new]) : a.kind = "read" /\ a.addr = var}}
      site == IF old = None \/ new = None THEN NearestSite({}, 0) ELSE NearestSite(reads, new + hook - old)
  IN IF hook = None \/ count = None THEN {} ELSE {Binding("kline", site[1], site[2])}

CanSites ==
  LET f == LastMatch("canrx12_15_process")
  IN IF f = None THEN {} ELSE CanCallSites(Calls(f), [s \in Calls(f) |-> SlotAt(world.site[s])])

Mode23 ==
  /\ phase = "mode23"
  /\ splices' = IF "mode23" \in world.options THEN KlineSite \cup CanSites ELSE {}
  /\ phase' = "write"
  /\ UNCHANGED <<world, refs, current, results, merged, obd, slots, project, files>>

\* description.ld, omni.ld.stub, reference-conflicts.md and the project.  The table that
\* the MUT pass has labelled is not labelled again.
WriteOutputs ==
  /\ phase = "write"
  /\ files' = [labels |-> merged.labels, splices |-> splices,
               stubRam |-> Filter(results[1].labels, {s \in ToSet(results[1].labels) : s.cat = "ram_global"}),
               disagreements |-> merged.disagreements, crossFamily |-> merged.crossFamily]
  /\ project' = IF "project" \notin world.options THEN project
                ELSE ApplyLabels(project, IF MutTable = None THEN merged.labels
                                          ELSE Superseded(merged.labels))
  /\ phase' = "done"
  /\ UNCHANGED <<world, refs, current, results, merged, obd, slots, splices>>

Returned == phase \in {"done", "refused"} /\ UNCHANGED vars

Next == \/ Select \/ Propagate \/ SecondPass \/ Stamp
        \/ Merge \/ MutPass \/ ObdPass \/ CanPass \/ Mode23 \/ WriteOutputs \/ Returned

Spec == Init /\ [][Next]_vars

-----------------------------------------------------------------------------
(* Properties *)

Done == phase = "done"

Categories == {"function", "data", "ram_global"}

LabelOK(s) == /\ s.new \in Nat /\ s.cat \in Categories
              /\ s.conf \in DOMAIN ConfidenceRank /\ s.familyMatch \in BOOLEAN

\* Each result belongs to the reference at its place in the order of the selection, which
\* the primary leads (reference.py match_reference, cli.py analyze).
TypeOK ==
  /\ phase \in {"select", "propagate", "second", "stamp", "merge", "mut", "obd", "can", "mode23",
                "write", "done", "refused"}
  /\ ToSet(refs) \subseteq ToSet(world.refs)
  /\ Len(results) <= Len(refs)
  /\ \A k \in DOMAIN results :
       /\ results[k].id = refs[k].id
       /\ \A i \in DOMAIN results[k].labels :
            /\ LabelOK(results[k].labels[i])
            /\ results[k].labels[i].reference = refs[k].id
  /\ \A i \in DOMAIN merged.labels : LabelOK(merged.labels[i])
  /\ \A x \in splices : x.addr \in Nat \cup {None} /\ x.conf \in DOMAIN ConfidenceRank

SameRegion(a, b) == (InFlash(a) /\ InFlash(b)) \/ (InRam(a) /\ InRam(b))

\* Why a result may hold a label: a match of the function, or a match of two functions
\* that access the name's address and the label's within the window of each other; in a
\* ROM compared with itself, the symbol at that address.
Supported(e, r, s) ==
  IF SelfDiff THEN s.new \in DOMAIN e.syms /\ e.syms[s.new].name = s.name /\ e.syms[s.new].cat = s.cat
  ELSE \E m \in ToSet(r.matches) :
         /\ TierForScore(m.sim) # "low"
         /\ IF s.cat = "function" THEN m.ref = s.ref /\ m.new = s.new
            ELSE /\ m.ref \in DOMAIN e.acc /\ m.new \in DOMAIN world.acc
                 /\ \E x \in ToSet(e.acc[m.ref]), y \in ToSet(world.acc[m.new]) :
                      /\ x.addr \in DOMAIN e.syms /\ e.syms[x.addr].name = s.name
                      /\ y.addr = s.new /\ SameRegion(x.addr, y.addr)
                      /\ Distance(x.off, y.off) <= Window

\* Every label of the description that some reference gave is supported by what that
\* reference's own matches and symbols say (reference.py 182-259, merge.py 60-83):
\* neither the second pass nor the arbitration mixes up whose evidence a label rests on.
LabelsSupported ==
  Done => \A i \in DOMAIN files.labels :
    LET s == files.labels[i]
    IN s.reference # None =>
         \E k \in DOMAIN refs : refs[k].id = s.reference /\ Supported(refs[k], results[k], s)

\* What a reference of another family says of an address of flash data or RAM is in the
\* description only in doubt, and is listed for verification (propagate.py 66-85: "their
\* absolute addresses are family-specific").
CrossFamilyVerified ==
  Done => \A i \in DOMAIN files.labels, k \in DOMAIN refs :
    LET s == files.labels[i]
    IN s.reference = refs[k].id /\ refs[k].family # refs[1].family /\ s.cat # "function"
       => s.conf = "low" /\ (s.name # "mut_table" => s \in files.crossFamily)

\* The second pass over a reference's matches never moves a name the first pass has
\* placed (reference.py 224-252): of one category, a name has one address per reference.
LaterPassAgrees ==
  \A k \in DOMAIN results : \A s, t \in ToSet(results[k].labels) :
    s.name = t.name /\ s.cat = t.cat /\ s.cat # "function" => s.new = t.new

\* The addresses listed are just those that were given two names, each with all that were
\* proposed, and the winner is the name the description has there, unless the MUT pass has
\* withdrawn or added one (arbitrate_symbols' own comment, merge.py 64-67; what README.md
\* says of the list is SymbolConflictsListed, which the code does not keep).
ConflictsFaithful ==
  Done =>
    LET proposed(a) == {<<s.reference, s.name>> : s \in ToSet(LabelsAt(AllLabels, a))}
        listed == {d.addr : d \in files.disagreements}
    IN /\ listed = {a \in Addresses(AllLabels) : Cardinality({p[2] : p \in proposed(a)}) > 1}
       /\ \A d \in files.disagreements :
            /\ d.candidates = proposed(d.addr)
            /\ \A s \in ToSet(LabelsAt(files.labels, d.addr)) : s.name \in {d.winner, "mut_table"}

\* A table that the MUT pass has found is named once, where it is; every address that any
\* reference named keeps a name but those that the arbitration took for the table
\* (post_match.py 50-85).
MutTableOnce ==
  Done =>
    LET named == {i \in DOMAIN files.labels : files.labels[i].name = "mut_table"}
        taken == {a \in Addresses(AllLabels) : BestSymbol(LabelsAt(AllLabels, a), Priority).name = "mut_table"}
    IN IF MutTable = None THEN Addresses(files.labels) = Addresses(AllLabels)
       ELSE /\ \A i \in named : files.labels[i].new = MutTable /\ world.cell[MutTable] = "table"
            /\ Cardinality(named) = 1
            /\ Addresses(files.labels) = (Addresses(AllLabels) \ taken) \cup {MutTable}

\* Running code forwards from unknown registers; None is what the listing does not tell.
Execute(code) ==
  LET regs[k \in 0..Len(code)] ==
        IF k = 0 THEN [r \in Registers |-> None]
        ELSE CASE code[k].op = "ldi" -> [regs[k - 1] EXCEPT ![code[k].dst] = code[k].imm]
               [] code[k].op = "mv"  -> [regs[k - 1] EXCEPT ![code[k].dst] = regs[k - 1][code[k].src]]
               [] OTHER              -> [r \in Registers |-> IF r \in code[k].writes THEN None ELSE regs[k - 1][r]]
  IN regs[Len(code)]

\* The last instruction that writes r0 is a load of a constant, and in reach.
LoadsSlot(code) ==
  \E k \in LoadsR0(code) :
    k > Len(code) - SlotBack /\ \A j \in DOMAIN code : Writes(code[j], "r0") => j <= k

\* A call that the description binds to a slot without doubt passes that slot in the low
\* byte of r0 (mode23_bindings.py 47-114, fetch.py 71-102), if nothing but a load of a
\* constant comes between; where something does, see SlotInDoubt.
SplicesAtSlot ==
  Done => \A x \in files.splices :
    x.name \in {"slot12", "slot15"} /\ x.conf = "high" =>
      LET code == world.site[x.addr].code
      IN LoadsSlot(code) => Low8(Execute(code)["r0"]) = IF x.name = "slot12" THEN 2 ELSE 1

\* No copy joins what r1 is copied from with what r0 is: P is the side of r0.
ArgumentsApart(code) ==
  \E P \in SUBSET Registers :
    /\ "r0" \in P /\ "r1" \notin P
    /\ \A i \in DOMAIN code : code[i].op = "mv" => (code[i].dst \in P <=> code[i].src \in P)

\* A setter of a trouble code is reported with the mask that its call passes in the low
\* half of r0, through any copies, wherever running the code tells what r0 is; and with
\* the index in r1, if the two were not copied from each other or from one register
\* (ghidra/domain.py 157-246: the walk follows both at once, and a load goes to r0 first).
SettersHold ==
  obd # None => \A x \in obd.setters :
    LET code == world.site[x.site].code
        r == Execute(code)
    IN /\ r["r0"] # None => Low16(r["r0"]) = 2^(x.bit)
       /\ r["r1"] # None /\ ArgumentsApart(code) => Low16(r["r1"]) = x.word

\* With a project to enrich, the functions in Ghidra end with the names the description
\* gives, also those that the search had named before the arbitration; where Ghidra does
\* not take a name, with none or with what the search of a reference had put there
\* (reference.py 119-135, session.py 282-371).
ProjectFollows ==
  Done /\ "project" \in world.options =>
    \A s \in ToSet(files.labels) : s.cat = "function" =>
      LET shown == IF s.new \in DOMAIN project.fn THEN project.fn[s.new] ELSE None
      IN IF <<s.new, s.name>> \notin world.refused THEN shown = s.name
         ELSE shown = None \/ \E k \in DOMAIN refs : \E t \in ToSet(refs[k].bfs) : t.new = s.new /\ t.name = shown

-----------------------------------------------------------------------------
(* What one of the theorems asks of the input *)

\* No reference gives one name to two of its tables, or to two of its variables.
NamesUnique ==
  \A w \in Worlds : \A e \in ToSet(w.refs) : \A a, b \in DOMAIN e.syms :
    e.syms[a].name = e.syms[b].name /\ e.syms[a].cat = e.syms[b].cat /\ e.syms[a].cat # "function" => a = b

-----------------------------------------------------------------------------
(* What the repository says, and the code does not do *)

\* reference.py:187-192: a RAM label is copied by absolute address only from a ROM with
\* the same RAM layout, "Cross-family analysis ... must not copy reference RAM labels".
ForeignNotCopied ==
  Done => \A i \in DOMAIN files.labels :
    files.labels[i].src = "ram_global" =>
      \E k \in DOMAIN refs : refs[k].id = files.labels[i].reference /\ refs[k].family = refs[1].family

\* README.md:80-81: the conflicts listed are those where "two references mapped the same
\* symbol to different addresses".
SymbolConflictsListed ==
  Done => \A s, t \in ToSet(AllLabels) :
    s.name = t.name /\ s.reference # t.reference /\ s.new # t.new =>
      \E d \in files.disagreements : \E c \in d.candidates : c[2] = s.name

\* mode23_bindings.py:61-64: with "an unreadable slot" both bindings are of low confidence,
\* and "The hardcoded slot==2 is never silently trusted": what a call passes that is bound
\* without doubt was not written by something else than a load of a constant.
SlotInDoubt ==
  Done => \A x \in files.splices :
    x.name \in {"slot12", "slot15"} /\ x.conf = "high" =>
      LET code == world.site[x.addr].code
      IN \A j \in DOMAIN code :
           code[j].op = "other" /\ Writes(code[j], "r0") => \E k \in DOMAIN code : k > j /\ Writes(code[k], "r0")
=============================================================================
