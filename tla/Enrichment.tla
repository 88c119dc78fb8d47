----------------------------- MODULE Enrichment -----------------------------
(***************************************************************************)
(* The propose -> review -> apply cycle that lets references name each     *)
(* other's functions: `rom-analyzer enrich <id>`, the operator who edits   *)
(* <id>.reconcile.toml, and `rom-analyzer apply-enrichment <file>`.        *)
(*                                                                         *)
(* Only the stores and the reconcile files survive a command.  A command   *)
(* saves one store at a time and may die between any two steps.  In some   *)
(* behaviours the two commands also run at the same time, since only       *)
(* enrich opens the Ghidra project and nothing else is locked.             *)
(***************************************************************************)
EXTENDS EnrichRules

CONSTANTS
  WithRom,      \* references whose ROM file exists
  Variant,      \* hardware variant of each reference
  Erased,       \* addresses of each ROM whose eight-byte window is all 0xFF
  Setups,       \* what a behaviour may start from: stores, matchings and bounds
  CustomNames,  \* names the operator may type as a verdict
  NoRef,        \* no reference
  Unreadable    \* a reconcile file cut off in the middle of a row

\* How many crashes, edited verdicts and apply-enrichment runs a behaviour has
\* left, and whether its commands may run at the same time.
Budget == [crash : Nat, edit : Nat, apply : Nat, overlap : BOOLEAN]

ASSUME EnrichmentAssumption ==
  /\ WithRom \subseteq Refs
  /\ Erased \in [Refs -> SUBSET Addr]
  /\ \A s \in Setups :
       /\ s.store = [r \in Refs |-> s.store[r]]
       /\ \A r \in Refs : /\ IsStore(s.store[r]) /\ NamesUnique(s.store[r])
                          /\ OneEntryPerAddress(s.store[r])
       /\ s.matches \in [Refs -> [Refs -> SUBSET Match]]
       /\ s.budget \in Budget
  /\ CustomNames \subseteq Name
  /\ NoRef \notin Refs

VARIABLES
  store,      \* the annotation JSON of each reference
  file,       \* <id>.reconcile.toml of each reference, {} when absent
  matches,    \* what the matching pipeline finds, fixed for a behaviour
  enrPc,      \* enrich: "idle", "auto" (between targets), "save"
  enrNew,     \* enrich: the new reference
  enrAuto,    \* enrich: candidates still to be applied
  enrReview,  \* enrich: candidates to be reviewed
  enrMem,     \* enrich: the store in memory, once loaded
  enrTarget,  \* enrich: whose store that is
  enrSaw,     \* history: the stores that enrich computed its candidates from
  appPc,      \* apply-enrichment: "idle", "load", "save"
  appItems,   \* apply-enrichment: the items read from the file
  appTodo,    \* apply-enrichment: targets left
  appMem,     \* apply-enrichment: the store in memory, once loaded
  justDone,   \* history: the enrich that completed with nothing written since
  budget      \* what is left of the bounds, one of Budget

enrVars == <<enrPc, enrNew, enrAuto, enrReview, enrMem, enrTarget, enrSaw>>
appVars == <<appPc, appItems, appTodo, appMem>>
vars    == <<store, file, matches, enrVars, appVars, justDone, budget>>

Empty == [k \in {} |-> k]    \* nothing in memory

NoStores == [r \in Refs |-> Empty]

Others(n) == {r \in WithRom \ {n} : Variant[r] = Variant[n]}

\* What the stores say of the functions that a ROM shows as erased flash.
ErasedFns(S) == [r \in Refs |-> FnAddrs(S[r]) \cap Erased[r]]

Merge(n) == MergeCandidates(Gather(n, Others(n), matches[n], store))

CleanedAuto(r, s, cs) == CleanUp(AutoApply(s, cs), Erased[r])

CleanedApply(r, s, items) ==
  CleanUp(ApplyVerdicts(s, items), IF r \in WithRom THEN Erased[r] ELSE {})

For(t, xs) == {x \in xs : x.target = t}

-----------------------------------------------------------------------------
Init ==
  /\ \E s \in Setups : store = s.store /\ matches = s.matches /\ budget = s.budget
  /\ file = [r \in Refs |-> {}]
  /\ enrPc = "idle" /\ enrNew = NoRef /\ enrAuto = {} /\ enrReview = {}
  /\ enrMem = Empty /\ enrTarget = NoRef /\ enrSaw = NoStores
  /\ appPc = "idle" /\ appItems = {} /\ appTodo = {} /\ appMem = Empty
  /\ justDone = NoRef

\* enrich n: match, then load every store and classify every candidate.
EnrichGather(n) ==
  /\ enrPc = "idle"
  /\ budget.overlap \/ appPc = "idle"
  /\ n \in WithRom
  /\ WithRom \ {n} # {}
  /\ enrPc' = "auto"
  /\ enrNew' = n
  /\ enrAuto' = AutoSet(Merge(n), ErasedFns(store))
  /\ enrReview' = ReviewSet(Merge(n), ErasedFns(store))
  /\ enrSaw' = store
  /\ UNCHANGED <<store, file, matches, enrMem, enrTarget, appVars, justDone, budget>>

\* Load one target, append and rename in memory; nothing changed, nothing saved.
EnrichLoad(t) ==
  /\ enrPc = "auto"
  /\ For(t, enrAuto) # {}
  /\ IF AutoApply(store[t], For(t, enrAuto)) # store[t]
     THEN /\ enrPc' = "save"
          /\ enrMem' = CleanedAuto(t, store[t], For(t, enrAuto))
          /\ enrTarget' = t
     ELSE UNCHANGED <<enrPc, enrMem, enrTarget>>
  /\ enrAuto' = enrAuto \ For(t, enrAuto)
  /\ UNCHANGED <<store, file, matches, enrNew, enrReview, enrSaw, appVars, justDone, budget>>

\* save_annotations: a temporary file, then an atomic rename.
EnrichSave ==
  /\ enrPc = "save"
  /\ store' = [store EXCEPT ![enrTarget] = enrMem]
  /\ enrPc' = "auto"
  /\ enrMem' = Empty
  /\ enrTarget' = NoRef
  /\ justDone' = NoRef
  /\ UNCHANGED <<file, matches, enrNew, enrAuto, enrReview, enrSaw, appVars, budget>>

\* write_reconcile replaces whatever the file held.
EnrichWrite ==
  /\ enrPc = "auto"
  /\ enrAuto = {}
  /\ file' = [file EXCEPT ![enrNew] = ReconcileItems(enrReview)]
  /\ justDone' = enrNew
  /\ enrPc' = "idle" /\ enrNew' = NoRef /\ enrReview' = {} /\ enrSaw' = NoStores
  /\ UNCHANGED <<store, matches, enrAuto, enrMem, enrTarget, appVars, budget>>

EnrichReset ==
  /\ enrPc' = "idle" /\ enrNew' = NoRef /\ enrAuto' = {} /\ enrReview' = {}
  /\ enrMem' = Empty /\ enrTarget' = NoRef /\ enrSaw' = NoStores
  /\ budget' = [budget EXCEPT !.crash = @ - 1]
  /\ UNCHANGED <<store, matches, appVars>>

EnrichCrash ==
  /\ enrPc # "idle"
  /\ budget.crash > 0
  /\ EnrichReset
  /\ UNCHANGED <<file, justDone>>

\* The order of the rows: by target, then address.
RowBefore(i, j) ==
  \/ SortedIds[i.target] < SortedIds[j.target]
  \/ i.target = j.target /\ i.addr < j.addr

\* write_text truncates the file first: a crash leaves some leading rows, or a
\* row cut in two that no reader parses.
EnrichCrashWriting ==
  /\ enrPc = "auto"
  /\ enrAuto = {}
  /\ budget.crash > 0
  /\ LET rows == ReconcileItems(enrReview)
         leading(i) == {j \in rows : RowBefore(j, i)}
     IN \E torn \in {Unreadable} \cup {leading(i) : i \in rows} :
          file' = [file EXCEPT ![enrNew] = torn]
  /\ justDone' = NoRef
  /\ EnrichReset

-----------------------------------------------------------------------------
\* The operator changes one verdict of a file.
EditVerdict(n) ==
  /\ budget.edit > 0
  /\ file[n] # Unreadable
  /\ \E i \in file[n], v \in {Proposed, KeepIt, DropIt} \cup CustomNames :
       /\ v # i.verdict
       /\ file' = [file EXCEPT ![n] = (@ \ {i}) \cup {[i EXCEPT !.verdict = v]}]
  /\ budget' = [budget EXCEPT !.edit = @ - 1]
  /\ UNCHANGED <<store, matches, enrVars, appVars, justDone>>

\* apply-enrichment: an unreadable file raises, an empty one has nothing to do.
ApplyRead(n) ==
  /\ appPc = "idle"
  /\ budget.overlap \/ enrPc = "idle"
  /\ budget.apply > 0
  /\ file[n] \notin {{}, Unreadable}
  /\ appPc' = "load"
  /\ appItems' = file[n]
  /\ appTodo' = {i.target : i \in file[n]}
  /\ budget' = [budget EXCEPT !.apply = @ - 1]
  /\ UNCHANGED <<store, file, matches, enrVars, appMem, justDone>>

NextTarget == CHOOSE t \in appTodo : \A u \in appTodo : SortedIds[t] <= SortedIds[u]

\* Mutant: verdicts for other targets are not skipped.
ApplyLoadAllTargets ==
  /\ appPc = "load"
  /\ appPc' = "save"
  /\ appMem' = CleanedApply(NextTarget, store[NextTarget], appItems)
  /\ UNCHANGED <<store, file, matches, enrVars, appItems, appTodo, justDone, budget>>

ApplyLoad ==
  /\ appPc = "load"
  /\ appPc' = "save"
  /\ appMem' = CleanedApply(NextTarget, store[NextTarget], For(NextTarget, appItems))
  /\ UNCHANGED <<store, file, matches, enrVars, appItems, appTodo, justDone, budget>>

\* A touched store is saved whether or not a verdict changed it.
ApplySave ==
  /\ appPc = "save"
  /\ store' = [store EXCEPT ![NextTarget] = appMem]
  /\ appMem' = Empty
  /\ appTodo' = appTodo \ {NextTarget}
  /\ IF appTodo' = {} THEN appPc' = "idle" /\ appItems' = {}
                      ELSE appPc' = "load" /\ UNCHANGED appItems
  /\ justDone' = NoRef
  /\ UNCHANGED <<file, matches, enrVars, budget>>

ApplyCrash ==
  /\ appPc # "idle"
  /\ budget.crash > 0
  /\ appPc' = "idle" /\ appItems' = {} /\ appTodo' = {} /\ appMem' = Empty
  /\ budget' = [budget EXCEPT !.crash = @ - 1]
  /\ UNCHANGED <<store, file, matches, enrVars, justDone>>

-----------------------------------------------------------------------------
EnrichStep == (\E t \in Refs : EnrichLoad(t)) \/ EnrichSave \/ EnrichWrite
ApplyStep  == ApplyLoad \/ ApplySave

Next ==
  \/ \E n \in Refs : EnrichGather(n)
  \/ EnrichStep
  \/ EnrichCrash
  \/ EnrichCrashWriting
  \/ \E n \in Refs : EditVerdict(n)
  \/ \E n \in Refs : ApplyRead(n)
  \/ ApplyStep
  \/ ApplyCrash

Spec == Init /\ [][Next]_vars

-----------------------------------------------------------------------------
(***************************************************************************)
(* What must hold.                                                         *)
(***************************************************************************)

\* Every variable has its type; a process that is idle holds nothing.
TypeOK ==
  /\ store = [r \in Refs |-> store[r]] /\ \A r \in Refs : IsStore(store[r])
  /\ file = [r \in Refs |-> file[r]]
  /\ \A r \in Refs : file[r] = Unreadable \/ file[r] \subseteq Item
  /\ matches \in [Refs -> [Refs -> SUBSET Match]]
  /\ enrPc \in {"idle", "auto", "save"} /\ enrNew \in Refs \cup {NoRef}
  /\ enrAuto \subseteq Merged /\ enrReview \subseteq Merged
  /\ IsStore(enrMem) /\ enrTarget \in Refs \cup {NoRef}
  /\ enrSaw = [r \in Refs |-> enrSaw[r]] /\ \A r \in Refs : IsStore(enrSaw[r])
  /\ appPc \in {"idle", "load", "save"} /\ appItems \subseteq Item
  /\ appTodo \subseteq Refs /\ IsStore(appMem)
  /\ justDone \in Refs \cup {NoRef}
  /\ budget \in Budget

\* No store on disk ever gives two objects one name (the linker fragments
\* built from it would not link), whichever commands run, overlap or die
\* (dedup_symbol_names, run by every writer).
UniqueNames == \A r \in Refs : NamesUnique(store[r])

\* No store ever lists two functions at one entry point, although the
\* candidates and the verdicts were computed from stores that have since
\* changed (_append_functions, apply_verdicts, merge_candidates).
OneFunctionPerAddress == \A r \in Refs : OneEntryPerAddress(store[r])

\* The names the authority had, when enrich read the stores, for the function that
\* matches address a of t.
AuthorityNames(t, a) ==
  IF enrNew = Authority
  THEN {FnName(enrSaw[enrNew], m.new) : m \in {m \in matches[enrNew][t] : m.ref = a}}
  ELSE IF t = enrNew /\ Authority \in Others(t)
  THEN {RefName(enrSaw[Authority], m) : m \in {m \in matches[t][Authority] : m.new = a}}
  ELSE {}

\* n is one of the names N, or one of them with tags appended.
DerivedFrom(n, N) ==
  \E b \in N \cap Name :
    /\ n.base = b.base
    /\ Len(b.tags) <= Len(n.tags)
    /\ \A i \in 1..Len(b.tags) : n.tags[i] = b.tags[i]

\* The entries in memory have the names on disk, or the authority's.
RenamesEndorsed ==
  \A k \in DOMAIN store[enrTarget] \cap DOMAIN enrMem :
    enrMem[k].name # store[enrTarget][k].name =>
      DerivedFrom(enrMem[k].name, {store[enrTarget][k].name}
                                    \cup AuthorityNames(enrTarget, k[1]))

\* While the commands run one at a time, an automatic step never renames an
\* existing entry except to the name the authority had for the matched function,
\* or to its own name made unique (classify's authority rule; merge_candidates'
\* corroborating sources).
AutoRenameEndorsed == [][EnrichSave /\ ~budget.overlap => RenamesEndorsed]_vars

\* The function at a of store s is still the one that a row shows: a gap is still
\* a gap, and a name is still that name, at most made unique.
ShownStill(s, a, shown) ==
  LET now == FnName(s, a)
  IN IF shown = NoName THEN now = NoName
     ELSE now # NoName /\ DerivedFrom(now, {shown})

\* When enrich ends, its own automatic changes have not filled, renamed or removed
\* what its file asks about, although the rows were computed before them; the
\* clean-up that follows them may have made the name a row shows unique
\* (classify's split, _append_functions, the passes of cmd_enrich's saves).
ReviewFileFresh ==
  justDone # NoRef /\ ~budget.overlap =>
    \A i \in file[justDone] : ShownStill(store[i.target], i.addr, i.current)

\* Applying a file a second time changes nothing: an apply-enrichment that
\* died half way, or that is run twice, may simply be run again.
ApplyIdempotent ==
  \A n \in Refs : file[n] # Unreadable =>
    \A t \in {i.target : i \in file[n]} :
      LET items == For(t, file[n])
          once  == CleanedApply(t, store[t], items)
      IN CleanedApply(t, once, items) = once

\* The entries in memory have the names the file gives, or the ones on disk.
MemoryAsGiven ==
  LET t == NextTarget
      given(k) == NamesGiven(For(t, appItems), k)
  IN \A k \in DOMAIN appMem :
       DerivedFrom(appMem[k].name,
                   IF given(k) # {} THEN given(k)
                   ELSE {store[t][j].name : j \in DOMAIN store[t] \cap {k}})

\* While the commands run one at a time, what apply-enrichment saves is what the
\* file says and nothing else: an entry with a verdict has the verdict's name, every
\* other entry its own, each at most made unique (apply_verdicts, _resolved_name
\* and the clean-up after them).
VerdictsHonoured == [][ApplySave /\ ~budget.overlap => MemoryAsGiven]_vars

\* However often references enrich each other with the same matches, the
\* stores change finitely often: no name goes back and forth between two ROMs.
EnrichmentSettles == <>[][UNCHANGED store]_vars

-----------------------------------------------------------------------------
(***************************************************************************)
(* What the README says of enrich and the code does not do.                *)
(***************************************************************************)

\* README.md:164 "routes to review genuine name conflicts": when enrich ends, a
\* real name that differs from the authority's real name for the matched function
\* has been replaced by it or is listed (merge_candidates' majority vote and
\* auto_resolve's keep can do neither).
AuthorityConflictSurfaces ==
  justDone # NoRef /\ Authority \in Others(justDone) =>
    \A m \in matches[justDone][Authority] :
      LET mine   == FnName(store[justDone], m.new)
          theirs == FnName(store[Authority], m.ref)
      IN (/\ IsReal(mine) /\ IsReal(theirs) /\ mine # theirs
          /\ Unclaimed(store[justDone], theirs, m.new)
          /\ Unclaimed(store[Authority], mine, m.ref)
          /\ m.new \notin Erased[justDone])
         => \E i \in file[justDone] :
              <<i.target, i.addr>> \in {<<justDone, m.new>>, <<Authority, m.ref>>}
=============================================================================
