--------------------------- MODULE EnrichmentProofs ---------------------------
(***************************************************************************)
(* For every registry, matching, set of initial stores and number of       *)
(* crashes: the stores on disk stay well typed, name no two objects alike  *)
(* and list no two functions at one entry point; and as long as the two    *)
(* commands run one at a time, each changes what it should and the file    *)
(* that enrich leaves is right about the stores.                           *)
(***************************************************************************)
EXTENDS Enrichment, EnrichRulesProofs

\* What every writer has established about a store before it saves it.
Clean(s) == IsStore(s) /\ NamesUnique(s) /\ OneEntryPerAddress(s)

\* The invariants hold of the stores because they already hold of what a
\* command holds in memory when it is about to save, whatever it loaded.
StoresClean == \A r \in Refs : Clean(store[r])
FilesWritten == \A r \in Refs : file[r] = Unreadable \/ file[r] \subseteq WrittenItem
EnrichReady ==
  /\ OnePerPlace(enrAuto) /\ OnePerPlace(enrReview)
  /\ enrPc # "idle" => enrNew \in Refs
  /\ enrPc = "save" => enrTarget \in Refs /\ Clean(enrMem)
ApplyReady ==
  /\ appItems \subseteq WrittenItem
  /\ appPc # "idle" => appTodo # {}
  /\ appPc = "save" => Clean(appMem)

IndInv == TypeOK /\ StoresClean /\ FilesWritten /\ EnrichReady /\ ApplyReady

-----------------------------------------------------------------------------
\* A store is fit to be loaded, changed and saved, by either command.
LEMMA CleanedAutoClean ==
  ASSUME NEW r \in Refs, NEW s, Clean(s), NEW cs \in SUBSET Merged, OnePerPlace(cs)
  PROVE  Clean(CleanedAuto(r, s, cs))
BY AutoApplyStore, CleanUpUnique DEF Clean, CleanedAuto

\* The same of the store apply-enrichment has in memory.
LEMMA CleanedApplyClean ==
  ASSUME NEW r \in Refs, NEW s, Clean(s), NEW items \in SUBSET WrittenItem
  PROVE  Clean(CleanedApply(r, s, items))
BY WrittenApplicable, ApplyVerdictsStore, CleanUpUnique DEF Clean, CleanedApply

\* apply-enrichment always has a next target while targets are left.
LEMMA NextTargetIn ==
  ASSUME appTodo \in SUBSET Refs, appTodo # {}
  PROVE  NextTarget \in appTodo
<1> DEFINE T == {SortedIds[t] : t \in appTodo}
<1>1. T \in SUBSET Nat /\ T # {}
  BY PriorityAssumption
<1>2. PICK m \in T : \A t \in T : m <= t
  <2> HIDE DEF T
  <2> QED BY <1>1, LeastNat
<1>3. \E t \in appTodo : \A u \in appTodo : SortedIds[t] <= SortedIds[u]
  BY <1>2
<1> QED BY <1>3 DEF NextTarget

\* What enrich gathers are merged candidates.
LEMMA MergedType ==
  ASSUME TypeOK, NEW n \in Refs
  PROVE  Merge(n) \subseteq Merged /\ OnePerPlace(Merge(n))
<1>1. matches[n] \in [Refs -> SUBSET Match]
  BY DEF TypeOK
<1>2. Others(n) \in SUBSET Refs
  BY EnrichmentAssumption DEF Others
<1> QED BY <1>1, <1>2, GatherType, MergeType DEF Merge, TypeOK

\* So is the empty store that stands for none in memory.
LEMMA EmptyClean == Clean(Empty)
BY FS_EmptySet DEF Clean, Empty, IsStore, NamesUnique, OneEntryPerAddress

\* An idle enrich has seen nothing.
LEMMA NoStoresType == NoStores = [r \in Refs |-> NoStores[r]] /\ \A r \in Refs : IsStore(NoStores[r])
BY EmptyClean DEF NoStores, Clean

-----------------------------------------------------------------------------
\* What the automatic phase has in memory: each entry's name is its own or one
\* proposed for its address, at most made unique.
LEMMA CleanedAutoNames ==
  ASSUME NEW r \in Refs, NEW s, Clean(s), NEW cs \in SUBSET Merged, OnePerPlace(cs),
         NEW k \in DOMAIN s \cap DOMAIN CleanedAuto(r, s, cs)
  PROVE  \E b : /\ Extends(CleanedAuto(r, s, cs)[k].name, b)
                /\ \/ b = s[k].name
                   \/ \E c \in cs : c.current # NoName /\ c.addr = k[1] /\ b = c.proposed
<1> DEFINE u == AutoApply(s, cs)
<1>1. /\ IsStore(u)
      /\ \A j \in DOMAIN s : \/ u[j].name = s[j].name
                             \/ \E c \in cs : /\ c.current # NoName /\ c.addr = j[1]
                                              /\ u[j].name = c.proposed
  BY AutoApplyStore DEF Clean
<1> HIDE DEF u
<1>2. \A j \in DOMAIN CleanUp(u, Erased[r]) : Extends(CleanUp(u, Erased[r])[j].name, u[j].name)
  BY <1>1, CleanUpUnique
<1>3. CleanedAuto(r, s, cs) = CleanUp(u, Erased[r])
  BY DEF CleanedAuto, u
<1> QED BY <1>1, <1>2, <1>3

\* What apply-enrichment has in memory: each entry has the name it is given, or
\* its own if it is given none, at most made unique.
LEMMA CleanedApplyNames ==
  ASSUME NEW r \in Refs, NEW s, Clean(s), NEW items \in SUBSET WrittenItem,
         NEW k \in DOMAIN CleanedApply(r, s, items)
  PROVE  \E b : /\ Extends(CleanedApply(r, s, items)[k].name, b)
                /\ IF NamesGiven(items, k) # {} THEN b \in NamesGiven(items, k)
                   ELSE k \in DOMAIN s /\ b = s[k].name
<1> DEFINE u == ApplyVerdicts(s, items)
           e == IF r \in WithRom THEN Erased[r] ELSE {}
<1>1. /\ IsStore(u)
      /\ \A j \in DOMAIN s : u[j].name \in {s[j].name} \cup NamesGiven(items, j)
      /\ \A j \in DOMAIN u \ DOMAIN s : u[j].name \in NamesGiven(items, j)
      /\ \A j \in DOMAIN u : NamesGiven(items, j) # {} => u[j].name \in NamesGiven(items, j)
  BY WrittenApplicable, ApplyVerdictsStore DEF Clean
<1> HIDE DEF u, e
<1>2. DOMAIN CleanUp(u, e) \subseteq DOMAIN u
      /\ \A j \in DOMAIN CleanUp(u, e) : Extends(CleanUp(u, e)[j].name, u[j].name)
  BY <1>1, CleanUpUnique
<1>3. CleanedApply(r, s, items) = CleanUp(u, e)
  BY DEF CleanedApply, u, e
<1> QED BY <1>1, <1>2, <1>3

\* A candidate that would rename without asking has the authority's name for the
\* function it matches.
LEMMA AuthorityEndorses ==
  ASSUME TypeOK, NEW n \in Refs, NEW E, NEW c \in AutoSet(Merge(n), E), c.current # NoName
  PROVE  c.proposed \in
           IF n = Authority
           THEN {FnName(store[n], m.new) : m \in {m \in matches[n][c.target] : m.ref = c.addr}}
           ELSE IF c.target = n /\ Authority \in Others(c.target)
           THEN {RefName(store[Authority], m) :
                   m \in {m \in matches[c.target][Authority] : m.new = c.addr}}
           ELSE {}
<1> DEFINE gathered == Gather(n, Others(n), matches[n], store)
<1>1. matches[n] \in [Refs -> SUBSET Match] /\ Others(n) \in SUBSET Refs /\ n \notin Others(n)
  BY EnrichmentAssumption DEF TypeOK, Others
<1>2. gathered \in SUBSET Candidate
  BY <1>1, GatherType DEF TypeOK
<1>3. c \in MergeCandidates(gathered) /\ Authority \in c.backers
  BY DEF AutoSet, Merge, IsAutoApplied, AuthorityAgrees
<1>4. PICK d \in gathered : /\ d.source = Authority /\ d.proposed = c.proposed
                            /\ d.target = c.target /\ d.addr = c.addr
  BY <1>2, <1>3, BackersProposed
<1>5. PICK r \in Others(n) : \/ d \in Forward(n, r, matches[n][r], store)
                             \/ d \in Back(n, r, matches[n][r], store)
  BY <1>4 DEF Gather
<1>6. CASE d \in Forward(n, r, matches[n][r], store)
  <2>1. PICK m \in matches[n][r] : /\ d.target = n /\ d.addr = m.new /\ d.source = r
                                   /\ d.proposed = RefName(store[r], m)
    BY <1>6 DEF Forward
  <2> QED BY <1>1, <1>4, <1>5, <2>1
<1>7. CASE d \in Back(n, r, matches[n][r], store)
  <2>1. PICK m \in matches[n][r] : /\ d.target = r /\ d.addr = m.ref /\ d.source = n
                                   /\ d.proposed = FnName(store[n], m.new)
    BY <1>7 DEF Back
  <2> QED BY <1>4, <2>1
<1> QED BY <1>5, <1>6, <1>7

-----------------------------------------------------------------------------
\* The invariant holds initially.
LEMMA InitIndInv == Init => IndInv
<1> SUFFICES ASSUME Init PROVE IndInv
  OBVIOUS
<1>0. PICK s \in Setups : store = s.store /\ matches = s.matches /\ budget = s.budget
  BY DEF Init
<1>1. StoresClean /\ store = [r \in Refs |-> store[r]]
  BY <1>0, EnrichmentAssumption DEF StoresClean, Clean
<1>2. IsStore(enrMem) /\ IsStore(appMem)
  BY EmptyClean DEF Init, Clean
<1>3. budget \in Budget /\ matches \in [Refs -> [Refs -> SUBSET Match]]
  BY <1>0, EnrichmentAssumption
<1>4. TypeOK
  BY <1>1, <1>2, <1>3, NoStoresType DEF Init, TypeOK, StoresClean, Clean
<1> QED BY <1>1, <1>4 DEF Init, IndInv, FilesWritten, EnrichReady, ApplyReady, OnePerPlace

\* Every step of either command, every edit and every crash preserves it.
LEMMA NextIndInv == IndInv /\ [Next]_vars => IndInv'
<1> SUFFICES ASSUME IndInv, [Next]_vars PROVE IndInv'
  OBVIOUS
<1> USE DEF IndInv
<1>1. ASSUME NEW n \in Refs, EnrichGather(n) PROVE IndInv'
  <2>1. /\ AutoSet(Merge(n), ErasedFns(store)) \subseteq Merged
        /\ OnePerPlace(AutoSet(Merge(n), ErasedFns(store)))
    BY MergedType DEF AutoSet, OnePerPlace
  <2>2. /\ ReviewSet(Merge(n), ErasedFns(store)) \subseteq Merged
        /\ OnePerPlace(ReviewSet(Merge(n), ErasedFns(store)))
    BY MergedType DEF ReviewSet, OnePerPlace
  <2>3. TypeOK'
    BY <1>1, <2>1, <2>2 DEF EnrichGather, TypeOK, appVars
  <2>4. /\ OnePerPlace(enrAuto)' /\ OnePerPlace(enrReview)'
        /\ enrNew' \in Refs /\ enrPc' = "auto"
    BY <1>1, <2>1, <2>2 DEF EnrichGather, OnePerPlace
  <2>5. EnrichReady'
    BY <2>4 DEF EnrichReady
  <2>6. StoresClean' /\ FilesWritten'
    BY <1>1 DEF EnrichGather, StoresClean, FilesWritten
  <2>7. ApplyReady'
    BY <1>1 DEF EnrichGather, ApplyReady, appVars
  <2> QED BY <2>3, <2>5, <2>6, <2>7
<1>2. ASSUME NEW t \in Refs, EnrichLoad(t) PROVE IndInv'
  <2>1. /\ For(t, enrAuto) \in SUBSET Merged /\ (enrAuto \ For(t, enrAuto)) \subseteq Merged
        /\ OnePerPlace(For(t, enrAuto)) /\ OnePerPlace(enrAuto \ For(t, enrAuto))
    BY DEF TypeOK, For, EnrichReady, OnePerPlace
  <2>2. Clean(CleanedAuto(t, store[t], For(t, enrAuto)))
    BY <2>1, CleanedAutoClean DEF StoresClean
  <2>3. enrPc' = "save" => enrTarget' \in Refs /\ Clean(enrMem')
    BY <1>2, <2>2 DEF EnrichLoad
  <2>4. IsStore(enrMem') /\ enrTarget' \in Refs \cup {NoRef} /\ enrPc' \in {"auto", "save"}
    BY <1>2, <2>2 DEF EnrichLoad, TypeOK, Clean
  <2>5. TypeOK'
    BY <1>2, <2>1, <2>4 DEF EnrichLoad, TypeOK, appVars
  <2> QED BY <1>2, <2>1, <2>3, <2>5 DEF EnrichLoad, StoresClean, FilesWritten, EnrichReady, ApplyReady, appVars
<1>3. CASE EnrichSave
  <2>1. enrTarget \in Refs /\ Clean(enrMem)
    BY <1>3 DEF EnrichSave, EnrichReady
  <2>2. StoresClean' /\ store' = [r \in Refs |-> store'[r]]
    BY <1>3, <2>1 DEF EnrichSave, StoresClean, TypeOK
  <2>3. TypeOK'
    BY <1>3, <2>2, EmptyClean DEF EnrichSave, TypeOK, StoresClean, Clean, appVars
  <2> QED BY <1>3, <2>2, <2>3 DEF EnrichSave, FilesWritten, EnrichReady, ApplyReady, appVars
<1>4. CASE EnrichWrite
  <2>1. enrNew \in Refs /\ enrReview \in SUBSET Merged /\ OnePerPlace(enrReview)
    BY <1>4 DEF EnrichWrite, EnrichReady, TypeOK
  <2>2. ReconcileItems(enrReview) \subseteq WrittenItem
    BY <2>1, ItemsType
  <2>3. FilesWritten' /\ file' = [r \in Refs |-> file'[r]]
    BY <1>4, <2>2 DEF EnrichWrite, FilesWritten, TypeOK
  <2>4. TypeOK'
    BY <1>4, <2>1, <2>3, NoStoresType DEF EnrichWrite, TypeOK, FilesWritten, WrittenItem, appVars
  <2> QED BY <1>4, <2>3, <2>4 DEF EnrichWrite, StoresClean, EnrichReady, ApplyReady, appVars, OnePerPlace
<1>5. ASSUME EnrichReset, budget.crash > 0, FilesWritten', file' = [r \in Refs |-> file'[r]],
             justDone' \in Refs \cup {NoRef}
      PROVE  IndInv'
  <2>1. budget' \in Budget
    BY <1>5 DEF EnrichReset, TypeOK, Budget
  <2>2. TypeOK'
    BY <1>5, <2>1, EmptyClean, NoStoresType DEF EnrichReset, TypeOK, FilesWritten, WrittenItem, Clean, appVars
  <2> QED BY <1>5, <2>2 DEF EnrichReset, StoresClean, EnrichReady, ApplyReady, appVars, OnePerPlace
<1>6. CASE EnrichCrash
  BY <1>5, <1>6 DEF EnrichCrash, FilesWritten, TypeOK
<1>7. CASE EnrichCrashWriting
  <2>1. enrNew \in Refs /\ enrReview \in SUBSET Merged /\ OnePerPlace(enrReview)
    BY <1>7 DEF EnrichCrashWriting, EnrichReady, TypeOK
  <2> DEFINE rows == ReconcileItems(enrReview)
             leading(i) == {j \in rows : RowBefore(j, i)}
  <2>2. rows \subseteq WrittenItem
    BY <2>1, ItemsType
  <2>3. PICK torn \in {Unreadable} \cup {leading(i) : i \in rows} :
          file' = [file EXCEPT ![enrNew] = torn]
    BY <1>7 DEF EnrichCrashWriting
  <2>4. torn = Unreadable \/ torn \subseteq WrittenItem
    BY <2>2, <2>3
  <2>5. FilesWritten' /\ file' = [r \in Refs |-> file'[r]]
    BY <2>3, <2>4 DEF FilesWritten, TypeOK
  <2> QED BY <1>5, <1>7, <2>5 DEF EnrichCrashWriting
<1>8. ASSUME NEW n \in Refs, EditVerdict(n) PROVE IndInv'
  <2>1. PICK i \in file[n], v \in {Proposed, KeepIt, DropIt} \cup CustomNames :
          file' = [file EXCEPT ![n] = (@ \ {i}) \cup {[i EXCEPT !.verdict = v]}]
    BY <1>8 DEF EditVerdict
  <2>2. v \in Verdict /\ i \in WrittenItem /\ file[n] \subseteq WrittenItem
    BY <1>8, <2>1, EnrichmentAssumption DEF EditVerdict, Verdict, FilesWritten
  <2>3. [i EXCEPT !.verdict = v] \in WrittenItem
    BY <2>2 DEF WrittenItem, Item
  <2>4. FilesWritten' /\ file' = [r \in Refs |-> file'[r]]
    BY <2>1, <2>2, <2>3 DEF FilesWritten, TypeOK
  <2>5. budget' \in Budget
    BY <1>8 DEF EditVerdict, TypeOK, Budget
  <2>6. TypeOK'
    BY <1>8, <2>4, <2>5 DEF EditVerdict, TypeOK, FilesWritten, WrittenItem, enrVars, appVars
  <2> QED BY <1>8, <2>4, <2>6 DEF EditVerdict, StoresClean, EnrichReady, ApplyReady, enrVars, appVars
<1>9. ASSUME NEW n \in Refs, ApplyRead(n) PROVE IndInv'
  <2>1. file[n] \subseteq WrittenItem /\ file[n] # {}
    BY <1>9 DEF ApplyRead, FilesWritten
  <2>2. {i.target : i \in file[n]} \subseteq Refs /\ {i.target : i \in file[n]} # {}
    BY <2>1 DEF WrittenItem, Item
  <2>3. budget' \in Budget
    BY <1>9 DEF ApplyRead, TypeOK, Budget
  <2>4. TypeOK'
    BY <1>9, <2>1, <2>2, <2>3 DEF ApplyRead, TypeOK, WrittenItem, enrVars
  <2> QED BY <1>9, <2>1, <2>2, <2>4 DEF ApplyRead, StoresClean, FilesWritten, EnrichReady, ApplyReady, enrVars
<1>10. CASE ApplyLoad
  <2>1. NextTarget \in Refs
    BY <1>10, NextTargetIn DEF ApplyLoad, ApplyReady, TypeOK
  <2>2. For(NextTarget, appItems) \in SUBSET WrittenItem
    BY DEF ApplyReady, For
  <2>3. Clean(appMem')
    BY <1>10, <2>1, <2>2, CleanedApplyClean DEF ApplyLoad, StoresClean
  <2>4. TypeOK'
    BY <1>10, <2>3 DEF ApplyLoad, TypeOK, Clean, enrVars
  <2> QED BY <1>10, <2>3, <2>4 DEF ApplyLoad, StoresClean, FilesWritten, EnrichReady, ApplyReady, enrVars
<1>11. CASE ApplySave
  <2>1. NextTarget \in Refs /\ Clean(appMem)
    BY <1>11, NextTargetIn DEF ApplySave, ApplyReady, TypeOK
  <2>2. StoresClean' /\ store' = [r \in Refs |-> store'[r]]
    BY <1>11, <2>1 DEF ApplySave, StoresClean, TypeOK
  <2>3. /\ appItems' \subseteq WrittenItem /\ appPc' \in {"idle", "load"}
        /\ appPc' # "idle" => appTodo' # {}
    BY <1>11 DEF ApplySave, ApplyReady
  <2>4. TypeOK'
    BY <1>11, <2>2, <2>3, EmptyClean
      DEF ApplySave, TypeOK, StoresClean, Clean, WrittenItem, enrVars
  <2> QED BY <1>11, <2>2, <2>3, <2>4 DEF ApplySave, FilesWritten, EnrichReady, ApplyReady, enrVars
<1>12. CASE ApplyCrash
  <2>1. budget' \in Budget
    BY <1>12 DEF ApplyCrash, TypeOK, Budget
  <2>2. TypeOK'
    BY <1>12, <2>1, EmptyClean DEF ApplyCrash, TypeOK, Clean, enrVars
  <2> QED BY <1>12, <2>2 DEF ApplyCrash, StoresClean, FilesWritten, EnrichReady, ApplyReady, enrVars
<1>13. CASE UNCHANGED vars
  <2>1. TypeOK'
    BY <1>13 DEF vars, enrVars, appVars, TypeOK
  <2> QED BY <1>13, <2>1 DEF vars, enrVars, appVars, StoresClean, FilesWritten, EnrichReady, ApplyReady
<1> QED BY <1>1, <1>2, <1>3, <1>4, <1>6, <1>7, <1>8, <1>9, <1>10, <1>11, <1>12, <1>13
     DEF Next, EnrichStep, ApplyStep

\* The invariant holds in every reachable state.
LEMMA SpecIndInv == Spec => []IndInv
BY InitIndInv, NextIndInv, PTL DEF Spec

-----------------------------------------------------------------------------
\* Every variable has its type in every reachable state, for every registry
\* and matching: no step of enrich or apply-enrichment, and no crash, writes
\* anything but stores and reconcile items.
THEOREM TypeCorrect == Spec => []TypeOK
<1>1. IndInv => TypeOK
  BY DEF IndInv
<1> QED BY <1>1, SpecIndInv, PTL

\* No two objects of a reference ever have one name on disk, whatever is
\* matched, voted, reviewed, overlapped or interrupted.
THEOREM NamesStayUnique == Spec => []UniqueNames
<1>1. IndInv => UniqueNames
  BY DEF IndInv, StoresClean, Clean, UniqueNames
<1> QED BY <1>1, SpecIndInv, PTL

\* No reference ever lists two functions at one entry point, although
\* candidates and verdicts are computed from stores that may have changed since.
THEOREM EntryPointsStayUnique == Spec => []OneFunctionPerAddress
<1>1. IndInv => OneFunctionPerAddress
  BY DEF IndInv, StoresClean, Clean, OneFunctionPerAddress
<1> QED BY <1>1, SpecIndInv, PTL

-----------------------------------------------------------------------------
\* A file has one row for a place: enrich writes one for each candidate, and the
\* operator changes nothing of a row but its verdict.
PlacesOnce(rows) ==
  \A i, j \in rows : i.target = j.target /\ i.addr = j.addr /\ i.cat = j.cat => i = j

FilesOnce == \A r \in Refs : file[r] # Unreadable => PlacesOnce(file[r])

LEMMA ReconcileOnce ==
  ASSUME NEW cs \in SUBSET Merged, OnePerPlace(cs)
  PROVE  PlacesOnce(ReconcileItems(cs))
<1> DEFINE ds == {c \in cs : TakesProposed(c)}
           before(c) == {d \in ds : /\ d.target = c.target /\ d.addr = c.addr
                                    /\ SortedIds[d.source] < SortedIds[c.source]}
           item(c) == [target |-> c.target, addr |-> c.addr, cat |-> Function,
                       row |-> Cardinality(before(c)) + 1, current |-> c.current,
                       proposed |-> c.proposed, source |-> c.source, verdict |-> Proposed]
<1>1. ReconcileItems(cs) = {item(c) : c \in ds}
  BY DEF ReconcileItems, ItemsOf
<1>2. \A c \in ds : item(c).target = c.target /\ item(c).addr = c.addr
  OBVIOUS
<1>3. \A c, d \in ds : c.target = d.target /\ c.addr = d.addr => c = d
  BY DEF OnePerPlace
<1> HIDE DEF item, ds
<1>4. ASSUME NEW i \in ReconcileItems(cs), NEW j \in ReconcileItems(cs), i.target = j.target, i.addr = j.addr
      PROVE  i = j
  <2>1. PICK c \in ds : i = item(c)
    BY <1>1
  <2>2. PICK d \in ds : j = item(d)
    BY <1>1
  <2>3. c.target = d.target /\ c.addr = d.addr
    BY <1>2, <1>4, <2>1, <2>2
  <2> QED BY <1>3, <2>1, <2>2, <2>3
<1> QED BY <1>4 DEF PlacesOnce

LEMMA FilesStayOnce ==
  ASSUME IndInv, FilesOnce, [Next]_vars
  PROVE  FilesOnce'
<1>1. file = [r \in Refs |-> file[r]] /\ enrReview \in SUBSET Merged /\ OnePerPlace(enrReview)
  BY DEF IndInv, TypeOK, EnrichReady
<1>2. ASSUME NEW n \in Refs, NEW rows, file' = [file EXCEPT ![n] = rows],
             rows = Unreadable \/ PlacesOnce(rows)
      PROVE  FilesOnce'
  BY <1>1, <1>2 DEF FilesOnce
<1>3. CASE EnrichWrite
  <2>1. enrNew \in Refs
    BY <1>3 DEF EnrichWrite, IndInv, EnrichReady
  <2> QED BY <1>1, <1>2, <1>3, <2>1, ReconcileOnce DEF EnrichWrite
<1>4. CASE EnrichCrashWriting
  <2> DEFINE rows == ReconcileItems(enrReview)
             leading(i) == {j \in rows : RowBefore(j, i)}
  <2>1. enrNew \in Refs
    BY <1>4 DEF EnrichCrashWriting, IndInv, EnrichReady
  <2>2. PICK torn \in {Unreadable} \cup {leading(i) : i \in rows} :
          file' = [file EXCEPT ![enrNew] = torn]
    BY <1>4 DEF EnrichCrashWriting
  <2>3. PlacesOnce(rows)
    BY <1>1, ReconcileOnce
  <2> HIDE DEF rows
  <2>4. torn = Unreadable \/ PlacesOnce(torn)
    BY <2>2, <2>3 DEF PlacesOnce
  <2> QED BY <1>2, <2>1, <2>2, <2>4
<1>5. ASSUME NEW n \in Refs, EditVerdict(n) PROVE FilesOnce'
  <2>1. file[n] # Unreadable
    BY <1>5 DEF EditVerdict
  <2>2. PICK i \in file[n], v \in {Proposed, KeepIt, DropIt} \cup CustomNames :
          file' = [file EXCEPT ![n] = (file[n] \ {i}) \cup {[i EXCEPT !.verdict = v]}]
    BY <1>5 DEF EditVerdict
  <2> DEFINE e == [i EXCEPT !.verdict = v]
             rows == (file[n] \ {i}) \cup {e}
  <2>3. PlacesOnce(file[n]) /\ i \in Item
    BY <2>1, <2>2 DEF FilesOnce, IndInv, FilesWritten, WrittenItem
  <2>4. e.target = i.target /\ e.addr = i.addr /\ e.cat = i.cat
    BY <2>3 DEF Item
  <2> HIDE DEF e
  <2>5. PlacesOnce(rows)
    BY <2>2, <2>3, <2>4 DEF PlacesOnce
  <2>6. file' = [file EXCEPT ![n] = rows]
    BY <2>2 DEF e
  <2> HIDE DEF rows
  <2> QED BY <1>2, <2>5, <2>6
<1>6. CASE UNCHANGED file
  BY <1>6 DEF FilesOnce
<1>7. /\ \A n \in Refs : EnrichGather(n) \/ EnrichLoad(n) \/ ApplyRead(n) => UNCHANGED file
      /\ EnrichSave \/ EnrichCrash \/ ApplyLoad \/ ApplySave \/ ApplyCrash \/ UNCHANGED vars
           => UNCHANGED file
  BY DEF EnrichGather, EnrichLoad, ApplyRead, EnrichSave, EnrichCrash, ApplyLoad, ApplySave, ApplyCrash, vars
<1> QED BY <1>3, <1>4, <1>5, <1>6, <1>7 DEF Next, EnrichStep, ApplyStep

\* Nowhere are labels of assembly listings in the way of a file.
ListingsOutOfTheWay ==
  \A n \in Refs : file[n] # Unreadable =>
    \A t \in {i.target : i \in file[n]} : ListingsApart(store[t], For(t, file[n]))

\* Applying a file to the stores, whatever they hold by now, and applying it again gives
\* the stores of the first time (cmd_apply_enrichment after a crash, or run twice), unless a
\* label of an assembly listing is in the way; commands may overlap and die.
THEOREM ApplyingIsRepeatable == Spec => [](ListingsOutOfTheWay => ApplyIdempotent)
<1>1. Init => FilesOnce
  <2> SUFFICES ASSUME Init PROVE \A r \in Refs : file[r] = {}
    BY DEF FilesOnce, PlacesOnce
  <2> QED BY DEF Init
<1>2. IndInv /\ FilesOnce /\ [Next]_vars => FilesOnce'
  BY FilesStayOnce
<1>3. IndInv /\ FilesOnce => (ListingsOutOfTheWay => ApplyIdempotent)
  <2> SUFFICES ASSUME IndInv, FilesOnce, ListingsOutOfTheWay, NEW n \in Refs, file[n] # Unreadable,
                      NEW t \in {i.target : i \in file[n]}
               PROVE  LET items == For(t, file[n])
                          once  == CleanedApply(t, store[t], items)
                      IN CleanedApply(t, once, items) = once
    BY DEF ApplyIdempotent
  <2> DEFINE items == For(t, file[n])
             erased == IF t \in WithRom THEN Erased[t] ELSE {}
  <2>1. file[n] \subseteq WrittenItem /\ PlacesOnce(file[n]) /\ ListingsApart(store[t], items)
    BY DEF IndInv, FilesWritten, FilesOnce, ListingsOutOfTheWay
  <2>2. items \in SUBSET WrittenItem /\ OneRow(items)
    BY <2>1 DEF For, PlacesOnce, OneRow
  <2>3. t \in Refs
    BY <2>1 DEF WrittenItem, Item
  <2>4. IsStore(store[t]) /\ OneEntryPerAddress(store[t])
    BY <2>3 DEF IndInv, StoresClean, Clean
  <2>5. Applicable(items)
    BY <2>2, WrittenApplicable
  <2>6. \A s : CleanedApply(t, s, items) = CleanUp(ApplyVerdicts(s, items), erased)
    BY DEF CleanedApply
  <2> HIDE DEF items, erased
  <2>7. LET once == CleanUp(ApplyVerdicts(store[t], items), erased)
        IN CleanUp(ApplyVerdicts(once, items), erased) = once
    BY <2>1, <2>2, <2>4, <2>5, ApplyVerdictsTwice
  <2> QED BY <2>6, <2>7 DEF items
<1> QED BY <1>1, <1>2, <1>3, SpecIndInv, PTL DEF Spec

-----------------------------------------------------------------------------
\* Whether the commands may overlap does not change.
LEMMA OverlapFixed ==
  ASSUME TypeOK, [Next]_vars
  PROVE  budget'.overlap = budget.overlap
<1>1. budget \in Budget
  BY DEF TypeOK
<1>2. CASE EnrichCrash \/ EnrichCrashWriting
  BY <1>1, <1>2 DEF EnrichCrash, EnrichCrashWriting, EnrichReset, Budget
<1>3. CASE \E n \in Refs : EditVerdict(n) \/ ApplyRead(n)
  BY <1>1, <1>3 DEF EditVerdict, ApplyRead, Budget
<1>4. CASE ApplyCrash
  BY <1>1, <1>4 DEF ApplyCrash, Budget
<1>5. /\ \A n \in Refs : EnrichGather(n) \/ EnrichLoad(n) => UNCHANGED budget
      /\ EnrichSave \/ EnrichWrite \/ ApplyLoad \/ ApplySave \/ UNCHANGED vars => UNCHANGED budget
  BY DEF EnrichGather, EnrichLoad, EnrichSave, EnrichWrite, ApplyLoad, ApplySave, vars
<1> QED BY <1>2, <1>3, <1>4, <1>5 DEF Next, EnrichStep, ApplyStep

\* Without overlap, nothing changes a store between its loading and its saving, and
\* every candidate still to be applied carries its reason.
Apart == enrPc = "idle" \/ appPc = "idle"
AutoEndorsed ==
  enrPc # "idle" =>
    \A c \in enrAuto : c.current # NoName => c.proposed \in AuthorityNames(c.target, c.addr)
SavesFaithful ==
  /\ enrPc = "save" => RenamesEndorsed
  /\ appPc = "save" => MemoryAsGiven

ApartInv == ~budget.overlap => Apart /\ AutoEndorsed /\ SavesFaithful

\* They hold as long as the commands run one at a time.
LEMMA SpecApartInv == Spec => []ApartInv
<1>1. Init => ApartInv
  BY DEF Init, ApartInv, Apart, AutoEndorsed, SavesFaithful
<1>2. ASSUME IndInv, ApartInv, [Next]_vars PROVE ApartInv'
  <2> USE <1>2
  <2> DEFINE I == Apart /\ AutoEndorsed /\ SavesFaithful
  <2> SUFFICES ASSUME ~budget.overlap, Apart, AutoEndorsed, SavesFaithful PROVE I'
    BY <1>2, OverlapFixed DEF ApartInv, IndInv
  <2>1. ASSUME NEW n \in Refs, EnrichGather(n) PROVE I'
    <3>1. enrNew' = n /\ enrSaw' = store /\ matches' = matches /\ enrPc' = "auto"
          /\ enrAuto' = AutoSet(Merge(n), ErasedFns(store)) /\ appPc = "idle" /\ appPc' = appPc
      BY <2>1 DEF EnrichGather, appVars
    <3>2. AutoEndorsed'
      <4> SUFFICES ASSUME NEW c \in enrAuto', c.current # NoName
                   PROVE  c.proposed \in AuthorityNames(c.target, c.addr)'
        BY DEF AutoEndorsed
      <4> DEFINE E == ErasedFns(store)
      <4>1. c \in AutoSet(Merge(n), E)
        BY <3>1
      <4> HIDE DEF E
      <4>2. c.proposed \in
              IF n = Authority
              THEN {FnName(store[n], m.new) : m \in {m \in matches[n][c.target] : m.ref = c.addr}}
              ELSE IF c.target = n /\ Authority \in Others(c.target)
              THEN {RefName(store[Authority], m) :
                      m \in {m \in matches[c.target][Authority] : m.new = c.addr}}
              ELSE {}
        BY <4>1, AuthorityEndorses DEF IndInv
      <4> QED BY <3>1, <4>2 DEF AuthorityNames
    <3> QED BY <3>1, <3>2 DEF Apart, SavesFaithful
  <2>2. ASSUME NEW t \in Refs, EnrichLoad(t) PROVE I'
    <3>1. UNCHANGED <<store, matches, enrNew, enrSaw, appPc>> /\ enrPc = "auto"
      BY <2>2 DEF EnrichLoad, appVars
    <3>2. \A r, a : AuthorityNames(r, a)' = AuthorityNames(r, a)
      BY <3>1 DEF AuthorityNames
    <3>3. AutoEndorsed' /\ Apart' /\ appPc' # "save"
      BY <2>2, <3>1, <3>2 DEF EnrichLoad, AutoEndorsed, Apart
    <3>4. ASSUME enrPc' = "save" PROVE RenamesEndorsed'
      <4> DEFINE cs == For(t, enrAuto)
                 s == store[t]
      <4>1. enrTarget' = t /\ enrMem' = CleanedAuto(t, s, cs)
        BY <2>2, <3>4 DEF EnrichLoad
      <4>2. Clean(s) /\ cs \in SUBSET Merged /\ OnePerPlace(cs)
        BY DEF IndInv, StoresClean, TypeOK, EnrichReady, For, OnePerPlace
      <4>3. \A c \in cs : c.current # NoName => c.proposed \in AuthorityNames(t, c.addr)
        BY <3>1 DEF AutoEndorsed, For
      <4> HIDE DEF cs
      <4>4. ASSUME NEW k \in DOMAIN s \cap DOMAIN CleanedAuto(t, s, cs)
            PROVE  DerivedFrom(CleanedAuto(t, s, cs)[k].name, {s[k].name} \cup AuthorityNames(t, k[1]))
        <5> HIDE DEF s
        <5>1. PICK b : /\ Extends(CleanedAuto(t, s, cs)[k].name, b)
                       /\ \/ b = s[k].name
                          \/ \E c \in cs : c.current # NoName /\ c.addr = k[1] /\ b = c.proposed
          BY <4>2, CleanedAutoNames
        <5> QED BY <4>3, <5>1 DEF DerivedFrom, Extends
      <4> QED BY <3>1, <3>2, <4>1, <4>4 DEF RenamesEndorsed
    <3> QED BY <3>3, <3>4 DEF SavesFaithful
  <2>3. CASE EnrichSave
    BY <2>3 DEF EnrichSave, appVars, Apart, AutoEndorsed, AuthorityNames, SavesFaithful
  <2>4. CASE EnrichWrite
    BY <2>4 DEF EnrichWrite, appVars, Apart, AutoEndorsed, SavesFaithful
  <2>5. CASE EnrichCrash \/ EnrichCrashWriting
    BY <2>5 DEF EnrichCrash, EnrichCrashWriting, EnrichReset, appVars, Apart, AutoEndorsed,
                SavesFaithful
  <2>6. ASSUME UNCHANGED <<store, matches, enrVars, appVars>> PROVE I'
    <3>1. UNCHANGED <<store, matches, enrPc, enrNew, enrAuto, enrMem, enrTarget, enrSaw>>
      BY <2>6 DEF enrVars
    <3>2. UNCHANGED <<store, appPc, appItems, appTodo, appMem>>
      BY <2>6 DEF appVars
    <3>3. \A t, a : AuthorityNames(t, a)' = AuthorityNames(t, a)
      BY <3>1 DEF AuthorityNames
    <3>4. RenamesEndorsed' = RenamesEndorsed /\ AutoEndorsed' = AutoEndorsed
      BY <3>1, <3>3 DEF RenamesEndorsed, AutoEndorsed
    <3>5. NextTarget' = NextTarget
      BY <3>2 DEF NextTarget
    <3>6. MemoryAsGiven' = MemoryAsGiven
      BY <3>2, <3>5 DEF MemoryAsGiven
    <3> QED BY <3>1, <3>2, <3>4, <3>6 DEF Apart, SavesFaithful
  <2>7. ASSUME NEW n \in Refs, ApplyRead(n) PROVE I'
    BY <2>7 DEF ApplyRead, enrVars, Apart, AutoEndorsed, SavesFaithful
  <2>8. CASE ApplyLoad
    <3>1. UNCHANGED <<store, enrVars, appItems, appTodo>> /\ appPc = "load"
      BY <2>8 DEF ApplyLoad
    <3> DEFINE t == NextTarget
               s == store[t]
               items == For(t, appItems)
    <3>2. t \in Refs /\ Clean(s) /\ items \in SUBSET WrittenItem
      BY <3>1, NextTargetIn DEF IndInv, StoresClean, ApplyReady, TypeOK, For
    <3>3. appMem' = CleanedApply(t, s, items)
      BY <2>8 DEF ApplyLoad
    <3>4. ASSUME NEW k \in DOMAIN CleanedApply(t, s, items)
          PROVE  DerivedFrom(CleanedApply(t, s, items)[k].name,
                             IF NamesGiven(items, k) # {} THEN NamesGiven(items, k)
                             ELSE {s[j].name : j \in DOMAIN s \cap {k}})
      <4> HIDE DEF t, s, items
      <4>1. PICK b : /\ Extends(CleanedApply(t, s, items)[k].name, b)
                     /\ IF NamesGiven(items, k) # {} THEN b \in NamesGiven(items, k)
                        ELSE k \in DOMAIN s /\ b = s[k].name
        BY <3>2, CleanedApplyNames
      <4> QED BY <4>1 DEF DerivedFrom, Extends
    <3>5. NextTarget' = NextTarget
      BY <3>1 DEF NextTarget
    <3>6. MemoryAsGiven'
      BY <3>1, <3>3, <3>4, <3>5 DEF MemoryAsGiven
    <3> QED BY <3>1, <3>6 DEF Apart, AutoEndorsed, SavesFaithful, enrVars
  <2>9. CASE ApplySave
    BY <2>9 DEF ApplySave, enrVars, Apart, AutoEndorsed, SavesFaithful
  <2>10. CASE ApplyCrash
    BY <2>10 DEF ApplyCrash, enrVars, Apart, AutoEndorsed, SavesFaithful
  <2>11. CASE (\E n \in Refs : EditVerdict(n)) \/ UNCHANGED vars
    BY <2>6, <2>11 DEF EditVerdict, vars
  <2> QED BY <1>2, <2>1, <2>2, <2>3, <2>4, <2>5, <2>7, <2>8, <2>9, <2>10, <2>11
       DEF Next, EnrichStep, ApplyStep
<1> QED BY <1>1, <1>2, SpecIndInv, PTL DEF Spec

\* While the commands run one at a time, an automatic step renames an existing
\* entry only to the name the authority had for the matched function, whatever was
\* matched and however the references voted.
THEOREM AutomaticRenamesEndorsed == Spec => AutoRenameEndorsed
<1>1. ApartInv /\ [Next]_vars => [EnrichSave /\ ~budget.overlap => RenamesEndorsed]_vars
  BY DEF ApartInv, SavesFaithful, EnrichSave
<1> QED BY <1>1, SpecApartInv, PTL DEF Spec, AutoRenameEndorsed

\* While the commands run one at a time, apply-enrichment saves what the verdicts
\* say and nothing else, wherever earlier commands died and whatever they left.
THEOREM VerdictsAlwaysHonoured == Spec => VerdictsHonoured
<1>1. ApartInv /\ [Next]_vars => [ApplySave /\ ~budget.overlap => MemoryAsGiven]_vars
  BY DEF ApartInv, SavesFaithful, ApplySave
<1> QED BY <1>1, SpecApartInv, PTL DEF Spec, VerdictsHonoured

-----------------------------------------------------------------------------
\* What is still shown survives a name that was made unique.
LEMMA StillShown ==
  ASSUME NEW s, NEW t, NEW a, NEW shown, ShownStill(s, a, shown),
         FnName(s, a) \in Name \cup {NoName},
         FnName(s, a) = NoName => FnName(t, a) = NoName,
         shown # NoName /\ FnName(s, a) # NoName => Extends(FnName(t, a), FnName(s, a))
  PROVE  ShownStill(t, a, shown)
<1>1. CASE shown = NoName
  BY <1>1 DEF ShownStill
<1>2. CASE shown # NoName
  <2>1. FnName(s, a) # NoName /\ DerivedFrom(FnName(s, a), {shown})
    BY <1>2 DEF ShownStill
  <2>2. Extends(FnName(s, a), shown)
    BY <2>1 DEF DerivedFrom, Extends
  <2>3. Extends(FnName(t, a), shown)
    BY <1>2, <2>1, <2>2, ExtendsTwice
  <2>4. FnName(t, a) # NoName
    BY <2>3, NoNameAssumption DEF Extends
  <2> QED BY <1>2, <2>3, <2>4 DEF ShownStill, DerivedFrom, Extends
<1> QED BY <1>1, <1>2

\* The candidates at work are of different places; none of those to be applied proposes
\* a name its target has elsewhere; and what those to be reviewed show is still there,
\* and is in no erased flash.
CandidatesApart ==
  /\ \A c \in enrAuto : Unclaimed(store[c.target], c.proposed, c.addr)
  /\ \A c \in enrAuto, d \in enrReview : c.target = d.target => c.addr # d.addr
  /\ \A d \in enrReview : /\ ShownStill(store[d.target], d.addr, d.current)
                          /\ d.current # NoName => d.addr \notin Erased[d.target]

\* So it is in the store about to be saved, to which no candidate is left.
MemoryFresh ==
  /\ \A c \in enrAuto : c.target # enrTarget
  /\ \A d \in enrReview : d.target = enrTarget => ShownStill(enrMem, d.addr, d.current)

FreshInv ==
  /\ ~budget.overlap /\ enrPc # "idle" => CandidatesApart
  /\ ~budget.overlap /\ enrPc = "save" => MemoryFresh
  /\ ReviewFileFresh

\* The rows enrich writes show what its candidates show.
LEMMA RowsShow ==
  ASSUME NEW cs, NEW i \in ReconcileItems(cs)
  PROVE  \E c \in cs : i.target = c.target /\ i.addr = c.addr /\ i.current = c.current
<1> DEFINE ds == {c \in cs : TakesProposed(c)}
           row(c) == Cardinality({d \in ds : /\ d.target = c.target /\ d.addr = c.addr
                                             /\ SortedIds[d.source] < SortedIds[c.source]}) + 1
<1>1. PICK c \in ds :
        i = [target |-> c.target, addr |-> c.addr, cat |-> Function, row |-> row(c),
             current |-> c.current, proposed |-> c.proposed, source |-> c.source,
             verdict |-> Proposed]
  BY DEF ReconcileItems, ItemsOf
<1> HIDE DEF row
<1> QED BY <1>1

\* What enrich computes from the stores is right about them.
LEMMA GatherFresh ==
  ASSUME IndInv, NEW n \in Refs, EnrichGather(n)
  PROVE  CandidatesApart'
<1> DEFINE E == ErasedFns(store)
<1>1. store' = store /\ enrAuto' = AutoSet(Merge(n), E) /\ enrReview' = ReviewSet(Merge(n), E)
  BY DEF EnrichGather
<1>2. Merge(n) \subseteq Merged /\ OnePerPlace(Merge(n))
  BY MergedType DEF IndInv
<1>3. \A c \in Merge(n) : /\ c.current = FnName(store[c.target], c.addr)
                          /\ Unclaimed(store[c.target], c.proposed, c.addr)
  <2>1. matches[n] \in [Refs -> SUBSET Match] /\ Others(n) \in SUBSET Refs
        /\ \A r \in Refs : IsStore(store[r])
    BY EnrichmentAssumption DEF IndInv, TypeOK, Others
  <2> QED BY <2>1, MergeShows DEF Merge
<1>4. \A c \in AutoSet(Merge(n), E), d \in ReviewSet(Merge(n), E) :
         c.target = d.target => c.addr # d.addr
  BY <1>2 DEF AutoSet, ReviewSet, OnePerPlace
<1>5. ASSUME NEW d \in ReviewSet(Merge(n), E)
      PROVE  /\ ShownStill(store[d.target], d.addr, d.current)
             /\ d.current # NoName => d.addr \notin Erased[d.target]
  <2>1. d \in Merge(n) /\ d \in Merged /\ d.addr \notin E[d.target]
    BY <1>2 DEF ReviewSet, Live
  <2>2. d.current = FnName(store[d.target], d.addr) /\ d.target \in Refs /\ d.current \in Name \cup {NoName}
    BY <1>3, <2>1 DEF Merged
  <2>3. ShownStill(store[d.target], d.addr, d.current)
    BY <2>2 DEF ShownStill, DerivedFrom
  <2>4. d.current # NoName => d.addr \in FnAddrs(store[d.target])
    BY <2>2 DEF FnName, HasEntry, SlotsAt, FnAddrs
  <2>5. E[d.target] = FnAddrs(store[d.target]) \cap Erased[d.target]
    BY <2>2 DEF ErasedFns
  <2> HIDE DEF E
  <2> QED BY <2>1, <2>3, <2>4, <2>5
<1>6. \A c \in AutoSet(Merge(n), E) : Unclaimed(store[c.target], c.proposed, c.addr)
  BY <1>3 DEF AutoSet
<1> HIDE DEF E
<1> QED BY <1>1, <1>4, <1>5, <1>6 DEF CandidatesApart

\* Loading a target and changing it leaves what is to be reviewed.
LEMMA LoadFresh ==
  ASSUME IndInv, CandidatesApart, NEW t \in Refs, EnrichLoad(t)
  PROVE  CandidatesApart' /\ (enrPc' = "save" => MemoryFresh')
<1> DEFINE cs == For(t, enrAuto)
           s == store[t]
<1>1. /\ store' = store /\ enrReview' = enrReview /\ enrAuto' = enrAuto \ cs
      /\ enrPc = "auto"
      /\ enrPc' = "save" => enrMem' = CleanedAuto(t, s, cs) /\ enrTarget' = t
  BY DEF EnrichLoad
<1>2. CandidatesApart'
  <2> HIDE DEF cs
  <2> QED BY <1>1 DEF CandidatesApart
<1>3. ASSUME NEW d \in enrReview, d.target = t
      PROVE  ShownStill(CleanedAuto(t, s, cs), d.addr, d.current)
  <2>1. Clean(s) /\ cs \in SUBSET Merged /\ OnePerPlace(cs)
    BY DEF IndInv, StoresClean, TypeOK, EnrichReady, For, OnePerPlace
  <2>2. \A c \in cs : c.addr # d.addr /\ Unclaimed(s, c.proposed, c.addr)
    BY <1>3 DEF CandidatesApart, For
  <2>3. /\ FnName(s, d.addr) = NoName => FnName(CleanedAuto(t, s, cs), d.addr) = NoName
        /\ FnName(s, d.addr) # NoName /\ d.addr \notin Erased[t]
             => Extends(FnName(CleanedAuto(t, s, cs), d.addr), FnName(s, d.addr))
    <3> HIDE DEF cs, s
    <3> QED BY <2>1, <2>2, AutoApplyLeaves DEF Clean, CleanedAuto
  <2>4. ShownStill(s, d.addr, d.current) /\ (d.current # NoName => d.addr \notin Erased[t])
    BY <1>3 DEF CandidatesApart
  <2>5. FnName(s, d.addr) \in Name \cup {NoName}
    BY <2>1, FnNameType DEF Clean
  <2> HIDE DEF cs, s
  <2> QED BY <2>3, <2>4, <2>5, StillShown
<1>4. \A c \in enrAuto \ cs : c.target # t
  BY DEF For
<1> HIDE DEF cs, s
<1> QED BY <1>1, <1>2, <1>3, <1>4 DEF MemoryFresh

\* When enrich ends while the commands run one at a time, its own automatic changes and
\* their clean-up have left what its file asks about: for every registry, matching and
\* history of crashes, edits and earlier runs.
THEOREM ReviewFilesFresh == Spec => []ReviewFileFresh
<1>1. Init => FreshInv
  BY DEF Init, FreshInv, ReviewFileFresh
<1>2. ASSUME IndInv, ApartInv, FreshInv, [Next]_vars PROVE FreshInv'
  <2> USE <1>2
  <2> DEFINE I == /\ enrPc # "idle" => CandidatesApart
                  /\ enrPc = "save" => MemoryFresh
                  /\ justDone # NoRef =>
                       \A i \in file[justDone] : ShownStill(store[i.target], i.addr, i.current)
  <2> SUFFICES ASSUME ~budget.overlap, Apart, I PROVE I'
    BY OverlapFixed DEF FreshInv, ApartInv, ReviewFileFresh, IndInv
  <2>1. ASSUME NEW n \in Refs, EnrichGather(n) PROVE I'
    <3>1. enrPc' = "auto" /\ UNCHANGED <<store, file, justDone>>
      BY <2>1 DEF EnrichGather
    <3> QED BY <2>1, <3>1, GatherFresh
  <2>2. ASSUME NEW t \in Refs, EnrichLoad(t) PROVE I'
    <3>1. enrPc = "auto" /\ UNCHANGED <<store, file, justDone>>
      BY <2>2 DEF EnrichLoad
    <3> QED BY <2>2, <3>1, LoadFresh
  <2>3. CASE EnrichSave
    <3>1. /\ enrPc = "save" /\ enrPc' = "auto" /\ justDone' = NoRef
          /\ store' = [store EXCEPT ![enrTarget] = enrMem] /\ UNCHANGED <<enrAuto, enrReview>>
      BY <2>3 DEF EnrichSave
    <3>2. enrTarget \in Refs /\ store = [r \in Refs |-> store[r]]
      BY <3>1 DEF IndInv, EnrichReady, TypeOK
    <3>3. /\ store'[enrTarget] = enrMem
          /\ \A c \in enrAuto : store'[c.target] = store[c.target]
          /\ \A d \in enrReview : d.target # enrTarget => store'[d.target] = store[d.target]
      BY <3>1, <3>2 DEF IndInv, TypeOK, Merged, MemoryFresh
    <3>4. CandidatesApart'
      BY <3>1, <3>3 DEF CandidatesApart, MemoryFresh
    <3> QED BY <3>1, <3>4
  <2>4. CASE EnrichWrite
    <3>1. /\ enrPc = "auto" /\ enrPc' = "idle" /\ justDone' = enrNew /\ store' = store
          /\ file' = [file EXCEPT ![enrNew] = ReconcileItems(enrReview)]
      BY <2>4 DEF EnrichWrite
    <3>2. file'[enrNew] = ReconcileItems(enrReview)
      BY <3>1 DEF IndInv, EnrichReady, TypeOK
    <3>3. \A i \in ReconcileItems(enrReview) : ShownStill(store[i.target], i.addr, i.current)
      BY <3>1, RowsShow DEF CandidatesApart
    <3> QED BY <3>1, <3>2, <3>3
  <2>5. CASE EnrichCrash
    BY <2>5 DEF EnrichCrash, EnrichReset
  <2>6. CASE EnrichCrashWriting
    BY <2>6 DEF EnrichCrashWriting, EnrichReset
  <2>7. ASSUME UNCHANGED <<store, justDone, enrVars>>,
               justDone # NoRef => \A i \in file'[justDone] : \E j \in file[justDone] :
                 i.target = j.target /\ i.addr = j.addr /\ i.current = j.current
        PROVE  I'
    BY <2>7 DEF enrVars, CandidatesApart, MemoryFresh
  <2>8. ASSUME NEW n \in Refs, EditVerdict(n) PROVE I'
    <3>1. UNCHANGED <<store, justDone, enrVars>> /\ file[n] # Unreadable
      BY <2>8 DEF EditVerdict
    <3>2. PICK i \in file[n], v \in {Proposed, KeepIt, DropIt} \cup CustomNames :
            file' = [file EXCEPT ![n] = (file[n] \ {i}) \cup {[i EXCEPT !.verdict = v]}]
      BY <2>8 DEF EditVerdict
    <3>3. i \in Item /\ file = [r \in Refs |-> file[r]]
      BY <3>1 DEF IndInv, TypeOK
    <3> DEFINE e == [i EXCEPT !.verdict = v]
    <3>4. e.target = i.target /\ e.addr = i.addr /\ e.current = i.current
      BY <3>3 DEF Item
    <3>5. \A r \in Refs : file'[r] = IF r = n THEN (file[n] \ {i}) \cup {e} ELSE file[r]
      BY <3>2, <3>3
    <3> HIDE DEF e
    <3>6. \A r \in Refs : \A x \in file'[r] : \E j \in file[r] :
             x.target = j.target /\ x.addr = j.addr /\ x.current = j.current
      BY <3>2, <3>4, <3>5
    <3>7. justDone # NoRef => justDone \in Refs
      BY DEF IndInv, TypeOK
    <3> QED BY <2>7, <3>1, <3>6, <3>7
  <2>9. ASSUME NEW n \in Refs, ApplyRead(n) PROVE I'
    BY <2>7, <2>9 DEF ApplyRead
  <2>10. CASE ApplyLoad
    BY <2>7, <2>10 DEF ApplyLoad
  <2>11. CASE ApplySave
    <3>1. appPc = "save" /\ justDone' = NoRef /\ enrPc' = enrPc
      BY <2>11 DEF ApplySave, enrVars
    <3> QED BY <3>1 DEF Apart
  <2>12. CASE ApplyCrash
    BY <2>7, <2>12 DEF ApplyCrash
  <2>13. CASE UNCHANGED vars
    BY <2>7, <2>13 DEF vars
  <2> HIDE DEF I
  <2> QED BY <2>1, <2>2, <2>3, <2>4, <2>5, <2>6, <2>8, <2>9, <2>10, <2>11, <2>12, <2>13
       DEF Next, EnrichStep, ApplyStep
<1>3. FreshInv => ReviewFileFresh
  BY DEF FreshInv
<1> QED BY <1>1, <1>2, <1>3, SpecIndInv, SpecApartInv, PTL DEF Spec
=============================================================================
