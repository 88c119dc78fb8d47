# rom-analyzer in TLA+

`rom-analyzer` names the functions and data of a car ECU's ROM by matching it
against reference ROMs that are already annotated, lets references exchange
names, and emits linker fragments.  This directory models the parts of it whose
correctness does not follow from reading one function: the stores of names and
the commands that write them, the matching of functions, what `analyze` makes of
the matches of several references, and the search for free space.  Paths below
are relative to `src/`.

## 1. The system

| component | code | state it keeps | operations | what makes it correct |
|---|---|---|---|---|
| Annotation stores and clean-up | `rom_analyzer/annotations_io.py`, `cleanup.py` | one `reference/<id>.json` per reference: functions, data and RAM symbols | load, atomic save, drop imprecise `.S` duplicates, drop functions in erased flash, make names unique | no name is given twice (the linker fragments would not link), nothing is lost or invented |
| Enrichment rules | `rom_analyzer/enrich.py` | none (pure) | candidates from matches, votes, classification, automatic resolution, TOML items, verdicts | only what the authority confirms is applied unasked; what is asked reflects the stores; applying is repeatable |
| Cross-reference enrichment | `rom_analyzer/cli.py` (`enrich`, `apply-enrichment`), `pipeline/arbitrate.py` | `<id>.reconcile.toml` per reference, between the commands and the operator | match, classify, apply, write for review; read, apply verdicts | whole commands interleave with each other, the operator and crashes without corrupting a store; enrichment comes to rest |
| Agent naming loop | `rom_analyzer/agent_enrich.py`, `scripts/enrich_{init,decompile,apply,vars_*}.py` | `queue.json`, `batch.json`, contexts and results, `applied_this_round.json`, `yield_history.json`, `corpus.reconcile.toml`, the `done` sentinel | pop a batch, decompile, ask agents, apply or put up for review, rescore, shorten, decide to stop | every answer that was given takes effect; the loop ends |
| Call-graph matching | `rom_analyzer/callgraph.py`, `pipeline/reference.py` | the set of pairs matched so far | align callee lists, search breadth first from the vector table, fill gaps, identify by bytes, arbitrate to one-to-one | the result is one-to-one; the search ends |
| `analyze` | `rom_analyzer/cli.py` (`analyze`), `pipeline/reference.py`, `pipeline/output.py` | the results per reference; the labels in the new ROM's Ghidra project | select references, propagate in two passes, arbitrate, correct, write | each line of the output rests on evidence of the reference it names; doubt is marked as doubt |
| Arbitration between references | `rom_analyzer/merge.py`, `propagate.py`, `pipeline/arbitrate.py` | none (pure) | stamp provenance, rank, pick a winner, record disagreements | the best-ranked name wins and no disagreement is hidden |
| RAM signatures and data references | `rom_analyzer/ram_signature.py`, `data_refs.py` | none (pure) | match functions by the RAM variables they use; carry names of data and RAM over matched functions | unambiguous pairs only |
| Post-match passes | `rom_analyzer/pipeline/post_match.py`, `crc.py`, `mut_table.py`, `obd_analysis.py`, `can_slots.py`, `mode23_bindings.py` ... | none (pure) | CRC range, table scans, splice sites | unique hits only, blocks in bounds |
| Free space | `rom_analyzer/flash_space.py`, `ram_space.py` | none (pure) | runs of erased flash, gaps of RAM | what is free is disjoint from what is used |
| Ghidra session and overlay | `rom_analyzer/ghidra/*.py`, `ghidra_overlay.py` | the Ghidra project and the labels in it | open, import, analyse, apply labels, version tracking | one process at a time; labels follow the store |
| Registry | `rom_analyzer/registry.py`, `types.py` | `registry.toml`, read only | parse, resolve ROM files | |
| Outputs | `rom_analyzer/emit_ld.py`, `pipeline/output.py`, `diff.py` | none | format linker fragments and reports | |
| Scripts | `scripts/*.py` | none of their own | one-shot conversions, dumps, explorations | |

How they interact: `analyze` runs the matching pipeline for each reference,
arbitrates, lets passes over the new ROM correct the result, and emits.  `enrich <id>` runs the same pipeline against every other
reference of the same variant, and turns the matches into changes to the JSON
stores and a TOML file for the operator, who edits verdicts in it and hands it to
`apply-enrichment`.  The agent loop is a third writer of the same stores.  The
commands share nothing but files, and take no lock on them (only Ghidra locks
its project).

Where it is hard: three writers of the same JSON files that read them, think
(minutes, or a human's days) and write; commands that save several files one
after another and may die in between; TOML and JSON files of the loop that are
overwritten in place; candidates computed from stores that change before they
are applied; names that must be unique in files that several rules rename; labels
that pass through six stages, of which the later ones replace what the earlier
ones said, while a Ghidra project keeps what it was told first; two passes over
accesses in which the second sees more matches than the first; arguments of calls
read backwards off a few instructions; boundaries of byte ranges.
`PROJECT.json` lists each such point with its line.

## 2. The modules

| module | models | its state and actions |
|---|---|---|
| `Labels` | a store and its three clean-up passes | no state; `DropImprecise`, `DropErased`, `DedupNames`, `CleanUp` |
| `EnrichRules` | `enrich.py` as pure operators | no state; `Gather`, `MergeCandidates`, `AutoSet`, `ReviewSet`, `TakesProposed`, `ReconcileItems`, `AppendFunctions`, `ApplyVerdicts` |
| `Enrichment` | the two commands and the operator | `store`, `file`: what is on disk; `enr*`, `app*`: what each running command has in memory; `justDone`, `enrSaw` (the stores `enrich` computed its candidates from): history. One action per step between two file accesses: `EnrichGather` (match, load everything, classify), `EnrichLoad`, `EnrichSave` (per target), `EnrichWrite`, `EditVerdict`, `ApplyRead`, `ApplyLoad`, `ApplySave`, and three crashes |
| `AgentEnrich` | the agent loop, over functions, variables or both | `store`, `corpus`, and the round's files on disk; per kind `queue`, `poor` (the last yields) and `done` (the sentinel); `step`, `kindsLeft`, `savesLeft`: the running script, the kinds of the round and the stores it still has to do. `StartRound`, `Decompile`, `Analyze`, `ApplyStart`, `SaveRom`, `SaveReview`, `Summarise`, `DeleteFiles`, `Rescore`, `RemoveBatch`, `AppendYield`, `CheckStop`, `Crash`, and the operator's `ApplyCorpus`, `ApplyOther` |
| `CallGraph` | what `callgraph.py`, `ram_signature.py` and the arbitration compute from two ROMs | no state; `AlignCallees`, `BootstrapAnchors`, `IdentityMatches`, `RamSignatureMatches`, `Arbitrate` |
| `Matching` | `match_reference` between two different ROMs | `world`: the two ROMs; `anchors`, `bfs`, `vt`, `gap`: the lists of matches; `queue`, `marked`, `gapRef`, `gapNew`, `callers`, `changed`: the locals of the two searches; `matches`: the result. `Bootstrap`, `BfsExpand` (a pair of the queue), `BfsEnd`, `VtDiff`, `GapFillCaller` (a caller of the pass), `GapEndPass`, `ArbitrateClaims`, `AddSignatures` |
| `Propagation` | what labels follow from matches, and the arbitration of references (`data_refs.py`, `ram_signature.py`, `propagate.py`, `merge.py`) | no state; `CollectData`, `CollectRam`, `PairProposals`, `FunctionLabels`, `AccessLabels`, `SignatureMatches`, `ApplyProvenance`, `Winners`, `Disagreements`, `MergeMatches` |
| `CallSites` | what is read off the instructions before a call (`ghidra/domain.py`, `ghidra/fetch.py`, `mode23_bindings.py`) | no state; `CallArgs`, `SlotAt`, `CanCallSites`, `NearestSite` |
| `Analyze` | the `analyze` command | `refs`, `current`, `results`, `merged`: the references, the locals of `match_reference`, what it returned, what the arbitration made of it; `obd`, `slots`, `splices`; `project`: the labels in Ghidra; `files`: what is written. `Select`, then per reference `Propagate`, `SecondPass`, `Stamp`; `Merge`, `MutPass`, `ObdPass`, `CanPass`, `Mode23`, `WriteOutputs` |
| `Crc` | the region of the checksum, read off the instructions of its step (`crc.py`) | no state; `ExtractCrcRegion` |
| `FreeSpace` | the checksum region, free flash, free RAM and the stub (`flash_space.py`, `ram_space.py`, `emit_ld.py`) | `input`: a ROM; `crc`; `i`, `runStart`, `blocks`: the loops of `find_free_blocks`; `ramBlocks`, `stub`. `DetectCrc`, `ScanFlash` (`SkipByte`, `StartRun`, `ExtendRun`, `EndRun`, `EndScan`), `ScanRam`, `FillStub` |
| `FreeRuns` | abstract: what the search for free flash promises | `erased`, `found`, `complete`. `Report` (the next block that is free), `Finish` |
| `MCEnrichment`, `MCAgentEnrich`, `MCMatching`, `MCAnalyze`, `MCFreeSpace` | the small instances the `.cfg` files refer to | |
| `OrderLemmas`, `EnrichRulesProofs` (of `Labels` as well), `EnrichmentProofs`, `AgentEnrichProofs`, `CallGraphProofs`, `MatchingProofs`, `AnalyzeProofs`, `FreeSpaceProofs` | lemmas and theorems | |

`Labels` and `EnrichRules` are extended by both `Enrichment` and `AgentEnrich`,
which therefore apply the same rules to stores.  `Analyze` composes `Propagation`
and `CallSites`; it starts where `Matching` ends, with the matches of each
reference.  `FreeSpace` implements `FreeRuns`: a byte is erased when the ROM holds
0xFF there, a block is found when it is in `blocks`, and the search is complete
when it has left its loops with a region; all other steps stutter.

How the data is abstracted:

* A name is a base word and the tags appended to it, which is all that the name
  predicates (`is_ghidra_auto_name`, `is_generic_autonamed`, the placeholder
  and `sio` tests) and `dedup_symbol_names` look at.
* A store is a function from slots (address, list, position) to a name and a
  source class.  `save_annotations` sorts by address, so a slot is as much of the
  order as survives.  Confidence, data types and sizes are left out.
* `confidence` of a candidate and `basis` text are left out.
* A matching is a set of pairs per pair of references, fixed for a behaviour, as
  the ROM bytes are.  How it is found is the subject of `Matching`.
* Of a queue's entry its address, current name, neighbours, siblings and priority are kept;
  decompiled text and prompts are left out.
* A crash while a TOML file is overwritten leaves some leading rows, or a file
  no reader accepts (`Unreadable`); a crash while a JSON file is overwritten
  leaves the latter.  A torn queue stops every later round of the agent loop, a torn yield history
  each round once it has shortened the queue.  `save_annotations` renames a finished file into place, so
  stores are never torn.
* In `Matching` a ROM is what the code decodes from it: entries, callees in call
  order, the targets of its tables.  Whether two bodies share enough words, where
  a body occurs in the other ROM, and how alike two RAM signatures are, are inputs;
  similarities are tenths.  What the matches are called plays no part, but whether
  the reference has a name for a function does (`named`).  The branch for a ROM
  compared with itself is in `Analyze` (`PropagateIdentity`).
* In `Analyze` a function is the list of its accesses (offset, address, read,
  write or reference), a call site the instructions before it, and flash is told
  from RAM by address.  `Window` stands for the offset tolerance.  An instruction that is no
  load of a constant and no copy is the set of registers that it writes; so is a call, and a place
  other code jumps to.  Ghidra's refusals of labels are an input (`refused`), and what
  `apply_mut_table_in_ghidra` writes is taken to succeed.  A label keeps its
  name, addresses, category, confidence, source and reference.
* In `FreeSpace` a byte is erased or used, a half-word is below `HalfWord`, and
  instructions are the opcode, registers and immediate that `extract_crc_region` looks at.

Steps taken as atomic that the code takes in several: `enrich` loads the stores
one after another before it classifies (`EnrichGather`); in `AgentEnrich` the load
and the save of one store are one action (`SaveRom`) and so is a whole run of the
operator's `apply-enrichment` (`ApplyCorpus`, `ApplyOther`), since `Enrichment`
already has them apart.  `AgentEnrich` has no erased flash.

External parts, modelled from how the code in `src/` uses them: the result of
Ghidra's version tracking, which `VtDiff` chooses freely; the session
that drives the loop (a round names functions, variables, or both, one kind after the other;
its order of steps is described in
`docs/superpowers/plans/2026-06-14-agent-enrich.md:1022-1245`), the agents' answers, and
the operator.

## 3. The runs

| run | question | instance and result |
|---|---|---|
| `enrich_cycle` | May enrich, review and apply be interleaved, overlapped and killed at any step, and does enrichment come to rest? | three references, two addresses; four families of `Setups`: a whole cycle with one crash, one edit and one application, over stores with a gap, a conflict, junk names, a data symbol with a function's name, an erased function; the same where the clean-up tags an entry that a row shows; both commands at the same time, where one store already owns the name a suffix would make; enrich runs without end over all eight ways to match three references straight or crossed and all small stores with distinct names. Holds: `TypeOK UniqueNames OneFunctionPerAddress ReviewFileFresh ApplyIdempotent AutoRenameEndorsed VerdictsHonoured EnrichmentSettles` (556,000 states). Updates may be lost by commands that overlap |
| `enrich_outvoted` | Does each conflict with the authority surface? | four references. Violated: `AuthorityConflictSurfaces` |
| `agent_loop` | Does the loop end, with each answer in effect, if sessions die and the operator works meanwhile? | two ROMs with two and one functions and variables, batches of two; functions only, variables only, and one of each kind; every answer, one crash, one operation. Holds: `TypeOK OneFunctionPerAddress LoopFinishes AnswersTakeEffect` (292,000 states) |
| `agent_accepted` | Does an accepted proposal reach the store? | the same without crash. Violated: `AcceptedProposalsLand` |
| `match_search` | Do the searches find all that is in their reach, do they end, and is the outcome one-to-one? | 5,332 pairs of ROMs: 24 x 24 call graphs of four functions, 60 x 60 pairs of callee lists, tables that disagree with each other and the bodies, a chain longer than the search is deep; three results of the version tracking, two of the signatures. Holds: `TypeOK AlignmentOptimal BfsComplete GapOneToOne GapClosed OneToOne UndisputedKept EveryStepProgresses` (144,000 states) |
| `match_dtc` | Do structural sources override the version tracking? | the same. Violated: `StructuralOverrides` |
| `space` | Is what is reported as free really free, and is all of it found? | every flash of ten bytes (alignment 2, blocks of at least 2) under three regions, ending at the ROM's end or before it; the checksum step in both encodings, both comparisons, with gaps, and streams that are none; every set of RAM addresses in and beside a RAM of eight. Holds: `TypeOK CrcAsCoded RamGapsExact StubUnambiguous FindsFreeRuns ScanEnds` (69,000 states) |
| `space_bands` | Does a block lie in the band it is reported for? | every flash of ten bytes, one region. Violated: `BlocksWithinBands` |
| `analyze` | Does all that `analyze` writes rest on the evidence it names? | 16,794 cases: accesses of matched functions that shift, repeat or cross; references that agree, disagree or are of another family, with equal and different priorities, and labels that Ghidra refuses; one reference, none, and a ROM that is a reference itself; MUT tables found, missed and labelled wrongly; every code of four instructions before a call, out of eleven (loads, negative constants too, copies, and others that write registers or none); slot call sites; K-line sites. Holds: `TypeOK LabelsSupported CrossFamilyVerified LaterPassAgrees ConflictsFaithful MutTableOnce SplicesAtSlot SettersHold ProjectFollows` (189,000 states) |
| `analyze_foreign` | Are RAM labels copied by address only within a family? | the new ROM is the primary's own, with a second reference. Violated: `ForeignNotCopied` |
| `analyze_conflicts` | Is a name that two references place differently listed? | 1,152 pairs of references that agree or not. Violated: `SymbolConflictsListed` |
| `analyze_slots` | Is a slot that the code does not tell left in doubt? | 195 sets of callers, whose r0 is loaded, copied or overwritten. Violated: `SlotInDoubt` |

Bounds.  The `budget` of a setup of `Enrichment` (`crash`, `edit`, `apply`, and whether
commands may `overlap`) and `Crashes` and `Operations` of `AgentEnrich` bound the events of a behaviour; enrich runs and rounds are not bounded.  One crash is enough to meet
every pair of steps, because a second one only repeats the recovery from a
state the first has already produced.  Two addresses are what a conflict between
two entries needs (a name claimed twice, a crossed matching), three references
what a majority against a priority needs, and four what a majority against the
authority needs.  For
`Matching`, three callees are the least for an alignment that is not a prefix, and
the lists of up to four with the chain of sizes 12, 16, 24, 40 make size
compatibility intransitive in every way four functions can; the chain of eight
functions is longer than the depth of the search, and graphs with cycles meet
pairs on several ways.  For `FreeSpace`, ten bytes hold three runs with alignment 2, so that
runs start and end at, before and after each boundary; its sizes are constants of
the proofs.  For `Analyze`, two references are what an arbitration needs and a
third at equal priority what a tie needs; two accesses per function within and beyond a
window of 2 meet each case of `Paired`, and a call needs four
instructions for two arguments and a copy of each, of which one may be in the way instead;
longer codes add what lies at the ends of the walks' reach.  Refused labels are fixed for a run.  The case families
vary one stage each, since a later stage sees of the earlier ones only labels and
matches.  What theorems ask of the input beyond the assumptions on constants, `MCAnalyze` and
`MCFreeSpace` state as assumptions too (`MCHypotheses`, `MCHypothesis`), so that TLC evaluates them.  The proofs of section 5 have no bounds.

Fairness.  `Enrichment` assumes none: `EnrichmentSettles` says that the stores
change finitely often, whoever runs what.  `AgentEnrich` assumes weak fairness of
the loop's next step, for the session is started again until the sentinel exists
and the scripts and agents it waits for return; of crashes and the operator
nothing is assumed.  Its runs do not check for deadlock because a finished loop
stops; the runs of `Enrichment` do.  `Matching` needs no fairness for its
termination: `EveryStepProgresses` says that each step starts the next phase or
makes `Work`, a natural number, smaller, and the absence of deadlocks that no phase
but the last gets stuck.  `FreeSpace` assumes weak fairness of the scan, one loop of
one process, and proves nothing with it but that the loops end (`ScanEnds`).
`Analyze` is a sequence of steps without a loop but that over the references; its
runs and those of `Matching` check for deadlock.

## 4. Where documents and code differ

* `AuthorityConflictSurfaces`: `merge_candidates` counts votes before it looks at
  priorities, so two references can outvote the authority's name, which then is
  neither applied nor listed (`README.md:164`).
* `AcceptedProposalsLand`: `enrich_apply` writes Ghidra's `FUN_...` as the current
  name of a function the JSON does not list; `apply_verdicts` adds a function
  only if the current name is empty, so accepting the proposal does nothing.
* `StructuralOverrides`: `SOURCE_PRIORITY` lists neither `dtc_table` nor
  `ram_signature`, so an anchor of the trouble-code tables ranks level with a match of the
  version tracking and loses to it by order (`rom_analyzer/merge.py:12-13`).
* `BlocksWithinBands`: `_classify` looks at the first byte of a block, so one that
  starts inside the checksummed area and reaches beyond it counts as checksummed to its
  end (`rom_analyzer/flash_space.py:21-24`); `tests/golden/33520003.flash-free.toml`
  has one.
* `ForeignNotCopied`: whether the new ROM is a reference's own is decided for the
  primary and then used for all, so that a reference of another family is copied by
  address too (`rom_analyzer/pipeline/reference.py:187-192`); its function names come
  along with high confidence.
* `SymbolConflictsListed`: `README.md:80-81` says that the list of conflicts holds symbols that
  two references mapped to different addresses, arbitrated by priority.  `arbitrate_symbols`
  (`rom_analyzer/merge.py:68-77`) groups by address and lists addresses with two names, as its own
  comment says and `ConflictsFaithful` states; a name at two addresses stays there twice, unlisted.
* `SlotInDoubt`: `fetch_r0_imm_before` (`rom_analyzer/ghidra/fetch.py:88-101`) walks back past
  every instruction but a load of r0, also past one that writes r0, and binds the call by the
  constant behind it with high confidence; `rom_analyzer/mode23_bindings.py:61-64` says that an
  unreadable slot is bound in doubt and slot 2 never silently trusted.  `SplicesAtSlot` is about
  the calls where nothing else writes r0 after the load.

Seen while modelling, and part of the model, but with no run of their own:

* A function that a reference's store does not list votes with the auto-name that
  Ghidra gave it; the auto-name can win, and is then dropped together with the real
  name it beat (`README.md:162-163`).
* `classify_and_apply` passes `ram_data_candidates=None`, so the RAM and data half
  of `README.md:164` is not connected.
* `enrich_apply` does not look at what name the store has by now, and replaces a name
  the operator gave meanwhile.
* The neighbours of a variable are the functions that had a name when its queue was
  built (`scripts/enrich_init_vars.py:131-135`), so a function the loop names raises no
  variable's priority, contrary to `rom_analyzer/agent_enrich.py:158-159`.
* Result files that a session left behind are applied by the next round, whatever its
  batch is.
* Going back through its table, `_lcs_align` drops callees of the reference first; an
  extra callee at the end of the new ROM's list then changes how the others are paired
  (`rom_analyzer/callgraph.py:56-58`).  The length is not affected (`AlignmentOptimal`).
* The pass for the MUT table drops an address whose winner was called `mut_table`,
  with the other candidates, while the conflicts file still calls it the winner.
  `MutTableOnce` and `ConflictsFaithful` say so.
* A single read of the K-line counter binds with high confidence wherever it is; the
  comment at `pipeline/post_match.py:283-287` expects a degraded one.
* `fetch_dtc_call_sites` takes the wrong register's load for the index when r1 is copied from r0
  or both from one register, and for either a constant that an instruction other than a load
  or copy has overwritten since (`rom_analyzer/ghidra/domain.py:203-226`).  `SettersHold`
  is silent there: of the index where a copy joins the two (`ArgumentsApart`), of either where running the
  code does not tell the register (`Execute`).
* `apply_labels` passes over a label whose address does not exist, where no function can be
  created, or whose name Ghidra refuses (`rom_analyzer/ghidra/session.py:307-330`); the function keeps
  the name an earlier search had given it, and only the count in the log differs.
  `ProjectFollows` says what it is called then.
* The stub takes its RAM symbols from the primary before the arbitration, so they may differ
  from those of the description.

## 5. What is proved

TLAPS proves the following for every value of the constants that satisfies the
assumptions below.  TLC evaluates each `ASSUME` on the instances of section 3.

| theorem | states | of |
|---|---|---|
| `DedupNamesUnique`, `CleanUpUnique` | the recursion of `dedup_symbol_names` is well defined, a fresh suffix always exists within as many `_x` as there are entries, and the clean-up returns a store that repeats no name | `Labels` |
| `CleanUpTwice` | cleaning up a store twice is cleaning it up once | `Labels` |
| `ApplyVerdictsStore`, `AutoApplyStore` | what verdicts and automatic renames make of any store: no entry goes, none is added where there is one, each is named as its address is told or as it was | `EnrichRules` |
| `ApplyVerdictsTwice` | a file applied to the store it has made changes nothing, if no label of an assembly listing is in its way | `EnrichRules` |
| `TypeCorrect`, `NamesStayUnique`, `EntryPointsStayUnique` | `TypeOK`, `UniqueNames`, `OneFunctionPerAddress`, overlapping commands and crashes included | `Enrichment` |
| `AutoApplyLeaves` | where no candidate is, the automatic phase and its clean-up fill no gap and leave a function's name, at most made unique, if candidates propose names that no other function has | `EnrichRules` |
| `AutomaticRenamesEndorsed`, `VerdictsAlwaysHonoured`, `ReviewFilesFresh` | `AutoRenameEndorsed`, `VerdictsHonoured`, `ReviewFileFresh`, all of which speak of commands that run one at a time | `Enrichment` |
| `ApplyingIsRepeatable` | `ApplyIdempotent`, overlapping commands and crashes included, wherever no label of an assembly listing is in the way | `Enrichment` |
| `LoopTypeCorrect`, `NothingListedTwice` | `TypeOK`, `OneFunctionPerAddress` | `AgentEnrich` |
| `AnswersAlwaysTakeEffect` | `AnswersTakeEffect`, if agents answer with real names | `AgentEnrich` |
| `ArbitrateOneToOne`, `UndisputedSurvives`, `SignaturesOneToOne`, `AlignmentInOrder` | for every list of claims the arbitration leaves a one-to-one set and keeps each claim that outranks its rivals; signatures keep the set one-to-one; alignments rise in both lists | `CallGraph` |
| `MatchInvariant`, `ResultOneToOne`, `GapsFilledOnce`, `UndisputedStay` | `OneToOne`, `GapOneToOne`, `UndisputedKept` | `Matching` |
| `MatchingTypes`, `AlignmentsAreLongest`, `SearchIsComplete`, `GapFillingCloses`, `MatchingProgresses` | `TypeOK`, `AlignmentOptimal`, `BfsComplete`, `GapClosed`, `EveryStepProgresses` | `Matching` |
| `TypeInvariant`, `LabelsSupportedHolds`, `CrossFamilyVerifiedHolds`, `ConflictsFaithfulHolds`, `MutTableOnceHolds`, `ProjectFollowsHolds`, `SettersHoldAlways` | `TypeOK`, `LabelsSupported`, `CrossFamilyVerified`, `ConflictsFaithful`, `MutTableOnce`, `ProjectFollows`, `SettersHold`, for any references, new ROM, matches and options | `Analyze` |
| `LaterPassAgreesHolds` | `LaterPassAgrees`, if a reference gives a name once | `Analyze` |
| `SplicesAtSlotHolds` | `SplicesAtSlot`, for any code and any bytes next to a call | `Analyze` |
| `ScanInvariant`, `TypeCorrect`, `Refinement` | `TypeOK`, `FindsFreeRuns` for every ROM size, alignment and minimum length, negative ones included | `FreeSpace` |
| `RamExact` | `RamGapsExact` for any range, addresses and least length | `FreeSpace` |
| `StubIsUnambiguous` | `StubUnambiguous`, if no region ends before its last part starts | `FreeSpace` |
| `RegionAsCoded` | `CrcAsCoded` for any code that checks a region | `FreeSpace` |

### Assumptions

* `AddrAssumption`: addresses are a finite set of positive numbers.
  `PriorityAssumption`: finitely many references with natural priorities, whose ids
  have an order (`SortedIds` is injective, as strings are).  `VerdictAssumption`:
  `proposed` is neither of the verdicts `keep` and `drop`.  `NoNameAssumption`: the absence of a name is no name.
* `EnrichmentAssumption`: stores start with unique names and one function per address,
  as `dedup_symbol_names` leaves them.
* `AgentAssumption`: the functions and variables of a ROM are different addresses; the words
  Ghidra makes its own names of are auto-names; every store starts with one function per
  address; a batch is not empty, and the bounds are natural numbers.
* `MatchingAssumption`, `IsRom`: what is decoded is numbers; functions call functions, each
  listed once among its caller's callees, for both lists come from the one list of the
  program's functions; and the tables of the two ROMs that are compared entry by entry are as
  long as each other.
* `SpaceAssumption`: the RAM addresses are a finite set of integers, code is a sequence of
  instructions.
* `RegistersAssumption`, `AnalyzeAssumption`: the two argument registers are registers; the
  references of a registry have different ids, each function lists its accesses once, a function
  has finitely many calls, all of them with a site, and the code before a call is instructions.
* `NamesUnique` in one theorem about `Analyze`: a reference gives a name once to data and once to
  RAM, as `dedup_symbol_names` leaves it.  A ROM compared with itself takes its labels from both the
  store and the accesses, which agree then.
* `RegionsCoded` in one about `FreeSpace`: where an input names the region that its code checks, the code
  has two branches that load the bound and a start each, in this order, the bound compared, the
  start stored, and loads nothing else.  It says nothing of how the region is found.
* `ListingsOutOfTheWay` is a condition on states.  The clean-up drops a label of an assembly
  listing next to an entry from elsewhere that has its name with tags; dropping one frees a name, and
  the next application may number the others differently.  All references have such labels, so this
  is not asked of the input; all reachable states of `enrich_cycle` meet it.
* `~budget.overlap` is part of three properties of `Enrichment`.  With two commands at work on one
  store the later save undoes the earlier one: a verdict is lost, the rename that `enrich`
  saves is measured against a store that changed under it, and so are the rows it writes.  The code
  has no lock, so this is a condition on the operator.
* `RealNames` in one: agents answer with real names, which stay real when the clean-up
  appends tags.  The rules drop a placeholder that an agent proposes with confidence, and
  there is nothing to take effect.
* `RegionsOrdered` in one: `extract_crc_region` compares the two starts but not the end.  Were
  the end below the second start, `_classify` would call blocks between the two
  `full_crc_only`, and a stub could be filled in beside a longer block outside of the region.

### The arguments

*Stores.*  `UniqueNames` is not inductive: a store that is about to be saved
sits in a command's memory, and the rows it was computed from in its locals.
`IndInv` adds that the memory of a command about to save is itself clean
(`EnrichReady`, `ApplyReady`), that the candidates left to apply hold at most one
per address (`merge_candidates` groups them), and that every row of every file has
a function's category and a row number, so that two rows of one file never append
two functions at one address (`FilesWritten`).  `EnrichRulesProofs` shows that
appending and renaming keep a store with one function per address such a store, whatever
it holds by then: this is the point where a stale candidate could do harm.
Uniqueness of names is then restored by `CleanUp`.  `DedupNames` is a recursion
over the order of the slots; `EnrichRulesProofs` proves the order well founded on a
finite store (`OrderLemmas`) and that each new name differs from all the earlier ones.

*Names.*  That a saved name is endorsed needs the candidates to be tied to the stores they
came from: `ApartInv` says that, while one command runs alone, a store not yet written is
the one `enrich` saw (`enrSaw`), that each candidate left renames to the name the authority
had there, and that the memory about to be saved holds, entry by entry, an endorsed or a given
name with tags.  `CleanUp` only ever appends tags (`CleanedApplyNames`).

*Fresh files.*  A row shows an address that `classify` put up for review, and the candidates applied
without asking are for other addresses (`CandidatesApart`).  What they do to the rest of the store is what the
clean-up does: it may tag an entry's name, which `ShownStill` allows, or drop an entry as an imprecise
duplicate.  The latter happens to an entry of an assembly listing when another has its name, and no candidate
proposes a name that another function of its target has (`Unclaimed`, from `gather_candidates`), so a
function is not dropped (`AutoApplyLeaves`).  `FreshInv` keeps this for the candidates that are left, for the
store in memory, and for the file once it is written.

*Applying again.*  A second application starts from a store in which each entry has the name that the
first gave it, or that name with tags (`AppliedAgain`).  Entries that were told a name are given it
again, so the numbering starts from a mixture of plain names and numbered ones.  `DedupAgain`
shows that it ends the same: going through the slots in order, each entry finds taken just the names
that the first application's store has before it, and so settles on its old name, whether it starts from the
plain one or from the numbered one, which is free.  Entries in erased flash, which the clean-up drops and the file appends again,
are dropped again (`CleanUpAgain`).  `FilesOnce` says that an address has one row of a file for a store.

*The agent loop.*  `TypeInv` says three things.  `FileTypes`: every file is torn or of its type,
the queues in priority order and the rows of the corpus those of agents.  `RoundReady`: a
running round has a batch, and the queues it came from can be read.  `StoresGood`: a store has
one function per address.  `AnswersKept` follows an answer: from the script that reads it on,
a confident answer is in its store or the store is still to be saved in this round, and an
uncertain one is among the rows for review once they are written.  The
operator's runs keep both, since a verdict replaces a real name only by a real name
(`OperatorKeeps`).

*Alignment.*  `_lcs_align` is a table of lengths and a walk back through it.  No alignment of two
prefixes has more pairs than their entry in the table (`NoLongerAlignment`), by induction over the lengths
of the prefixes: if the last callees are compatible, one pair at most of an alignment uses the one
or the other, no matter what else is compatible with what, for pairs do not cross; without that
pair it aligns the prefixes that are shorter by one.  If they are not, no pair has both, and one of
the two is in no pair.  The walk back has as many pairs as the entry says (`LongestAlignment`).

*Breadth-first search.*  `FrontInv` is the invariant of level-by-level search: the
queue holds pairs of at most two neighbouring depths in order, everything
within the depth of its head is marked, everything marked is within reach, and what a pair of a finished
level aligns with is marked.  When the queue is empty the marked set is closed under one more
level up to the bound, and so equal to `Reach`, the recursion over depths
that `BfsComplete` compares it with (`ReachIsNear`).

*Gap filling.*  `PassInv`: while a pass has added nothing, the callers it has visited have
nothing to give, for neither set of matched functions has changed since.  A pass that ends so
has visited all of them.

*Progress.*  In the search each step takes one pair off the queue and adds as many as it newly marks,
so the queue and twice the unmarked pairs together grow smaller.  In gap filling each match uses up
a function of the reference, which pays for a whole further pass.

*Arbitration.*  `MatchInv` says that the phases hand over lists of claims, that gap filling knows as
taken all functions that an earlier phase or it itself has matched, that it repeats none of
them, and that there is no result before the arbitration.  `OneToOne` then follows when the
claims are arbitrated, from the theorems of `CallGraphProofs`.

*From matches to the description.*  Four invariants follow a label through `analyze`, one on the other.
`SelectedOK`: the references selected are of the registry, each once.  `Gathered`: a label in a result
has its reference stamped on it, in doubt if the family is another, and is supported by that reference's
matches and accesses, or by its own symbol (`ResultOK`).  `MergedOK`: what the arbitration keeps is
`Won`, and from the MUT pass on that list `Corrected`.  `FilesOK`: what is written is what was
merged.  The properties of the description follow from the four together; for `ConflictsFaithful`, `Won`
has one label at each address that has any, and it is the first of the highest rank there.
`LaterPassAgrees` rests on the order of proposals: both passes place a name where it is first
proposed (`FirstAt`), and the matches of the second begin with those of the first (`Begins`), so
that their proposals do as well.

For `ProjectFollows`, `ProjectOK` says that a function in the project is called what a search suggested
for it, until the description is written to it; then each label is there (`ApplyNames`), except that a
label Ghidra refuses is not among those taken (`Taken`) and leaves the suggestion.

*Code before a call.*  `Runs` is what the instructions do to registers, `WalksBack` the walk
that `fetch_dtc_call_sites` takes.  `Tracked` connects the two: after each step back, a register whose value at
the call running the code tells has the constant found, or has the value of the register now looked
for at that point.  An instruction that writes that register with something unknown contradicts
that the value is told, so the walk may pass it (`MaskStep`).  For the index the two registers looked for
must differ, which they do if no copy leads from one side to the other (`SideStep`).  For a
slot, the last load of r0 is found if it is in reach (`LastLoadInReach`) and holds to the call if nothing writes
r0 after it (`LastLoad`).  `PassesOK` says which of the sites the passes have reported.

*Region of the checksum.*  Each load is read as its constant (`ConstantRead`): of the two half-words, the upper
was coded one higher just where the lower is negative (`CarryTaken`).  The order of the operands then
gives the end (`EndRead`) and the stores the starts (`CheckedRegionRead`).

*Free space.*  `ScanInv`, the invariant of the search for free flash, says that the blocks found are all
the free blocks that start before the byte the outer loop has come to, and that an open run
is erased so far and starts where none could start earlier; without the latter a step that
ends a run could not be mapped to `Report`, which asks for the next free block.  `BlockInv` adds
the band of each block under the region read off the code (`RegionRead`: a region that is
read at all consists of numbers, the smaller start first), and `StubInv` that the block filled
in stood out among the blocks as they still are; that it is erased is the refinement's.  The gaps of
RAM are computed in one step; `RamGapsFree` shows the list and the intervals to be the same.

*Recursion.*  Where a definition is a
recursive function over sets or positions, a lemma first shows that it is well defined
(`RecursiveFunction`, `OrderLemmas`), and what it computes is shown by induction over a finite
set (`SetInduction`) or a least counterexample (`LeastNat`),
because the library's induction theorems cannot be applied.

### Only model-checked

* Liveness, which is beyond the prover: `EnrichmentSettles`, `LoopFinishes`, `ScanEnds`.
  For `Matching`, `EveryStepProgresses` takes its place and is proved.

## 6. Not modelled, and why

* Ghidra's analysis, version tracking and decompiler: external.  Import and overlay
  (`ghidra/session.py`, `ghidra/overlay.py`, but for the labels of `analyze`) are calls of them in
  a fixed order.
* Parsing and formatting of JSON, TOML, linker fragments, the match report and `diff`: no
  state, and a test compares their text.
* Data types and sizes of symbols, confidence and the wording of `basis`: nothing the
  properties speak of depends on them.
* Of the passes over the new ROM, the trace of PID handlers (`ghidra/fetch.py`), the
  identifiers in the tables of CAN slots (`can_slots.py`) and the comparison of the MUT table
  with the scan for triplets: each only adds lines or a warning of its own, which no other
  pass reads.
* Ghidra labels of the agent loop, `--force` of the scripts that build its queue, and the
  lock of the Ghidra project.
* The scripts that build references from other files, decode DMA set-ups or explore one
  ROM: single passes that are run by hand.

## 7. Plan

1. Ghidra labels of the agent loop, `--force` and the lock of the project.
2. The tables of CAN identifiers and the PID trace, as further passes of `Analyze`.
3. The scripts that build references.
