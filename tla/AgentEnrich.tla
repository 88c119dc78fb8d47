---------------------------- MODULE AgentEnrich -----------------------------
(***************************************************************************)
(* The agent naming loop: a queue of unnamed functions and one of unnamed  *)
(* variables, rounds that take a batch from either or both, have agents    *)
(* propose names, apply the confident ones to the annotation stores and    *)
(* put the others up for review (rom_analyzer/agent_enrich.py,             *)
(* scripts/enrich_init.py, enrich_init_vars.py, enrich_decompile.py and    *)
(* enrich_apply.py).                                                       *)
(*                                                                         *)
(* A round's steps only meet in files; the session that drives them        *)
(* (external) may die between and within them, and the next round starts   *)
(* over from whatever the files hold.  An operator may run                 *)
(* apply-enrichment at any time.                                           *)
(*                                                                         *)
(* Functions and variables are told apart by the list of the store they    *)
(* belong to, Function or Symbol.  Each kind has a queue, a yield history  *)
(* and a sentinel of its own; batch, contexts, answers and summary are     *)
(* shared.                                                                 *)
(***************************************************************************)
EXTENDS EnrichRules

CONSTANTS
  FunBase, DataBase,   \* the bases of Ghidra's default names
  GhidraFns,   \* entry points that Ghidra finds in each ROM
  GhidraVars,  \* labelled data and RAM addresses where no function lives
  Neighbors,   \* callers and callees of each function
  Readers, Writers,    \* functions that read and write each variable
  Siblings,    \* variables of the same category close to each variable
  AgentNames,  \* names an agent may propose
  InitStores,  \* stores a behaviour may start from
  BatchSize,   \* candidates of a kind per round
  Crashes,     \* bound: sessions that die
  Operations,  \* bound: apply-enrichment runs of the operator
  Unreadable   \* a file cut off in the middle

ASSUME AgentAssumption ==
  /\ {FunBase, DataBase} \subseteq AutoBase \cap Base
  /\ {GhidraFns, GhidraVars} \subseteq [Refs -> SUBSET Addr]
  /\ \A r \in Refs : GhidraFns[r] \cap GhidraVars[r] = {}
  /\ {Neighbors, Readers, Writers, Siblings} \subseteq [Refs -> [Addr -> SUBSET Addr]]
  /\ AgentNames \subseteq Name
  /\ \A S \in InitStores :
       /\ S = [r \in Refs |-> S[r]]
       /\ \A r \in Refs : IsStore(S[r]) /\ OneEntryPerAddress(S[r])
  /\ BatchSize \in Nat \ {0}
  /\ {Crashes, Operations} \subseteq Nat

VARIABLES
  store,     \* the annotation JSON of each reference
  corpus,    \* corpus.reconcile.toml: rows in order, or Unreadable
  queue,     \* queue.json, queue_vars.json: entries in order, or Unreadable
  poor,      \* yield_history.json, yield_history_vars.json: how many of the last
             \* rounds, without a gap, applied fewer than Threshold names; or Unreadable
  done,      \* do the sentinels done, done_vars exist?
  step,      \* where the round is
  kindsLeft, \* the kinds for which this step is still to be taken
  batch,     \* batch.json
  ctx,       \* the entries that have a context file
  result,    \* result files: entry -> answer
  savesLeft, \* enrich_apply: kinds and stores still to be saved
  summary,   \* applied_this_round.json
  asked,     \* history: the answers of the current batch
  budget

files == <<batch, ctx, result, summary>>
vars  == <<store, corpus, queue, poor, done, step, kindsLeft, files, savesLeft, asked, budget>>

Window    == 3
Threshold == 2

Kinds == {Function, Symbol}

\* A queue entry; an answer; a row of the corpus file.
Entry  == [rom : Refs, addr : Addr, cat : Kinds, current : Name, priority : Nat,
           neighbors : SUBSET Addr, siblings : SUBSET Addr]
Answer == [name : Name, cat : Kinds, current : Name,
           confidence : {"high", "medium", "other"}]   \* medium: or low
Row    == [target : Refs, addr : Addr, cat : Kinds, current : Name, proposed : Name]

Key(e) == <<e.rom, e.addr>>

\* The elements of C in the order Ahead.
Arrange(C, Ahead(_, _)) ==
  [p \in 1..Cardinality(C) |->
     CHOOSE e \in C : Cardinality({d \in C : Ahead(d, e)}) = p - 1]

\* Sorted by priority, ties by gain, otherwise in the order they had.
SortQueue(q, gain) ==
  LET ahead(i, j) == \/ q[i].priority > q[j].priority
                     \/ q[i].priority = q[j].priority /\ gain[i] > gain[j]
                     \/ q[i].priority = q[j].priority /\ gain[i] = gain[j] /\ i < j
      order == Arrange(DOMAIN q, ahead)
  IN [p \in DOMAIN q |-> q[order[p]]]

-----------------------------------------------------------------------------
\* enrich_init and enrich_init_vars: whatever has no real name, the entries with
\* the most named neighbours first.

NameAt(s, a, c) == IF HasEntry(s, a, c) THEN s[LastSlot(s, a, c)].name ELSE NoName

\* What Ghidra shows once the store has been applied to it.
Shown(s, a, c) ==
  IF HasEntry(s, a, c) THEN NameAt(s, a, c)
  ELSE [base |-> IF c = Function THEN FunBase ELSE DataBase, tags |-> <<a>>]

Unnamed(n) == IsAuto(n) \/ IsPlaceholder(n)

NamedFns(s, A) == {b \in A : ~Unnamed(Shown(s, b, Function))}

Functions(s, r) ==
  {[rom |-> r, addr |-> a, cat |-> Function, current |-> Shown(s, a, Function),
    priority |-> Cardinality(NamedFns(s, Neighbors[r][a])),
    neighbors |-> Neighbors[r][a], siblings |-> {}] :
      a \in {a \in GhidraFns[r] : Unnamed(Shown(s, a, Function))}}

\* An address at which the store has a named symbol is covered.
Variables(s, r) ==
  LET covered == {k[1] : k \in {k \in DOMAIN s : k[2] = Symbol /\ ~Unnamed(s[k].name)}}
      open    == GhidraVars[r] \ covered
  IN {[rom |-> r, addr |-> a, cat |-> Symbol, current |-> Shown(s, a, Symbol),
       priority |-> Cardinality(NamedFns(s, Readers[r][a]))
                    + Cardinality(NamedFns(s, Writers[r][a]))
                    + Cardinality(Siblings[r][a] \cap covered),
       neighbors |-> NamedFns(s, Readers[r][a] \cup Writers[r][a]),
       siblings |-> Siblings[r][a] \cap open] : a \in open}

InitQueue(C) ==
  LET ahead(d, e) == \/ d.priority > e.priority
                     \/ /\ d.priority = e.priority
                        /\ \/ SortedIds[d.rom] < SortedIds[e.rom]
                           \/ d.rom = e.rom /\ d.addr < e.addr
  IN Arrange(C, ahead)

NoSummary == [named |-> [c \in Kinds |-> {}], applied |-> [c \in Kinds |-> 0]]

Init ==
  /\ store \in InitStores
  /\ queue = [c \in Kinds |->
       InitQueue(UNION {IF c = Function THEN Functions(store[r], r) ELSE Variables(store[r], r) :
                          r \in Refs})]
  /\ corpus = <<>> /\ poor = [c \in Kinds |-> 0] /\ done = [c \in Kinds |-> FALSE]
  /\ step = "idle" /\ kindsLeft = {}
  /\ batch = {} /\ ctx = {} /\ result = << >> /\ summary = NoSummary
  /\ savesLeft = {} /\ asked = << >>
  /\ budget = [crash |-> Crashes, operation |-> Operations]

-----------------------------------------------------------------------------
\* A round.  Nothing leaves a queue before its results are applied.

PopBatch(c) == {queue[c][i] : i \in {i \in DOMAIN queue[c] : i <= BatchSize}}

\* Mutant: an empty queue ends the round but leaves no sentinel.
StartRoundUndone ==
  /\ step = "idle"
  /\ \E K \in (SUBSET {c \in Kinds : ~done[c]}) \ {{}} :
       LET filled == {c \in K : queue[c] # <<>>}
       IN /\ \A c \in K : queue[c] # Unreadable
          /\ IF filled = {} THEN UNCHANGED <<step, batch>>
             ELSE batch' = UNION {PopBatch(c) : c \in filled} /\ step' = "batched"
  /\ UNCHANGED <<store, corpus, queue, poor, done, kindsLeft, ctx, result, summary, savesLeft,
                 asked, budget>>

\* For functions, variables or both, as far as they are not done.
StartRound ==
  /\ step = "idle"
  /\ \E K \in (SUBSET {c \in Kinds : ~done[c]}) \ {{}} :
       LET filled == {c \in K : queue[c] # <<>>}
       IN /\ \A c \in K : queue[c] # Unreadable
          /\ done' = [c \in Kinds |-> done[c] \/ c \in K \ filled]
          /\ IF filled = {} THEN UNCHANGED <<step, batch>>
             ELSE batch' = UNION {PopBatch(c) : c \in filled} /\ step' = "batched"
  /\ UNCHANGED <<store, corpus, queue, poor, kindsLeft, ctx, result, summary, savesLeft,
                 asked, budget>>

\* enrich_decompile skips an entry that it cannot get, or a variable nothing is
\* known about.
Decompile ==
  /\ step = "batched"
  /\ \E found \in SUBSET {Key(e) : e \in batch} : ctx' = ctx \cup found
  /\ step' = "decompiled"
  /\ UNCHANGED <<store, corpus, queue, poor, done, kindsLeft, batch, result, summary, savesLeft,
                 asked, budget>>

\* One agent for each entry with a context; any of them may give no answer.
Analyze ==
  /\ step = "decompiled"
  /\ \E A \in SUBSET {e \in batch : Key(e) \in ctx} :
       \E name \in [A -> AgentNames], sure \in [A -> {"high", "medium", "other"}] :
         LET new == {Key(e) : e \in A}
             of(k) == CHOOSE e \in A : Key(e) = k
         IN result' = [k \in new \cup DOMAIN result |->
                         IF k \notin new THEN result[k]
                         ELSE [name |-> name[of(k)], cat |-> of(k).cat,
                               current |-> of(k).current, confidence |-> sure[of(k)]]]
  /\ asked' = result'
  /\ step' = "answered"
  /\ UNCHANGED <<store, corpus, queue, poor, done, kindsLeft, batch, ctx, summary, savesLeft,
                 budget>>

-----------------------------------------------------------------------------
\* enrich_apply

With(sure) == {k \in DOMAIN result : result[k].confidence = sure}
Confident(c) == {k \in With("high") : result[k].cat = c}

ApplyStart ==
  /\ step = "answered"
  /\ IF result = << >>
     THEN step' = "applied" /\ summary' = NoSummary /\ UNCHANGED savesLeft
     ELSE /\ step' = "save" /\ UNCHANGED summary
          /\ savesLeft' = {<<result[k].cat, k[1]>> : k \in With("high")}
  /\ UNCHANGED <<store, corpus, queue, poor, done, kindsLeft, batch, ctx, result, asked, budget>>

\* Functions before variables, stores in the order of the result files.
NextSave ==
  CHOOSE p \in savesLeft : \A q \in savesLeft :
    p[1] < q[1] \/ (p[1] = q[1] /\ SortedIds[p[2]] <= SortedIds[q[2]])

\* The addresses of a store that are named, and the store with these names in
\* the slots given.
Answered(c, r) == {k[2] : k \in {k \in Confident(c) : k[1] = r}}

PutNames(s, r, slot) ==
  LET slots == {slot[a] : a \in DOMAIN slot}
  IN [k \in DOMAIN s \cup slots |->
        IF k \in slots THEN [name |-> result[<<r, k[1]>>].name, src |-> "other"]
        ELSE s[k]]

\* Mutant: what is new is taken from the queue, not from the store.
NamedByQueue(s, c, r) ==
  LET new(a) == result[<<r, a>>].current.base \in {FunBase, DataBase}
  IN PutNames(s, r, [a \in Answered(c, r) |->
       IF new(a) \/ ~HasEntry(s, a, c) THEN NewSlot(s, a, c, 1) ELSE LastSlot(s, a, c)])

\* Rename what the store has at an answer's address, or append it.
Named(s, c, r) ==
  PutNames(s, r, [a \in Answered(c, r) |->
    IF HasEntry(s, a, c) THEN LastSlot(s, a, c) ELSE NewSlot(s, a, c, 1)])

\* One list of one store at a time; no clean-up follows.
SaveRom ==
  /\ step = "save" /\ savesLeft # {}
  /\ LET c == NextSave[1]
         r == NextSave[2]
     IN store' = [store EXCEPT ![r] = Named(@, c, r)]
  /\ savesLeft' = savesLeft \ {NextSave}
  /\ UNCHANGED <<corpus, queue, poor, done, step, kindsLeft, files, asked, budget>>

\* The uncertain answers, functions first, in the order of the result files.
ReviewRows ==
  LET ahead(j, k) == \/ result[j].cat < result[k].cat
                     \/ /\ result[j].cat = result[k].cat
                        /\ \/ SortedIds[j[1]] < SortedIds[k[1]]
                           \/ j[1] = k[1] /\ j[2] < k[2]
      keys == Arrange(With("medium"), ahead)
  IN [p \in DOMAIN keys |->
        [target |-> keys[p][1], addr |-> keys[p][2], cat |-> result[keys[p]].cat,
         current |-> result[keys[p]].current, proposed |-> result[keys[p]].name]]

\* Mutant: without a confident answer there is nothing to do.
SaveReviewAfterHigh ==
  /\ step = "save" /\ savesLeft = {}
  /\ IF With("medium") = {} \/ With("high") = {}
     THEN step' = "summarise" /\ UNCHANGED corpus
     ELSE IF corpus = Unreadable
     THEN step' = "idle" /\ UNCHANGED corpus
     ELSE step' = "summarise" /\ corpus' = corpus \o ReviewRows
  /\ UNCHANGED <<store, queue, poor, done, kindsLeft, files, savesLeft, asked, budget>>

\* read_reconcile raises on a torn file, which ends the round.
SaveReview ==
  /\ step = "save" /\ savesLeft = {}
  /\ IF With("medium") = {}
     THEN step' = "summarise" /\ UNCHANGED corpus
     ELSE IF corpus = Unreadable
     THEN step' = "idle" /\ UNCHANGED corpus
     ELSE step' = "summarise" /\ corpus' = corpus \o ReviewRows
  /\ UNCHANGED <<store, queue, poor, done, kindsLeft, files, savesLeft, asked, budget>>

Summarise ==
  /\ step = "summarise"
  /\ summary' = [named   |-> [c \in Kinds |-> {k[2] : k \in Confident(c)}],
                 applied |-> [c \in Kinds |-> Cardinality(Confident(c))]]
  /\ step' = "applied"
  /\ UNCHANGED <<store, corpus, queue, poor, done, kindsLeft, batch, ctx, result, savesLeft,
                 asked, budget>>

-----------------------------------------------------------------------------
\* The end of a round: files deleted, queues rescored and shortened, yield
\* recorded; each of these for one kind of the batch after the other.

RoundKinds == {e.cat : e \in batch}
Turn == IF Function \in kindsLeft THEN Function ELSE Symbol

Advance(next) ==
  IF kindsLeft = {Turn}
  THEN step' = next /\ kindsLeft' = IF next = "idle" THEN {} ELSE RoundKinds
  ELSE kindsLeft' = kindsLeft \ {Turn} /\ UNCHANGED step

DeleteFiles ==
  /\ step = "applied"
  /\ ctx' = {} /\ result' = << >>
  /\ step' = "deleted" /\ kindsLeft' = RoundKinds
  /\ UNCHANGED <<store, corpus, queue, poor, done, batch, summary, savesLeft, asked, budget>>

\* The addresses just named carry no ROM.  A variable also gains from the
\* variables next to it.
Gain(e, named) ==
  Cardinality(e.neighbors \cap UNION {named[c] : c \in Kinds})
  + Cardinality(e.siblings \cap named[Symbol])

\* Mutant: the list is returned in its old order.
RescoreNeighborsUnsorted(q, c, named) ==
  [i \in DOMAIN q |-> [q[i] EXCEPT !.priority = @ + Gain(q[i], named)]]

RescoreNeighbors(q, c, named) ==
  SortQueue([i \in DOMAIN q |-> [q[i] EXCEPT !.priority = @ + Gain(q[i], named)]],
            [i \in DOMAIN q |-> IF c = Symbol THEN Gain(q[i], named) ELSE 0])

Rescore ==
  /\ step = "deleted"
  /\ queue' = [queue EXCEPT ![Turn] = RescoreNeighbors(@, Turn, summary.named)]
  /\ Advance("rescored")
  /\ UNCHANGED <<store, corpus, poor, done, files, savesLeft, asked, budget>>

WithoutBatch(q) ==
  LET earlier(i, j) == i < j
      left == Arrange({i \in DOMAIN q : Key(q[i]) \notin {Key(e) : e \in batch}}, earlier)
  IN [p \in DOMAIN left |-> q[left[p]]]

RemoveBatch ==
  /\ step = "rescored"
  /\ queue' = [queue EXCEPT ![Turn] = WithoutBatch(@)]
  /\ Advance("removed")
  /\ UNCHANGED <<store, corpus, poor, done, files, savesLeft, asked, budget>>

\* append_yield and check_stop_condition: of a history, only the poor rounds at
\* its end matter, and no more than Window of them.  A torn history raises, which ends
\* the round when the batch is gone from the queue.
AppendYield ==
  /\ step = "removed"
  /\ IF poor[Turn] = Unreadable
     THEN step' = "idle" /\ kindsLeft' = {} /\ UNCHANGED poor
     ELSE /\ poor' = [poor EXCEPT ![Turn] = IF summary.applied[Turn] >= Threshold THEN 0
                                            ELSE IF @ < Window THEN @ + 1 ELSE Window]
          /\ Advance("recorded")
  /\ UNCHANGED <<store, corpus, queue, done, files, savesLeft, asked, budget>>

StopCondition(c) == poor[c] >= Window

CheckStop ==
  /\ step = "recorded"
  /\ done' = [done EXCEPT ![Turn] = StopCondition(Turn)]
  /\ Advance("idle")
  /\ UNCHANGED <<store, corpus, queue, poor, files, savesLeft, asked, budget>>

-----------------------------------------------------------------------------
\* The session dies; a file that was being written may be cut off.  Part of a
\* JSON file is no JSON, but leading rows of a TOML file can be read.
Crash ==
  /\ step # "idle"
  /\ budget.crash > 0
  /\ step' = "idle" /\ savesLeft' = {} /\ kindsLeft' = {}
  /\ budget' = [budget EXCEPT !.crash = @ - 1]
  /\ \/ UNCHANGED <<corpus, queue, poor>>
     \/ /\ step \in {"deleted", "rescored"}
        /\ queue' = [queue EXCEPT ![Turn] = Unreadable] /\ UNCHANGED <<corpus, poor>>
     \/ /\ step = "removed"
        /\ poor' = [poor EXCEPT ![Turn] = Unreadable] /\ UNCHANGED <<corpus, queue>>
     \/ /\ step = "save" /\ savesLeft = {} /\ corpus # Unreadable /\ With("medium") # {}
        /\ corpus' \in {Unreadable} \cup {SubSeq(corpus \o ReviewRows, 1, n) :
                                            n \in 0..Len(corpus \o ReviewRows)}
        /\ UNCHANGED <<queue, poor>>
  /\ UNCHANGED <<store, done, files, asked>>

\* The corpus rows of one reference, as items whose verdict was left as it is.
CorpusItems(r) ==
  LET same(i, j) == /\ corpus[i].target = corpus[j].target /\ corpus[i].addr = corpus[j].addr
                    /\ corpus[i].cat = corpus[j].cat
  IN {[target |-> r, addr |-> corpus[i].addr, cat |-> corpus[i].cat,
       row |-> Cardinality({j \in 1..i : same(i, j)}),
       current |-> corpus[i].current, proposed |-> corpus[i].proposed, verdict |-> Proposed] :
         i \in {i \in DOMAIN corpus : corpus[i].target = r}}

\* apply-enrichment corpus.reconcile.toml, every proposal accepted.
ApplyCorpus ==
  /\ budget.operation > 0
  /\ corpus \notin {<<>>, Unreadable}
  /\ store' = [r \in Refs |->
       IF CorpusItems(r) = {} THEN store[r]
       ELSE CleanUp(ApplyVerdicts(store[r], CorpusItems(r)), {})]
  /\ budget' = [budget EXCEPT !.operation = @ - 1]
  /\ UNCHANGED <<corpus, queue, poor, done, step, kindsLeft, files, savesLeft, asked>>

\* apply-enrichment of another file names a function, new or not.
ApplyOther(r) ==
  /\ budget.operation > 0
  /\ \E a \in GhidraFns[r], n \in AgentNames :
       store' = [store EXCEPT ![r] = CleanUp(ApplyVerdicts(@,
         {[target |-> r, addr |-> a, cat |-> Function, row |-> 1,
           current |-> FnName(@, a), proposed |-> n, verdict |-> Proposed]}), {})]
  /\ budget' = [budget EXCEPT !.operation = @ - 1]
  /\ UNCHANGED <<corpus, queue, poor, done, step, kindsLeft, files, savesLeft, asked>>

-----------------------------------------------------------------------------
EnrichApply == ApplyStart \/ SaveRom \/ SaveReview \/ Summarise

Round == \/ StartRound \/ Decompile \/ Analyze \/ EnrichApply
         \/ DeleteFiles \/ Rescore \/ RemoveBatch \/ AppendYield \/ CheckStop

Next == Round \/ Crash \/ ApplyCorpus \/ \E r \in Refs : ApplyOther(r)

\* The session is started again until the sentinel exists, and every script and
\* agent it waits for returns.
Spec == Init /\ [][Next]_vars /\ WF_vars(Round)

-----------------------------------------------------------------------------
(***************************************************************************)
(* What must hold.                                                         *)
(***************************************************************************)

IsQueue(q, c) ==
  \A i \in DOMAIN q : /\ q[i] \in Entry /\ q[i].cat = c
                      /\ i > 1 => q[i].priority <= q[i - 1].priority

\* Every variable has its type; the queues are always stored in priority order.
TypeOK ==
  /\ store = [r \in Refs |-> store[r]] /\ \A r \in Refs : IsStore(store[r])
  /\ corpus = Unreadable \/ \A i \in DOMAIN corpus : corpus[i] \in Row
  /\ \A c \in Kinds : queue[c] = Unreadable \/ IsQueue(queue[c], c)
  /\ poor \in [Kinds -> 0..Window \cup {Unreadable}] /\ done \in [Kinds -> BOOLEAN]
  /\ batch \subseteq Entry /\ ctx \subseteq Refs \X Addr
  /\ DOMAIN result \subseteq Refs \X Addr /\ \A k \in DOMAIN result : result[k] \in Answer
  /\ savesLeft \subseteq Kinds \X Refs /\ kindsLeft \subseteq Kinds

\* The loop ends, whatever the agents answer and wherever sessions die, unless a torn
\* queue or corpus file stops every further round; a torn history of yields does not,
\* for the round that it fails has shortened the queue (append_yield after the removal,
\* check_stop_condition).
LoopFinishes ==
  <>(\/ \A c \in Kinds : done[c]
     \/ corpus = Unreadable
     \/ \E c \in Kinds : queue[c] = Unreadable)

\* What the agents said of the kind whose turn it is has been acted upon.
BatchSettled ==
  \A e \in batch : e.cat = Turn /\ Key(e) \in DOMAIN asked =>
    /\ asked[Key(e)].confidence = "high" => IsReal(NameAt(store[e.rom], e.addr, e.cat))
    /\ asked[Key(e)].confidence = "medium" /\ corpus # Unreadable =>
         \E i \in DOMAIN corpus :
           /\ corpus[i].target = e.rom /\ corpus[i].addr = e.addr /\ corpus[i].cat = e.cat
           /\ corpus[i].proposed = asked[Key(e)].name

\* A candidate leaves the queue only when its answer has taken effect: a
\* confident name is in the store, an uncertain one among the rows for review,
\* even if an earlier session died over the same batch (enrich_apply before
\* the removal).
AnswersTakeEffect == [][RemoveBatch => BatchSettled]_vars

\* No function and no variable is listed twice, although answers, rows and the
\* operator may name one several times over, and a round finds the answers that a
\* session died over (fn_by_ep, sym_by_addr, result files named by address).
OneFunctionPerAddress == \A r \in Refs : OneEntryPerAddress(store[r])

-----------------------------------------------------------------------------
(***************************************************************************)
(* What the documents say of the loop and the code does not do.            *)
(***************************************************************************)

\* docs/specs/2026-06-14-agent-enrich-design.md:256-257 "require human review via
\* apply-enrichment as in the existing flow": an accepted proposal names the
\* function (apply_verdicts adds a function only for a row with no current name,
\* and these rows carry the one that Ghidra shows).
AcceptedProposalsLand ==
  [][ApplyCorpus =>
       \A i \in DOMAIN corpus :
         HasEntry(store'[corpus[i].target], corpus[i].addr, corpus[i].cat)]_vars
=============================================================================
