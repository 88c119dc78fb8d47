---------------------------- MODULE EnrichRules -----------------------------
(***************************************************************************)
(* The pure rules of the enrichment cycle (rom_analyzer/enrich.py): from   *)
(* the function matches of a new reference against the others to the       *)
(* labels applied without asking and the ones a human is asked about, and  *)
(* from the human's verdicts back to a store.                              *)
(***************************************************************************)
EXTENDS Labels

CONSTANTS
  Refs,       \* ids of registry.toml
  Priority,   \* their arbitration priorities
  SortedIds,  \* the position of each id in string order
  Proposed, KeepIt, DropIt   \* the verdicts that are not a custom name

ASSUME PriorityAssumption ==
  /\ IsFiniteSet(Refs)
  /\ Priority \in [Refs -> Nat]
  /\ SortedIds \in [Refs -> Nat]
  /\ \A q, r \in Refs : SortedIds[q] = SortedIds[r] => q = r

ASSUME VerdictAssumption == Proposed \notin {KeepIt, DropIt}

Verdict == {Proposed, KeepIt, DropIt} \cup Name

\* One function match: the name is the one Ghidra shows for the reference's
\* function, used only when the reference's store has no entry there.
Match == [new : Addr, ref : Addr, name : Name \cup {NoName}]

Candidate == [target : Refs, addr : Addr, current : Name \cup {NoName},
              proposed : Name, source : Refs]

\* A merged candidate: backers are the sources that voted for its name.
Merged == [target : Refs, addr : Addr, current : Name \cup {NoName},
           proposed : Name, source : Refs, backers : SUBSET Refs]

\* A reconcile item; row numbers the items of one file with the same target,
\* address and list.  cmd_enrich writes one each.
Item == [target : Refs, addr : Addr, cat : {Function, Symbol}, row : Nat \ {0},
         current : Name \cup {NoName}, proposed : Name, source : Refs,
         verdict : Verdict]

\* max(priority, key=priority.get)
Authority == CHOOSE r \in Refs : \A q \in Refs : Priority[q] <= Priority[r]

-----------------------------------------------------------------------------
\* gather_candidates

\* name_to_addr.get(name) in {None, a}; the last owner in address order counts.
Unclaimed(s, n, a) ==
  LET owners == {b \in FnAddrs(s) : FnName(s, b) = n}
  IN owners = {} \/ (a \in owners /\ \A b \in owners : b <= a)

RefName(s, m) ==
  IF HasEntry(s, m.ref, Function) THEN FnName(s, m.ref) ELSE m.name

\* The reference's names, onto the new ROM's addresses.
Forward(n, r, ms, S) ==
  {[target |-> n, addr |-> m.new, current |-> FnName(S[n], m.new),
    proposed |-> RefName(S[r], m), source |-> r] :
      m \in {m \in ms : /\ RefName(S[r], m) # NoName
                        /\ Unclaimed(S[n], RefName(S[r], m), m.new)}}

\* The new ROM's names, onto the reference's addresses.
Back(n, r, ms, S) ==
  {[target |-> r, addr |-> m.ref, current |-> FnName(S[r], m.ref),
    proposed |-> FnName(S[n], m.new), source |-> n] :
      m \in {m \in ms : /\ FnName(S[n], m.new) # NoName
                        /\ Unclaimed(S[r], FnName(S[n], m.new), m.ref)}}

Gather(n, R, ms, S) ==
  UNION {Forward(n, r, ms[r], S) \cup Back(n, r, ms[r], S) : r \in R}

-----------------------------------------------------------------------------
\* merge_candidates

Backers(g, w) == {c.source : c \in {d \in g : d.proposed = w}}

Best(R) == CHOOSE r \in R : \A q \in R : Priority[q] <= Priority[r]

\* (votes, highest priority among them); equal scores fall to the string order,
\* which CHOOSE stands for.
ScoreLeq(R, Q) ==
  \/ Cardinality(R) < Cardinality(Q)
  \/ Cardinality(R) = Cardinality(Q) /\ Priority[Best(R)] <= Priority[Best(Q)]

Winner(g) ==
  CHOOSE w \in {c.proposed : c \in g} :
    \A v \in {c.proposed : c \in g} : ScoreLeq(Backers(g, v), Backers(g, w))

MergeGroup(g) ==
  LET first == CHOOSE c \in g : TRUE
  IN [target |-> first.target, addr |-> first.addr, current |-> first.current,
      proposed |-> Winner(g), source |-> Best(Backers(g, Winner(g))),
      backers |-> Backers(g, Winner(g))]

MergeCandidates(cs) ==
  {MergeGroup({d \in cs : d.target = c.target /\ d.addr = c.addr}) : c \in cs}

-----------------------------------------------------------------------------
\* classify

\* Not dropped: neither a tool-made name, nor agreement, nor erased flash.
Live(c, erased) ==
  /\ ~IsAuto(c.proposed)
  /\ c.current # c.proposed
  /\ c.addr \notin erased

AuthorityAgrees(c) == Authority \in c.backers

\* Mutant: any conflict is settled without asking.
IsAutoAppliedAlways(c) == ~IsGeneric(c.proposed)

\* A new function with a real name, or a conflict the authority settles.
IsAutoApplied(c) ==
  /\ ~IsGeneric(c.proposed)
  /\ c.current = NoName \/ AuthorityAgrees(c)

\* Mutant: what is applied at once is put up for review as well.
ReviewSetAll(cs, erased) == {c \in cs : Live(c, erased[c.target])}

AutoSet(cs, erased)   == {c \in cs : Live(c, erased[c.target]) /\ IsAutoApplied(c)}
ReviewSet(cs, erased) == {c \in cs : Live(c, erased[c.target]) /\ ~IsAutoApplied(c)}

-----------------------------------------------------------------------------
\* auto_resolve and build_reconcile_items

\* The sio prefix is held, descriptive beats placeholder, then priority.
TakesProposed(c) ==
  LET curPh == c.current = NoName \/ IsPlaceholder(c.current)
      newPh == IsPlaceholder(c.proposed)
  IN /\ c.current = NoName \/ ~IsSio(c.current)
     /\ \/ curPh /\ ~newPh
        \/ curPh = newPh /\ Priority[c.source] > Priority[c.target]

\* One item for each candidate; the items of one address are told apart by row.
ItemsOf(cs) ==
  LET before(c) == {d \in cs : /\ d.target = c.target /\ d.addr = c.addr
                               /\ SortedIds[d.source] < SortedIds[c.source]}
  IN {[target |-> c.target, addr |-> c.addr, cat |-> Function,
       row |-> Cardinality(before(c)) + 1, current |-> c.current,
       proposed |-> c.proposed, source |-> c.source, verdict |-> Proposed] : c \in cs}

\* An item resolved to "keep" equals the current name and is not written.
ReconcileItems(cs) == ItemsOf({c \in cs : TakesProposed(c)})

-----------------------------------------------------------------------------
\* Applying: _append_functions and apply_verdicts

ResolvedName(i) ==
  CASE i.verdict = Proposed -> i.proposed
    [] i.verdict \in {KeepIt, DropIt} -> NoName
    [] OTHER -> i.verdict

\* Mutant: a gap of the file is filled without looking for the function.
ApplyVerdictsByCurrent(s, items) ==
  LET named   == {i \in items : ResolvedName(i) # NoName}
      added   == {i \in named : i.current = NoName}
      slot(i) == NewSlot(s, i.addr, i.cat, i.row)
      on(k)   == {i \in named \ added : /\ HasEntry(s, i.addr, i.cat)
                                        /\ LastSlot(s, i.addr, i.cat) = k}
  IN [k \in DOMAIN s \cup {slot(i) : i \in added} |->
        IF k \notin DOMAIN s
        THEN [name |-> ResolvedName(CHOOSE i \in added : slot(i) = k), src |-> "other"]
        ELSE IF on(k) = {} THEN s[k]
        ELSE [s[k] EXCEPT !.name = ResolvedName(CHOOSE i \in on(k) : TRUE)]]

\* Mutant: "keep" and "drop" are not skipped.
ApplyVerdictsNoSkip(s, items) ==
  [k \in DOMAIN s |->
     LET on == {i \in items : i.cat = k[2] /\ i.addr = k[1]}
     IN IF on = {} THEN s[k]
        ELSE [s[k] EXCEPT !.name = ResolvedName(CHOOSE i \in on : TRUE)]]

ApplyVerdicts(s, items) ==
  LET named   == {i \in items : ResolvedName(i) # NoName}
      added   == {i \in named : ~HasEntry(s, i.addr, i.cat) /\ i.current = NoName}
      slot(i) == NewSlot(s, i.addr, i.cat, i.row)
      on(k)   == {i \in named : /\ HasEntry(s, i.addr, i.cat)
                                /\ LastSlot(s, i.addr, i.cat) = k}
      last(I) == CHOOSE i \in I : \A j \in I : j.row <= i.row
  IN [k \in DOMAIN s \cup {slot(i) : i \in added} |->
        IF k \notin DOMAIN s
        THEN [name |-> ResolvedName(CHOOSE i \in added : slot(i) = k), src |-> "other"]
        ELSE IF on(k) = {} THEN s[k]
        ELSE [s[k] EXCEPT !.name = ResolvedName(last(on(k)))]]

\* Mutant: a gap of the candidates is filled without looking at the loaded store.
AppendFunctionsBlind(s, cs) ==
  LET gaps == {c \in cs : c.current = NoName}
      slot(c) == NewSlot(s, c.addr, Function, 1)
  IN [k \in DOMAIN s \cup {slot(c) : c \in gaps} |->
        IF k \in DOMAIN s THEN s[k]
        ELSE [name |-> (CHOOSE c \in gaps : slot(c) = k).proposed, src |-> "other"]]

\* The automatic phase: gaps are appended where the freshly loaded store still
\* has no function, renames go through apply_verdicts.
AppendFunctions(s, cs) ==
  LET gaps == {c \in cs : c.current = NoName /\ c.addr \notin FnAddrs(s)}
      slot(c) == NewSlot(s, c.addr, Function, 1)
  IN [k \in DOMAIN s \cup {slot(c) : c \in gaps} |->
        IF k \in DOMAIN s THEN s[k]
        ELSE [name |-> (CHOOSE c \in gaps : slot(c) = k).proposed, src |-> "other"]]

RenameItems(cs) == ItemsOf({c \in cs : c.current # NoName})

AutoApply(s, cs) == ApplyVerdicts(AppendFunctions(s, cs), RenameItems(cs))

\* For properties: what the verdicts ask for at a place's address and list.
NamesGiven(items, k) ==
  {ResolvedName(i) : i \in {j \in items : j.addr = k[1] /\ j.cat = k[2]}} \ {NoName}
=============================================================================
