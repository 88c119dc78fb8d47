------------------------------- MODULE Labels -------------------------------
(***************************************************************************)
(* The annotation store of one reference ROM (reference/<id>.json) and the *)
(* clean-up passes every writer runs over it before it is saved.           *)
(*                                                                         *)
(* A name is abstracted to a base word and the tags that were appended to  *)
(* it: FUN_1a2b is [base |-> "FUN", tags |-> <<6699>>], foo_4a20 is foo    *)
(* with the tag 18976, and every "_x" is the tag X.  That is as much of    *)
(* the text as the name predicates and dedup_symbol_names look at.         *)
(***************************************************************************)
EXTENDS Integers, Sequences, FiniteSets

CONSTANTS
  Addr,              \* addresses of one ROM
  Base,              \* base words of names
  AutoBase,          \* FUN, LAB, DAT, SUB, icu_isr, isr_vector: tool-made names
  GenericBase,       \* junk words and names of at most three letters
  PlaceholderBase,   \* callNNNN, fpNNNN, retN_NNNN: address-derived names
  SioBase,           \* names that start with sio0 or sio1
  NoName             \* None, or the empty string

ASSUME AddrAssumption == Addr \subseteq Nat \ {0} /\ IsFiniteSet(Addr)

Function == 0                 \* the store's list of functions
Symbol   == 1                 \* the store's list of data and RAM symbols
X        == 0                 \* the tag that stands for one more "_x"
Tol      == 4                 \* drop_imprecise_s_duplicates(tol=4)

Name  == [base : Base, tags : Seq(Nat)]
ASSUME NoNameAssumption == NoName \notin Name

Label == [name : Name, src : {"asm", "other"}]   \* asm: colt_s and z27ag_s

(***************************************************************************)
(* An entry's place: its address, its list, and its position among the     *)
(* entries of that list at that address.  save_annotations sorts by        *)
(* address, so nothing else of the lists' order survives.                  *)
(***************************************************************************)
Slot == Addr \X {Function, Symbol} \X Nat

IsStore(s) ==
  /\ s = [k \in DOMAIN s |-> s[k]]
  /\ DOMAIN s \subseteq Slot
  /\ IsFiniteSet(DOMAIN s)
  /\ \A k \in DOMAIN s : s[k] \in Label

IsAuto(n)        == n.base \in AutoBase /\ Len(n.tags) = 1
IsGeneric(n)     == n.base \in GenericBase /\ n.tags = <<>>
IsPlaceholder(n) == n.base \in PlaceholderBase
IsSio(n)         == n.base \in SioBase

\* Real, descriptive names: the ones the review is about.
IsReal(n) == n \in Name /\ ~IsAuto(n) /\ ~IsGeneric(n) /\ ~IsPlaceholder(n)

SlotsAt(s, a, c) == {k \in DOMAIN s : k[1] = a /\ k[2] = c}
HasEntry(s, a, c) == SlotsAt(s, a, c) # {}

\* {f.entry_point: i for i, f in enumerate(...)}: the last entry wins.
LastSlot(s, a, c) ==
  CHOOSE k \in SlotsAt(s, a, c) : \A j \in SlotsAt(s, a, c) : j[3] <= k[3]

\* Where list.append puts the n-th entry it is given for one address.
NewSlot(s, a, c, n) ==
  <<a, c, IF HasEntry(s, a, c) THEN LastSlot(s, a, c)[3] + n ELSE n>>

FnAddrs(s) == {k[1] : k \in {j \in DOMAIN s : j[2] = Function}}

FnName(s, a) ==
  IF HasEntry(s, a, Function) THEN s[LastSlot(s, a, Function)].name ELSE NoName

Keep(s, K) == [k \in DOMAIN s \cap K |-> s[k]]

-----------------------------------------------------------------------------
\* cleanup.drop_imprecise_s_duplicates

Near(a, b) == a - b <= Tol /\ b - a <= Tol

Imprecise(s, k) ==
  /\ s[k].src = "asm"
  /\ \E j \in DOMAIN s : /\ s[j].src # "asm"
                         /\ s[j].name = s[k].name
                         /\ Near(j[1], k[1])

DropImprecise(s) == Keep(s, {k \in DOMAIN s : ~Imprecise(s, k)})

\* cleanup.drop_erased_flash_entries: functions only, never data.
DropErased(s, erased) ==
  Keep(s, {k \in DOMAIN s : ~(k[2] = Function /\ k[1] \in erased)})

-----------------------------------------------------------------------------
\* cleanup.dedup_symbol_names

\* The order of the sort: by address, functions before symbols, then the list.
Before(j, k) ==
  \/ j[1] < k[1]
  \/ j[1] = k[1] /\ j[2] < k[2]
  \/ j[1] = k[1] /\ j[2] = k[2] /\ j[3] < k[3]

Suffixed(n, a, x) == [n EXCEPT !.tags = @ \o <<a>> \o [i \in 1..x |-> X]]

\* The fewest "_x" that make name_<hexaddr> unused.
Extra(n, a, used) ==
  CHOOSE x \in 0..Cardinality(used) :
    /\ Suffixed(n, a, x) \notin used
    /\ \A y \in 0..(x - 1) : Suffixed(n, a, y) \in used

\* Mutant: the "_x" loop is an if.
FreshNameOnce(n, a, used) ==
  IF n \notin used THEN n ELSE Suffixed(n, a, 0)

FreshName(n, a, used) ==
  IF n \notin used THEN n ELSE Suffixed(n, a, Extra(n, a, used))

Earlier(s, k) == {j \in DOMAIN s : Before(j, k)}

DedupNames(s) ==
  LET nm[k \in DOMAIN s] == FreshName(s[k].name, k[1], {nm[j] : j \in Earlier(s, k)})
  IN [k \in DOMAIN s |-> [s[k] EXCEPT !.name = nm[k]]]

\* The three passes, in the order both commands run them.  A reference whose
\* ROM file is absent skips the erased-flash pass.
CleanUp(s, erased) == DedupNames(DropErased(DropImprecise(s), erased))

-----------------------------------------------------------------------------
NamesUnique(s) == \A j, k \in DOMAIN s : s[j].name = s[k].name => j = k

OneEntryPerAddress(s) ==
  \A j, k \in DOMAIN s : j[1] = k[1] /\ j[2] = k[2] => j = k
=============================================================================
