------------------------------- MODULE FreeRuns -------------------------------
(***************************************************************************)
(* What the search for free flash promises (the docstring of               *)
(* find_free_blocks, rom_analyzer/flash_space.py): every maximal run of    *)
(* erased bytes, cut back to a multiple of the alignment, is reported once *)
(* if it is still long enough, from the lowest address to the highest, and *)
(* nothing else is.                                                        *)
(***************************************************************************)
EXTENDS Integers

CONSTANTS
  Size,       \* bytes of the ROM
  MinLength,  \* the shortest block worth reporting
  Alignment   \* the ends of blocks are multiples of it

VARIABLES
  erased,    \* offsets of the erased bytes; they never change
  found,     \* the blocks reported so far
  complete   \* has the search ended?

runsVars == <<erased, found, complete>>

Trim(e) == e - (e % Alignment)

\* The maximal runs of erased bytes: where one starts, and where it ends.
RunStarts == {s \in erased : s - 1 \notin erased}
RunEnds   == {e \in 1..Size : e - 1 \in erased /\ e \notin erased}
MaximalRuns ==
  {r \in RunStarts \X RunEnds : r[1] < r[2] /\ \A x \in r[1]..(r[2] - 1) : x \in erased}

Free == {b \in {[start |-> r[1], end |-> Trim(r[2])] : r \in MaximalRuns} :
           b.end - b.start >= MinLength}

Init ==
  /\ erased \in SUBSET (0..(Size - 1))
  /\ found = {} /\ complete = FALSE

Report ==
  /\ ~complete
  /\ \E b \in Free \ found :
       /\ \A c \in Free : c.start < b.start => c \in found
       /\ found' = found \cup {b}
  /\ UNCHANGED <<erased, complete>>

Finish ==
  /\ ~complete /\ Free \subseteq found
  /\ complete' = TRUE
  /\ UNCHANGED <<erased, found>>

Next == Report \/ Finish

SafeSpec == Init /\ [][Next]_runsVars
=============================================================================
