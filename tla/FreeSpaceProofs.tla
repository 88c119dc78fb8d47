--------------------------- MODULE FreeSpaceProofs ---------------------------
(***************************************************************************)
(* Proofs about FreeSpace: the search for free flash implements FreeRuns,  *)
(* for every ROM, length and alignment; the free RAM is what lies between  *)
(* the addresses referred to; and what is filled into the linker stub is   *)
(* free and beyond doubt.                                                  *)
(*                                                                         *)
(* The invariant says which runs have been reported: those that start      *)
(* before the byte the outer loop has come to.  The other two results add  *)
(* that each block has the band of its start under the region read off the *)
(* code, and that the gaps of RAM stay what they were computed to be.      *)
(***************************************************************************)
EXTENDS FreeSpace, OrderLemmas, TLAPS

\* Where the outer loop stands: inside a run, at its start.
Reached == IF pc = "run" THEN runStart ELSE i

\* pc and crc go together.
PhaseInv ==
  /\ pc \in {"crc", "scan", "run", "ram", "stub", "done"}
  /\ pc = "crc" => crc = None /\ i = 0
  /\ pc \in {"scan", "run"} => crc # None

\* An open run is erased so far, and began where it could not have begun earlier.
RunInv ==
  /\ pc = "scan" /\ i \in Erased => i - 1 \notin Erased
  /\ pc = "run" => /\ runStart \in Erased /\ runStart - 1 \notin Erased
                   /\ \A x \in runStart..(i - 1) : x \in Erased

FoundInv ==
  /\ crc = None => Found = {}
  /\ pc \in {"scan", "run"} => Found = {b \in Runs!Free : b.start < Reached}
  /\ crc # None /\ pc \in {"ram", "stub", "done"} => Found = Runs!Free

ScanInv == TypeOK /\ PhaseInv /\ RunInv /\ FoundInv

-----------------------------------------------------------------------------
\* Cutting an end back to the alignment leaves it within the ROM.
LEMMA TrimBounds ==
  ASSUME NEW e \in 0..Size
  PROVE  e - (e % Alignment) \in 0..Size
  BY SpaceAssumption, SMT
\* The runs that start before a byte which none starts at are those before the next.
LEMMA NoRunStarts ==
  ASSUME TypeOK, i \notin Runs!RunStarts
  PROVE  {b \in Runs!Free : b.start < i} = {b \in Runs!Free : b.start < i + 1}
<1>1. \A b \in Runs!Free : b.start \in Runs!RunStarts /\ b.start \in Offset
  BY DEF Runs!Free, Runs!MaximalRuns, Runs!RunStarts, Erased
<1>2. i \in Nat /\ \A x \in Offset : x \in Int
  BY SpaceAssumption DEF TypeOK, Offset
<1>3. \A b \in Runs!Free : b.start < i + 1 => b.start < i
  BY <1>1, <1>2
<1>4. \A b \in Runs!Free : b.start < i => b.start < i + 1
  BY <1>1, <1>2
<1> QED BY <1>3, <1>4

\* A run that has ended is the only one that starts between its start and its end.
LEMMA EndedRun ==
  ASSUME TypeOK, RunInv, pc = "run", ~IsErased(i)
  PROVE  {r \in Runs!MaximalRuns : runStart <= r[1] /\ r[1] < i} = {<<runStart, i>>}
<1>1. /\ i \in Nat /\ runStart \in Nat /\ i <= Size /\ runStart <= i
      /\ runStart \in Erased /\ runStart - 1 \notin Erased
      /\ \A x \in runStart..(i - 1) : x \in Erased
      /\ \A x \in Erased : x \in Nat /\ x < Size
  BY SpaceAssumption DEF TypeOK, RunInv, Erased, Offset
<1>2. i \notin Erased /\ runStart < i
  <2>1. i \notin Erased
    BY <1>1 DEF IsErased, Erased, Offset
  <2> QED BY <1>1, <2>1
<1>3. <<runStart, i>> \in Runs!MaximalRuns
  <2>1. runStart \in Runs!RunStarts
    BY <1>1 DEF Runs!RunStarts
  <2>2. i \in Runs!RunEnds
    BY <1>1, <1>2, SpaceAssumption DEF Runs!RunEnds
  <2> QED BY <1>1, <1>2, <2>1, <2>2 DEF Runs!MaximalRuns
<1>4. ASSUME NEW r \in Runs!MaximalRuns, runStart <= r[1], r[1] < i
      PROVE  r = <<runStart, i>>
  <2>1. /\ r = <<r[1], r[2]>> /\ r[1] \in Erased /\ r[1] - 1 \notin Erased
        /\ r[2] \in 1..Size /\ r[2] - 1 \in Erased /\ r[2] \notin Erased /\ r[1] < r[2]
        /\ \A x \in r[1]..(r[2] - 1) : x \in Erased
    BY DEF Runs!MaximalRuns, Runs!RunStarts, Runs!RunEnds
  <2>2. r[1] \in Nat /\ r[2] \in Nat
    BY <1>1, <2>1
  <2>3. r[1] = runStart
    BY <1>1, <1>4, <2>1, <2>2
  <2>4. ~(i < r[2])
    BY <1>1, <1>2, <2>1, <2>2, <2>3
  <2>5. ~(r[2] < i)
    BY <1>1, <2>1, <2>2, <2>3
  <2> QED BY <1>1, <2>1, <2>2, <2>3, <2>4, <2>5
<1>5. <<runStart, i>>[1] = runStart
  OBVIOUS
<1> QED BY <1>1, <1>2, <1>3, <1>4, <1>5

\* With it, the blocks to report before i are those before it and the run, if its
\* block is long enough.
LEMMA EndedBlock ==
  ASSUME TypeOK, RunInv, pc = "run", ~IsErased(i)
  PROVE  {c \in Runs!Free : c.start < i}
           = {c \in Runs!Free : c.start < runStart}
               \cup (IF AlignedEnd - runStart < MinLength THEN {}
                     ELSE {[start |-> runStart, end |-> AlignedEnd]})
<1> DEFINE b == [start |-> runStart, end |-> AlignedEnd]
<1>1. /\ i \in Nat /\ runStart \in Nat /\ AlignedEnd \in Int /\ runStart < i
  <2>1. i \in 0..Size /\ runStart \in Nat /\ runStart <= i /\ runStart \in Erased
    BY DEF TypeOK, RunInv
  <2>2. runStart # i
    BY <2>1, SpaceAssumption DEF IsErased, Erased, Offset
  <2> QED BY <2>1, <2>2, TrimBounds, SpaceAssumption DEF AlignedEnd
<1>2. Runs!Trim(i) = AlignedEnd
  BY DEF Runs!Trim, AlignedEnd
<1>3. ASSUME NEW c \in Runs!Free, c.start < i, ~(c.start < runStart)
      PROVE  c = b /\ ~(AlignedEnd - runStart < MinLength)
  <2>1. PICK r \in Runs!MaximalRuns : c = [start |-> r[1], end |-> Runs!Trim(r[2])]
    BY DEF Runs!Free
  <2>2. r[1] \in Nat
    BY SpaceAssumption DEF Runs!MaximalRuns, Runs!RunStarts, Erased, Offset
  <2>3. runStart <= r[1] /\ r[1] < i
    BY <1>1, <1>3, <2>1, <2>2
  <2>4. r = <<runStart, i>>
    BY <2>3, EndedRun
  <2>5. c = b
    BY <1>2, <2>1, <2>4
  <2>6. c.end - c.start >= MinLength
    BY DEF Runs!Free
  <2> QED BY <1>1, <2>5, <2>6, SpaceAssumption
<1>4. ASSUME ~(AlignedEnd - runStart < MinLength)
      PROVE  b \in Runs!Free /\ b.start < i
  <2>1. <<runStart, i>> \in Runs!MaximalRuns
    BY EndedRun
  <2>2. b = [start |-> <<runStart, i>>[1], end |-> Runs!Trim(<<runStart, i>>[2])]
    BY <1>2
  <2>3. b.end - b.start >= MinLength
    BY <1>1, <1>4, SpaceAssumption
  <2>4. b \in {[start |-> r[1], end |-> Runs!Trim(r[2])] : r \in Runs!MaximalRuns}
    BY <2>1, <2>2
  <2> QED BY <1>1, <2>3, <2>4 DEF Runs!Free
<1>5. \A c \in Runs!Free : c.start < runStart => c.start < i
  <2> TAKE c \in Runs!Free
  <2>1. c.start \in Nat
    BY SpaceAssumption DEF Runs!Free, Runs!MaximalRuns, Runs!RunStarts, Erased, Offset
  <2> QED BY <1>1, <2>1
<1> QED BY <1>3, <1>4, <1>5
-----------------------------------------------------------------------------
\* The blocks listed after one more is appended.
LEMMA FoundAppend ==
  ASSUME NEW S, NEW q \in Seq(S), NEW e
  PROVE  {[start |-> Append(q, e)[k].start, end |-> Append(q, e)[k].end] : k \in DOMAIN Append(q, e)}
           = {[start |-> q[k].start, end |-> q[k].end] : k \in DOMAIN q}
               \cup {[start |-> e.start, end |-> e.end]}
<1>1. /\ DOMAIN Append(q, e) = DOMAIN q \cup {Len(q) + 1}
      /\ \A k \in DOMAIN q : Append(q, e)[k] = q[k]
      /\ Append(q, e)[Len(q) + 1] = e
  OBVIOUS
<1> QED BY <1>1

\* The ROM stays as it is, and so do its runs.
LEMMA RomSame ==
  ASSUME UNCHANGED input
  PROVE  /\ Erased' = Erased /\ Runs!Free' = Runs!Free
         /\ \A b \in Runs!Free : b.start \in Offset
<1>1. Erased' = Erased
  BY DEF Erased
<1>2. Runs!Free' = Runs!Free
  BY <1>1 DEF Runs!Free, Runs!MaximalRuns, Runs!RunStarts, Runs!RunEnds, Runs!Trim
<1>3. \A b \in Runs!Free : b.start \in Offset
  BY DEF Runs!Free, Runs!MaximalRuns, Runs!RunStarts, Erased
<1> QED BY <1>1, <1>2, <1>3

LEMMA InitInv == Init => ScanInv
<1> SUFFICES ASSUME Init PROVE ScanInv
  OBVIOUS
<1>1. TypeOK
  BY SpaceAssumption DEF Init, TypeOK, Offset
<1>2. PhaseInv /\ RunInv
  BY DEF Init, PhaseInv, RunInv
<1>3. FoundInv
  BY DEF Init, FoundInv, Found
<1> QED BY <1>1, <1>2, <1>3 DEF ScanInv

\* The block that ends a run has the type of a block.
LEMMA BlockType ==
  ASSUME TypeOK, pc = "run"
  PROVE  [start |-> runStart, end |-> AlignedEnd, band |-> Classify(runStart)]
           \in [start : Offset, end : 0..Size, band : Band]
<1>1. AlignedEnd \in 0..Size
  BY TrimBounds DEF TypeOK, AlignedEnd
<1>2. Classify(runStart) \in Band
  BY DEF Classify, Band
<1> QED BY <1>1, <1>2 DEF TypeOK

LEMMA EndRunInv ==
  ASSUME ScanInv, EndRun
  PROVE  ScanInv'
<1> USE DEF ScanInv
<1> DEFINE b == [start |-> runStart, end |-> AlignedEnd]
           e == [start |-> runStart, end |-> AlignedEnd, band |-> Classify(runStart)]
<1>0. /\ UNCHANGED <<input, crc, i, runStart>> /\ pc = "run" /\ pc' = "scan" /\ ~IsErased(i)
      /\ blocks' = IF AlignedEnd - runStart < MinLength THEN blocks ELSE Append(blocks, e)
  BY DEF EndRun
<1>1. blocks' \in Seq([start : Offset, end : 0..Size, band : Band])
  <2>1. blocks \in Seq([start : Offset, end : 0..Size, band : Band])
    BY DEF TypeOK
  <2>2. e \in [start : Offset, end : 0..Size, band : Band]
    BY <1>0, BlockType
  <2> HIDE DEF e
  <2>3. Append(blocks, e) \in Seq([start : Offset, end : 0..Size, band : Band])
    BY <2>1, <2>2
  <2> QED BY <1>0, <2>1, <2>3
<1>2. TypeOK'
  BY <1>0, <1>1 DEF TypeOK, Offset
<1>3. PhaseInv'
  BY <1>0 DEF PhaseInv
<1>4. i \notin Erased
  BY <1>0, SpaceAssumption DEF IsErased, Erased, Offset, TypeOK
<1>5. RunInv'
  BY <1>0, <1>4, RomSame DEF RunInv
<1>6. Found' = Found \cup (IF AlignedEnd - runStart < MinLength THEN {} ELSE {b})
  <2>1. blocks \in Seq([start : Offset, end : 0..Size, band : Band])
    BY DEF TypeOK
  <2>2. CASE AlignedEnd - runStart < MinLength
    BY <1>0, <2>2 DEF Found
  <2>3. CASE ~(AlignedEnd - runStart < MinLength)
    <3>1. blocks' = Append(blocks, e)
      BY <1>0, <2>3
    <3>2. e.start = runStart /\ e.end = AlignedEnd
      OBVIOUS
    <3> HIDE DEF e
    <3> QED BY <2>1, <2>3, <3>1, <3>2, FoundAppend DEF Found
  <2> QED BY <2>2, <2>3
<1>7. Found = {c \in Runs!Free : c.start < runStart}
  BY <1>0 DEF FoundInv, PhaseInv, Reached
<1>8. Found' = {c \in Runs!Free : c.start < i}
  BY <1>0, <1>6, <1>7, EndedBlock
<1>9. FoundInv'
  BY <1>0, <1>3, <1>8, RomSame DEF FoundInv, PhaseInv, Reached
<1> QED BY <1>2, <1>3, <1>5, <1>9

LEMMA StepInv ==
  ASSUME ScanInv, [Next]_vars
  PROVE  ScanInv'
<1> USE DEF ScanInv
<1>1. CASE DetectCrc
  <2>1. TypeOK'
    BY <1>1 DEF DetectCrc, TypeOK, Offset
  <2>2. PhaseInv'
    BY <1>1 DEF DetectCrc, PhaseInv
  <2>3. i = 0 /\ -1 \notin Erased
    BY <1>1, SpaceAssumption DEF DetectCrc, PhaseInv, Erased, Offset
  <2>4. UNCHANGED <<input, i, blocks>> /\ pc' \in {"ram", "scan"} /\ (pc' = "scan" <=> crc' # None)
    BY <1>1 DEF DetectCrc
  <2>5. RunInv'
    BY <2>3, <2>4, RomSame DEF RunInv
  <2>6. Found' = {} /\ \A b \in Runs!Free : ~(b.start < 0)
    BY <1>1, <2>4, RomSame, SpaceAssumption DEF DetectCrc, PhaseInv, FoundInv, Found, Offset
  <2>7. FoundInv'
    BY <2>3, <2>4, <2>6, RomSame DEF FoundInv, Reached
  <2> QED BY <2>1, <2>2, <2>5, <2>7
<1>2. CASE SkipByte
  <2>1. /\ UNCHANGED <<input, crc, runStart, blocks, pc>> /\ i' = i + 1
        /\ pc = "scan" /\ i < Size /\ i \in 0..Size
    BY <1>2 DEF SkipByte, TypeOK
  <2>2. i \notin Erased
    BY <1>2, <2>1 DEF SkipByte, IsErased, Erased
  <2>3. TypeOK'
    BY <2>1, SpaceAssumption DEF TypeOK, Offset
  <2>4. PhaseInv'
    BY <2>1 DEF PhaseInv
  <2>5. RunInv'
    BY <2>1, <2>2, RomSame DEF RunInv
  <2>6. Found' = {b \in Runs!Free : b.start < i + 1}
    BY <2>1, <2>2, NoRunStarts DEF FoundInv, Found, Reached, Runs!RunStarts
  <2>7. FoundInv'
    BY <2>1, <2>6, RomSame DEF FoundInv, PhaseInv, Reached
  <2> QED BY <2>3, <2>4, <2>5, <2>7
<1>3. CASE StartRun
  <2>1. /\ UNCHANGED <<input, crc, i, blocks>> /\ pc = "scan" /\ pc' = "run" /\ runStart' = i
        /\ i \in Offset /\ i \in Erased
    BY <1>3, SpaceAssumption DEF StartRun, IsErased, Erased, TypeOK, Offset
  <2>2. TypeOK'
    BY <2>1, SpaceAssumption DEF TypeOK, Offset
  <2>3. PhaseInv'
    BY <2>1 DEF PhaseInv
  <2>4. RunInv'
    BY <2>1, RomSame, SpaceAssumption DEF RunInv, Offset
  <2>5. Found' = Found
    BY <2>1 DEF Found
  <2>6. FoundInv'
    BY <2>1, <2>5, RomSame DEF FoundInv, PhaseInv, Reached
  <2> QED BY <2>2, <2>3, <2>4, <2>6
<1>4. CASE ExtendRun
  <2>1. /\ UNCHANGED <<input, crc, runStart, blocks, pc>> /\ i' = i + 1
        /\ pc = "run" /\ i \in Offset /\ i \in Erased
    BY <1>4, SpaceAssumption DEF ExtendRun, IsErased, Erased, TypeOK, Offset
  <2>2. TypeOK'
    BY <2>1, SpaceAssumption DEF TypeOK, Offset
  <2>3. PhaseInv'
    BY <2>1 DEF PhaseInv
  <2>4. RunInv'
    <3>1. \A x \in runStart..((i + 1) - 1) : x \in Erased
      BY <2>1, SpaceAssumption DEF RunInv, TypeOK, Offset
    <3> QED BY <2>1, <3>1, RomSame DEF RunInv
  <2>5. Found' = Found
    BY <2>1 DEF Found
  <2>6. FoundInv'
    BY <2>1, <2>5, RomSame DEF FoundInv, PhaseInv, Reached
  <2> QED BY <2>2, <2>3, <2>4, <2>6
<1>5. CASE EndRun
  BY <1>5, EndRunInv
<1>6. CASE EndScan
  <2>1. /\ UNCHANGED <<input, crc, i, runStart, blocks>> /\ pc = "scan" /\ pc' = "ram"
        /\ i = Size
    BY <1>6, SpaceAssumption DEF EndScan, TypeOK
  <2>2. TypeOK'
    BY <2>1 DEF TypeOK, Offset
  <2>3. PhaseInv'
    BY <2>1 DEF PhaseInv
  <2>4. RunInv'
    BY <2>1 DEF RunInv
  <2>5. Found' = Found /\ Found = {b \in Runs!Free : b.start < Size}
    BY <2>1 DEF Found, FoundInv, Reached
  <2>6. \A b \in Runs!Free : b.start < Size
    BY <2>1, RomSame, SpaceAssumption DEF Offset
  <2>7. FoundInv'
    BY <2>1, <2>5, <2>6, RomSame DEF FoundInv, PhaseInv
  <2> QED BY <2>2, <2>3, <2>4, <2>7
<1>7. CASE ScanRam
  <2>1. UNCHANGED <<input, crc, i, runStart, blocks>> /\ pc = "ram" /\ pc' = "stub"
    BY <1>7 DEF ScanRam
  <2>2. Found' = Found
    BY <2>1 DEF Found
  <2> QED BY <2>1, <2>2, RomSame DEF TypeOK, PhaseInv, RunInv, FoundInv, Reached, Offset
<1>8. CASE FillStub
  <2>1. UNCHANGED <<input, crc, i, runStart, blocks>> /\ pc = "stub" /\ pc' = "done"
    BY <1>8 DEF FillStub
  <2>2. Found' = Found
    BY <2>1 DEF Found
  <2> QED BY <2>1, <2>2, RomSame DEF TypeOK, PhaseInv, RunInv, FoundInv, Reached, Offset
<1>9. CASE UNCHANGED vars
  <2>1. UNCHANGED <<input, crc, i, runStart, blocks, pc>>
    BY <1>9 DEF vars
  <2>2. Found' = Found
    BY <2>1 DEF Found
  <2> QED BY <2>1, <2>2, RomSame DEF TypeOK, PhaseInv, RunInv, FoundInv, Reached, Offset
<1> QED
  BY <1>1, <1>2, <1>3, <1>4, <1>5, <1>6, <1>7, <1>8, <1>9 DEF Next, ScanFlash

\* In every state the variables have their types, and exactly the runs passed so
\* far have been reported.
THEOREM ScanInvariant == Spec => []ScanInv
<1>1. Init => ScanInv
  BY InitInv
<1>2. ScanInv /\ [Next]_vars => ScanInv'
  BY StepInv
<1> QED BY <1>1, <1>2, PTL DEF Spec

\* Every variable has its type.
THEOREM TypeCorrect == Spec => []TypeOK
<1>1. ScanInv => TypeOK
  BY DEF ScanInv
<1> QED BY <1>1, ScanInvariant, PTL
-----------------------------------------------------------------------------
\* The end of a run reports its block, or nothing if the block is too short.
LEMMA EndRunReports ==
  ASSUME ScanInv, ScanInv', EndRun
  PROVE  [Runs!Next]_(Runs!runsVars)
<1> DEFINE b == [start |-> runStart, end |-> AlignedEnd]
<1>1. /\ UNCHANGED <<input, crc, i, runStart>> /\ pc = "run" /\ pc' = "scan" /\ ~IsErased(i)
      /\ crc # None
  BY DEF EndRun, ScanInv, PhaseInv
<1>2. Found = {c \in Runs!Free : c.start < runStart} /\ Found' = {c \in Runs!Free : c.start < i}
  BY <1>1, RomSame DEF ScanInv, FoundInv, Reached
<1>3. Found' = Found \cup (IF AlignedEnd - runStart < MinLength THEN {} ELSE {b})
  BY <1>1, <1>2, EndedBlock DEF ScanInv
<1>4. /\ Erased' = Erased /\ ~(crc # None /\ pc \in {"ram", "stub", "done"})
      /\ ~(crc # None /\ pc \in {"ram", "stub", "done"})'
  BY <1>1, RomSame
<1>5. CASE Found' = Found
  BY <1>4, <1>5 DEF Runs!runsVars
<1>6. CASE Found' # Found
  <2>1. Found' = Found \cup {b} /\ b \notin Found
    BY <1>3, <1>6
  <2>2. b \in Runs!Free \ Found
    BY <1>2, <2>1
  <2>3. \A c \in Runs!Free : c.start < b.start => c \in Found
    BY <1>2
  <2> HIDE DEF b
  <2>4. Runs!Report
    BY <1>4, <2>1, <2>2, <2>3 DEF Runs!Report
  <2> QED BY <2>4 DEF Runs!Next
<1> QED BY <1>5, <1>6

\* find_free_blocks implements FreeRuns, for every ROM, least length and alignment:
\* the end of a run is the report of its block, the end of the search comes when
\* none is left, and nothing else shows.
THEOREM Refinement == Spec => FindsFreeRuns
<1>1. Init => Runs!Init
  <2> SUFFICES ASSUME Init PROVE Runs!Init
    OBVIOUS
  <2>1. Erased \in SUBSET (0..(Size - 1)) /\ Found = {}
    BY DEF Init, Erased, Found, Offset
  <2>2. (crc # None /\ pc \in {"ram", "stub", "done"}) = FALSE
    BY DEF Init
  <2> QED BY <2>1, <2>2 DEF Runs!Init
<1>2. ScanInv /\ ScanInv' /\ [Next]_vars => [Runs!Next]_(Runs!runsVars)
  <2> SUFFICES ASSUME ScanInv, ScanInv', [Next]_vars PROVE [Runs!Next]_(Runs!runsVars)
    OBVIOUS
  <2> DEFINE over == crc # None /\ pc \in {"ram", "stub", "done"}
  <2>1. CASE DetectCrc
    <3>1. UNCHANGED <<input, blocks>> /\ ~over /\ ~over'
      BY <2>1 DEF DetectCrc
    <3>2. Erased' = Erased /\ Found' = Found
      BY <3>1, RomSame DEF Found
    <3> QED BY <3>1, <3>2 DEF Runs!runsVars
  <2>2. CASE SkipByte \/ StartRun \/ ExtendRun
    <3>1. UNCHANGED <<input, blocks>> /\ ~over /\ ~over'
      BY <2>2 DEF SkipByte, StartRun, ExtendRun
    <3>2. Erased' = Erased /\ Found' = Found
      BY <3>1, RomSame DEF Found
    <3> QED BY <3>1, <3>2 DEF Runs!runsVars
  <2>3. CASE EndRun
    BY <2>3, EndRunReports
  <2>4. CASE EndScan
    <3>1. UNCHANGED <<input, crc, blocks>> /\ pc = "scan" /\ pc' = "ram" /\ crc # None
      BY <2>4 DEF EndScan, ScanInv, PhaseInv
    <3>2. Erased' = Erased /\ Found' = Found /\ Found' = Runs!Free
      BY <3>1, RomSame DEF Found, ScanInv, FoundInv
    <3>3. over = FALSE /\ over' = TRUE
      BY <3>1
    <3> QED BY <3>2, <3>3 DEF Runs!Next, Runs!Finish
  <2>5. CASE ScanRam \/ FillStub
    <3>1. UNCHANGED <<input, crc, blocks>> /\ over' = over
      BY <2>5 DEF ScanRam, FillStub
    <3>2. Erased' = Erased /\ Found' = Found
      BY <3>1, RomSame DEF Found
    <3> QED BY <3>1, <3>2 DEF Runs!runsVars
  <2>6. CASE UNCHANGED vars
    <3>1. UNCHANGED <<input, crc, blocks, pc>>
      BY <2>6 DEF vars
    <3>2. Erased' = Erased /\ Found' = Found /\ over' = over
      BY <3>1, RomSame DEF Found
    <3> QED BY <3>2 DEF Runs!runsVars
  <2> QED BY <2>1, <2>2, <2>3, <2>4, <2>5, <2>6 DEF Next, ScanFlash
<1> QED BY <1>1, <1>2, ScanInvariant, PTL DEF Spec, FindsFreeRuns, Runs!SafeSpec
-----------------------------------------------------------------------------
\* The least element of a finite set is the one that is below all, and so with
\* the greatest.
LEMMA LeastIs ==
  ASSUME NEW S \in SUBSET Int, IsFiniteSet(S), S # {}
  PROVE  /\ Least(S) \in S /\ \A x \in S : Least(S) <= x
         /\ Greatest(S) \in S /\ \A x \in S : Greatest(S) >= x
<1>1. (\E m \in S : \A x \in S : m <= x) /\ (\E m \in S : \A x \in S : m >= x)
  BY LeastInt
<1>2. Least(S) \in S /\ \A x \in S : Least(S) <= x
  BY <1>1 DEF Least
<1>3. Greatest(S) \in S /\ \A x \in S : Greatest(S) >= x
  BY <1>1 DEF Greatest
<1> QED BY <1>2, <1>3

\* A gap ends at the first address from its start on, or with the RAM.
LEMMA GapEndIs ==
  ASSUME input \in Inputs, NEW s \in Int
  PROVE  /\ GapEnd(s) \in Int
         /\ GapEnd(s) = RamEnd \/ (GapEnd(s) \in InRam /\ GapEnd(s) >= s)
         /\ GapEnd(s) <= RamEnd /\ \A a \in InRam : a >= s => GapEnd(s) <= a
<1> DEFINE S == {a \in InRam : a >= s} \cup {RamEnd}
<1>1. RamEnd \in Int /\ InRam \in SUBSET Int /\ IsFiniteSet(InRam)
  BY SpaceAssumption, FS_Subset DEF InRam
<1>2. S \in SUBSET Int /\ S # {} /\ RamEnd \in S
  BY <1>1
<1>3. IsFiniteSet(S)
  <2>1. IsFiniteSet({a \in InRam : a >= s})
    BY <1>1, FS_Subset
  <2> QED BY <2>1, FS_AddElement
<1>4. GapEnd(s) = Least(S)
  BY DEF GapEnd
<1>5. GapEnd(s) \in S /\ \A a \in S : GapEnd(s) <= a
  <2> HIDE DEF S
  <2> QED BY <1>2, <1>3, <1>4, LeastIs
<1> QED BY <1>1, <1>2, <1>5

\* The gaps are listed by their starts.
Starts == {s \in GapStarts : GapEnd(s) - s >= MinRam}

LEMMA RamGapsListed ==
  ASSUME input \in Inputs
  PROVE  /\ Starts \in SUBSET Int
         /\ \A p \in DOMAIN RamGaps : /\ RamGaps[p].start \in Starts
                                      /\ RamGaps[p].end = GapEnd(RamGaps[p].start)
         /\ \A s \in Starts : \E p \in DOMAIN RamGaps : RamGaps[p].start = s
         /\ \A p, q \in DOMAIN RamGaps : p < q => RamGaps[p].start < RamGaps[q].start
<1> DEFINE R == {z \in Starts \X Starts : z[1] < z[2]}
           f == Listing(Starts, R)
<1>1. Starts \in SUBSET Int /\ IsFiniteSet(Starts)
  <2>1. RamStart \in Int /\ InRam \in SUBSET Int /\ IsFiniteSet(InRam)
    BY SpaceAssumption, FS_Subset DEF InRam
  <2>2. {a + 1 : a \in InRam} \in SUBSET Int
    BY <2>1
  <2>3. IsFiniteSet({a + 1 : a \in InRam})
    <3> DEFINE g == [a \in InRam |-> a + 1]
               T == {a + 1 : a \in InRam}
    <3>1. g \in Surjection(InRam, T)
      BY DEF Surjection
    <3> HIDE DEF g, T
    <3>2. IsFiniteSet(T)
      BY <2>1, <3>1, FS_Surjection
    <3> QED BY <3>2 DEF T
  <2>4. GapStarts \in SUBSET Int
    BY <2>1, <2>2 DEF GapStarts
  <2>5. IsFiniteSet(GapStarts)
    <3> DEFINE T == {a + 1 : a \in InRam}
    <3>1. GapStarts = T \cup {RamStart}
      BY DEF GapStarts
    <3>2. IsFiniteSet(T)
      BY <2>3
    <3> HIDE DEF T
    <3> QED BY <3>1, <3>2, FS_AddElement
  <2> QED BY <2>4, <2>5, FS_Subset DEF Starts
<1>2. \A s, t \in Starts : <<s, t>> \in R <=> s < t
  OBVIOUS
<1>3. /\ DOMAIN f = DOMAIN RamGaps
      /\ \A p \in DOMAIN f : RamGaps[p].start = f[p] /\ RamGaps[p].end = GapEnd(f[p])
  <2>1. DOMAIN f = 1..Cardinality(Starts) /\ DOMAIN RamGaps = 1..Cardinality(Starts)
    BY DEF Listing, RamGaps, Starts
  <2>2. \A s \in Starts : {t \in Starts : t < s} = Under(Starts, R, s)
    BY <1>2 DEF Under
  <2>3. ASSUME NEW p \in 1..Cardinality(Starts)
        PROVE  (CHOOSE s \in Starts : Cardinality({t \in Starts : t < s}) = p - 1) = f[p]
    <3>1. f[p] = CHOOSE s \in Starts : RankIn(Starts, R, s) = p - 1
      BY DEF Listing
    <3>2. \A s \in Starts : Cardinality({t \in Starts : t < s}) = RankIn(Starts, R, s)
      BY <2>2 DEF RankIn
    <3> HIDE DEF R, f
    <3> QED BY <3>1, <3>2
  <2> HIDE DEF f
  <2>4. \A p \in DOMAIN f : RamGaps[p].start = f[p] /\ RamGaps[p].end = GapEnd(f[p])
    BY <2>1, <2>3 DEF RamGaps, Starts
  <2> QED BY <2>1, <2>4
<1>4. /\ f \in Seq(Starts)
      /\ \A s \in Starts : \E p \in DOMAIN f : f[p] = s
      /\ \A p, q \in DOMAIN f : p < q => <<f[p], f[q]>> \in R
  <2>1. IsStrictOrder(R, Starts)
    BY <1>1, <1>2 DEF IsStrictOrder
  <2> HIDE DEF R
  <2> QED BY <1>1, <2>1, Enumeration
<1> HIDE DEF f, R
<1>5. \A p \in DOMAIN f : f[p] \in Starts
  BY <1>4
<1>6. \A p, q \in DOMAIN f : p < q => f[p] < f[q]
  BY <1>2, <1>4, <1>5
<1>7. \A p, q \in DOMAIN RamGaps : p < q => RamGaps[p].start < RamGaps[q].start
  BY <1>3, <1>6
<1>8. \A s \in Starts : \E p \in DOMAIN RamGaps : RamGaps[p].start = s
  BY <1>3, <1>4
<1>9. \A p \in DOMAIN RamGaps : /\ RamGaps[p].start \in Starts
                                 /\ RamGaps[p].end = GapEnd(RamGaps[p].start)
  BY <1>3, <1>5
<1> QED BY <1>1, <1>7, <1>8, <1>9
\* The gaps do not overlap, and are exactly the spaces between two neighbours.
LEMMA RamGapsFree ==
  ASSUME input \in Inputs
  PROVE  /\ \A p, q \in DOMAIN RamGaps : p < q => RamGaps[p].end <= RamGaps[q].start
         /\ \A s, e \in RamStart..RamEnd :
              (/\ s <= e /\ e - s >= MinRam
               /\ \A a \in s..(e - 1) : a \notin input.ram
               /\ s = RamStart \/ s - 1 \in input.ram
               /\ e = RamEnd \/ e \in input.ram)
              <=> \E p \in DOMAIN RamGaps : RamGaps[p].start = s /\ RamGaps[p].end = e
<1>1. /\ {MinRam, RamStart, RamEnd} \subseteq Int /\ input.ram \in SUBSET Int
      /\ InRam \in SUBSET Int
      /\ \A a \in Int : a \in InRam <=> a \in input.ram /\ RamStart <= a /\ a < RamEnd
  BY SpaceAssumption DEF InRam
<1>2. \A s \in GapStarts : /\ s \in Int
                           /\ s = RamStart \/ (s - 1 \in InRam /\ s > RamStart)
  BY <1>1 DEF GapStarts
<1>3. ASSUME NEW p \in DOMAIN RamGaps, NEW q \in DOMAIN RamGaps, p < q
      PROVE  RamGaps[p].end <= RamGaps[q].start
  <2> DEFINE s == RamGaps[p].start
             t == RamGaps[q].start
  <2>1. s \in GapStarts /\ t \in GapStarts /\ s < t /\ RamGaps[p].end = GapEnd(s)
    BY <1>3, RamGapsListed DEF Starts
  <2> HIDE DEF s, t
  <2>2. t - 1 \in InRam /\ t - 1 >= s
    BY <1>1, <1>2, <2>1
  <2>3. GapEnd(s) \in Int /\ GapEnd(s) <= t - 1
    BY <1>2, <2>1, <2>2, GapEndIs
  <2>4. RamGaps[p].end <= t
    BY <1>2, <2>1, <2>3
  <2> QED BY <2>4 DEF t
<1>4. ASSUME NEW s \in RamStart..RamEnd, NEW e \in RamStart..RamEnd, s <= e, e - s >= MinRam,
             \A a \in s..(e - 1) : a \notin input.ram,
             s = RamStart \/ s - 1 \in input.ram, e = RamEnd \/ e \in input.ram
      PROVE  \E p \in DOMAIN RamGaps : RamGaps[p].start = s /\ RamGaps[p].end = e
  <2>1. s \in GapStarts
    <3>1. CASE s = RamStart
      BY <3>1 DEF GapStarts
    <3>2. CASE s # RamStart
      <4>1. s - 1 \in InRam /\ (s - 1) + 1 = s
        BY <1>1, <1>4, <3>2
      <4> QED BY <4>1 DEF GapStarts
    <3> QED BY <3>1, <3>2
  <2>2. GapEnd(s) = e
    <3>1. s \in Int /\ e \in Int
      BY <1>1
    <3>2. /\ GapEnd(s) \in Int
          /\ GapEnd(s) = RamEnd \/ (GapEnd(s) \in InRam /\ GapEnd(s) >= s)
          /\ GapEnd(s) <= RamEnd /\ \A a \in InRam : a >= s => GapEnd(s) <= a
      BY <3>1, GapEndIs
    <3>3. GapEnd(s) <= e
      <4>1. CASE e = RamEnd
        BY <3>2, <4>1
      <4>2. CASE e # RamEnd
        <5>1. e \in InRam /\ e >= s
          BY <1>1, <1>4, <4>2
        <5> QED BY <3>2, <5>1
      <4> QED BY <4>1, <4>2
    <3>4. ~(GapEnd(s) < e)
      <4>1. CASE GapEnd(s) = RamEnd
        BY <1>1, <3>1, <4>1
      <4>2. CASE GapEnd(s) \in InRam /\ GapEnd(s) >= s
        BY <1>1, <1>4, <3>1, <3>2, <4>2
      <4> QED BY <3>2, <4>1, <4>2
    <3> QED BY <3>1, <3>2, <3>3, <3>4
  <2>3. s \in Starts
    BY <1>4, <2>1, <2>2 DEF Starts
  <2> QED BY <2>2, <2>3, RamGapsListed
<1>5. ASSUME NEW s \in RamStart..RamEnd, NEW e \in RamStart..RamEnd,
             NEW p \in DOMAIN RamGaps, RamGaps[p].start = s, RamGaps[p].end = e
      PROVE  /\ s <= e /\ e - s >= MinRam
             /\ \A a \in s..(e - 1) : a \notin input.ram
             /\ s = RamStart \/ s - 1 \in input.ram
             /\ e = RamEnd \/ e \in input.ram
  <2>1. s \in GapStarts /\ e = GapEnd(s) /\ e - s >= MinRam /\ s \in Int /\ e \in Int
    BY <1>1, <1>5, RamGapsListed DEF Starts
  <2>2. /\ e = RamEnd \/ (e \in InRam /\ e >= s)
        /\ \A a \in InRam : a >= s => e <= a
    BY <2>1, GapEndIs
  <2>3. s <= e
    BY <1>1, <2>1, <2>2
  <2>4. ASSUME NEW a \in s..(e - 1) PROVE a \notin input.ram
    <3>1. a \in Int /\ RamStart <= a /\ a < RamEnd /\ a >= s /\ ~(e <= a)
      BY <1>1, <2>1
    <3> QED BY <1>1, <2>2, <3>1
  <2>5. s = RamStart \/ s - 1 \in input.ram
    BY <1>1, <1>2, <2>1
  <2>6. e = RamEnd \/ e \in input.ram
    BY <1>1, <2>2
  <2> QED BY <2>1, <2>3, <2>4, <2>5, <2>6
<1> QED BY <1>3, <1>4, <1>5

\* What is written once and stays: the input, and the gaps once the RAM is scanned.
RamInv == input \in Inputs /\ (pc \in {"stub", "done"} => ramBlocks = RamGaps)

LEMMA RamGapsSame == UNCHANGED input => RamGaps' = RamGaps
  BY DEF RamGaps, GapStarts, GapEnd, InRam

\* The free RAM reported is exactly what lies between the addresses referred to, in
\* order, for any range, addresses and least length (find_free_ram_blocks).
THEOREM RamExact == Spec => []RamGapsExact
<1>1. Init => RamInv
  BY DEF Init, RamInv
<1>2. RamInv /\ [Next]_vars => RamInv'
  <2> SUFFICES ASSUME RamInv, [Next]_vars PROVE RamInv'
    OBVIOUS
  <2>1. CASE ScanRam
    BY <2>1, RamGapsSame DEF ScanRam, RamInv
  <2>2. CASE DetectCrc \/ ScanFlash
    BY <2>2 DEF DetectCrc, ScanFlash, SkipByte, StartRun, ExtendRun, EndRun, EndScan, RamInv
  <2>3. CASE FillStub \/ UNCHANGED vars
    BY <2>3, RamGapsSame DEF FillStub, vars, RamInv
  <2> QED BY <2>1, <2>2, <2>3 DEF Next
<1>3. RamInv => RamGapsExact
  <2> SUFFICES ASSUME RamInv, pc \in {"stub", "done"} PROVE RamGapsExact
    BY DEF RamGapsExact
  <2>1. ramBlocks = RamGaps /\ input \in Inputs
    BY DEF RamInv
  <2> QED BY <2>1, RamGapsFree DEF RamGapsExact
<1> QED BY <1>1, <1>2, <1>3, PTL DEF Spec
-----------------------------------------------------------------------------
\* Constants loaded are numbers, and there are finitely many loads.
LEMMA LoadedNumbers ==
  ASSUME NEW code, IsCode(code)
  PROVE  /\ Loads(code) \in SUBSET Int /\ IsFiniteSet(Loads(code))
         /\ \A k \in Loads(code) : Value(code, k) \in Int
<1> DEFINE Instruction == [op : STRING, dst : {None} \cup STRING, src : {None} \cup STRING,
                           imm : {None} \cup Int]
<1>1. /\ code \in Seq(Instruction) /\ DOMAIN code = 1..Len(code) /\ Len(code) \in Nat
      /\ \A k \in DOMAIN code : code[k].imm \in {None} \cup Int
  <2>1. code \in Seq(Instruction)
    BY DEF IsCode
  <2>2. \A v \in Instruction : v.imm \in {None} \cup Int
    OBVIOUS
  <2> HIDE DEF Instruction
  <2>3. /\ DOMAIN code = 1..Len(code) /\ Len(code) \in Nat
        /\ \A k \in DOMAIN code : code[k] \in Instruction
    BY <2>1
  <2> QED BY <2>1, <2>2, <2>3
<1> HIDE DEF Instruction
<1>2. Loads(code) \subseteq 1..Len(code)
  BY <1>1 DEF Loads
<1>3. IsFiniteSet(Loads(code))
  <2>1. IsFiniteSet(1..Len(code))
    BY <1>1, FS_Interval
  <2> QED BY <1>2, <2>1, FS_Subset
<1>4. ASSUME NEW k \in Loads(code) PROVE Value(code, k) \in Int
  <2>1. k \in DOMAIN code /\ k \in 1..Len(code)
    BY <1>1, <1>2
  <2>2. CASE IsPair(code, k)
    <3>1. k + 1 \in DOMAIN code /\ code[k].imm \in Int /\ code[k + 1].imm \in Int
      BY <1>1, <2>1, <2>2 DEF IsPair
    <3>2. SignExtended(code[k + 1].imm) \in Int
      BY <3>1, HalfWordAssumption DEF SignExtended
    <3>3. code[k].imm * HalfWord \in Int
      BY <3>1, HalfWordAssumption
    <3> QED BY <2>2, <3>2, <3>3 DEF Value
  <2>3. CASE ~IsPair(code, k)
    BY <1>1, <1>4, <2>1, <2>3 DEF Loads, Value
  <2> QED BY <2>2, <2>3
<1> QED BY <1>2, <1>3, <1>4

IsRegion(r) == /\ r.fullStart \in Int /\ r.partialStart \in Int /\ r.end \in Int
               /\ r.fullStart <= r.partialStart

\* A region that is read off is one of numbers, and the larger one starts first.
LEMMA RegionRead ==
  ASSUME NEW code, IsCode(code), ExtractCrcRegion(code) # None
  PROVE  IsRegion(ExtractCrcRegion(code))
<1> DEFINE bound == Greatest(Repeated(code))
           stored == StartLoads(code, bound)
           first == Least(stored)
           second == Least(stored \ {first})
           full == Value(code, first)
           partial == Value(code, second)
<1>1. /\ Loads(code) \in SUBSET Int /\ IsFiniteSet(Loads(code))
      /\ \A k \in Loads(code) : Value(code, k) \in Int
  BY LoadedNumbers
<1>2. Repeated(code) # {} /\ ~(Cardinality(stored) < 2) /\ ~(full > partial)
  BY DEF ExtractCrcRegion
<1>3. bound \in Int
  <2> DEFINE V == {Value(code, k) : k \in Loads(code)}
  <2>1. V \in SUBSET Int
    BY <1>1
  <2>2. IsFiniteSet(V)
    <3> DEFINE g == [k \in Loads(code) |-> Value(code, k)]
    <3>1. g \in Surjection(Loads(code), V)
      BY DEF Surjection
    <3> HIDE DEF g, V
    <3> QED BY <1>1, <3>1, FS_Surjection
  <2>3. Repeated(code) \in SUBSET V
    BY DEF Repeated
  <2> HIDE DEF V
  <2>4. Repeated(code) \in SUBSET Int /\ IsFiniteSet(Repeated(code))
    BY <2>1, <2>2, <2>3, FS_Subset
  <2> QED BY <1>2, <2>4, LeastIs
<1> HIDE DEF bound
<1>4. stored \in SUBSET Loads(code) /\ IsFiniteSet(stored)
  <2>1. stored \in SUBSET Loads(code)
    BY DEF StartLoads
  <2> HIDE DEF stored
  <2> QED BY <1>1, <2>1, FS_Subset
<1> HIDE DEF stored
<1>5. first \in stored
  <2>1. stored # {}
    BY <1>2, FS_EmptySet
  <2> QED BY <1>1, <1>4, <2>1, LeastIs
<1> HIDE DEF first
<1>6. second \in stored
  <2>1. IsFiniteSet(stored \ {first}) /\ stored \ {first} \in SUBSET Int
    BY <1>1, <1>4, FS_Subset
  <2>2. stored \ {first} # {}
    <3> SUFFICES ASSUME stored = {first} PROVE FALSE
      BY <1>5
    <3>1. Cardinality(stored) = 1
      BY FS_Singleton
    <3> QED BY <1>2, <3>1
  <2> QED BY <2>1, <2>2, LeastIs
<1> HIDE DEF second
<1>7. full \in Int /\ partial \in Int
  BY <1>1, <1>4, <1>5, <1>6
<1>8. ExclusiveEnd(code, bound) \in Int
  BY <1>3 DEF ExclusiveEnd
<1>9. ExtractCrcRegion(code) = [fullStart |-> full, partialStart |-> partial,
                               end |-> ExclusiveEnd(code, bound)]
  BY <1>2 DEF ExtractCrcRegion, bound, stored, first, second
<1> HIDE DEF full, partial
<1> QED BY <1>2, <1>7, <1>8, <1>9 DEF IsRegion
\* A region that ends before the part that is read last begins is none a checksum
\* step could mean; the code does not ask.
RegionsOrdered ==
  \A w \in Inputs :
    w.code # None /\ ExtractCrcRegion(w.code) # None =>
      ExtractCrcRegion(w.code).partialStart <= ExtractCrcRegion(w.code).end

\* The region is the one read off the code; a block is in the band of its start.
BlockInv ==
  /\ input \in Inputs
  /\ crc # None => input.code # None /\ crc = ExtractCrcRegion(input.code)
  /\ pc = "crc" => blocks = <<>>
  /\ \A k \in DOMAIN blocks : blocks[k].band = Classify(blocks[k].start)

\* What is filled in is a block that stood out, of the blocks as they are now.
StubInv ==
  stub # None =>
    pc = "done" /\ \E k \in Unprotected : StandsOut(k) /\ stub = blocks[k]

LEMMA BlockStep ==
  ASSUME ScanInv, BlockInv, [Next]_vars
  PROVE  BlockInv'
<1>1. CASE DetectCrc
  <2>1. blocks = <<>> /\ blocks' = <<>> /\ input' = input /\ pc' # "crc"
        /\ crc' = IF input.code = None THEN None ELSE ExtractCrcRegion(input.code)
    BY <1>1 DEF DetectCrc, BlockInv
  <2> QED BY <2>1 DEF BlockInv
<1>2. CASE EndRun
  <2> DEFINE e == [start |-> runStart, end |-> AlignedEnd, band |-> Classify(runStart)]
             S == [start : Offset, end : 0..Size, band : Band]
  <2>1. UNCHANGED <<input, crc>> /\ pc = "run" /\ pc' = "scan"
        /\ blocks' = IF AlignedEnd - runStart < MinLength THEN blocks ELSE Append(blocks, e)
    BY <1>2 DEF EndRun
  <2>3. e.band = Classify(e.start) /\ blocks \in Seq(S)
    BY DEF ScanInv, TypeOK
  <2> HIDE DEF e, S
  <2>4. /\ DOMAIN Append(blocks, e) = DOMAIN blocks \cup {Len(blocks) + 1}
        /\ \A k \in DOMAIN blocks : Append(blocks, e)[k] = blocks[k]
        /\ Append(blocks, e)[Len(blocks) + 1] = e
    BY <2>3
  <2>5. \A k \in DOMAIN blocks' : blocks'[k].band = Classify(blocks'[k].start)
    <3>1. CASE blocks' = blocks
      BY <3>1 DEF BlockInv
    <3>2. CASE blocks' = Append(blocks, e)
      BY <2>3, <2>4, <3>2 DEF BlockInv
    <3> QED BY <2>1, <3>1, <3>2
  <2>6. (\A k \in DOMAIN blocks : blocks[k].band = Classify(blocks[k].start))'
    BY <2>1, <2>5 DEF Classify
  <2> QED BY <2>1, <2>6 DEF BlockInv
<1>3. CASE UNCHANGED <<input, crc, blocks>> /\ pc # "crc" /\ pc' # "crc"
  BY <1>3 DEF BlockInv, Classify
<1>4. CASE UNCHANGED vars
  BY <1>4 DEF vars, BlockInv, Classify
<1>5. SkipByte \/ StartRun \/ ExtendRun \/ EndScan \/ ScanRam \/ FillStub
        => UNCHANGED <<input, crc, blocks>> /\ pc # "crc" /\ pc' # "crc"
  BY DEF SkipByte, StartRun, ExtendRun, EndScan, ScanRam, FillStub
<1> QED BY <1>1, <1>2, <1>3, <1>4, <1>5 DEF Next, ScanFlash

LEMMA StubStep ==
  ASSUME StubInv, pc = "done" => blocks' = blocks, [Next]_vars
  PROVE  StubInv'
<1>1. CASE FillStub
  <2> DEFINE k == CHOOSE k \in Unprotected : StandsOut(k)
  <2>1. UNCHANGED blocks /\ pc' = "done"
        /\ stub' = IF \E j \in Unprotected : StandsOut(j) THEN blocks[k] ELSE None
    BY <1>1 DEF FillStub
  <2>2. (\E j \in Unprotected : StandsOut(j)) => k \in Unprotected /\ StandsOut(k)
    OBVIOUS
  <2> HIDE DEF k
  <2>3. Unprotected' = Unprotected /\ \A j : StandsOut(j)' = StandsOut(j)
    BY <2>1 DEF Unprotected, StandsOut, Length
  <2>4. stub' # None => \E j \in Unprotected' : StandsOut(j)' /\ stub' = blocks'[j]
    BY <2>1, <2>2, <2>3
  <2> QED BY <2>1, <2>4 DEF StubInv
<1>2. CASE pc # "done" /\ UNCHANGED stub
  BY <1>2 DEF StubInv
<1>3. CASE UNCHANGED vars
  BY <1>3 DEF vars, StubInv, Unprotected, StandsOut, Length
<1>4. DetectCrc \/ ScanFlash \/ ScanRam => pc # "done" /\ UNCHANGED stub
  BY DEF DetectCrc, ScanFlash, SkipByte, StartRun, ExtendRun, EndRun, EndScan, ScanRam
<1> QED BY <1>1, <1>2, <1>3, <1>4 DEF Next
LEMMA BlockInvariant == Spec => [](ScanInv /\ BlockInv)
<1>1. Init => BlockInv
  BY DEF Init, BlockInv
<1>2. ScanInv /\ BlockInv /\ [Next]_vars => BlockInv'
  BY BlockStep
<1> QED BY <1>1, <1>2, ScanInvariant, PTL DEF Spec

\* A block in no band starts outside of the region, and one that starts outside of
\* an ordered region is in no band.
LEMMA Bands ==
  ASSUME IsRegion(crc), NEW s \in Int
  PROVE  /\ Classify(s) = "unprotected" => s \notin crc.fullStart..(crc.end - 1)
         /\ crc.partialStart <= crc.end /\ s \notin crc.fullStart..(crc.end - 1)
              => Classify(s) = "unprotected"
  BY DEF IsRegion, Classify

LEMMA StubHolds ==
  ASSUME RegionsOrdered, ScanInv, BlockInv, StubInv
  PROVE  StubUnambiguous
<1> SUFFICES ASSUME stub # None PROVE StubUnambiguous
  BY DEF StubUnambiguous
<1>1. PICK k \in Unprotected : StandsOut(k) /\ stub = blocks[k]
  BY DEF StubInv
<1>2. pc = "done" /\ k \in DOMAIN blocks /\ blocks[k].band = "unprotected"
  BY <1>1 DEF StubInv, Unprotected
<1>3. \A j \in DOMAIN blocks : blocks[j].start \in Int /\ blocks[j].end \in Int
  <2> DEFINE S == [start : Offset, end : 0..Size, band : Band]
  <2>1. blocks \in Seq(S) /\ \A b \in S : b.start \in Int /\ b.end \in Int
    BY SpaceAssumption DEF ScanInv, TypeOK, Offset
  <2> HIDE DEF S
  <2>2. \A j \in DOMAIN blocks : blocks[j] \in S
    BY <2>1
  <2> QED BY <2>1, <2>2
<1>4. [start |-> stub.start, end |-> stub.end] \in Found
  BY <1>1, <1>2 DEF Found
<1>5. crc # None /\ Found = Runs!Free
  BY <1>2, <1>4 DEF ScanInv, FoundInv
<1>6. IsRegion(crc) /\ crc.partialStart <= crc.end
  <2>1. input \in Inputs /\ input.code # None /\ crc = ExtractCrcRegion(input.code)
    BY <1>5 DEF BlockInv
  <2>2. IsCode(input.code)
    BY <2>1, SpaceAssumption
  <2>3. IsRegion(crc)
    BY <1>5, <2>1, <2>2, RegionRead
  <2> QED BY <1>5, <2>1, <2>3 DEF RegionsOrdered
<1>7. \A x \in stub.start..(stub.end - 1) : IsErased(x)
  <2>1. PICK r \in Runs!MaximalRuns : stub.start = r[1] /\ stub.end = Runs!Trim(r[2])
    BY <1>4, <1>5 DEF Runs!Free
  <2>2. /\ r[1] \in Int /\ r[2] \in 0..Size
        /\ \A x \in r[1]..(r[2] - 1) : x \in Erased
    BY SpaceAssumption DEF Runs!MaximalRuns, Runs!RunStarts, Runs!RunEnds, Erased, Offset
  <2>3. r[2] - (r[2] % Alignment) \in Int /\ r[2] - (r[2] % Alignment) <= r[2]
    BY <2>2, SpaceAssumption, SMT
  <2>4. stub.end \in Int /\ stub.end <= r[2]
    BY <2>1, <2>3 DEF Runs!Trim
  <2>5. \A x \in stub.start..(stub.end - 1) : x \in r[1]..(r[2] - 1)
    BY <2>1, <2>2, <2>4
  <2>6. \A x \in Erased : IsErased(x)
    BY SpaceAssumption DEF Erased, IsErased, Offset
  <2> QED BY <2>2, <2>5, <2>6
<1>8. stub.start \notin crc.fullStart..(crc.end - 1)
  BY <1>1, <1>2, <1>3, <1>6, Bands DEF BlockInv
<1>9. ASSUME NEW j \in DOMAIN blocks, blocks[j].start \notin crc.fullStart..(crc.end - 1),
             blocks[j].start # stub.start
      PROVE  2 * Length(blocks[j]) < Length(stub)
  <2>1. blocks[j].band = "unprotected"
    BY <1>3, <1>6, <1>9, Bands DEF BlockInv
  <2>2. j \in Unprotected \ {k}
    BY <1>1, <1>9, <2>1 DEF Unprotected
  <2>3. Length(blocks[k]) > 2 * Length(blocks[j])
    BY <1>1, <2>2 DEF StandsOut
  <2>4. Length(blocks[k]) \in Int /\ Length(blocks[j]) \in Int
    BY <1>2, <1>3 DEF Length
  <2> QED BY <1>1, <2>3, <2>4
<1> QED BY <1>7, <1>8, <1>9 DEF StubUnambiguous

\* The free space filled in is erased to its last byte, starts outside of the
\* checksum, and no other block that does is half as long, if regions are in order
\* (emit_omni_stub on the blocks of find_free_blocks).
THEOREM StubIsUnambiguous ==
  ASSUME RegionsOrdered
  PROVE  Spec => []StubUnambiguous
<1>1. Init => StubInv
  BY DEF Init, StubInv
<1>2. ScanInv /\ BlockInv /\ StubInv /\ [Next]_vars => StubInv'
  <2>1. [Next]_vars => (pc = "done" => blocks' = blocks)
    BY DEF Next, ScanFlash, DetectCrc, SkipByte, StartRun, ExtendRun, EndRun, EndScan, ScanRam,
           FillStub, vars
  <2> QED BY <2>1, StubStep
<1>3. ScanInv /\ BlockInv /\ StubInv => StubUnambiguous
  BY StubHolds
<1> QED BY <1>1, <1>2, <1>3, BlockInvariant, PTL DEF Spec
-----------------------------------------------------------------------------
\* A carry into the upper half takes one HalfWord.
LEMMA CarryTaken ==
  ASSUME NEW h \in Int, NEW q \in Int
  PROVE  (q + 1) * h - h = q * h
<1>1. (q + 1) * h = q * h + h
  OBVIOUS
<1>2. q * h \in Int
  OBVIOUS
<1> QED BY <1>1, <1>2

\* A constant is read off as it was loaded, in either encoding.
LEMMA ConstantRead ==
  ASSUME NEW code, IsCode(code), NEW k \in DOMAIN code, NEW v \in Int, LoadsConstant(code, k, v)
  PROVE  Value(code, k) = v
<1>1. CASE code[k].op = "ld24" /\ code[k].imm = v
  BY <1>1 DEF Value, IsPair
<1>2. CASE /\ IsPair(code, k)
           /\ code[k].imm = (v \div HalfWord) + (IF v % HalfWord >= HalfWord \div 2 THEN 1 ELSE 0)
           /\ code[k + 1].imm % HalfWord = v % HalfWord
  <2> DEFINE q == v \div HalfWord
             m == v % HalfWord
             low == code[k + 1].imm
             half == HalfWord \div 2
  <2>1. /\ HalfWord \in Int /\ q \in Int /\ m \in Int /\ half \in Int
        /\ v = HalfWord * q + m
    BY HalfWordAssumption
  <2>2. /\ Value(code, k) = code[k].imm * HalfWord + SignExtended(low)
        /\ SignExtended(low) = IF m >= half THEN m - HalfWord ELSE m
        /\ code[k].imm = q + (IF m >= half THEN 1 ELSE 0)
    BY <1>2 DEF Value, SignExtended
  <2> HIDE DEF q, m, low, half
  <2>3. q * HalfWord = HalfWord * q /\ q * HalfWord \in Int
    BY <2>1
  <2>4. CASE m >= half
    <3>1. (q + 1) * HalfWord - HalfWord = q * HalfWord
      BY <2>1, CarryTaken
    <3>2. Value(code, k) = (q + 1) * HalfWord + (m - HalfWord)
      BY <2>2, <2>4
    <3>3. (q + 1) * HalfWord \in Int
      BY <2>1
    <3> DEFINE x == (q + 1) * HalfWord
               y == q * HalfWord
    <3>4. x - HalfWord = y /\ x \in Int /\ y \in Int /\ Value(code, k) = x + (m - HalfWord) /\ v = y + m
      BY <2>1, <2>3, <3>1, <3>2, <3>3
    <3> HIDE DEF x, y
    <3> QED BY <2>1, <3>4
  <2>5. CASE ~(m >= half)
    <3>1. Value(code, k) = q * HalfWord + m
      BY <2>1, <2>2, <2>5
    <3> QED BY <2>1, <2>3, <3>1
  <2> QED BY <2>4, <2>5
<1> QED BY <1>1, <1>2 DEF LoadsConstant

\* The end of the region is told by the order of the comparison.
LEMMA EndRead ==
  ASSUME NEW code, IsCode(code), NEW b \in Loads(code), NEW bound \in Int, NEW inclusive \in BOOLEAN,
         Value(code, b) = bound,
         \A k \in Loads(code) : Value(code, k) = bound => b <= k,
         ComparedAs(code, b, inclusive)
  PROVE  ExclusiveEnd(code, bound) = IF inclusive THEN bound + 1 ELSE bound
<1> DEFINE same == {k \in Loads(code) : Value(code, k) = bound}
           compares == {j \in After(code, b) : code[j].op \in {"cmpu", "cmp"}}
<1>1. Loads(code) \in SUBSET Int /\ IsFiniteSet(Loads(code)) /\ DOMAIN code \in SUBSET Int
  <2>1. DOMAIN code \in SUBSET Int
    BY DEF IsCode
  <2> QED BY <2>1, LoadedNumbers
<1>2. Least(same) = b
  <2>1. b \in same /\ \A k \in same : b <= k /\ k \in Int
    BY <1>1
  <2> HIDE DEF same
  <2>2. \A x \in same : (\A y \in same : x <= y) => x = b
    BY <2>1
  <2> QED BY <2>1, <2>2 DEF Least
<1>3. PICK j \in After(code, b) :
        /\ code[j].op \in {"cmpu", "cmp"}
        /\ \A m \in After(code, b) : code[m].op \in {"cmpu", "cmp"} => j <= m
        /\ inclusive = (code[j].dst = code[b].dst)
  BY DEF ComparedAs
<1>4. Least(compares) = j /\ compares # {}
  <2>1. j \in compares /\ \A m \in compares : j <= m /\ m \in Int
    BY <1>1, <1>3 DEF After
  <2> HIDE DEF compares
  <2>2. \A x \in compares : (\A y \in compares : x <= y) => x = j
    BY <2>1
  <2> QED BY <2>1, <2>2 DEF Least
<1>5. ExclusiveEnd(code, bound) =
        IF compares # {} /\ code[Least(compares)].dst = code[b].dst THEN bound + 1 ELSE bound
  BY <1>2 DEF ExclusiveEnd
<1> HIDE DEF compares
<1> QED BY <1>3, <1>4, <1>5

\* What code checks is what extract_crc_region returns.
LEMMA CheckedRegionRead ==
  ASSUME NEW code, IsCode(code), NEW region \in [fullStart : Int, partialStart : Int, end : Int],
         ChecksRegion(code, region)
  PROVE  ExtractCrcRegion(code) = region
<1> DEFINE full == region.fullStart
           partial == region.partialStart
           After2(k) == \E j \in After(code, k) : code[j].op = "st"
<1>1. PICK b1 \in Loads(code), s1 \in Loads(code), b2 \in Loads(code), s2 \in Loads(code),
           inclusive \in BOOLEAN :
        LET bound == IF inclusive THEN region.end - 1 ELSE region.end
        IN /\ Loads(code) = {b1, s1, b2, s2} /\ b1 < s1 /\ s1 < b2 /\ b2 < s2
           /\ LoadsConstant(code, b1, bound) /\ LoadsConstant(code, b2, bound)
           /\ LoadsConstant(code, s1, full) /\ LoadsConstant(code, s2, partial)
           /\ ComparedAs(code, b1, inclusive)
           /\ \A k \in {s1, s2} : After2(k)
           /\ full < partial /\ bound \notin {full, partial}
  BY DEF ChecksRegion
<1> DEFINE bound == IF inclusive THEN region.end - 1 ELSE region.end
<1>2. /\ full \in Int /\ partial \in Int /\ region.end \in Int /\ bound \in Int
      /\ region = [fullStart |-> full, partialStart |-> partial, end |-> region.end]
  OBVIOUS
<1>3. /\ Loads(code) = {b1, s1, b2, s2} /\ b1 < s1 /\ s1 < b2 /\ b2 < s2
      /\ full < partial /\ bound # full /\ bound # partial
      /\ After2(s1) /\ After2(s2) /\ ComparedAs(code, b1, inclusive)
  BY <1>1
<1>4. Loads(code) \in SUBSET Int /\ Loads(code) \subseteq DOMAIN code
  BY LoadedNumbers DEF Loads
<1>5. /\ Value(code, b1) = bound /\ Value(code, b2) = bound
      /\ Value(code, s1) = full /\ Value(code, s2) = partial
  <2>1. /\ LoadsConstant(code, b1, bound) /\ LoadsConstant(code, b2, bound)
        /\ LoadsConstant(code, s1, full) /\ LoadsConstant(code, s2, partial)
    BY <1>1
  <2> HIDE DEF bound, full, partial
  <2> QED BY <1>2, <1>4, <2>1, ConstantRead
<1>6. region.end = IF inclusive THEN bound + 1 ELSE bound
  BY <1>2
<1> HIDE DEF bound, full, partial, After2
<1>7. b1 \in Int /\ s1 \in Int /\ b2 \in Int /\ s2 \in Int
  BY <1>4
<1>8. Repeated(code) = {bound}
  <2>1. ASSUME NEW k \in Loads(code), NEW j \in Loads(code) \ {k}, Value(code, j) = Value(code, k)
        PROVE  Value(code, k) = bound
    BY <1>2, <1>3, <1>5, <2>1
  <2>2. b2 \in Loads(code) \ {b1} /\ Value(code, b2) = Value(code, b1)
    BY <1>3, <1>5, <1>7
  <2>3. bound \in Repeated(code)
    BY <1>5, <2>2 DEF Repeated
  <2>4. \A v \in Repeated(code) : v = bound
    BY <2>1 DEF Repeated
  <2> QED BY <2>3, <2>4
<1>9. Greatest({bound}) = bound
  BY <1>2 DEF Greatest
<1>10. StartLoads(code, bound) = {s1, s2}
  <2>1. \A k \in Loads(code) : Value(code, k) # bound => k \in {s1, s2}
    BY <1>3, <1>5
  <2>2. \A k \in {s1, s2} : k \in Loads(code) /\ Value(code, k) # bound /\ After2(k)
    BY <1>3, <1>5
  <2> QED BY <2>1, <2>2 DEF StartLoads, After2
<1>11. s1 < s2 /\ s1 # s2
  BY <1>3, <1>7
<1>12. Cardinality({s1, s2}) = 2
  <2>1. IsFiniteSet({s2}) /\ Cardinality({s2}) = 1
    BY FS_Singleton
  <2>2. Cardinality({s2} \cup {s1}) = 2
    <3> DEFINE S == {s2}
    <3>1. s1 \notin S /\ IsFiniteSet(S) /\ Cardinality(S) = 1
      BY <1>11, <2>1
    <3> HIDE DEF S
    <3>2. Cardinality(S \cup {s1}) = Cardinality(S) + 1
      BY <3>1, FS_AddElement
    <3> QED BY <3>1, <3>2 DEF S
  <2>3. {s2} \cup {s1} = {s1, s2}
    OBVIOUS
  <2> QED BY <2>2, <2>3
<1>13. Least({s1, s2}) = s1 /\ Least({s1, s2} \ {s1}) = s2
  <2>1. {s1, s2} \ {s1} = {s2}
    BY <1>11
  <2>2. \A x \in {s1, s2} : (\A y \in {s1, s2} : x <= y) <=> x = s1
    BY <1>7, <1>11
  <2>3. Least({s2}) = s2
    BY <1>7 DEF Least
  <2> QED BY <2>1, <2>2, <2>3 DEF Least
<1>14. ExclusiveEnd(code, bound) = region.end
  <2>1. \A k \in Loads(code) : Value(code, k) = bound => b1 <= k
    BY <1>3, <1>7
  <2> QED BY <1>2, <1>3, <1>5, <1>6, <2>1, EndRead
<1>15. ~(full > partial)
  BY <1>2, <1>3
<1>16. ExtractCrcRegion(code) =
         [fullStart |-> Value(code, s1), partialStart |-> Value(code, s2), end |-> ExclusiveEnd(code, bound)]
  BY <1>5, <1>8, <1>9, <1>10, <1>12, <1>13, <1>15 DEF ExtractCrcRegion
<1> QED BY <1>2, <1>5, <1>14, <1>16 DEF full, partial

\* The region read off the instructions of the checksum step is the one they check, for
\* code of any length with these loads, in either encoding of each constant and either
\* order of the comparison (extract_crc_region).
THEOREM RegionAsCoded ==
  ASSUME RegionsCoded
  PROVE  Spec => []CrcAsCoded
<1> DEFINE Detected == /\ input \in Inputs
                       /\ pc # "crc" => crc = IF input.code = None THEN None
                                              ELSE ExtractCrcRegion(input.code)
<1>1. Init => Detected
  BY DEF Init
<1>2. Detected /\ [Next]_vars => Detected'
  <2> SUFFICES ASSUME Detected, [Next]_vars PROVE Detected'
    OBVIOUS
  <2>1. CASE DetectCrc
    BY <2>1 DEF DetectCrc
  <2>2. CASE UNCHANGED <<input, crc>> /\ pc # "crc"
    BY <2>2
  <2>3. CASE UNCHANGED vars
    BY <2>3 DEF vars
  <2>4. ScanFlash \/ ScanRam \/ FillStub => UNCHANGED <<input, crc>> /\ pc # "crc"
    BY DEF ScanFlash, SkipByte, StartRun, ExtendRun, EndRun, EndScan, ScanRam, FillStub
  <2> QED BY <2>1, <2>2, <2>3, <2>4 DEF Next
<1>3. Detected => CrcAsCoded
  <2> SUFFICES ASSUME Detected, pc # "crc", input.region # None PROVE crc = input.region
    BY DEF CrcAsCoded
  <2>1. /\ input.region \in [fullStart : Int, partialStart : Int, end : Int]
        /\ input.code # None /\ ChecksRegion(input.code, input.region)
    BY DEF RegionsCoded
  <2>2. IsCode(input.code)
    BY <2>1, SpaceAssumption
  <2> QED BY <2>1, <2>2, CheckedRegionRead
<1> QED BY <1>1, <1>2, <1>3, PTL DEF Spec
=============================================================================
