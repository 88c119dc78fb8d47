------------------------------ MODULE FreeSpace ------------------------------
(***************************************************************************)
(* Step 6 of the analyze command: the region the checksum covers, the      *)
(* blocks of flash and of RAM that nothing uses, and the free space that   *)
(* is filled into omni.ld.stub when there is no doubt about it             *)
(* (pipeline/post_match.py, flash_space.py, ram_space.py, emit_ld.py).     *)
(*                                                                         *)
(* find_free_blocks is modelled byte by byte and shown to implement        *)
(* FreeRuns.                                                               *)
(***************************************************************************)
EXTENDS Crc

CONSTANTS
  Size,       \* bytes of the ROM
  MinLength,  \* --min-flash-block
  Alignment,  \* a power of two
  RamStart, RamEnd,
  MinRam,     \* --min-ram-block
  LargeGap,   \* from here on a gap of RAM is suspicious
  Inputs      \* ROMs, with the instructions of the checksum step (None: not
              \* located) and the RAM addresses the code refers to

\* The lengths come from the command line, where nothing keeps them positive.
ASSUME SpaceAssumption ==
  /\ Size \in Nat /\ Alignment \in Nat \ {0}
  /\ {MinLength, MinRam, RamStart, RamEnd} \subseteq Int
  /\ \A w \in Inputs :
       /\ w.rom \in [0..(Size - 1) -> {"erased", "used"}]
       /\ w.ram \in SUBSET Int /\ IsFiniteSet(w.ram)
       /\ w.code = None \/ IsCode(w.code)

VARIABLES
  input,      \* what the step works on
  crc,        \* the region the checksum covers, or None
  i,          \* find_free_blocks: the next byte
  runStart,   \*   where the run begins that i is in
  blocks,     \*   the blocks found
  ramBlocks,  \* the gaps between RAM addresses
  stub,       \* the free space in omni.ld.stub, or None
  pc

vars == <<input, crc, i, runStart, blocks, ramBlocks, stub, pc>>

Init ==
  /\ input \in Inputs
  /\ crc = None /\ i = 0 /\ runStart = 0 /\ blocks = <<>>
  /\ ramBlocks = <<>> /\ stub = None
  /\ pc = "crc"

IsErased(x) == x < Size /\ input.rom[x] = "erased"

\* Without a region the flash is not searched at all.
DetectCrc ==
  /\ pc = "crc"
  /\ crc' = IF input.code = None THEN None ELSE ExtractCrcRegion(input.code)
  /\ pc' = IF crc' = None THEN "ram" ELSE "scan"
  /\ UNCHANGED <<input, i, runStart, blocks, ramBlocks, stub>>

-----------------------------------------------------------------------------
\* find_free_blocks

\* Mutant: the outer loop advances by the alignment.
SkipAligned ==
  /\ pc = "scan" /\ i < Size /\ ~IsErased(i)
  /\ i' = i + Alignment
  /\ UNCHANGED <<input, crc, runStart, blocks, ramBlocks, stub, pc>>

SkipByte ==
  /\ pc = "scan" /\ i < Size /\ ~IsErased(i)
  /\ i' = i + 1
  /\ UNCHANGED <<input, crc, runStart, blocks, ramBlocks, stub, pc>>

StartRun ==
  /\ pc = "scan" /\ IsErased(i)
  /\ runStart' = i /\ pc' = "run"
  /\ UNCHANGED <<input, crc, i, blocks, ramBlocks, stub>>

ExtendRun ==
  /\ pc = "run" /\ IsErased(i)
  /\ i' = i + 1
  /\ UNCHANGED <<input, crc, runStart, blocks, ramBlocks, stub, pc>>

\* run_end & ~(alignment - 1)
AlignedEnd == i - (i % Alignment)

Classify(start) ==
  IF crc.partialStart <= start /\ start < crc.end THEN "partial_crc"
  ELSE IF crc.fullStart <= start /\ start < crc.partialStart THEN "full_crc_only"
  ELSE "unprotected"

\* Mutant: a run that is too short is read again.
EndRunBack ==
  /\ pc = "run" /\ ~IsErased(i)
  /\ IF AlignedEnd - runStart < MinLength
     THEN i' = runStart /\ UNCHANGED blocks
     ELSE /\ blocks' = Append(blocks, [start |-> runStart, end |-> AlignedEnd,
                                       band |-> Classify(runStart)])
          /\ UNCHANGED i
  /\ pc' = "scan"
  /\ UNCHANGED <<input, crc, runStart, ramBlocks, stub>>

\* Mutant: the length is tested before the end is aligned.
EndRunUnaligned ==
  /\ pc = "run" /\ ~IsErased(i)
  /\ blocks' = IF i - runStart < MinLength THEN blocks
               ELSE Append(blocks, [start |-> runStart, end |-> AlignedEnd,
                                    band |-> Classify(runStart)])
  /\ pc' = "scan"
  /\ UNCHANGED <<input, crc, i, runStart, ramBlocks, stub>>

EndRun ==
  /\ pc = "run" /\ ~IsErased(i)
  /\ blocks' = IF AlignedEnd - runStart < MinLength THEN blocks
               ELSE Append(blocks, [start |-> runStart, end |-> AlignedEnd,
                                    band |-> Classify(runStart)])
  /\ pc' = "scan"
  /\ UNCHANGED <<input, crc, i, runStart, ramBlocks, stub>>

EndScan ==
  /\ pc = "scan" /\ i >= Size
  /\ pc' = "ram"
  /\ UNCHANGED <<input, crc, i, runStart, blocks, ramBlocks, stub>>

-----------------------------------------------------------------------------
\* find_free_ram_blocks: a gap begins after an address and ends at the next.

InRam == {a \in input.ram : RamStart <= a /\ a < RamEnd}

\* Mutant: a gap begins at the address before it.
GapStartsAtAddress == {RamStart} \cup InRam

GapStarts == {RamStart} \cup {a + 1 : a \in InRam}
GapEnd(s) == Least({a \in InRam : a >= s} \cup {RamEnd})

RamGaps ==
  LET starts == {s \in GapStarts : GapEnd(s) - s >= MinRam}
      nth(p) == CHOOSE s \in starts : Cardinality({t \in starts : t < s}) = p - 1
  IN [p \in 1..Cardinality(starts) |->
        [start |-> nth(p), end |-> GapEnd(nth(p)),
         suspicious |-> GapEnd(nth(p)) - nth(p) >= LargeGap]]

ScanRam ==
  /\ pc = "ram"
  /\ ramBlocks' = RamGaps
  /\ pc' = "stub"
  /\ UNCHANGED <<input, crc, i, runStart, blocks, stub>>

-----------------------------------------------------------------------------
\* emit_omni_stub: one unprotected block, or one more than twice as long as the next.

Length(b) == b.end - b.start
Unprotected == {k \in DOMAIN blocks : blocks[k].band = "unprotected"}

\* Mutant: the longest of several is taken as it is.
StandsOutAnyway(k) == \A j \in Unprotected \ {k} : Length(blocks[k]) > Length(blocks[j])

StandsOut(k) == \A j \in Unprotected \ {k} : Length(blocks[k]) > 2 * Length(blocks[j])

FillStub ==
  /\ pc = "stub"
  /\ stub' = IF \E k \in Unprotected : StandsOut(k)
             THEN blocks[CHOOSE k \in Unprotected : StandsOut(k)] ELSE None
  /\ pc' = "done"
  /\ UNCHANGED <<input, crc, i, runStart, blocks, ramBlocks>>

-----------------------------------------------------------------------------
ScanFlash == SkipByte \/ StartRun \/ ExtendRun \/ EndRun \/ EndScan

Next == DetectCrc \/ ScanFlash \/ ScanRam \/ FillStub

\* The search of the flash is one loop of one process: it goes on while it can.
Spec == Init /\ [][Next]_vars /\ WF_vars(ScanFlash)

-----------------------------------------------------------------------------
(***************************************************************************)
(* What must hold.                                                         *)
(***************************************************************************)

Offset == 0..(Size - 1)
Band   == {"partial_crc", "full_crc_only", "unprotected"}

\* Every variable has its type; a run is open only while it is being read.
TypeOK ==
  /\ input.rom \in [Offset -> {"erased", "used"}]
  /\ i \in 0..Size /\ runStart \in Nat
  /\ pc = "run" => runStart \in Offset /\ runStart <= i
  /\ blocks \in Seq([start : Offset, end : 0..Size, band : Band])
  /\ pc \in {"crc", "scan", "run", "ram", "stub", "done"}

\* find_free_blocks reports every maximal run of erased bytes that is long enough
\* once its end is aligned, in order and nothing else, and has them all when it
\* ends: it implements FreeRuns wherever runs start, meet the end of the ROM or
\* are lost by the alignment.  Until a region has been found it has not begun.
Erased == {x \in Offset : input.rom[x] = "erased"}
Found  == {[start |-> blocks[k].start, end |-> blocks[k].end] : k \in DOMAIN blocks}

Runs == INSTANCE FreeRuns WITH
  erased <- Erased, found <- Found,
  complete <- crc # None /\ pc \in {"ram", "stub", "done"}

FindsFreeRuns == Runs!SafeSpec

\* The search ends, wherever a run starts or the end of the ROM falls: neither of
\* the nested loops stays where it is (find_free_blocks).
ScanEnds == pc = "scan" ~> pc = "ram"

\* The region read off the instructions is the one they implement, in either
\* encoding of constants and for either order of the comparison, as long as no
\* region is a single byte (extract_crc_region).
CrcAsCoded == pc # "crc" /\ input.region # None => crc = input.region

\* The free RAM is exactly what lies between the addresses referred to, down to the
\* shortest gap worth reporting, and comes in order (find_free_ram_blocks).
RamGapsExact ==
  pc \in {"stub", "done"} =>
    /\ \A p, q \in DOMAIN ramBlocks : p < q => ramBlocks[p].end <= ramBlocks[q].start
    /\ \A s, e \in RamStart..RamEnd :
         (/\ s <= e /\ e - s >= MinRam
          /\ \A a \in s..(e - 1) : a \notin input.ram
          /\ s = RamStart \/ s - 1 \in input.ram
          /\ e = RamEnd \/ e \in input.ram)
         <=> \E p \in DOMAIN ramBlocks : ramBlocks[p].start = s /\ ramBlocks[p].end = e

\* Free space is filled in only if it is erased to its last byte, starts outside
\* of the checksum, and every other block that does is less than half as long
\* (emit_omni_stub on the blocks of find_free_blocks).
StubUnambiguous ==
  stub # None =>
    /\ \A x \in stub.start..(stub.end - 1) : IsErased(x)
    /\ stub.start \notin crc.fullStart..(crc.end - 1)
    /\ \A k \in DOMAIN blocks :
         blocks[k].start \notin crc.fullStart..(crc.end - 1) /\ blocks[k].start # stub.start =>
           2 * Length(blocks[k]) < Length(stub)

-----------------------------------------------------------------------------
(* What one of the theorems asks of the input *)

\* The load at k loads v, in either encoding: ld24 has it whole; seth has the upper
\* half, one more where add3 is to add a negative lower half.
LoadsConstant(code, k, v) ==
  \/ code[k].op = "ld24" /\ code[k].imm = v
  \/ /\ IsPair(code, k)
     /\ code[k].imm = (v \div HalfWord) + (IF v % HalfWord >= HalfWord \div 2 THEN 1 ELSE 0)
     /\ code[k + 1].imm % HalfWord = v % HalfWord

\* The compare soon after the load at k has the loaded register first, or second.
ComparedAs(code, k, first) ==
  \E j \in After(code, k) :
    /\ code[j].op \in {"cmpu", "cmp"}
    /\ \A m \in After(code, k) : code[m].op \in {"cmpu", "cmp"} => j <= m
    /\ first = (code[j].dst = code[k].dst)

\* code checks region: on each of two branches a pointer is compared with the last byte
\* (first), or with the one after it, and set to the start of the region or of its last
\* part.  No more constants are loaded, and these are three.
ChecksRegion(code, region) ==
  \E b1, s1, b2, s2 \in Loads(code), inclusive \in BOOLEAN :
    LET bound == IF inclusive THEN region.end - 1 ELSE region.end
    IN /\ Loads(code) = {b1, s1, b2, s2} /\ b1 < s1 /\ s1 < b2 /\ b2 < s2
       /\ LoadsConstant(code, b1, bound) /\ LoadsConstant(code, b2, bound)
       /\ LoadsConstant(code, s1, region.fullStart) /\ LoadsConstant(code, s2, region.partialStart)
       /\ ComparedAs(code, b1, inclusive)
       /\ \A k \in {s1, s2} : \E j \in After(code, k) : code[j].op = "st"
       /\ region.fullStart < region.partialStart /\ bound \notin {region.fullStart, region.partialStart}

\* Where the input says which region its code checks, the code checks it.
RegionsCoded ==
  \A w \in Inputs :
    w.region # None =>
      /\ w.region \in [fullStart : Int, partialStart : Int, end : Int]
      /\ w.code # None /\ ChecksRegion(w.code, w.region)

-----------------------------------------------------------------------------
(***************************************************************************)
(* What the documents say and the code does not do.                        *)
(***************************************************************************)

\* src/rom_analyzer/flash_space.py:21-24 "unprotected: everything outside
\* [crc.full_start, crc.full_end)": a block lies in the band it is reported
\* for (_classify looks at its first byte only).
BlocksWithinBands ==
  \A k \in DOMAIN blocks :
    \A x \in blocks[k].start..(blocks[k].end - 1) : Classify(x) = blocks[k].band
=============================================================================
