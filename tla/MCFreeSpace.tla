----------------------------- MODULE MCFreeSpace -----------------------------
(***************************************************************************)
(* Small instances of FreeSpace: ROMs of ten bytes in half-words of four,  *)
(* RAM of eight.                                                           *)
(***************************************************************************)
EXTENDS FreeSpace, TLC

Instr(op, dst, src, imm) == [op |-> op, dst |-> dst, src |-> src, imm |-> imm]

\* The two ways to load a constant; the lower half of a pair is added signed.
LoadConst(style, reg, value) ==
  IF style = "ld24" THEN <<Instr("ld24", reg, None, value)>>
  ELSE LET low == value % HalfWord
           high == (value \div HalfWord) + (IF low >= HalfWord \div 2 THEN 1 ELSE 0)
       IN <<Instr("seth", reg, None, high), Instr("add3", reg, reg, low)>>

Filler == <<Instr("ld", "r9", None, None)>>

\* One branch of the step: past the bound the pointer goes back to the start.  The
\* bound is the last byte where it is compared first.
Branch(style, inclusive, gap, end, start) ==
  LoadConst(style, "r1", IF inclusive THEN end - 1 ELSE end)
    \o (IF gap THEN Filler \o Filler ELSE <<>>)
    \o <<IF inclusive THEN Instr("cmpu", "r1", "r2", None) ELSE Instr("cmpu", "r2", "r1", None),
         Instr("bc", None, None, None)>>
    \o LoadConst(style, "r3", start)
    \o (IF gap THEN Filler ELSE <<>>) \o <<Instr("st", "r3", None, None)>>

StepCode(style, inclusive, gap, region) ==
  Branch(style, inclusive, gap, region.end, region.fullStart)
    \o Branch(style, inclusive, ~gap, region.end, region.partialStart)

CrcRegion(full, partial, end) == [fullStart |-> full, partialStart |-> partial, end |-> end]

\* Any flash: the region ends at the ROM's end or before it.
Roms == [0..(Size - 1) -> {"erased", "used"}]
RomInputs ==
  {[rom |-> r, code |-> StepCode("ld24", FALSE, FALSE, region), region |-> region, ram |-> {802}] :
     r \in Roms, region \in {CrcRegion(0, 2, 8), CrcRegion(0, 4, 10), CrcRegion(4, 5, 8)}}

OneRom == [x \in 0..(Size - 1) |-> IF x \in {3, 7} THEN "used" ELSE "erased"]

\* Any shape of the checksum step, and streams that are none.
NoSteps ==
  {None, <<>>, LoadConst("ld24", "r1", 8),
   StepCode("seth", TRUE, TRUE, CrcRegion(4, 0, 8)),
   Branch("seth", FALSE, TRUE, 8, 0) \o Branch("seth", FALSE, TRUE, 10, 4)}
CodeInputs ==
  {[rom |-> OneRom, code |-> StepCode(style, inclusive, gap, region), region |-> region, ram |-> {}] :
     style \in {"ld24", "seth"}, inclusive \in BOOLEAN, gap \in BOOLEAN,
     region \in {CrcRegion(0, p, e) : p \in {1, 3, 5}, e \in {7, 8, 10}}}
  \cup {[rom |-> OneRom, code |-> c, region |-> None, ram |-> {}] : c \in NoSteps}

\* Any RAM.
RamInputs ==
  {[rom |-> OneRom, code |-> None, region |-> None, ram |-> a] : a \in SUBSET ((RamStart - 1)..RamEnd)}

MCInputs == RomInputs \cup CodeInputs \cup RamInputs

\* A region that starts with the ROM, as that of every reference does.
MCInputsAtZero == {w \in RomInputs : w.region = CrcRegion(0, 2, 8)}

\* The hypothesis of a theorem, of these instances.
ASSUME MCHypothesis == RegionsCoded
=============================================================================
