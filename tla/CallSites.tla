------------------------------ MODULE CallSites ------------------------------
(***************************************************************************)
(* What the passes after the matching read off the instructions before a   *)
(* call: the arguments of the trouble-code helpers (ghidra/domain.py) and  *)
(* the slot that a caller of canrx12_15_process passes                     *)
(* (mode23_bindings.py, ghidra/fetch.py).                                  *)
(*                                                                         *)
(* Code is a sequence of instructions, the one next to the call last.      *)
(***************************************************************************)
EXTENDS CallGraph, SequencesExt

CONSTANT Registers

\* None is not among the constants that an instruction loads.
ASSUME RegistersAssumption == {"r0", "r1"} \subseteq Registers /\ None \notin Int

\* One instruction: a load of a constant, which may be negative, a copy, or any other, with
\* the registers that hold something new after it: a load from memory (ld, lduh, ld24),
\* arithmetic (addi, or3), a call, or a place that code elsewhere jumps to.
IsInstruction(i) ==
  /\ i.op \in {"ldi", "mv", "other"}
  /\ i.op = "ldi" => i.dst \in Registers /\ i.imm \in Int
  /\ i.op = "mv" => i.dst \in Registers /\ i.src \in Registers
  /\ i.op = "other" => i.writes \subseteq Registers

Writes(i, r) == IF i.op = "other" THEN r \in i.writes ELSE i.dst = r

\* What is left of a constant: int(sc.getValue()) & 0xFFFF and & 0xFF.
Low16(imm) == imm % 65536
Low8(imm) == imm % 256

ArgsBack == 8     \* fetch_dtc_call_sites: max_back
SlotBack == 6     \* fetch_r0_imm_before: max_back; also 12 bytes of half-words

LastN(code, n) == SubSeq(code, Max({1, Len(code) - n + 1}), Len(code))

-----------------------------------------------------------------------------
\* fetch_dtc_call_sites

\* Mutant: a register is not given up when it was copied from another.
ArgStepNoHop(i, s) ==
  CASE i.op = "ldi" /\ i.dst = s.r0 /\ s.mask = None -> [s EXCEPT !.mask = Low16(i.imm)]
    [] i.op = "ldi" /\ i.dst = s.r1 /\ s.idx = None /\ ~(i.dst = s.r0 /\ s.mask = None)
                                                     -> [s EXCEPT !.idx = Low16(i.imm)]
    [] OTHER -> s

\* One instruction further back; r0 and r1 are where the arguments now come from.  Only
\* loads of constants and copies are looked at.
ArgStep(i, s) ==
  CASE i.op = "ldi" /\ i.dst = s.r0 /\ s.mask = None -> [s EXCEPT !.mask = Low16(i.imm)]
    [] i.op = "ldi" /\ i.dst = s.r1 /\ s.idx = None /\ ~(i.dst = s.r0 /\ s.mask = None)
                                                     -> [s EXCEPT !.idx = Low16(i.imm)]
    [] i.op = "mv" /\ i.dst = s.r0                   -> [s EXCEPT !.r0 = i.src]
    [] i.op = "mv" /\ i.dst = s.r1 /\ i.dst # s.r0   -> [s EXCEPT !.r1 = i.src]
    [] OTHER -> s

\* The mask in r0 and the index in r1, None where the walk has not met them.
CallArgs(code) ==
  LET near == LastN(code, ArgsBack)
      back[k \in 0..Len(near)] ==
        IF k = 0 THEN [mask |-> None, idx |-> None, r0 |-> "r0", r1 |-> "r1"]
        ELSE ArgStep(near[Len(near) - k + 1], back[k - 1])
  IN back[Len(near)]

\* _mask_to_bit
BitOf(mask) == IF \E b \in 0..15 : 2^b = mask THEN CHOOSE b \in 0..15 : 2^b = mask ELSE None

-----------------------------------------------------------------------------
\* The slot in r0

LoadsR0(code) == {i \in DOMAIN code : code[i].op = "ldi" /\ code[i].dst = "r0"}

\* Mutant: the first of the loads in reach, not the one next to the call.
R0ImmFirst(code) ==
  LET near == LastN(code, SlotBack)
  IN IF LoadsR0(near) = {} THEN None ELSE Low8(near[Min(LoadsR0(near))].imm)

\* fetch_r0_imm_before
R0ImmBefore(code) ==
  LET near == LastN(code, SlotBack)
  IN IF LoadsR0(near) = {} THEN None ELSE Low8(near[Max(LoadsR0(near))].imm)

WideHalf == -1     \* the top bit set, as in the first half of a 32-bit instruction
OtherHalf == -2

\* decode_ldi_r0_before, over half-words: any other is the immediate of an ldi r0.
DecodeLdiR0(halves) ==
  LET near == {i \in DOMAIN halves : i > Len(halves) - SlotBack /\ halves[i] >= 0
                                     /\ (i > 1 => halves[i - 1] # WideHalf)}
  IN IF near = {} THEN None ELSE halves[Max(near)]

\* The listing first, the bytes where it says nothing.
SlotAt(site) ==
  IF R0ImmBefore(site.code) # None THEN R0ImmBefore(site.code) ELSE DecodeLdiR0(site.halves)

Binding(name, addr, conf) == [name |-> name, addr |-> addr, conf |-> conf]

\* resolve_can_call_sites: two callers that pass 1 and 2, or else by address, in doubt.
CanCallSites(callers, slot) ==
  LET order == Sorted(callers)
      by(n) == CHOOSE a \in callers : slot[a] = n
      nth(k) == IF k \in DOMAIN order THEN order[k] ELSE None
      happy == Len(order) = 2 /\ {slot[a] : a \in callers} = {1, 2}
  IN IF happy THEN {Binding("slot12", by(2), "high"), Binding("slot15", by(1), "high")}
     ELSE {Binding("slot12", nth(1), "low"), Binding("slot15", nth(2), "low")}

\* resolve_nearest_site
NearestSite(sites, expected) ==
  LET away(a) == IF a < expected THEN expected - a ELSE a - expected
      nearest == CHOOSE a \in sites : \A b \in sites :
                   away(a) < away(b) \/ (away(a) = away(b) /\ a <= b)
  IN IF sites = {} THEN <<None, "low">>
     ELSE IF expected \in sites THEN <<expected, "high">>
     ELSE IF Cardinality(sites) = 1 THEN <<nearest, "high">> ELSE <<nearest, "medium">>
=============================================================================
