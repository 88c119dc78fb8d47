------------------------------ MODULE MCAnalyze ------------------------------
(***************************************************************************)
(* Small instances of Analyze.  A reference's functions are at 10..60 and  *)
(* correspond to 110..160 of the new ROM, its tables at 201.. to 211..,    *)
(* its variables at 801.. to 811...                                        *)
(***************************************************************************)
EXTENDS Analyze, TLC

A(off, addr, kind) == [off |-> off, addr |-> addr, kind |-> kind]
M(ref, src, sim, name) == [ref |-> ref, new |-> ref + 100, src |-> src, sim |-> sim, name |-> name]
Sym(name, cat) == [name |-> name, cat |-> cat]

Fn(name) == Sym(name, "function")
Table(name) == Sym(name, "data")
Var(name) == Sym(name, "ram_global")

BaseSyms ==
  10 :> Fn("f") @@ 20 :> Fn("g") @@ 30 :> Fn("h") @@ 201 :> Table("t")
    @@ 801 :> Var("u") @@ 802 :> Var("v") @@ 803 :> Var("w")

BaseRef ==
  [id |-> "a", priority |-> 2, family |-> "colt", variant |-> "m32r", hasRom |-> TRUE,
   isTarget |-> FALSE, syms |-> BaseSyms, acc |-> << >>, matches |-> <<>>, bfs |-> <<>>, inside |-> << >>]

Base ==
  [refs |-> <<BaseRef>>, acc |-> << >>, cell |-> << >>, dtc |-> << >>, helpers |-> <<None, None>>,
   calls |-> << >>, site |-> << >>, variant |-> "m32r", options |-> {}, refused |-> {}]

-----------------------------------------------------------------------------
\* One reference: two matched functions and one that only its variables can match; the
\* new ROM's accesses shifted, swapped or merged.
RefAccesses ==
  10 :> <<A(3, 801, "read"), A(6, 802, "read"), A(9, 803, "write"), A(12, 201, "read")>>
    @@ 20 :> <<A(3, 801, "read"), A(6, 201, "scalar")>>
    @@ 30 :> <<A(0, 801, "read"), A(3, 802, "read"), A(6, 803, "read")>>

PropWorlds ==
  {[Base EXCEPT
      !.refs = <<[BaseRef EXCEPT !.acc = RefAccesses,
                    !.matches = <<M(10, "vt_diff", sim, None), M(20, "callgraph_gap", 8, "g")>>]>>,
      !.acc = 110 :> <<A(3 + shift, p[1], "read"), A(6 + shift, p[2], "read"), A(9, p[3], "write"),
                       A(12, 211, kind)>>
                @@ 120 :> q
                @@ 130 :> <<A(0, r[1], "read"), A(3, r[2], "read"), A(6, 813, "write")>>] :
     sim \in {6, 8, 10}, shift \in -3..3, kind \in {"read", "scalar"},
     p \in {<<811, 812, 813>>, <<811, 811, 813>>, <<812, 811, 813>>},
     q \in {<<A(3, 811, "read"), A(6, 211, "scalar")>>, <<A(4, 812, "read"), A(10, 212, "read")>>},
     r \in {<<811, 812>>, <<812, 811>>}}

-----------------------------------------------------------------------------
\* Two references that agree or not on what one or two functions, tables and variables of
\* the new ROM are; of one family or two, of equal or different priority, usable or not;
\* Ghidra takes all names for functions, or not.
Second(name, table, var, target, prio, family) ==
  [BaseRef EXCEPT
     !.id = "b", !.priority = prio, !.family = family,
     !.syms = 10 :> Fn(name) @@ 201 :> Table(table) @@ 801 :> Var(var),
     !.acc = 10 :> <<A(0, 801, "read"), A(4, 201, "read")>>,
     !.matches = <<[M(10, "vt_diff", 10, None) EXCEPT !.new = target]>>]

Guess == <<Symbol("guess", None, 110, "function", "medium", "callgraph_bfs", 10)>>

First(sim, bfs) ==
  [BaseRef EXCEPT !.acc = 10 :> <<A(0, 801, "read"), A(4, 201, "read")>>,
                  !.matches = <<M(10, "vt_diff", sim, None)>>, !.bfs = bfs]

ArbAccesses ==
  110 :> <<A(0, 811, "read"), A(4, 211, "read")>> @@ 120 :> <<A(0, 812, "read"), A(4, 212, "read")>>

ArbWorlds ==
  {[Base EXCEPT !.refs = <<First(sim, bfs), Second(name, table, var, target, prio, family)>>,
                !.acc = ArbAccesses, !.options = {"project"}, !.refused = refused] :
     sim \in {8, 10}, bfs \in {<<>>, Guess}, name \in {"f", "g"}, table \in {"t", "s"},
     var \in {"u", "v"}, target \in {110, 120}, prio \in 1..3, family \in {"colt", "outlander"},
     refused \in {{}, {<<110, "f">>}, {<<110, "g">>, <<110, "guess">>}}}

LoneWorlds ==
  {[Base EXCEPT !.refs = <<[First(10, <<>>) EXCEPT !.variant = v, !.hasRom = rom],
                           Second("g", "t", "u", 110, 1, "colt")>>,
                !.acc = ArbAccesses, !.variant = "sh"] : v \in {"sh", "m32r"}, rom \in BOOLEAN}

-----------------------------------------------------------------------------
\* The new ROM is the primary reference's own.
SelfWorlds ==
  {[Base EXCEPT !.refs = <<[First(10, <<>>) EXCEPT !.isTarget = TRUE],
                           [Second(name, "t", var, 110, prio, family) EXCEPT !.syms = @ @@ 804 :> Var("x")]>>,
                !.acc = 10 :> <<A(0, 801, "read"), A(4, 201, "read")>> @@ 20 :> <<A(2, seen, "write")>>,
                !.options = {"project"}] :
     name \in {"f", "g"}, var \in {"u", "v"}, prio \in 0..1, seen \in {801, 802, 804},
     family \in {"colt", "outlander"}}

-----------------------------------------------------------------------------
\* The MUT table: what get_mut_pointer reads, and what the accesses of another function
\* already took for the table.
MutRef(prior) ==
  [BaseRef EXCEPT
     !.syms = 10 :> Fn("f") @@ 40 :> Fn("get_mut_pointer") @@ 205 :> Table("size") @@ 206 :> Table("mut_table"),
     !.acc = 10 :> <<A(0, prior, "read")>> @@ 40 :> <<A(0, 205, "read"), A(4, 206, "read")>>,
     !.matches = <<M(10, "vt_diff", 8, None), M(40, "mut_table", 10, "get_mut_pointer")>>]

MutSecond ==
  [BaseRef EXCEPT !.id = "b", !.priority = 1, !.family = "outlander",
     !.syms = 10 :> Fn("f") @@ 206 :> Table("mut_table"),
     !.acc = 10 :> <<A(0, 206, "read")>>, !.matches = <<M(10, "vt_diff", 10, None)>>]

MutWorlds ==
  {[Base EXCEPT !.refs = rs, !.options = options,
      !.acc = 110 :> <<A(0, other, "read")>>
                @@ 140 :> <<A(shift, 215, "read"), A(4 + shift, 216, "read")>> \o extra,
      !.cell = 215 :> "size" @@ 216 :> "table" @@ 217 :> "table"] :
     rs \in {<<MutRef(201)>>, <<MutRef(206)>>, <<MutRef(206), MutSecond>>, <<MutRef(205), MutSecond>>},
     other \in 216..218, shift \in {0, 3},
     extra \in {<<>>, <<A(9, 217, "read")>>, <<A(9, 217, "scalar")>>, <<A(9, 218, "read")>>},
     options \in {{}, {"project"}}}

-----------------------------------------------------------------------------
\* Trouble codes: every code of some instructions before the call of the setter.
Ldi(reg, imm) == [op |-> "ldi", dst |-> reg, src |-> None, imm |-> imm, writes |-> {}]
Mv(reg, src) == [op |-> "mv", dst |-> reg, src |-> src, imm |-> None, writes |-> {}]
Other(regs) == [op |-> "other", dst |-> None, src |-> None, imm |-> None, writes |-> regs]
Nop == Other({})
Nops(n) == [i \in 1..n |-> Nop]

Instructions ==
  {Ldi("r0", 2), Ldi("r1", 3), Ldi("r4", 4), Ldi("r5", 1), Mv("r0", "r4"), Mv("r1", "r4"),
   Mv("r1", "r5"), Mv("r4", "r5"), Other({"r0"}), Other({"r1", "r4"}), Nop}

Codes ==
  [1..4 -> Instructions]
    \cup {<<Ldi("r0", 2)>> \o Nops(n) \o <<Ldi("r1", 3)>> : n \in 5..8}
    \cup {<<Ldi("r0", mask), Ldi("r1", 3)>> : mask \in {0, 3, -32768}}
    \cup {<<Ldi("r1", idx), Ldi("r0", 2)>> : idx \in {65539, -65533}}

DtcWorld(code, matched, table, helpers) ==
  [Base EXCEPT
     !.refs = <<[BaseRef EXCEPT
        !.syms = 10 :> Fn("f") @@ 202 :> Table("dtc_table"),
        !.acc = 10 :> <<A(0, 202, "read")>>,
        !.matches = <<M(10, "vt_diff", 10, None)>> \o matched]>>,
     !.acc = 110 :> <<A(0, table, "read")>>,
     !.dtc = 212 :> ({1, 3, 4} \X {1, 2, 15}) @@ 299 :> {<<3, 1>>},
     !.helpers = helpers,
     !.calls = 150 :> {301} @@ 160 :> {302},
     !.site = 301 :> [code |-> code, halves |-> <<>>] @@ 302 :> [code |-> <<Ldi("r0", 4), Ldi("r1", 4)>>, halves |-> <<>>],
     !.options = {"obd"}]

Setter == <<M(50, "vt_diff", 10, "set_dtc")>>

DtcWorlds ==
  {DtcWorld(code, Setter, 212, <<None, 160>>) : code \in Codes}
    \cup {DtcWorld(<<Ldi("r0", 2), Ldi("r1", 3)>>, matched, table, helpers) :
            matched \in {<<>>, Setter}, table \in {212, 801},
            helpers \in {<<None, None>>, <<150, 160>>, <<160, None>>}}

-----------------------------------------------------------------------------
\* The splice sites: the callers of canrx12_15_process, and the dispatcher's read.
SlotSites ==
  {[code |-> c, halves |-> <<>>] :
     c \in {<<Ldi("r0", 1)>>, <<Ldi("r0", 2)>>, <<Ldi("r0", 2), Nop, Ldi("r0", 1)>>,
            <<Ldi("r0", 1), Ldi("r1", 7), Ldi("r0", 2), Nop>>, <<Ldi("r0", 1)>> \o Nops(6),
            <<Ldi("r0", -254), Ldi("r1", 1)>>, <<Ldi("r0", 2), Other({"r0"})>>,
            <<Ldi("r0", 1), Mv("r0", "r4")>>, <<Other({"r0"}), Ldi("r0", 2)>>}}
    \cup {[code |-> <<>>, halves |-> h] : h \in {<<>>, <<1>>, <<WideHalf, 2>>, <<2, OtherHalf>>}}

SlotRef ==
  [BaseRef EXCEPT
     !.syms = 40 :> Fn("dispatch") @@ 44 :> Sym("kline_hook", "data") @@ 60 :> Fn("canrx12_15_process")
                @@ 805 :> Var("tx_count") @@ 70 :> Fn("rx5") @@ 80 :> Fn("rx5_copy") @@ 90 :> Fn("check_sid"),
     !.acc = 40 :> <<A(0, 805, "write"), A(4, 805, "read")>>,
     !.inside = 44 :> 40]

SlotWorlds ==
  {[Base EXCEPT
      !.refs = <<[SlotRef EXCEPT !.matches = <<M(60, "vt_diff", 10, "canrx12_15_process")>>]>>,
      !.calls = 160 :> callers, !.site = [s \in callers |-> code[s]],
      !.options = {"mode23"}] :
     callers \in (SUBSET {310, 320}) \ {{}}, code \in [{310, 320} -> SlotSites]}

ThreeCallers ==
  [Base EXCEPT
      !.refs = <<[SlotRef EXCEPT !.matches = <<M(60, "vt_diff", 10, "canrx12_15_process")>>]>>,
      !.calls = 160 :> {310, 320, 330},
      !.site = 310 :> [code |-> <<Ldi("r0", 1)>>, halves |-> <<>>] @@ 320 :> [code |-> <<Ldi("r0", 2)>>, halves |-> <<>>]
                 @@ 330 :> [code |-> <<>>, halves |-> <<>>],
      !.options = {"mode23"}]

KlineWorlds ==
  {[Base EXCEPT
      !.refs = <<[SlotRef EXCEPT !.isTarget = self, !.matches = ms]>>,
      !.acc = (IF self THEN 40 ELSE 140) :> <<A(0, var, "write"), A(4, var, "read")>> \o reads,
      !.options = {"mode23", "can"}] :
     self \in BOOLEAN, var \in {805, 815},
     ms \in {<<>>, <<M(40, "vt_diff", 8, "dispatch"), M(70, "vt_diff", 10, "rx5"), M(80, "vt_diff", 10, "rx5_copy")>>,
             <<M(40, "vt_diff", 6, "dispatch"), M(90, "callgraph_gap", 6, "check_sid"), M(70, "vt_diff", 10, "rx5")>>},
     reads \in {<<>>, <<A(2, 805, "read")>>, <<A(9, 815, "read"), A(12, 815, "read")>>}}

-----------------------------------------------------------------------------
MCHandlers == "rx5" :> <<5, "rx">> @@ "rx5_copy" :> <<5, "rx">>

MCRegisters == {"r0", "r1", "r4", "r5"}

MCWorlds ==
  PropWorlds \cup ArbWorlds \cup LoneWorlds \cup SelfWorlds \cup MutWorlds \cup DtcWorlds
    \cup SlotWorlds \cup {ThreeCallers} \cup KlineWorlds

\* The instances meet what the theorem about the second pass asks of the input.
ASSUME MCHypotheses == NamesUnique

=============================================================================
