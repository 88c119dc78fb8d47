--------------------------------- MODULE Crc ---------------------------------
(***************************************************************************)
(* Reading the region a ROM's checksum covers off the instructions of its  *)
(* rom_crc_check_step (rom_analyzer/crc.py).                               *)
(*                                                                         *)
(* An instruction is [op, dst, src, imm]: the operands are registers or    *)
(* None, the immediate a number or None where Ghidra shows a symbol's name *)
(* instead.  Mnemonics and registers compare without regard to case.       *)
(***************************************************************************)
EXTENDS Integers, Sequences, FiniteSets

CONSTANTS
  HalfWord,  \* 2^16 in the code: seth loads the upper half of a word
  None

ASSUME HalfWordAssumption == HalfWord \in Nat \ {0} /\ HalfWord % 2 = 0

\* A sequence of instructions.
IsCode(code) ==
  code \in Seq([op : STRING, dst : {None} \cup STRING, src : {None} \cup STRING,
                imm : {None} \cup Int])

Window == 4   \* how many instructions after a load are looked at

SignExtended(low) == IF (low % HalfWord) >= HalfWord \div 2
                     THEN (low % HalfWord) - HalfWord ELSE low % HalfWord

IsPair(code, k) ==
  /\ k < Len(code)
  /\ code[k].op = "seth" /\ code[k + 1].op = "add3"
  /\ code[k].dst = code[k + 1].dst /\ code[k].dst = code[k + 1].src
  /\ None \notin {code[k].imm, code[k + 1].imm}

\* The constants loaded, by the instruction where the load starts.
Loads(code) ==
  {k \in DOMAIN code : IsPair(code, k) \/ (code[k].op = "ld24" /\ code[k].imm # None)}

\* Mutant: the lower half is added as it is.
ValueUnsigned(code, k) ==
  IF IsPair(code, k) THEN code[k].imm * HalfWord + (code[k + 1].imm % HalfWord) ELSE code[k].imm

Value(code, k) ==
  IF IsPair(code, k) THEN code[k].imm * HalfWord + SignExtended(code[k + 1].imm) ELSE code[k].imm

\* The instructions looked at after the load at k.
After(code, k) ==
  LET first == IF IsPair(code, k) THEN k + 2 ELSE k + 1
  IN {j \in DOMAIN code : first <= j /\ j < first + Window}

Least(S) == CHOOSE x \in S : \A y \in S : x <= y
Greatest(S) == CHOOSE x \in S : \A y \in S : x >= y

Repeated(code) ==
  {Value(code, k) : k \in {k \in Loads(code) :
     \E j \in Loads(code) \ {k} : Value(code, j) = Value(code, k)}}

\* The bound is compared first ("bound < ptr") where it is the last byte.
ExclusiveEnd(code, bound) ==
  LET load == Least({k \in Loads(code) : Value(code, k) = bound})
      compares == {j \in After(code, load) : code[j].op \in {"cmpu", "cmp"}}
  IN IF compares # {} /\ code[Least(compares)].dst = code[load].dst THEN bound + 1 ELSE bound

\* Loads of other constants that are soon stored.
StartLoads(code, bound) ==
  {k \in Loads(code) : Value(code, k) # bound /\ \E j \in After(code, k) : code[j].op = "st"}

\* CrcExtractionError is None; the caller goes on without a region.
ExtractCrcRegion(code) ==
  IF Repeated(code) = {} THEN None
  ELSE LET bound == Greatest(Repeated(code))
           stored == StartLoads(code, bound)
       IN IF Cardinality(stored) < 2 THEN None
          ELSE LET first == Least(stored)
                   full == Value(code, first)
                   partial == Value(code, Least(stored \ {first}))
               IN IF full > partial THEN None
                  ELSE [fullStart |-> full, partialStart |-> partial,
                        end |-> ExclusiveEnd(code, bound)]
=============================================================================
