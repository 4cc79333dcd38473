--------------------------- MODULE JitEffects386 ----------------------------
(***************************************************************************)
(* The flag tables of the 80386 JIT's translator (x86_32/jit/emit.rs):     *)
(* for every instruction it translates, which status flags the host        *)
(* instruction leaves exactly as the interpreter would, which ones the     *)
(* interpreter forces to a constant, which ones are host garbage, and      *)
(* which ones are read.  The tables are checked against the interpreter's  *)
(* own primitives (Alu386) and against what the architecture defines of    *)
(* the host instruction.                                                   *)
(***************************************************************************)
EXTENDS Alu386

\* The translatable instructions: classify_body and the two terminators.
ShiftCounts == 0 .. W - 1
Insn ==
    [op : {"mov", "inc", "dec", "imul", "jmp"}]
    \cup [op : {"alu"}, sel : 0 .. 7]
    \cup [op : {"shift"}, sel : {0, 1, 4, 5, 6, 7}, count : ShiftCounts]
    \cup [op : {"jcc"}, cc : 0 .. 15]

Effect(exact, const0, garbage, reads) ==
    [exact |-> exact, const0 |-> const0, const1 |-> {}, garbage |-> garbage, reads |-> reads]
NoEffect == Effect({}, {}, {}, {})
SZP == {"SF", "ZF", "PF"}

\* Mutant: "less" is taken to be the sign alone.
JlReadsSign(cc) ==
    CASE cc \div 2 = 0 -> {"OF"}
      [] cc \div 2 = 1 -> {"CF"}
      [] cc \div 2 = 2 -> {"ZF"}
      [] cc \div 2 = 3 -> {"CF", "ZF"}
      [] cc \div 2 = 5 -> {"PF"}
      [] OTHER -> {"SF"}

jcc_reads(cc) ==
    CASE cc \div 2 = 0 -> {"OF"}
      [] cc \div 2 = 1 -> {"CF"}
      [] cc \div 2 = 2 -> {"ZF"}
      [] cc \div 2 = 3 -> {"CF", "ZF"}
      [] cc \div 2 = 4 -> {"SF"}
      [] cc \div 2 = 5 -> {"PF"}
      [] cc \div 2 = 6 -> {"SF", "OF"}
      [] OTHER -> {"ZF", "SF", "OF"}

\* ADD OR ADC SBB AND SUB XOR CMP
alu_effect(sel) ==
    CASE sel \in {0, 5, 7} -> Effect(Flag, {}, {}, {})
      [] sel \in {2, 3} -> Effect(Flag, {}, {}, {"CF"})
      [] OTHER -> Effect(Flag \ {"AF"}, {"AF"}, {}, {})

\* Mutant: rotates are given the flags of shifts.
RotateAsShift(sel, count) ==
    LET one == {"OF"} \cap (IF count = 1 THEN Flag ELSE {})
        many == {"OF"} \ one
    IN  CASE count = 0 -> NoEffect
          [] count > 0 /\ sel \in {0, 1, 4, 5} -> Effect({"CF"} \cup SZP \cup one, {"AF"}, many, {})
          [] count > 0 /\ sel = 7 -> Effect({"CF"} \cup SZP, {"AF", "OF"}, {}, {})
          [] OTHER -> Effect({}, {}, Flag, {})

\* ROL ROR - - SHL SHR /6 SAR, by an immediate count.
shift_effect(sel, count) ==
    LET one == IF count = 1 THEN {"OF"} ELSE {}
        many == {"OF"} \ one
    IN  CASE count = 0 -> NoEffect
          [] count > 0 /\ sel \in {4, 5} -> Effect({"CF"} \cup SZP \cup one, {"AF"}, many, {})
          [] count > 0 /\ sel = 7 -> Effect({"CF"} \cup SZP, {"AF", "OF"}, {}, {})
          [] count > 0 /\ sel \in {0, 1} -> Effect({"CF"} \cup one, {}, many, {})
          [] OTHER -> Effect({}, {}, Flag, {})

classify_body(i) ==
    CASE i.op = "mov" -> NoEffect
      [] i.op \in {"inc", "dec"} -> Effect(Flag \ {"CF"}, {}, {}, {})
      [] i.op = "imul" -> Effect({"CF", "OF"}, {"AF"}, SZP, {})
      [] i.op = "alu" -> alu_effect(i.sel)
      [] i.op = "shift" -> shift_effect(i.sel, i.count)
      [] i.op = "jcc" -> Effect({}, {}, {}, jcc_reads(i.cc))
      [] OTHER -> NoEffect

Written(e) == e.exact \cup e.const0 \cup e.const1 \cup e.garbage

-----------------------------------------------------------------------------
\* emit_body: the host instruction emitted for i, as the instruction that names
\* its operation.  Whatever is not ROL, ROR, SHL or SHR becomes SAR.
emit_body(i) ==
    IF i.op = "shift" /\ i.sel \notin {0, 1, 4, 5} THEN [i EXCEPT !.sel = 7] ELSE i

\* What the interpreter does to a and b (/6 is SHL).
interpret(i, a, b, f) ==
    CASE i.op = "inc" -> inc(a, f)
      [] i.op = "dec" -> dec(a, f)
      [] i.op = "imul" -> imul_trunc(a, b, f)
      [] i.op = "alu" ->
           CASE i.sel = 0 -> add(a, b, f)
             [] i.sel = 1 -> or(a, b, f)
             [] i.sel = 2 -> adc(a, b, f)
             [] i.sel = 3 -> sbb(a, b, f)
             [] i.sel = 4 -> and(a, b, f)
             [] i.sel = 5 -> sub(a, b, f)
             [] i.sel = 6 -> xor(a, b, f)
             [] OTHER -> Result(a, sub(a, b, f).f)
      [] i.op = "shift" ->
           CASE i.sel = 0 -> rol(a, i.count, f)
             [] i.sel = 1 -> ror(a, i.count, f)
             [] i.sel \in {4, 6} -> shl(a, i.count, f)
             [] i.sel = 5 -> shr(a, i.count, f)
             [] OTHER -> sar(a, i.count, f)
      [] OTHER -> Result(b, f)

\* The flags the host's instruction is defined to compute from its operands
\* and from the flags it reads, and those it leaves undefined.  (External: the
\* x86 architecture.)
host_defines(i) ==
    CASE i.op \in {"inc", "dec"} -> Flag \ {"CF"}
      [] i.op = "imul" -> {"CF", "OF"}
      [] i.op = "alu" -> IF i.sel \in {1, 4, 6} THEN Flag \ {"AF"} ELSE Flag
      [] i.op = "shift" ->
           IF i.count = 0 THEN {}
           ELSE {"CF"} \cup (IF i.count = 1 THEN {"OF"} ELSE {})
                       \cup (IF emit_body(i).sel \in {4, 5, 7} THEN SZP ELSE {})
      [] OTHER -> {}

host_undefines(i) ==
    CASE i.op = "imul" -> SZP \cup {"AF"}
      [] i.op = "alu" -> Flag \ host_defines(i)
      [] i.op = "shift" ->
           IF i.count = 0 THEN {}
           ELSE (IF i.count = 1 THEN {} ELSE {"OF"})
                  \cup (IF emit_body(i).sel \in {4, 5, 7} THEN {"AF"} ELSE {})
      [] OTHER -> {}

=============================================================================
