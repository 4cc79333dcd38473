----------------------------- MODULE AluCheck386 ----------------------------
(***************************************************************************)
(* Short programs over the primitives of Alu386, executed one instruction  *)
(* at a time on a register pair, and what they must compute by arithmetic  *)
(* on mathematical integers.  The two-instruction programs are the         *)
(* multi-word idioms compilers emit; they only work when the flags that    *)
(* link their instructions are exact.  The program "insn" is one           *)
(* instruction that the JIT translates, compared with its flag tables.     *)
(***************************************************************************)
EXTENDS JitEffects386

CONSTANT Inputs   \* program -> the inputs it is run on

ASSUME CheckAssumption ==
    \A p \in DOMAIN Inputs :
        Inputs[p] \subseteq [x : DWord, y : DWord, n : 0 .. 255, f : Flags, i : Insn]

VARIABLES
    prog,       \* the program
    pc,         \* its next instruction, End, or Faulted after a #DE
    x0, f0,     \* the register pair and the flags at the start
    y, n,       \* the second operand and the shift count
    insn,       \* the instruction of the program "insn"
    x, f        \* the register pair and the flags now

vars == <<prog, pc, x0, f0, y, n, insn, x, f>>
inputs == <<prog, x0, f0, y, n, insn>>

End == 0
Faulted == -1

Lo(d) == Mod(d)
Hi(d) == d \div 2^W
Pair(hi, lo) == hi * 2^W + lo

-----------------------------------------------------------------------------
Init ==
    /\ prog \in DOMAIN Inputs
    /\ \E in \in Inputs[prog] :
         x0 = in.x /\ y = in.y /\ n = in.n /\ f0 = in.f /\ insn = in.i
    /\ pc = 1
    /\ x = x0
    /\ f = f0

\* One instruction on the low or the high register; then the next, or the end.
OnLow(r, next) == x' = Pair(Hi(x), r.val) /\ f' = r.f /\ pc' = next
OnHigh(r, next) == x' = Pair(r.val, Lo(x)) /\ f' = r.f /\ pc' = next
OnPair(r, next) == x' = r.val /\ f' = r.f /\ pc' = next
OnPairOrFault(r, next) ==
    \/ r.ok /\ OnPair(r, next)
    \/ ~r.ok /\ pc' = Faulted /\ f' = r.f /\ UNCHANGED x

At(p, i) == prog = p /\ pc = i /\ UNCHANGED inputs

\* ADD lo; ADC hi  -  SUB lo; SBB hi (CMP in the same way)
Add ==
    \/ At("add", 1) /\ OnLow(add(Lo(x), Lo(y), f), 2)
    \/ At("add", 2) /\ OnHigh(adc(Hi(x), Hi(y), f), End)
Sub ==
    \/ At("sub", 1) /\ OnLow(sub(Lo(x), Lo(y), f), 2)
    \/ At("sub", 2) /\ OnHigh(sbb(Hi(x), Hi(y), f), End)

Cmp == At("cmp", 1) /\ OnLow(sub(Lo(x), Lo(y), f), End)

\* NEG lo; ADC hi, 0; NEG hi
Neg ==
    \/ At("neg", 1) /\ OnLow(neg(Lo(x), f), 2)
    \/ At("neg", 2) /\ OnHigh(adc(Hi(x), 0, f), 3)
    \/ At("neg", 3) /\ OnHigh(neg(Hi(x), f), End)

\* SHL lo, 1; RCL hi, 1  -  SHR hi, 1; RCR lo, 1  -  SAR hi, 1; RCR lo, 1
Shl ==
    \/ At("shl", 1) /\ OnLow(shl(Lo(x), 1, f), 2)
    \/ At("shl", 2) /\ OnHigh(rcl(Hi(x), 1, f), End)
Shr ==
    \/ At("shr", 1) /\ OnHigh(shr(Hi(x), 1, f), 2)
    \/ At("shr", 2) /\ OnLow(rcr(Lo(x), 1, f), End)
Sar ==
    \/ At("sar", 1) /\ OnHigh(sar(Hi(x), 1, f), 2)
    \/ At("sar", 2) /\ OnLow(rcr(Lo(x), 1, f), End)

\* INC lo; DEC lo
IncDec ==
    \/ At("incdec", 1) /\ OnLow(inc(Lo(x), f), 2)
    \/ At("incdec", 2) /\ OnLow(dec(Lo(x), f), End)

\* Shifts and rotates by n.
Shift ==
    \/ At("shln", 1) /\ OnLow(shl(Lo(x), n, f), End)
    \/ At("shrn", 1) /\ OnLow(shr(Lo(x), n, f), End)
    \/ At("sarn", 1) /\ OnLow(sar(Lo(x), n, f), End)
    \/ At("roln", 1) /\ OnLow(rol(Lo(x), n, f), End)
    \/ At("rorn", 1) /\ OnLow(ror(Lo(x), n, f), End)
    \/ At("rcln", 1) /\ OnLow(rcl(Lo(x), n, f), 2)
    \/ At("rcln", 2) /\ OnLow(rcr(Lo(x), n, f), End)

\* MUL; DIV by the same factor  -  DIV and IDIV of any pair.
Divide(d, next) ==
    \/ d.ok /\ x' = Pair(d.rem, d.quot) /\ pc' = next /\ UNCHANGED f
    \/ ~d.ok /\ pc' = Faulted /\ UNCHANGED <<x, f>>
MulDiv ==
    \/ At("mul", 1) /\ OnPair(mul(Lo(x), Lo(y), f), 2)
    \/ At("mul", 2) /\ Divide(div(x, Lo(y)), End)
    \/ At("imul", 1) /\ OnPair(imul(Lo(x), Lo(y), f), 2)
    \/ At("imul", 2) /\ Divide(idiv(x, Lo(y)), End)
    \/ At("imultrunc", 1) /\ OnLow(imul_trunc(Lo(x), Lo(y), f), End)
    \/ At("div", 1) /\ Divide(div(x, Lo(y)), End)
    \/ At("idiv", 1) /\ Divide(idiv(x, Lo(y)), End)

\* ADC lo; DAA  -  SBB lo; DAS  -  ADC lo; AAA  -  SBB lo; AAS  -  AAM; AAD
Bcd ==
    \/ At("daa", 1) /\ OnLow(adc(Lo(x), Lo(y), f), 2)
    \/ At("daa", 2) /\ OnLow(daa(Lo(x), f), End)
    \/ At("das", 1) /\ OnLow(sbb(Lo(x), Lo(y), f), 2)
    \/ At("das", 2) /\ OnLow(das(Lo(x), f), End)
    \/ At("aaa", 1) /\ OnLow(adc(Lo(x), Lo(y), f), 2)
    \/ At("aaa", 2) /\ OnPair(aaa(x, f), End)
    \/ At("aas", 1) /\ OnLow(sbb(Lo(x), Lo(y), f), 2)
    \/ At("aas", 2) /\ OnPair(aas(x, f), End)
    \/ At("aam", 1) /\ OnPairOrFault(aam(Lo(x), Lo(y), f), 2)
    \/ At("aam", 2) /\ OnPair(aad(x, Lo(y), f), End)

\* One translatable instruction, as the interpreter executes it.
Interpret == At("insn", 1) /\ OnLow(interpret(insn, Lo(x), Lo(y), f), End)

Next ==
    \/ Add \/ Sub \/ Cmp \/ Neg \/ Shl \/ Shr \/ Sar \/ IncDec \/ Shift
    \/ MulDiv \/ Bcd \/ Interpret

Spec == Init /\ [][Next]_vars
-----------------------------------------------------------------------------
Done(p) == prog = p /\ pc = End
InRange(v, width) == v \in -(2^(width - 1)) .. 2^(width - 1) - 1

\* Two-word addition, subtraction and negation are exact: the carry between
\* the halves, and the CF, OF and SF of the upper half, are those of the
\* double-width operation (adc, sbb, neg of alu.rs).
TwoWordArith ==
    LET s == SignedD(x0)
        t == SignedD(y)
    IN  /\ Done("add") =>
             /\ x = (x0 + y) % 2^(2 * W)
             /\ f["CF"] = (x0 + y >= 2^(2 * W))
             /\ f["OF"] = ~InRange(s + t, 2 * W)
             /\ f["SF"] = (SignedD(x) < 0)
        /\ Done("sub") =>
             /\ x = (x0 - y) % 2^(2 * W)
             /\ f["CF"] = (x0 < y)
             /\ f["OF"] = ~InRange(s - t, 2 * W)
             /\ cond(12, f) = (s < t) /\ cond(13, f) = (s >= t)
        /\ Done("neg") => x = (-x0) % 2^(2 * W)

\* Two-word shifts by one: the bit that leaves one half enters the other
\* through CF (shl, shr, sar, rcl, rcr).
TwoWordShift ==
    /\ Done("shl") => x = (x0 * 2) % 2^(2 * W) /\ f["CF"] = Bit(x0, 2 * W - 1)
    /\ Done("shr") => x = x0 \div 2 /\ f["CF"] = Bit(x0, 0)
    /\ Done("sar") => x = (SignedD(x0) \div 2) % 2^(2 * W) /\ f["CF"] = Bit(x0, 0)

\* After CMP every condition code decides what its name says, for unsigned and
\* for signed operands (sub and cond).
ConditionsDecide ==
    LET a == Lo(x0)
        b == Lo(y)
        s == Signed(a)
        t == Signed(b)
    IN  Done("cmp") =>
          /\ cond(2, f) = (a < b) /\ cond(3, f) = (a >= b)
          /\ cond(4, f) = (a = b) /\ cond(5, f) = (a # b)
          /\ cond(6, f) = (a <= b) /\ cond(7, f) = (a > b)
          /\ cond(0, f) = ~InRange(s - t, W) /\ cond(1, f) = InRange(s - t, W)
          /\ cond(12, f) = (s < t) /\ cond(13, f) = (s >= t)
          /\ cond(14, f) = (s <= t) /\ cond(15, f) = (s > t)

\* INC and DEC undo each other, keep the carry they were given, and report
\* overflow exactly at the ends of the signed range.
IncDecUndo ==
    prog = "incdec" =>
      /\ f["CF"] = f0["CF"]
      /\ pc = 2 => f["OF"] = ~InRange(Signed(Lo(x0)) + 1, W)
      /\ pc = End => x = x0 /\ f["OF"] = ~InRange(Signed(Mod(x0 + 1)) - 1, W)

\* The barrel shifts and rotates agree with shifting one bit at a time: value,
\* and CF as the last bit out, also at a count equal to the width; counts are
\* taken modulo 32 and a zero count changes nothing; RCR undoes RCL, carry included.
BarrelIsIterated ==
    LET v == Lo(x0)
        r == Lo(x)
        m == n % 32
    IN  /\ Done("shln") /\ m \in 1 .. W => r = Mod(v * 2^m) /\ f["CF"] = Bit(v, W - m)
        /\ Done("shrn") /\ m \in 1 .. W =>
             r = v \div 2^m /\ f["CF"] = Bit(v, m - 1) /\ (m = 1 => f["OF"] = Sign(v))
        /\ Done("sarn") /\ m > 0 =>
             r = Mod(Signed(v) \div 2^m) /\ f["CF"] = Bit(v, IF m > W THEN W - 1 ELSE m - 1)
        /\ Done("roln") /\ m > 0 =>
             \A i \in 0 .. W - 1 : Bit(r, (i + m) % W) = Bit(v, i)
        /\ Done("rorn") /\ m > 0 =>
             \A i \in 0 .. W - 1 : Bit(r, i) = Bit(v, (i + m) % W)
        /\ Done("rcln") => r = v /\ f["CF"] = f0["CF"]
        /\ m = 0 /\ pc = End /\ prog \in {"shln", "shrn", "sarn", "roln", "rorn"} =>
             x = x0 /\ f = f0

\* The quotient rounded towards zero.
Truncated(a, b) == IF (a < 0) # (b < 0) THEN -(AbsVal(a) \div AbsVal(b)) ELSE AbsVal(a) \div AbsVal(b)

\* DIV is exact and faults exactly when the quotient does not fit (div8 to
\* div32).  IDIV is exact whenever the quotient fits; when it does not, it
\* faults or, in the divider that loses bits, leaves a quotient of exactly
\* -2^(W-1) (idiv_lossy).  Division undoes multiplication by a factor, and CF
\* and OF say whether a product needs the upper half (mul, imul, imul_trunc).
DivisionExact ==
    LET v == Lo(y)
        s == SignedD(x0)
        q == Truncated(s, Signed(v))
    IN  /\ prog = "div" /\ pc # 1 =>
             IF v # 0 /\ x0 \div v < 2^W
             THEN pc = End /\ x = Pair(x0 % v, x0 \div v)
             ELSE pc = Faulted
        /\ prog = "idiv" /\ pc # 1 /\ v = 0 => pc = Faulted
        /\ prog = "idiv" /\ pc # 1 /\ v # 0 =>
             IF InRange(q, W)
             THEN pc = End /\ x = Pair(Mod(s - q * Signed(v)), Mod(q))
             ELSE pc = Faulted \/ Lo(x) = 2^(W - 1)
        /\ prog = "mul" /\ pc # 1 /\ v # 0 => pc # Faulted /\ (pc = End => x = Lo(x0))
        /\ prog = "mul" /\ pc = 2 => f["CF"] = (Hi(x) # 0) /\ f["OF"] = f["CF"]
        /\ prog = "imul" /\ pc = End => x = Lo(x0)
        /\ (prog = "imul" /\ pc = 2) \/ Done("imultrunc") =>
             /\ f["CF"] = ~InRange(Signed(Lo(x0)) * Signed(v), W)
             /\ f["OF"] = f["CF"]
             /\ Lo(x) = Mod(Lo(x0) * v)

\* Packed decimal bytes and what they stand for.
Bcd2(v) == (v \div 16) * 10 + (v % 16)
IsBcd(v) == v \div 16 < 10 /\ v % 16 < 10

\* Decimal arithmetic is exact on packed and unpacked digits: DAA after ADC,
\* DAS after SBB, AAA and AAS on one digit with its carry into AH, and AAD
\* undoes AAM.  It needs the exact AF of the addition (daa, das, aaa, aas,
\* aam, aad).
DecimalExact ==
    LET a == Lo(x0)
        b == Lo(y)
        c == Carry(f0)
        r == Lo(x)
        digits == a < 10 /\ b < 10
        moved == IF f["CF"] THEN 1 ELSE 0
    IN  /\ Done("daa") /\ IsBcd(a) /\ IsBcd(b) =>
             IsBcd(r) /\ Bcd2(r) + 100 * moved = Bcd2(a) + Bcd2(b) + c
        /\ Done("das") /\ IsBcd(a) /\ IsBcd(b) =>
             IsBcd(r) /\ Bcd2(r) - 100 * moved = Bcd2(a) - Bcd2(b) - c
        /\ Done("aaa") /\ digits =>
             r < 10 /\ r + 10 * moved = a + b + c /\ Hi(x) = Mod(Hi(x0) + moved)
        /\ Done("aas") /\ digits =>
             r < 10 /\ r - 10 * moved = a - b - c
        /\ prog = "aam" /\ pc # 1 => (pc = Faulted) = (b = 0)
        /\ Done("aam") => x = a

\* Every program ends with what mathematical arithmetic says of its operands,
\* or with the #DE the hardware raises: the value, and each flag the next
\* instruction of the idiom or a condition code relies on (alu.rs).
ProgramsExact ==
    /\ TwoWordArith
    /\ TwoWordShift
    /\ ConditionsDecide
    /\ IncDecUndo
    /\ BarrelIsIterated
    /\ DivisionExact
    /\ DecimalExact

-----------------------------------------------------------------------------
Flip(fl) == [f0 EXCEPT ![fl] = ~f0[fl]]

\* The row of the JIT's flag tables tells the truth about the interpreter and
\* the host: a flag called exact is one the host computes, a forced flag has
\* that value in the interpreter, a flag not mentioned is kept by both, and
\* nothing but the flags called read influences the result (classify_body,
\* alu_effect, shift_effect of jit/emit.rs).
TablesSound ==
    LET e == classify_body(insn) IN
    Done("insn") =>
      /\ e.exact \subseteq host_defines(insn)
      /\ \A fl \in e.const0 : ~f[fl]
      /\ \A fl \in Flag \ Written(e) :
           /\ f[fl] = f0[fl]
           /\ fl \notin host_defines(insn) \cup host_undefines(insn)
      /\ \A fl \in Flag \ e.reads :
           LET q == interpret(insn, Lo(x0), Lo(y), Flip(fl)) IN
           q.val = Lo(x) /\ \A g \in Written(e) : q.f[g] = f[g]

\* A conditional branch is decided by the flags it is said to read (jcc_reads).
BranchReadsSound ==
    Done("insn") /\ insn.op = "jcc" =>
        \A fl \in Flag \ jcc_reads(insn.cc) : cond(insn.cc, Flip(fl)) = cond(insn.cc, f0)

\* The tables on which a translated block relies are true of what the
\* interpreter executes and of what the host computes (jit/emit.rs).
TranslatorTablesSound == TablesSound /\ BranchReadsSound
=============================================================================
