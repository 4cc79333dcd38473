------------------------------- MODULE Alu386 -------------------------------
(***************************************************************************)
(* The flag-setting primitives of the 80386 core (x86_32/alu.rs), for one  *)
(* operand width: the macro of the source is instantiated for 8, 16 and 32 *)
(* bits, these operators for any W.  A primitive takes operand values and  *)
(* the six status flags and returns the value and the flags it leaves;     *)
(* divisions may fail (#DE).  `Nibble` is 4 in the source (AF is the carry *)
(* out of bit 3).                                                          *)
(***************************************************************************)
EXTENDS Integers, FiniteSets

CONSTANTS W, Nibble

ASSUME AluAssumption == W \in Nat \ {0} /\ Nibble \in 1 .. W

Word == 0 .. 2^W - 1
DWord == 0 .. 2^(2 * W) - 1
Flag == {"CF", "PF", "AF", "ZF", "SF", "OF"}
Flags == [Flag -> BOOLEAN]

Mod(v) == v % 2^W
Bit(v, i) == (v \div 2^i) % 2 = 1
Sign(v) == Bit(v, W - 1)
Signed(v) == IF Sign(v) THEN v - 2^W ELSE v

\* The word whose set bits are the i with P(i).
FromBits(P(_)) ==
    LET acc[i \in 0 .. W] == IF i = 0 THEN 0 ELSE acc[i - 1] + (IF P(i - 1) THEN 2^(i - 1) ELSE 0)
    IN  acc[W]

\* set_szp: PF is the parity of the low byte.
Even(v) == Cardinality({i \in 0 .. (IF W < 8 THEN W ELSE 8) - 1 : Bit(v, i)}) % 2 = 0
szp(f, r) == [f EXCEPT !["SF"] = Sign(r), !["ZF"] = (r = 0), !["PF"] = Even(r)]

Result(r, f) == [val |-> r, f |-> f]
Carry(f) == IF f["CF"] THEN 1 ELSE 0

\* (a ^ b ^ r) & 0x10 # 0: on one-bit words "different" is exclusive or.
AuxCarry(a, b, r) ==
    Nibble < W /\ ((Bit(a, Nibble) # Bit(b, Nibble)) # Bit(r, Nibble))

Arith(f, cf, af, of, r) ==
    Result(r, szp([f EXCEPT !["CF"] = cf, !["AF"] = af, !["OF"] = of], r))

add(a, b, f) ==
    LET r == Mod(a + b)
    IN  Arith(f, r < a, AuxCarry(a, b, r), Sign(a) # Sign(r) /\ Sign(b) # Sign(r), r)

\* Mutant: the comparison that serves ADD is kept for ADC.
AdcCompare(a, b, f) ==
    LET r == Mod(a + b + Carry(f))
    IN  Arith(f, r < a, AuxCarry(a, b, r), Sign(a) # Sign(r) /\ Sign(b) # Sign(r), r)

adc(a, b, f) ==
    LET r == Mod(a + b + Carry(f))
    IN  Arith(f, a + b + Carry(f) > 2^W - 1, AuxCarry(a, b, r),
              Sign(a) # Sign(r) /\ Sign(b) # Sign(r), r)

sub(a, b, f) ==
    LET r == Mod(a - b)
    IN  Arith(f, b > a, AuxCarry(a, b, r), Sign(a) # Sign(b) /\ Sign(a) # Sign(r), r)

sbb(a, b, f) ==
    LET r == Mod(a - b - Carry(f))
    IN  Arith(f, b + Carry(f) > a, AuxCarry(a, b, r), Sign(a) # Sign(b) /\ Sign(a) # Sign(r), r)

logic(r, f) == Arith(f, FALSE, FALSE, FALSE, r)
and(a, b, f) == logic(FromBits(LAMBDA i : Bit(a, i) /\ Bit(b, i)), f)
or(a, b, f) == logic(FromBits(LAMBDA i : Bit(a, i) \/ Bit(b, i)), f)
xor(a, b, f) == logic(FromBits(LAMBDA i : Bit(a, i) # Bit(b, i)), f)

\* INC and DEC keep CF.
inc(a, f) ==
    LET r == Mod(a + 1)
    IN  Arith(f, f["CF"], a % 2^Nibble = 2^Nibble - 1, r = 2^(W - 1), r)
dec(a, f) ==
    LET r == Mod(a - 1)
    IN  Arith(f, f["CF"], a % 2^Nibble = 0, a = 2^(W - 1), r)
neg(a, f) == Arith(f, a # 0, a % 2^Nibble # 0, a = 2^(W - 1), Mod(-a))

-----------------------------------------------------------------------------
\* Shifts and rotates by a count the 386 masks to 5 bits; a zero count leaves
\* the flags alone.
Masked(count) == count % 32

shl(v, count, f) ==
    LET n == Masked(count)
        wide == v * 2^n
        r == Mod(wide)
        cf == IF n % W = 0 THEN Bit(v, 0) ELSE Bit(wide, W)
    IN  IF n = 0 THEN Result(v, f) ELSE Arith(f, cf, FALSE, Sign(r) # cf, r)

shr(v, count, f) ==
    LET n == Masked(count)
        r == v \div 2^n
        cf == IF n % W = 0 THEN Sign(v) ELSE Bit(v, n - 1)
    IN  IF n = 0 THEN Result(v, f) ELSE Arith(f, cf, FALSE, Sign(v \div 2^(n - 1)), r)

sar(v, count, f) ==
    LET n == Masked(count)
        sx == Signed(v)
    IN  IF n = 0 THEN Result(v, f)
        ELSE Arith(f, (sx \div 2^(n - 1)) % 2 = 1, FALSE, FALSE, Mod(sx \div 2^n))

\* Rotates leave SF, ZF, AF and PF alone.
Rotated(f, cf, of, r) == Result(r, [f EXCEPT !["CF"] = cf, !["OF"] = of])

rol(v, count, f) ==
    LET n == Masked(count)
        r == Mod(v * 2^(n % W)) + v \div 2^(W - (n % W))
    IN  IF n = 0 THEN Result(v, f) ELSE Rotated(f, Bit(r, 0), Sign(r) # Bit(r, 0), r)

ror(v, count, f) ==
    LET n == Masked(count)
        r == v \div 2^(n % W) + Mod(v * 2^(W - (n % W)))
    IN  IF n = 0 THEN Result(v, f) ELSE Rotated(f, Sign(r), Sign(r) # Sign(Mod(r * 2)), r)

\* RCL and RCR iterate one bit at a time.
rcl(v, count, f) ==
    LET step[i \in 0 .. 31] ==
            IF i = 0 THEN Result(v, f)
            ELSE LET s == step[i - 1]
                 IN  Result(Mod(s.val * 2) + Carry(s.f), [s.f EXCEPT !["CF"] = Sign(s.val)])
        s == step[Masked(count)]
    IN  IF Masked(count) = 0 THEN Result(v, f)
        ELSE Result(s.val, [s.f EXCEPT !["OF"] = (Sign(s.val) # s.f["CF"])])

\* Mutant: a plain rotate, which lets in the bit it lets out.
RcrAsRor(v, count, f) == ror(v, count, f)

rcr(v, count, f) ==
    LET step[i \in 0 .. 31] ==
            IF i = 0 THEN Result(v, f)
            ELSE LET s == step[i - 1]
                 IN  Rotated(s.f, Bit(s.val, 0), Sign(s.val) # s.f["CF"],
                             s.val \div 2 + Carry(s.f) * 2^(W - 1))
    IN  step[Masked(count)]

-----------------------------------------------------------------------------
\* Multiplications; val is the double-width product.
Product(p, over, f) ==
    Result(p % 2^(2 * W),
           szp([f EXCEPT !["CF"] = over, !["OF"] = over, !["AF"] = FALSE], Mod(p)))
mul(a, b, f) == Product(a * b, a * b >= 2^W, f)
imul(a, b, f) ==
    LET p == Signed(a) * Signed(b) IN Product(p, p # Signed(Mod(p)), f)

\* imul_trunc: the low half of the signed product.
imul_trunc(a, b, f) == LET p == imul(a, b, f) IN Result(Mod(p.val), p.f)

\* Divisions of a double-width dividend, which succeed or raise #DE.
DE == [ok |-> FALSE]
Quot(q, r) == [ok |-> TRUE, quot |-> q, rem |-> r]
div(dividend, v) ==
    IF v = 0 \/ dividend \div v > 2^W - 1 THEN DE
    ELSE Quot(dividend \div v, dividend % v)

\* The restoring divide with a remainder register of W bits: a bit shifted
\* past its top is lost.
idiv_lossy(dividend, divisor) ==
    LET step[i \in 0 .. W] ==
            IF i = 0 THEN Quot(0, dividend \div 2^W)
            ELSE LET s == step[i - 1]
                     r == Mod(s.rem * 2) + (IF Bit(dividend, W - i) THEN 1 ELSE 0)
                 IN  IF r >= divisor THEN Quot(s.quot + 2^(W - i), r - divisor)
                     ELSE Quot(s.quot, r)
    IN  step[W]

AbsVal(x) == IF x < 0 THEN -x ELSE x
SignedD(d) == IF Bit(d, 2 * W - 1) THEN d - 2^(2 * W) ELSE d

\* Mutant: the sign of the remainder follows the quotient.
IdivRemOfQuot(dividend, v) ==
    LET x == SignedD(dividend)
        q == idiv_lossy(AbsVal(x), AbsVal(Signed(v)))
        negative == (x < 0) # Sign(v)
    IN  IF v = 0 \/ x = -(2^(2 * W - 1)) THEN DE
        ELSE IF q.quot > 2^(W - 1) \/ (~negative /\ q.quot = 2^(W - 1)) THEN DE
        ELSE Quot(IF negative THEN Mod(-q.quot) ELSE q.quot,
                  IF negative THEN Mod(-q.rem) ELSE q.rem)

idiv(dividend, v) ==
    LET x == SignedD(dividend)
        q == idiv_lossy(AbsVal(x), AbsVal(Signed(v)))
        negative == (x < 0) # Sign(v)
    IN  IF v = 0 \/ x = -(2^(2 * W - 1)) THEN DE
        ELSE IF q.quot > 2^(W - 1) \/ (~negative /\ q.quot = 2^(W - 1)) THEN DE
        ELSE Quot(IF negative THEN Mod(-q.quot) ELSE q.quot,
                  IF x < 0 THEN Mod(-q.rem) ELSE q.rem)

-----------------------------------------------------------------------------
\* BCD adjustments, on AL (W = 8, Nibble = 4) and, for AAA to AAD, on AX.
LowNibble(v) == v % 2^Nibble
AlMax == 9 * 2^Nibble + 9
Adjust(f) == [f EXCEPT !["OF"] = FALSE]

\* Mutant: the upper digit is judged after the lower one was adjusted.
DaaLate(al, f) ==
    LET low == LowNibble(al) > 9 \/ f["AF"]
        a1 == IF low THEN Mod(al + 6) ELSE al
        high == a1 > AlMax \/ f["CF"]
        r == IF high THEN Mod(a1 + 6 * 2^Nibble) ELSE a1
    IN  Result(r, szp([Adjust(f) EXCEPT !["AF"] = low, !["CF"] = high], r))

daa(al, f) ==
    LET low == LowNibble(al) > 9 \/ f["AF"]
        high == al > AlMax \/ f["CF"]
        r == Mod(al + (IF low THEN 6 ELSE 0) + (IF high THEN 6 * 2^Nibble ELSE 0))
    IN  Result(r, szp([Adjust(f) EXCEPT !["AF"] = low, !["CF"] = high], r))

das(al, f) ==
    LET low == LowNibble(al) > 9 \/ f["AF"]
        high == al > AlMax \/ f["CF"]
        r == Mod(al - (IF low THEN 6 ELSE 0) - (IF high THEN 6 * 2^Nibble ELSE 0))
        cf == high \/ (low /\ (f["CF"] \/ al < 6))
    IN  Result(r, szp([Adjust(f) EXCEPT !["AF"] = low, !["CF"] = cf], r))

\* AAA and AAS: AX moves by 0x106, then AL keeps its low digit.
Ascii(ax, delta, f) ==
    LET fix == LowNibble(Mod(ax)) > 9 \/ f["AF"]
        moved == IF fix THEN (ax + delta) % 2^(2 * W) ELSE ax
        digit == LowNibble(Mod(moved))
    IN  Result((moved \div 2^W) * 2^W + digit,
               szp([Adjust(f) EXCEPT !["AF"] = fix, !["CF"] = fix], digit))
aaa(ax, f) == Ascii(ax, 2^W + 6, f)
aas(ax, f) == Ascii(ax, -(2^W + 6), f)

\* AAM base and AAD base; val is AX.  Base 0 is #DE, with PF from AL * 0x81.
aam(al, base, f) ==
    IF base = 0
    THEN [ok |-> FALSE,
          f  |-> [fl \in Flag |-> fl = "PF" /\ Even(Mod(al * (2^(W - 1) + 1)))]]
    ELSE [ok  |-> TRUE,
          val |-> (al \div base) * 2^W + (al % base),
          f   |-> logic(al % base, f).f]
aad(ax, base, f) == logic(Mod(Mod(ax) + (ax \div 2^W) * base), f)

-----------------------------------------------------------------------------
\* cond(n): the condition codes of Jcc, SETcc and CMOVcc.
cond(n, f) ==
    LET less == f["SF"] # f["OF"]
        r == CASE n \div 2 = 0 -> f["OF"]
               [] n \div 2 = 1 -> f["CF"]
               [] n \div 2 = 2 -> f["ZF"]
               [] n \div 2 = 3 -> f["CF"] \/ f["ZF"]
               [] n \div 2 = 4 -> f["SF"]
               [] n \div 2 = 5 -> f["PF"]
               [] n \div 2 = 6 -> less
               [] OTHER -> f["ZF"] \/ less
    IN  r # (n % 2 = 1)
=============================================================================
