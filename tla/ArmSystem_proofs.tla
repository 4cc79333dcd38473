-------------------------- MODULE ArmSystem_proofs --------------------------
(***************************************************************************)
(* Proofs for ArmSystem: for every program, width of words and geometry of *)
(* the cache, a live entry of the decoded-instruction cache is the decode  *)
(* of what memory holds, and a step leaves the banked registers of every   *)
(* mode alone but the one it starts in and the one it ends in.             *)
(***************************************************************************)
EXTENDS ArmSystem, TLAPS, FiniteSetTheorems, WellFoundedInduction

(* Numbers.                                                                *)

\* Division with remainder.
LEMMA DivMod ==
  ASSUME NEW x \in Int, NEW n \in Nat \ {0}
  PROVE /\ x % n \in 0 .. n - 1
        /\ x \div n \in Int
        /\ x = n * (x \div n) + (x % n)
  OBVIOUS

\* Multiplication by a positive number is monotonic, by at least one n.
LEMMA MulLe ==
  ASSUME NEW n \in Nat \ {0}, NEW a \in Int, NEW b \in Int, a < b
  PROVE n * a + n <= n * b
<1>1. b - a - 1 \in Nat
  OBVIOUS
<1>2. n * (b - a - 1) \in Nat
  BY <1>1
<1>3. n * (b - a - 1) = n * b - n * a - n
  OBVIOUS
<1> QED
  BY <1>2, <1>3

\* Quotient and remainder are unique.
LEMMA DivModUnique ==
  ASSUME NEW n \in Nat \ {0}, NEW q \in Int, NEW r \in 0 .. n - 1
  PROVE (n * q + r) % n = r /\ (n * q + r) \div n = q
<1> DEFINE x == n * q + r
<1> DEFINE q2 == x \div n
<1> DEFINE r2 == x % n
<1>0. x \in Int OBVIOUS
<1>1. q2 \in Int /\ r2 \in 0 .. n - 1 /\ x = n * q2 + r2
  BY <1>0, DivMod
<1> HIDE DEF q2, r2
<1>2. ~(q2 < q)
  <2> SUFFICES ASSUME q2 < q PROVE FALSE OBVIOUS
  <2>1. n * q2 + n <= n * q BY <1>1, MulLe
  <2>2. n * q2 \in Int /\ n * q \in Int BY <1>1
  <2> QED BY <2>1, <2>2, <1>1
<1>3. ~(q < q2)
  <2> SUFFICES ASSUME q < q2 PROVE FALSE OBVIOUS
  <2>1. n * q + n <= n * q2 BY <1>1, MulLe
  <2>2. n * q2 \in Int /\ n * q \in Int BY <1>1
  <2> QED BY <2>1, <2>2, <1>1
<1>4. q = q2 BY <1>1, <1>2, <1>3
<1>5. r = r2
  <2>2. n * q2 \in Int BY <1>1
  <2> QED BY <2>2, <1>1, <1>4
<1> QED BY <1>4, <1>5 DEF q2, r2

\* A word has twelve bits or more.
LEMMA Width == ByteBits \in Nat /\ ByteBits >= 3 /\ W \in Nat /\ W = 4 * ByteBits /\ W >= 12
BY ByteBitsAssumption DEF W

\* Shifts right, remainders and products by a power of two.
LEMMA Power ==
  ASSUME NEW x \in Int, NEW n \in 0 .. W
  PROVE  /\ 2^n \in Nat \ {0}
         /\ x \div 2^n \in Int
         /\ x % 2^n \in Nat
         /\ x * 2^n \in Int
BY DivMod, PowerAssumption

\* A value truncated to a word.
LEMMA WrapInt ==
  ASSUME NEW x \in Int
  PROVE  Wrap(x) \in Int
BY Power, Width DEF Wrap

LEMMA NumInt ==
  ASSUME NEW b
  PROVE  Num(b) \in {0, 1}
BY DEF Num

LEMMA RorInt ==
  ASSUME NEW x \in Int, NEW n \in 0 .. W
  PROVE  Ror(x, n) \in Int
<1>1. W - n \in 0 .. W
  BY Width
<1>2. x \div 2^n \in Int /\ x % 2^n \in Int
  BY Power
<1>3. (x % 2^n) * 2^(W - n) \in Int
  BY <1>1, <1>2, Power
<1> QED BY <1>2, <1>3 DEF Ror

\* The barrel shifter returns a number.
LEMMA ShiftedInt ==
  ASSUME NEW ty \in 0 .. 3, NEW n \in 0 .. W - 1, NEW x \in Int
  PROVE  Shifted(ty, n, x).v \in Int
<1>1. W - n \in 0 .. W /\ n \in 0 .. W /\ W \in 0 .. W
  BY Width
<1>2. Ror(x, n) \in Int
  BY <1>1, RorInt
<1>3. x \div 2^n \in Int /\ 2^W \in Int /\ 2^(W - n) \in Int
  BY <1>1, Power
<1>4. Asr(x, n) \in Int
  BY <1>3 DEF Asr
<1>5. Lsl(x, n) \in Int
  BY <1>1, Power DEF Lsl
<1> QED BY <1>2, <1>3, <1>4, <1>5 DEF Shifted, LSL, LSR, ASR, ROR

LEMMA ShiftImmInt ==
  ASSUME NEW ty \in 0 .. 3, NEW n \in 0 .. W - 1, NEW x \in Int, NEW c
  PROVE  shift_imm(ty, n, x, c).v \in Int
<1>1. W - 1 \in 0 .. W - 1 /\ W - 1 \in 0 .. W /\ 1 \in 0 .. W /\ W \in 0 .. W
  BY Width
<1>2. Shifted(ty, n, x).v \in Int
  BY ShiftedInt
<1>3. x \div 2^(W - 1) \in Int /\ 2^W \in Int /\ 2^1 \in Int /\ 2^(W - 1) \in Int /\ x \div 2 \in Int
  BY <1>1, Power
<1>3a. 2^(W - (W - 1)) \in Int
  BY <1>1, Power
<1>4. Asr(x, W - 1) \in Int
  BY <1>3, <1>3a DEF Asr
<1>5. Num(c) \in Int
  BY NumInt
<1>6. (x \div 2) + Num(c) * 2^(W - 1) \in Int
  BY <1>3, <1>5
<1> QED BY <1>2, <1>4, <1>6 DEF shift_imm, LSL, LSR, ASR, ROR

LEMMA ShiftRegInt ==
  ASSUME NEW ty \in 0 .. 3, NEW n \in Nat, NEW x \in Int, NEW c
  PROVE  shift_reg(ty, n, x, c).v \in Int
<1>1. n % W \in 0 .. W - 1
  BY Width, DivMod
<1>2. Shifted(ROR, n % W, x).v \in Int
  BY <1>1, ShiftedInt DEF ROR
<1>3. n \in 0 .. W - 1 => Shifted(ty, n, x).v \in Int
  BY ShiftedInt
<1>4. W - 1 \in 0 .. W /\ W \in 0 .. W
  BY Width
<1>5. x \div 2^(W - 1) \in Int /\ 2^W \in Int /\ 2^(W - (W - 1)) \in Int
  BY <1>4, Power
<1>6. Asr(x, W - 1) \in Int
  BY <1>5 DEF Asr
<1> QED BY <1>2, <1>3, <1>6, Width DEF shift_reg, LSL, LSR, ASR, ROR

-----------------------------------------------------------------------------
(* Induction over the naturals, on sets: a lemma with an operator for a    *)
(* parameter could not be applied.                                         *)

LEMMA Induction ==
  ASSUME NEW T, 0 \in T, \A n \in Nat : n \in T => n + 1 \in T
  PROVE  Nat \subseteq T
<1> DEFINE Out == Nat \ T
<1> SUFFICES ASSUME Out # {} PROVE FALSE
  OBVIOUS
<1>1. PICK m \in Out : \A k \in Out : <<k, m>> \notin OpToRel(<, Nat)
  BY NatLessThanWellFounded, WFMin
<1>2. m \in Nat /\ m # 0 /\ m - 1 \in Nat /\ m - 1 < m
  OBVIOUS
<1>3. m - 1 \in T
  BY <1>1, <1>2 DEF OpToRel
<1> QED BY <1>2, <1>3

(* The function that sums the bits of S from below is what its definition  *)
(* says.                                                                   *)
LEMMA FromBitsDef ==
  ASSUME NEW S
  PROVE  \E g : /\ g = [n \in 0 .. W |-> IF n = 0 THEN 0
                                         ELSE g[n - 1] + (IF n - 1 \in S THEN 2^(n - 1) ELSE 0)]
                /\ FromBits(S) = g[W]
<1> DEFINE F(n, y) == IF n = 0 THEN 0 ELSE y + (IF n - 1 \in S THEN 2^(n - 1) ELSE 0)
           T == {k \in Nat : \E g : g = [n \in 0 .. k |-> F(n, g[n - 1])]}
<1>1. 0 \in T
  <2> DEFINE g == [n \in 0 .. 0 |-> 0]
  <2>1. g = [n \in 0 .. 0 |-> F(n, g[n - 1])]
    OBVIOUS
  <2> QED BY <2>1
<1>2. ASSUME NEW k \in Nat, k \in T PROVE k + 1 \in T
  <2>1. PICK g : g = [n \in 0 .. k |-> F(n, g[n - 1])]
    BY <1>2
  <2> DEFINE h == [n \in 0 .. k + 1 |-> IF n = k + 1 THEN F(k + 1, g[k]) ELSE g[n]]
  <2>2. \A n \in 0 .. k + 1 : h[n] = F(n, h[n - 1])
    BY <2>1
  <2>3. h = [n \in 0 .. k + 1 |-> h[n]]
    OBVIOUS
  <2> HIDE DEF h
  <2>4. h = [n \in 0 .. k + 1 |-> F(n, h[n - 1])]
    BY <2>2, <2>3
  <2> QED BY <2>4
<1>3. PICK g : g = [n \in 0 .. W |-> F(n, g[n - 1])]
  BY <1>1, <1>2, Induction, Width
<1> DEFINE f == CHOOSE f : f = [n \in 0 .. W |-> F(n, f[n - 1])]
<1>4. f = [n \in 0 .. W |-> F(n, f[n - 1])]
  BY <1>3
<1>5. FromBits(S) = f[W]
  BY DEF FromBits
<1> QED BY <1>4, <1>5

LEMMA FromBitsInt ==
  ASSUME NEW S
  PROVE  FromBits(S) \in Int
<1>1. PICK g : /\ g = [n \in 0 .. W |-> IF n = 0 THEN 0
                                        ELSE g[n - 1] + (IF n - 1 \in S THEN 2^(n - 1) ELSE 0)]
               /\ FromBits(S) = g[W]
  BY FromBitsDef
<1> DEFINE T == {k \in Nat : k <= W => g[k] \in Int}
<1>2. 0 \in T
  BY <1>1, Width
<1>3. ASSUME NEW k \in Nat, k \in T PROVE k + 1 \in T
  <2> SUFFICES ASSUME k + 1 <= W PROVE g[k + 1] \in Int
    OBVIOUS
  <2>1. g[k + 1] = g[k] + (IF k \in S THEN 2^k ELSE 0)
    BY <1>1, Width
  <2>2. g[k] \in Int /\ 2^k \in Int
    BY <1>3, Width, PowerAssumption
  <2> QED BY <2>1, <2>2
<1>4. W \in T
  BY <1>2, <1>3, Induction, Width
<1> QED BY <1>1, <1>4

\* The result of an ALU operation is a number.
LEMMA AluInt ==
  ASSUME NEW op \in {AluOps[k] : k \in 1 .. 16}, NEW a \in Int, NEW b \in Int, NEW sc, NEW p
  PROVE  AluResult(op, a, b, sc, p).v \in Int
<1>1. W \in 0 .. W /\ 2^W \in Int
  BY Width, Power
<1>2. Complement(a) \in Int /\ Complement(b) \in Int
  BY <1>1 DEF Complement
<1>3. \A x, y \in Int : \A c : add_with_carry(x, y, c).v \in Int
  BY WrapInt, NumInt DEF add_with_carry
<1>4. \A S : FromBits(S) \in Int
  BY FromBitsInt
<1>5. op \in {"AND", "EOR", "SUB", "RSB", "ADD", "ADC", "SBC", "RSC",
              "TST", "TEQ", "CMP", "CMN", "ORR", "MOV", "BIC", "MVN"}
  BY DEF AluOps
<1>6. CASE op \in {"AND", "TST", "EOR", "TEQ", "ORR", "BIC"}
  BY <1>4, <1>6 DEF AluResult
<1>7. CASE op \in {"MOV", "MVN"}
  BY <1>2, <1>7 DEF AluResult
<1>8. CASE op \in {"SUB", "CMP", "RSB", "ADD", "CMN", "ADC", "SBC", "RSC"}
  BY <1>2, <1>3, <1>8 DEF AluResult, sub_with_carry
<1> QED BY <1>5, <1>6, <1>7, <1>8


-----------------------------------------------------------------------------
(* What the decoders return.                                               *)

InsnNames == {"op", "cond", "rd", "rn", "rm", "rs", "aux", "sub", "ty", "len", "imm"}
Ops == {"DpImm", "DpShImm", "DpShReg", "Mul", "Mull", "Mrs", "MsrReg", "MsrImm", "BranchImm", "Bx",
        "Ldr", "Str", "LdrMisc", "StrMisc", "Ldm", "Stm", "Swp", "Swi", "Undef", "ThumbBl"}

(* The fields name registers, sixteen stands for the word-aligned PC where *)
(* an operation accepts it, and opcodes and shift types are those there    *)
(* are.                                                                    *)
IsDecoded(d) ==
    /\ d = [x \in InsnNames |-> d[x]]
    /\ d.op \in Ops
    /\ d.rd \in 0 .. 15 /\ d.rn \in 0 .. 16 /\ d.rm \in 0 .. 15 /\ d.rs \in 0 .. 31
    /\ d.imm \in Int /\ d.len \in Int
    /\ d.op \in {"DpShReg", "Mul", "Mull", "Swp"} => d.rn \in 0 .. 15
    /\ d.op \in {"DpShReg", "Mul", "Mull"} => d.rs \in 0 .. 15
    /\ d.op \in {"DpImm", "DpShImm", "DpShReg"} => d.sub \in {AluOps[k] : k \in 1 .. 16}
    /\ d.op \in {"DpShImm", "DpShReg", "Ldr", "Str"} => d.ty \in 0 .. 3
    /\ d.op = "LdrMisc" => d.sub \in {"H", "SB", "SHW"}
IsInsn(d) == IsDecoded(d) /\ AmountFits(d)

\* A field of n bits is less than 2^n.
LEMMA FieldRange ==
  ASSUME NEW w \in Nat
  PROVE  /\ Field(w, 0, 0) \in 0 .. 1 /\ Field(w, 7, 7) \in 0 .. 1 /\ Field(w, 8, 8) \in 0 .. 1
         /\ Field(w, 6, 5) \in 0 .. 3 /\ Field(w, 9, 8) \in 0 .. 3 /\ Field(w, 11, 10) \in 0 .. 3
         /\ Field(w, 2, 0) \in 0 .. 7 /\ Field(w, 5, 3) \in 0 .. 7 /\ Field(w, 8, 6) \in 0 .. 7
         /\ Field(w, 10, 8) \in 0 .. 7 /\ Field(w, 27, 25) \in 0 .. 7
         /\ Field(w, 3, 0) \in 0 .. 15 /\ Field(w, 6, 3) \in 0 .. 15 /\ Field(w, 9, 6) \in 0 .. 15
         /\ Field(w, 11, 8) \in 0 .. 15 /\ Field(w, 15, 12) \in 0 .. 15
         /\ Field(w, 19, 16) \in 0 .. 15 /\ Field(w, 24, 21) \in 0 .. 15
         /\ Field(w, 11, 7) \in 0 .. 31 /\ Field(w, 10, 6) \in 0 .. 31 /\ Field(w, 15, 11) \in 0 .. 31
<1> DEFINE Q == {2^0, 2^3, 2^5, 2^6, 2^7, 2^8, 2^10, 2^11, 2^12, 2^16, 2^21, 2^25}
<1>1. Q \subseteq Nat \ {0}
  OBVIOUS
<1>2. \A n \in Nat \ {0} : w \div n \in Int
  BY DivMod
<1>3. \A x \in Int : /\ x % 2 \in 0 .. 1 /\ x % 4 \in 0 .. 3 /\ x % 8 \in 0 .. 7
                     /\ x % 16 \in 0 .. 15 /\ x % 32 \in 0 .. 31
  BY DivMod
<1>4. \A q \in Q : /\ (w \div q) % 2 \in 0 .. 1 /\ (w \div q) % 4 \in 0 .. 3
                   /\ (w \div q) % 8 \in 0 .. 7 /\ (w \div q) % 16 \in 0 .. 15
                   /\ (w \div q) % 32 \in 0 .. 31
  BY <1>1, <1>2, <1>3
<1>5. 2^1 = 2 /\ 2^2 = 4 /\ 2^3 = 8 /\ 2^4 = 16 /\ 2^5 = 32
  OBVIOUS
<1> QED BY <1>4, <1>5 DEF Field

LEMMA FieldInt ==
  ASSUME NEW w \in Nat
  PROVE  /\ Field(w, 6, 0) \in Nat /\ Field(w, 7, 0) \in Nat /\ Field(w, 10, 0) \in Nat
         /\ Field(w, 11, 0) \in Nat /\ Field(w, 15, 0) \in Nat /\ Field(w, 23, 0) \in Nat
<1>1. 2^0 = 1 /\ 2^7 \in Nat \ {0} /\ 2^8 \in Nat \ {0} /\ 2^11 \in Nat \ {0}
      /\ 2^12 \in Nat \ {0} /\ 2^16 \in Nat \ {0} /\ 2^24 \in Nat \ {0}
  OBVIOUS
<1>2. w \div 2^0 \in Int
  BY <1>1, DivMod
<1>3. \A n \in Nat \ {0} : (w \div 2^0) % n \in Nat
  BY <1>2, DivMod
<1>4. /\ 6 - 0 + 1 = 7 /\ 7 - 0 + 1 = 8 /\ 10 - 0 + 1 = 11 /\ 11 - 0 + 1 = 12
      /\ 15 - 0 + 1 = 16 /\ 23 - 0 + 1 = 24
  OBVIOUS
<1> QED BY <1>1, <1>3, <1>4 DEF Field

LEMMA SkeletonDecoded ==
  ASSUME NEW cond, NEW len \in Int
  PROVE  IsDecoded(Skeleton(cond, len))
<1> DEFINE d == Skeleton(cond, len)
<1>1. d = [x \in InsnNames |-> d[x]]
  BY DEF Skeleton, InsnNames
<1>2. /\ d.op = "Undef" /\ d.rd = 0 /\ d.rn = 0 /\ d.rm = 0 /\ d.rs = 0 /\ d.imm = 0
      /\ d.len = len
  BY DEF Skeleton
<1> HIDE DEF d
<1>3. IsDecoded(d)
  BY <1>1, <1>2 DEF IsDecoded, Ops
<1> QED BY <1>3 DEF d

LEMMA RotatedInt ==
  ASSUME NEW w \in Nat
  PROVE  Rotated(w) \in Int
<1>1. 2 * Field(w, 11, 8) \in Int /\ w % 256 \in Int
  BY FieldRange
<1>2. W \in Nat \ {0}
  BY Width
<1>3. (2 * Field(w, 11, 8)) % W \in 0 .. W - 1
  BY <1>1, <1>2, DivMod
<1>4. (2 * Field(w, 11, 8)) % W \in 0 .. W
  BY <1>2, <1>3
<1> QED BY <1>1, <1>4, RorInt DEF Rotated

\* A register list changes nothing but the list and the flags.
LEMMA WithListDecoded ==
  ASSUME NEW d, IsDecoded(d), NEW list \in Int
  PROVE  IsDecoded(WithList(d, list))
<1>1. 2^15 \in Int
  OBVIOUS
<1> QED BY <1>1 DEF WithList, IsDecoded, InsnNames


-----------------------------------------------------------------------------
(* The ARM decoder, group by group.                                        *)

LEMMA MultiplyDecoded ==
  ASSUME NEW w \in Nat, NEW d, IsDecoded(d), NEW op \in {"Mul", "Mull"}
  PROVE  IsDecoded(DecodeMultiply(w, d, op))
<1>1. /\ Field(w, 19, 16) \in 0 .. 15 /\ Field(w, 15, 12) \in 0 .. 15 /\ Field(w, 3, 0) \in 0 .. 15
      /\ Field(w, 11, 8) \in 0 .. 15
  BY FieldRange
<1> DEFINE e == DecodeMultiply(w, d, op)
<1>2. e = [x \in InsnNames |-> e[x]]
  BY DEF DecodeMultiply, IsDecoded, InsnNames
<1>3. /\ e.op = op /\ e.rd = Field(w, 19, 16) /\ e.rn = Field(w, 15, 12) /\ e.rm = Field(w, 3, 0)
      /\ e.rs = Field(w, 11, 8) /\ e.len = d.len /\ e.imm = d.imm
  BY DEF DecodeMultiply, IsDecoded, InsnNames
<1> HIDE DEF e
<1>4. IsDecoded(e)
  BY <1>1, <1>2, <1>3 DEF IsDecoded, Ops
<1> QED BY <1>4 DEF e

LEMMA DpRegDecoded ==
  ASSUME NEW w \in Nat, NEW d, IsDecoded(d)
  PROVE  IsDecoded(decode_dp_reg(w, d))
<1>1. /\ AluOp(Field(w, 24, 21)) \in {AluOps[k] : k \in 1 .. 16}
      /\ Field(w, 19, 16) \in 0 .. 15 /\ Field(w, 15, 12) \in 0 .. 15 /\ Field(w, 3, 0) \in 0 .. 15
      /\ Field(w, 6, 5) \in 0 .. 3 /\ Field(w, 11, 8) \in 0 .. 15 /\ Field(w, 11, 7) \in 0 .. 31
  BY FieldRange DEF AluOp
<1> DEFINE e == decode_dp_reg(w, d)
<1>2. e = [x \in InsnNames |-> e[x]]
  BY ZenonT(60) DEF decode_dp_reg, IsDecoded, InsnNames
<1>3. /\ e.rd = Field(w, 15, 12) /\ e.rn = Field(w, 19, 16) /\ e.rm = Field(w, 3, 0)
      /\ e.sub = AluOp(Field(w, 24, 21)) /\ e.ty = Field(w, 6, 5)
      /\ e.len = d.len /\ e.imm = d.imm
      /\ \/ e.op = "DpShReg" /\ e.rs = Field(w, 11, 8)
         \/ e.op = "DpShImm" /\ e.rs = Field(w, 11, 7)
  BY DEF decode_dp_reg, IsDecoded, InsnNames
<1> HIDE DEF e
<1>4. IsDecoded(e)
  BY <1>1, <1>2, <1>3 DEF IsDecoded, Ops
<1> QED BY <1>4 DEF e

LEMMA HalfwordDecoded ==
  ASSUME NEW w \in Nat, NEW d, IsDecoded(d)
  PROVE  IsDecoded(DecodeHalfword(w, d))
<1> SUFFICES ASSUME DecodeHalfword(w, d) # d PROVE IsDecoded(DecodeHalfword(w, d))
  OBVIOUS
<1>1. /\ Field(w, 19, 16) \in 0 .. 15 /\ Field(w, 15, 12) \in 0 .. 15 /\ Field(w, 3, 0) \in 0 .. 15
      /\ Field(w, 11, 8) \in 0 .. 15 /\ Field(w, 6, 5) \in 1 .. 3
  BY FieldRange DEF DecodeHalfword
<1>2. HalfwordKind(Field(w, 6, 5)) \in {"H", "SB", "SHW"}
  BY <1>1 DEF HalfwordKind
<1> DEFINE x == [d EXCEPT !.op = IF Bit(w, 20) THEN "LdrMisc" ELSE "StrMisc",
                   !.rn = Field(w, 19, 16), !.rd = Field(w, 15, 12), !.sub = HalfwordKind(Field(w, 6, 5)),
                   !.aux = Flag(Bit(w, 24), "pre") \cup Flag(Bit(w, 23), "up")
                           \cup Flag(~Bit(w, 24) \/ Bit(w, 21), "wb")]
<1>3. x = [n \in InsnNames |-> x[n]]
  BY DEF IsDecoded, InsnNames
<1>4. /\ x.op \in {"LdrMisc", "StrMisc"} /\ x.rd = Field(w, 15, 12) /\ x.rn = Field(w, 19, 16)
      /\ x.sub = HalfwordKind(Field(w, 6, 5))
      /\ x.rm = d.rm /\ x.rs = d.rs /\ x.len = d.len /\ x.imm = d.imm
  BY DEF IsDecoded, InsnNames
<1>5. \/ DecodeHalfword(w, d) = [x EXCEPT !.imm = 16 * Field(w, 11, 8) + Field(w, 3, 0)]
      \/ DecodeHalfword(w, d) = [x EXCEPT !.aux = @ \cup {"reg"}, !.rm = Field(w, 3, 0)]
  BY DEF DecodeHalfword
<1> HIDE DEF x
<1>6. IsDecoded(x)
  BY <1>1, <1>2, <1>3, <1>4 DEF IsDecoded, Ops
<1>7. 16 * Field(w, 11, 8) + Field(w, 3, 0) \in Int
  BY <1>1
<1>8. /\ IsDecoded([x EXCEPT !.imm = 16 * Field(w, 11, 8) + Field(w, 3, 0)])
      /\ IsDecoded([x EXCEPT !.aux = @ \cup {"reg"}, !.rm = Field(w, 3, 0)])
  BY <1>1, <1>6, <1>7 DEF IsDecoded, InsnNames
<1> QED BY <1>5, <1>8

LEMMA MsrDecoded ==
  ASSUME NEW w \in Nat, NEW d, IsDecoded(d), NEW op \in {"MsrReg", "MsrImm"}
  PROVE  IsDecoded(DecodeMsr(w, d, op))
<1> DEFINE e == DecodeMsr(w, d, op)
<1>1. e = [x \in InsnNames |-> e[x]]
  BY DEF DecodeMsr, IsDecoded, InsnNames
<1>2. /\ e.op = op /\ e.rd = d.rd /\ e.rn = d.rn /\ e.rm = d.rm
      /\ e.rs = d.rs /\ e.len = d.len /\ e.imm = d.imm
  BY DEF DecodeMsr, IsDecoded, InsnNames
<1> HIDE DEF e
<1>3. IsDecoded(e)
  BY <1>1, <1>2 DEF IsDecoded, Ops
<1> QED BY <1>3 DEF e

LEMMA Group0Decoded ==
  ASSUME NEW w \in Nat, NEW d, IsDecoded(d)
  PROVE  IsDecoded(DecodeGroup0(w, d))
<1>1. /\ Field(w, 19, 16) \in 0 .. 15 /\ Field(w, 15, 12) \in 0 .. 15 /\ Field(w, 3, 0) \in 0 .. 15
  BY FieldRange
<1> DEFINE bx == [d EXCEPT !.op = "Bx", !.rm = Field(w, 3, 0)]
           swp == [d EXCEPT !.op = "Swp", !.rn = Field(w, 19, 16), !.rd = Field(w, 15, 12),
                            !.rm = Field(w, 3, 0), !.aux = Flag(Bit(w, 22), "byte")]
           mrs == [d EXCEPT !.op = "Mrs", !.rd = Field(w, 15, 12), !.aux = Flag(Bit(w, 22), "spsr")]
           msr == [DecodeMsr(w, d, "MsrReg") EXCEPT !.rm = Field(w, 3, 0)]
<1>2. DecodeGroup0(w, d) \in {bx, swp, mrs, msr, DecodeMultiply(w, d, "Mul"),
                              DecodeMultiply(w, d, "Mull"), DecodeHalfword(w, d), decode_dp_reg(w, d)}
  BY DEF DecodeGroup0
<1>3. IsDecoded(bx)
  BY <1>1 DEF IsDecoded, InsnNames, Ops
<1>4. /\ swp = [x \in InsnNames |-> swp[x]]
      /\ swp.op = "Swp" /\ swp.rd = Field(w, 15, 12) /\ swp.rn = Field(w, 19, 16)
      /\ swp.rm = Field(w, 3, 0) /\ swp.rs = d.rs /\ swp.len = d.len /\ swp.imm = d.imm
  BY DEF IsDecoded, InsnNames
<1>5. /\ mrs = [x \in InsnNames |-> mrs[x]]
      /\ mrs.op = "Mrs" /\ mrs.rd = Field(w, 15, 12) /\ mrs.rn = d.rn
      /\ mrs.rm = d.rm /\ mrs.rs = d.rs /\ mrs.len = d.len /\ mrs.imm = d.imm
  BY DEF IsDecoded, InsnNames
<1>6. IsDecoded(DecodeMsr(w, d, "MsrReg"))
  BY MsrDecoded
<1>7. IsDecoded(msr)
  BY <1>1, <1>6 DEF IsDecoded, InsnNames
<1> HIDE DEF bx, swp, mrs, msr
<1>8. IsDecoded(swp) /\ IsDecoded(mrs)
  BY <1>1, <1>4, <1>5 DEF IsDecoded, Ops
<1>9. /\ IsDecoded(DecodeMultiply(w, d, "Mul")) /\ IsDecoded(DecodeMultiply(w, d, "Mull"))
      /\ IsDecoded(DecodeHalfword(w, d)) /\ IsDecoded(decode_dp_reg(w, d))
  BY MultiplyDecoded, HalfwordDecoded, DpRegDecoded
<1> QED BY <1>2, <1>3, <1>7, <1>8, <1>9

LEMMA Group1Decoded ==
  ASSUME NEW w \in Nat, NEW d, IsDecoded(d)
  PROVE  IsDecoded(DecodeGroup1(w, d))
<1>1. /\ AluOp(Field(w, 24, 21)) \in {AluOps[k] : k \in 1 .. 16}
      /\ Field(w, 19, 16) \in 0 .. 15 /\ Field(w, 15, 12) \in 0 .. 15 /\ Rotated(w) \in Int
  BY FieldRange, RotatedInt DEF AluOp
<1> DEFINE msr == [DecodeMsr(w, d, "MsrImm") EXCEPT !.imm = Rotated(w)]
           dp == [d EXCEPT !.op = "DpImm", !.rn = Field(w, 19, 16), !.rd = Field(w, 15, 12),
                    !.imm = Rotated(w), !.sub = AluOp(Field(w, 24, 21)),
                    !.aux = Flag(Bit(w, 20), "s") \cup Flag(Field(w, 11, 8) # 0, "rot")]
<1>2. DecodeGroup1(w, d) \in {msr, dp}
  BY DEF DecodeGroup1
<1>3. /\ dp = [x \in InsnNames |-> dp[x]]
      /\ dp.op = "DpImm" /\ dp.rd = Field(w, 15, 12) /\ dp.rn = Field(w, 19, 16)
      /\ dp.sub = AluOp(Field(w, 24, 21)) /\ dp.imm = Rotated(w)
      /\ dp.rm = d.rm /\ dp.rs = d.rs /\ dp.len = d.len
  BY DEF IsDecoded, InsnNames
<1>4. IsDecoded(DecodeMsr(w, d, "MsrImm"))
  BY MsrDecoded
<1>5. IsDecoded(msr)
  BY <1>1, <1>4 DEF IsDecoded, InsnNames
<1> HIDE DEF msr, dp
<1>6. IsDecoded(dp)
  BY <1>1, <1>3 DEF IsDecoded, Ops
<1> QED BY <1>2, <1>5, <1>6

LEMMA TransferDecoded ==
  ASSUME NEW w \in Nat, NEW d, IsDecoded(d), d.ty = 0
  PROVE  IsDecoded(DecodeTransfer(w, d))
<1>1. /\ Field(w, 19, 16) \in 0 .. 15 /\ Field(w, 15, 12) \in 0 .. 15 /\ Field(w, 3, 0) \in 0 .. 15
      /\ Field(w, 11, 7) \in 0 .. 31 /\ Field(w, 6, 5) \in 0 .. 3
  BY FieldRange
<1>2. Field(w, 11, 0) \in Int
  BY FieldInt
<1> DEFINE x == [d EXCEPT !.op = IF Bit(w, 20) THEN "Ldr" ELSE "Str",
                   !.rn = Field(w, 19, 16), !.rd = Field(w, 15, 12),
                   !.aux = Flag(Bit(w, 22), "byte") \cup Flag(Bit(w, 24), "pre") \cup Flag(Bit(w, 23), "up")
                           \cup Flag(~Bit(w, 24) \/ Bit(w, 21), "wb") \cup Flag(~Bit(w, 24) /\ Bit(w, 21), "user")]
           reg == [x EXCEPT !.aux = @ \cup {"reg"}, !.ty = Field(w, 6, 5),
                            !.rm = Field(w, 3, 0), !.rs = Field(w, 11, 7)]
           imm == [x EXCEPT !.imm = Field(w, 11, 0)]
<1>3. x = [n \in InsnNames |-> x[n]]
  BY DEF IsDecoded, InsnNames
<1>4. /\ x.op \in {"Ldr", "Str"} /\ x.rd = Field(w, 15, 12) /\ x.rn = Field(w, 19, 16)
      /\ x.ty = d.ty /\ x.rm = d.rm /\ x.rs = d.rs /\ x.len = d.len /\ x.imm = d.imm
  BY DEF IsDecoded, InsnNames
<1>5. DecodeTransfer(w, d) \in {d, reg, imm}
  BY DEF DecodeTransfer
<1> HIDE DEF x
<1>6. IsDecoded(x)
  BY <1>1, <1>3, <1>4 DEF IsDecoded, Ops
<1>7. /\ reg = [n \in InsnNames |-> reg[n]]
      /\ reg.op = x.op /\ reg.rd = x.rd /\ reg.rn = x.rn /\ reg.sub = x.sub /\ reg.len = x.len
      /\ reg.imm = x.imm /\ reg.ty = Field(w, 6, 5) /\ reg.rm = Field(w, 3, 0) /\ reg.rs = Field(w, 11, 7)
  BY <1>3 DEF InsnNames
<1>8. IsDecoded(imm)
  BY <1>2, <1>4, <1>6 DEF IsDecoded, InsnNames
<1> HIDE DEF reg
<1>9. IsDecoded(reg)
  BY <1>1, <1>4, <1>6, <1>7 DEF IsDecoded
<1> QED BY <1>5, <1>8, <1>9

LEMMA BlockDecoded ==
  ASSUME NEW w \in Nat, NEW d, IsDecoded(d)
  PROVE  IsDecoded(DecodeBlock(w, d))
<1>1. Field(w, 19, 16) \in 0 .. 15 /\ Field(w, 15, 0) \in Int
  BY FieldRange, FieldInt
<1> DEFINE e == [d EXCEPT !.op = IF Bit(w, 20) THEN "Ldm" ELSE "Stm", !.rn = Field(w, 19, 16),
                   !.aux = Flag(Bit(w, 24), "pre") \cup Flag(Bit(w, 23), "up")
                           \cup Flag(Bit(w, 22), "s") \cup Flag(Bit(w, 21), "wb")]
<1>2. e = [x \in InsnNames |-> e[x]]
  BY DEF IsDecoded, InsnNames
<1>3. /\ e.op \in {"Ldm", "Stm"} /\ e.rd = d.rd /\ e.rn = Field(w, 19, 16) /\ e.rm = d.rm
      /\ e.rs = d.rs /\ e.len = d.len /\ e.imm = d.imm
  BY DEF IsDecoded, InsnNames
<1>4. DecodeBlock(w, d) = WithList(e, Field(w, 15, 0))
  BY DEF DecodeBlock
<1> HIDE DEF e
<1>5. IsDecoded(e)
  BY <1>1, <1>2, <1>3 DEF IsDecoded, Ops
<1> QED BY <1>1, <1>4, <1>5, WithListDecoded

LEMMA SignExtInt ==
  ASSUME NEW v \in Int
  PROVE  SignExt(v, 8) \in Int /\ SignExt(v, 11) \in Int /\ SignExt(v, 24) \in Int
<1>1. 2^8 \in Int /\ 2^11 \in Int /\ 2^24 \in Int
  OBVIOUS
<1> QED BY <1>1 DEF SignExt

LEMMA ArmDecoded ==
  ASSUME NEW cond, NEW w \in Nat
  PROVE  IsDecoded(decode_arm(<<cond, w>>))
<1> DEFINE d == Skeleton(cond, 4)
           g == Field(w, 27, 25)
           branch == [d EXCEPT !.op = "BranchImm", !.aux = Flag(Bit(w, 24), "link"),
                               !.imm = 4 * SignExt(Field(w, 23, 0), 24)]
           swi == [d EXCEPT !.op = "Swi", !.imm = Field(w, 23, 0)]
<1>1. IsDecoded(d) /\ d.ty = 0
  <2>1. IsDecoded(d)
    BY SkeletonDecoded
  <2>2. d.ty = 0
    BY DEF Skeleton
  <2> QED BY <2>1, <2>2
<1>2. g \in 0 .. 7
  BY FieldRange
<1>3. Field(w, 23, 0) \in Int /\ 4 * SignExt(Field(w, 23, 0), 24) \in Int
  BY FieldInt, SignExtInt
<1>4. decode_arm(<<cond, w>>) \in {DecodeGroup0(w, d), DecodeGroup1(w, d), DecodeTransfer(w, d),
                                  DecodeBlock(w, d), branch, d, swi}
  BY <1>2 DEF decode_arm
<1> HIDE DEF d
<1>5. IsDecoded(swi)
  BY ZenonT(60), <1>1, <1>3 DEF IsDecoded, InsnNames, Ops
<1>6. /\ branch = [x \in InsnNames |-> branch[x]]
      /\ branch.op = "BranchImm" /\ branch.rd = d.rd /\ branch.rn = d.rn /\ branch.rm = d.rm
      /\ branch.rs = d.rs /\ branch.len = d.len /\ branch.imm = 4 * SignExt(Field(w, 23, 0), 24)
  BY <1>1 DEF IsDecoded, InsnNames
<1> HIDE DEF branch, swi
<1>7. IsDecoded(branch)
  BY <1>1, <1>3, <1>6 DEF IsDecoded, Ops
<1> QED BY <1>1, <1>4, <1>5, <1>7, Group0Decoded, Group1Decoded, TransferDecoded, BlockDecoded


-----------------------------------------------------------------------------
(* The Thumb decoder, format by format, from an empty instruction.         *)

IsEmpty(d) ==
    /\ d = [x \in InsnNames |-> d[x]]
    /\ d.op = "Undef" /\ d.rd = 0 /\ d.rn = 0 /\ d.rm = 0 /\ d.rs = 0 /\ d.ty = 0
    /\ d.imm = 0 /\ d.len = 2

LEMMA EmptyDecoded ==
  ASSUME NEW d, IsEmpty(d)
  PROVE  IsDecoded(d)
BY DEF IsEmpty, IsDecoded, Ops

LEMMA ThumbAluDecoded ==
  ASSUME NEW w \in Nat, NEW d, IsEmpty(d)
  PROVE  IsDecoded(DecodeThumbAlu(w, d))
<1> DEFINE rd == Field(w, 2, 0)
           rs == Field(w, 5, 3)
           n == Field(w, 9, 6)
           shift == {k \in DOMAIN <<2, 3, 4, 7>> : <<2, 3, 4, 7>>[k] = n}
           ty == (CHOOSE k \in shift : TRUE) - 1
           a == [d EXCEPT !.op = "DpShReg", !.rd = rd, !.rm = rd, !.rs = rs, !.sub = "MOV", !.aux = {"s"},
                          !.ty = ty]
           b == [d EXCEPT !.op = "DpImm", !.rd = rd, !.rn = rs, !.sub = "RSB", !.aux = {"s"}]
           c == [d EXCEPT !.op = "Mul", !.rd = rd, !.rm = rd, !.rs = rs, !.aux = {"s"}]
           e == [d EXCEPT !.op = "DpShImm", !.rd = rd, !.rn = rd, !.rm = rs, !.sub = AluOp(n), !.aux = {"s"}]
<1>1. rd \in 0 .. 7 /\ rs \in 0 .. 7 /\ n \in 0 .. 15 /\ AluOp(n) \in {AluOps[k] : k \in 1 .. 16}
  BY FieldRange DEF AluOp
<1>2. \/ DecodeThumbAlu(w, d) = a /\ shift # {}
      \/ DecodeThumbAlu(w, d) \in {b, c, e}
  BY DEF DecodeThumbAlu
<1>3. shift # {} => ty \in 0 .. 3
  OBVIOUS
<1> HIDE DEF ty, shift
<1>4. AluOps[14] = "MOV" /\ AluOps[4] = "RSB"
  BY DEF AluOps
<1>5. /\ a = [x \in InsnNames |-> a[x]]
      /\ a.op = "DpShReg" /\ a.rd = rd /\ a.rn = 0 /\ a.rm = rd /\ a.rs = rs /\ a.sub = "MOV"
      /\ a.ty = ty /\ a.imm = 0 /\ a.len = 2
  BY DEF IsEmpty, InsnNames
<1>6. /\ b = [x \in InsnNames |-> b[x]]
      /\ b.op = "DpImm" /\ b.rd = rd /\ b.rn = rs /\ b.rm = 0 /\ b.rs = 0 /\ b.sub = "RSB"
      /\ b.imm = 0 /\ b.len = 2
  BY DEF IsEmpty, InsnNames
<1>7. /\ c = [x \in InsnNames |-> c[x]]
      /\ c.op = "Mul" /\ c.rd = rd /\ c.rn = 0 /\ c.rm = rd /\ c.rs = rs /\ c.imm = 0 /\ c.len = 2
  BY DEF IsEmpty, InsnNames
<1>8. /\ e = [x \in InsnNames |-> e[x]]
      /\ e.op = "DpShImm" /\ e.rd = rd /\ e.rn = rd /\ e.rm = rs /\ e.rs = 0 /\ e.sub = AluOp(n)
      /\ e.ty = 0 /\ e.imm = 0 /\ e.len = 2
  BY DEF IsEmpty, InsnNames
<1> HIDE DEF a, b, c, e
<1>9. shift # {} => IsDecoded(a)
  BY <1>1, <1>3, <1>4, <1>5 DEF IsDecoded, Ops
<1>10. IsDecoded(b) /\ IsDecoded(c)
  BY <1>1, <1>4, <1>6, <1>7 DEF IsDecoded, Ops
<1>11. IsDecoded(e)
  BY <1>1, <1>8 DEF IsDecoded, Ops
<1> QED BY <1>2, <1>9, <1>10, <1>11

LEMMA ThumbHighDecoded ==
  ASSUME NEW w \in Nat, NEW d, IsEmpty(d)
  PROVE  IsDecoded(DecodeThumbHigh(w, d))
<1> DEFINE rd == Field(w, 2, 0) + 8 * Field(w, 7, 7)
           x == [d EXCEPT !.op = "DpShImm", !.rm = Field(w, 6, 3)]
           a == [x EXCEPT !.rd = rd, !.rn = rd, !.sub = "ADD"]
           b == [x EXCEPT !.rn = rd, !.sub = "CMP", !.aux = {"s"}]
           c == [x EXCEPT !.rd = rd, !.sub = "MOV"]
           e == [x EXCEPT !.op = "Bx"]
<1>1. rd \in 0 .. 15 /\ Field(w, 6, 3) \in 0 .. 15 /\ Field(w, 9, 8) \in 0 .. 3
  BY FieldRange
<1>2. DecodeThumbHigh(w, d) \in {a, b, c, e}
  BY <1>1 DEF DecodeThumbHigh
<1>3. AluOps[5] = "ADD" /\ AluOps[11] = "CMP" /\ AluOps[14] = "MOV"
  BY DEF AluOps
<1>4. /\ x = [n \in InsnNames |-> x[n]]
      /\ x.op = "DpShImm" /\ x.rd = 0 /\ x.rn = 0 /\ x.rm = Field(w, 6, 3) /\ x.rs = 0
      /\ x.ty = 0 /\ x.imm = 0 /\ x.len = 2
  BY DEF IsEmpty, InsnNames
<1> HIDE DEF x, rd
<1>5. /\ a = [n \in InsnNames |-> a[n]]
      /\ a.op = "DpShImm" /\ a.rd = rd /\ a.rn = rd /\ a.rm = Field(w, 6, 3) /\ a.rs = 0
      /\ a.sub = "ADD" /\ a.ty = 0 /\ a.imm = 0 /\ a.len = 2
  BY <1>4 DEF InsnNames
<1>6. /\ b = [n \in InsnNames |-> b[n]]
      /\ b.op = "DpShImm" /\ b.rd = 0 /\ b.rn = rd /\ b.rm = Field(w, 6, 3) /\ b.rs = 0
      /\ b.sub = "CMP" /\ b.ty = 0 /\ b.imm = 0 /\ b.len = 2
  BY <1>4 DEF InsnNames
<1>7. /\ c = [n \in InsnNames |-> c[n]]
      /\ c.op = "DpShImm" /\ c.rd = rd /\ c.rn = 0 /\ c.rm = Field(w, 6, 3) /\ c.rs = 0
      /\ c.sub = "MOV" /\ c.ty = 0 /\ c.imm = 0 /\ c.len = 2
  BY <1>4 DEF InsnNames
<1>8. /\ e = [n \in InsnNames |-> e[n]]
      /\ e.op = "Bx" /\ e.rd = 0 /\ e.rn = 0 /\ e.rm = Field(w, 6, 3) /\ e.rs = 0
      /\ e.imm = 0 /\ e.len = 2
  BY <1>4 DEF InsnNames
<1> HIDE DEF a, b, c, e
<1>9. IsDecoded(a) /\ IsDecoded(b) /\ IsDecoded(c) /\ IsDecoded(e)
  BY <1>1, <1>3, <1>5, <1>6, <1>7, <1>8 DEF IsDecoded, Ops
<1> QED BY <1>2, <1>9

LEMMA ThumbRegOffsetDecoded ==
  ASSUME NEW w \in Nat, NEW d, IsEmpty(d)
  PROVE  IsDecoded(DecodeThumbRegOffset(w, d))
<1> DEFINE n == Field(w, 11, 10)
           x == [d EXCEPT !.rd = Field(w, 2, 0), !.rn = Field(w, 5, 3), !.rm = Field(w, 8, 6),
                          !.aux = {"pre", "up", "reg"}]
           a == [x EXCEPT !.op = IF Bit(w, 11) THEN "Ldr" ELSE "Str", !.aux = @ \cup Flag(Bit(w, 10), "byte")]
           b == [x EXCEPT !.op = IF n = 0 THEN "StrMisc" ELSE "LdrMisc",
                          !.sub = <<"H", "SB", "H", "SHW">>[n + 1]]
<1>1. /\ Field(w, 2, 0) \in 0 .. 7 /\ Field(w, 5, 3) \in 0 .. 7 /\ Field(w, 8, 6) \in 0 .. 7
      /\ n \in 0 .. 3
  BY FieldRange
<1>2. <<"H", "SB", "H", "SHW">>[n + 1] \in {"H", "SB", "SHW"}
  BY <1>1
<1>3. DecodeThumbRegOffset(w, d) \in {a, b}
  BY DEF DecodeThumbRegOffset
<1>4. /\ x = [k \in InsnNames |-> x[k]]
      /\ x.op = "Undef" /\ x.rd = Field(w, 2, 0) /\ x.rn = Field(w, 5, 3) /\ x.rm = Field(w, 8, 6)
      /\ x.rs = 0 /\ x.ty = 0 /\ x.imm = 0 /\ x.len = 2
  BY DEF IsEmpty, InsnNames
<1> HIDE DEF x
<1>5. /\ a = [k \in InsnNames |-> a[k]]
      /\ a.op \in {"Ldr", "Str"} /\ a.rd = Field(w, 2, 0) /\ a.rn = Field(w, 5, 3) /\ a.rm = Field(w, 8, 6)
      /\ a.rs = 0 /\ a.ty = 0 /\ a.imm = 0 /\ a.len = 2
  BY <1>4 DEF InsnNames
<1>6. /\ b = [k \in InsnNames |-> b[k]]
      /\ b.op \in {"LdrMisc", "StrMisc"} /\ b.sub = <<"H", "SB", "H", "SHW">>[n + 1]
      /\ b.rd = Field(w, 2, 0) /\ b.rn = Field(w, 5, 3) /\ b.rm = Field(w, 8, 6)
      /\ b.rs = 0 /\ b.imm = 0 /\ b.len = 2
  BY <1>4 DEF InsnNames
<1> HIDE DEF a, b
<1>7. IsDecoded(a) /\ IsDecoded(b)
  BY <1>1, <1>2, <1>5, <1>6 DEF IsDecoded, Ops
<1> QED BY <1>3, <1>7

LEMMA ThumbTransferDecoded ==
  ASSUME NEW w \in Nat, NEW d, IsEmpty(d), NEW rd \in 0 .. 15, NEW rn \in 0 .. 16, NEW off \in Int
  PROVE  IsDecoded(ThumbTransfer(w, d, rd, rn, off))
<1> DEFINE e == ThumbTransfer(w, d, rd, rn, off)
<1>1. /\ e = [x \in InsnNames |-> e[x]]
      /\ e.op \in {"Ldr", "Str"} /\ e.rd = rd /\ e.rn = rn /\ e.rm = 0 /\ e.rs = 0
      /\ e.ty = 0 /\ e.imm = off /\ e.len = 2
  BY DEF ThumbTransfer, IsEmpty, InsnNames
<1> HIDE DEF e
<1>2. IsDecoded(e)
  BY <1>1 DEF IsDecoded, Ops
<1> QED BY <1>2 DEF e

LEMMA ThumbStackDecoded ==
  ASSUME NEW w \in Nat, NEW d, IsEmpty(d)
  PROVE  IsDecoded(DecodeThumbStack(w, d))
<1> DEFINE a == [d EXCEPT !.op = "DpImm", !.rd = 13, !.rn = 13, !.imm = 4 * Field(w, 6, 0),
                          !.sub = IF Bit(w, 7) THEN "SUB" ELSE "ADD"]
           b == [d EXCEPT !.op = "Stm", !.rn = 13, !.aux = {"pre", "wb"}]
           c == [d EXCEPT !.op = "Ldm", !.rn = 13, !.aux = {"up", "wb"}]
           lb == Field(w, 7, 0) + 2^14 * Field(w, 8, 8)
           lc == Field(w, 7, 0) + 2^15 * Field(w, 8, 8)
<1>1. 4 * Field(w, 6, 0) \in Int /\ Field(w, 7, 0) \in Int /\ Field(w, 8, 8) \in Int
  BY FieldInt, FieldRange
<1>2. 2^14 \in Int /\ 2^15 \in Int
  OBVIOUS
<1>3. lb \in Int /\ lc \in Int
  BY <1>1, <1>2
<1>4. AluOps[3] = "SUB" /\ AluOps[5] = "ADD"
  BY DEF AluOps
<1>5. DecodeThumbStack(w, d) \in {a, WithList(b, lb), WithList(c, lc), d}
  BY DEF DecodeThumbStack
<1>6. /\ a = [x \in InsnNames |-> a[x]]
      /\ a.op = "DpImm" /\ a.rd = 13 /\ a.rn = 13 /\ a.rm = 0 /\ a.rs = 0
      /\ a.sub \in {"SUB", "ADD"} /\ a.imm = 4 * Field(w, 6, 0) /\ a.len = 2
  BY DEF IsEmpty, InsnNames
<1>7. /\ b = [x \in InsnNames |-> b[x]]
      /\ b.op = "Stm" /\ b.rd = 0 /\ b.rn = 13 /\ b.rm = 0 /\ b.rs = 0 /\ b.imm = 0 /\ b.len = 2
      /\ c = [x \in InsnNames |-> c[x]]
      /\ c.op = "Ldm" /\ c.rd = 0 /\ c.rn = 13 /\ c.rm = 0 /\ c.rs = 0 /\ c.imm = 0 /\ c.len = 2
  BY DEF IsEmpty, InsnNames
<1> HIDE DEF a, b, c, lb, lc
<1>8. IsDecoded(a)
  BY <1>1, <1>4, <1>6 DEF IsDecoded, Ops
<1>9. IsDecoded(b) /\ IsDecoded(c)
  BY <1>7 DEF IsDecoded, Ops
<1> QED BY <1>3, <1>5, <1>8, <1>9, WithListDecoded, EmptyDecoded


LEMMA ThumbDecoded ==
  ASSUME NEW w \in Nat
  PROVE  IsDecoded(decode_thumb(w))
<1> DEFINE d == Skeleton(COND_AL, 2)
           g == Field(w, 15, 11)
           rd == Field(w, 2, 0)
           rs == Field(w, 5, 3)
           r8 == Field(w, 10, 8)
           imm8 == Field(w, 7, 0)
           imm5 == Field(w, 10, 6)
           three == Field(w, 8, 6)
           shift == [d EXCEPT !.op = "DpShImm", !.rd = rd, !.rm = rs, !.rs = imm5,
                              !.sub = "MOV", !.aux = {"s"}, !.ty = g]
           addsub == [d EXCEPT !.rd = rd, !.rn = rs, !.aux = {"s"},
                               !.sub = IF Bit(w, 9) THEN "SUB" ELSE "ADD"]
           addimm == [addsub EXCEPT !.op = "DpImm", !.imm = three]
           addreg == [addsub EXCEPT !.op = "DpShImm", !.rm = three]
           sub == <<"MOV", "CMP", "ADD", "SUB">>[g - 3]
           imm == [d EXCEPT !.op = "DpImm", !.rd = r8, !.rn = r8, !.imm = imm8, !.aux = {"s"}, !.sub = sub]
           off == IF Bit(w, 12) THEN imm5 ELSE 4 * imm5
           byte == [ThumbTransfer(w, d, rd, rs, off) EXCEPT !.aux = @ \cup Flag(Bit(w, 12), "byte")]
           half == [d EXCEPT !.op = IF Bit(w, 11) THEN "LdrMisc" ELSE "StrMisc", !.rd = rd,
                             !.rn = rs, !.imm = 2 * imm5, !.sub = "H", !.aux = {"pre", "up"}]
           adr == [d EXCEPT !.op = "DpImm", !.rd = r8, !.rn = IF Bit(w, 11) THEN 13 ELSE PCA,
                            !.imm = 4 * imm8, !.sub = "ADD"]
           block == [d EXCEPT !.op = IF Bit(w, 11) THEN "Ldm" ELSE "Stm", !.rn = r8, !.aux = {"up", "wb"}]
           swi == [d EXCEPT !.op = "Swi", !.imm = imm8]
           bcond == [d EXCEPT !.op = "BranchImm", !.cond = Field(w, 11, 8), !.imm = 2 * SignExt(imm8, 8)]
           b == [d EXCEPT !.op = "BranchImm", !.imm = 2 * SignExt(Field(w, 10, 0), 11)]
           bl == [d EXCEPT !.op = "ThumbBl", !.aux = Flag(Bit(w, 11), "suffix"), !.imm = Field(w, 10, 0)]
<1>1. /\ g \in 0 .. 31 /\ rd \in 0 .. 7 /\ rs \in 0 .. 7 /\ r8 \in 0 .. 7 /\ imm5 \in 0 .. 31
      /\ three \in 0 .. 7
  BY FieldRange
<1>2. imm8 \in Nat /\ Field(w, 10, 0) \in Nat
  BY FieldInt
<1>3. 2 * SignExt(imm8, 8) \in Int /\ 2 * SignExt(Field(w, 10, 0), 11) \in Int
  BY <1>2, SignExtInt
<1>4. \/ g \in 0 .. 2 /\ decode_thumb(w) = shift
      \/ g \in 4 .. 7 /\ decode_thumb(w) = imm
      \/ decode_thumb(w) \in {addimm, addreg, DecodeThumbHigh(w, d), DecodeThumbAlu(w, d)}
      \/ decode_thumb(w) \in {ThumbTransfer(w, d, r8, PCA, 4 * imm8), DecodeThumbRegOffset(w, d), byte, half,
                              ThumbTransfer(w, d, r8, 13, 4 * imm8)}
      \/ decode_thumb(w) \in {adr, DecodeThumbStack(w, d), WithList(block, imm8)}
      \/ decode_thumb(w) \in {swi, bcond, b, d, bl}
  <2>1. g \in 0 .. 2 => decode_thumb(w) = shift
    BY DEF decode_thumb
  <2>2. g = 3 => decode_thumb(w) \in {addimm, addreg}
    BY DEF decode_thumb
  <2>3. g \in 4 .. 7 => decode_thumb(w) = imm
    BY DEF decode_thumb
  <2>4. g = 8 => decode_thumb(w) \in {DecodeThumbHigh(w, d), DecodeThumbAlu(w, d)}
    BY DEF decode_thumb
  <2>5. g = 9 => decode_thumb(w) = ThumbTransfer(w, d, r8, PCA, 4 * imm8)
    BY DEF decode_thumb
  <2>6. g \in {10, 11} => decode_thumb(w) = DecodeThumbRegOffset(w, d)
    BY DEF decode_thumb
  <2>7. g \in 12 .. 15 => decode_thumb(w) = byte
    BY DEF decode_thumb
  <2>8. g \in {16, 17} => decode_thumb(w) = half
    BY DEF decode_thumb
  <2>9. g \in {18, 19} => decode_thumb(w) = ThumbTransfer(w, d, r8, 13, 4 * imm8)
    BY DEF decode_thumb
  <2>10. g \in {20, 21} => decode_thumb(w) = adr
    BY DEF decode_thumb
  <2>11. g \in {22, 23} => decode_thumb(w) = DecodeThumbStack(w, d)
    BY DEF decode_thumb
  <2>12. g \in {24, 25} => decode_thumb(w) = WithList(block, imm8)
    BY DEF decode_thumb
  <2>13. g \in {26, 27} => decode_thumb(w) \in {swi, bcond}
    BY DEF decode_thumb
  <2>14. g = 28 => decode_thumb(w) = b
    BY DEF decode_thumb
  <2>15. g = 29 => decode_thumb(w) = d
    BY DEF decode_thumb
  <2>16. g \in {30, 31} => decode_thumb(w) = bl
    BY DEF decode_thumb
  <2>17. g \in 0 .. 2 \/ g = 3 \/ g \in 4 .. 7 \/ g = 8 \/ g = 9 \/ g \in {10, 11} \/ g \in 12 .. 15
         \/ g \in {16, 17} \/ g \in {18, 19} \/ g \in {20, 21} \/ g \in {22, 23} \/ g \in {24, 25}
         \/ g \in {26, 27} \/ g = 28 \/ g = 29 \/ g \in {30, 31}
    BY <1>1
  <2> HIDE DEF d, shift, addimm, addreg, imm, byte, half, adr, block, swi, bcond, b, bl
  <2> QED BY <2>1, <2>2, <2>3, <2>4, <2>5, <2>6, <2>7, <2>8, <2>9, <2>10, <2>11, <2>12, <2>13,
             <2>14, <2>15, <2>16, <2>17
<1>5. IsEmpty(d)
  BY DEF IsEmpty, Skeleton, InsnNames
<1> HIDE DEF d
<1>6. AluOps[3] = "SUB" /\ AluOps[5] = "ADD" /\ AluOps[11] = "CMP" /\ AluOps[14] = "MOV"
  BY DEF AluOps
<1>7. g \in 4 .. 7 => sub \in {"MOV", "CMP", "ADD", "SUB"}
  OBVIOUS
<1>8. off \in Int /\ 4 * imm8 \in Int
  BY <1>1, <1>2
<1>9. /\ IsDecoded(DecodeThumbHigh(w, d)) /\ IsDecoded(DecodeThumbAlu(w, d))
      /\ IsDecoded(DecodeThumbRegOffset(w, d)) /\ IsDecoded(DecodeThumbStack(w, d))
      /\ IsDecoded(d)
  BY <1>5, ThumbHighDecoded, ThumbAluDecoded, ThumbRegOffsetDecoded, ThumbStackDecoded, EmptyDecoded
<1>10. /\ IsDecoded(ThumbTransfer(w, d, r8, PCA, 4 * imm8))
       /\ IsDecoded(ThumbTransfer(w, d, r8, 13, 4 * imm8))
       /\ IsDecoded(ThumbTransfer(w, d, rd, rs, off))
  <2>1. r8 \in 0 .. 15 /\ rd \in 0 .. 15 /\ rs \in 0 .. 16 /\ PCA \in 0 .. 16
    BY <1>1 DEF PCA
  <2> DEFINE i == 4 * imm8
  <2>2. i \in Int /\ 13 \in 0 .. 16
    BY <1>8
  <2> HIDE DEF r8, rd, rs, off, i
  <2>3. IsDecoded(ThumbTransfer(w, d, r8, PCA, i))
    BY <1>5, <2>1, <2>2, ThumbTransferDecoded
  <2>4. IsDecoded(ThumbTransfer(w, d, r8, 13, i))
    BY <1>5, <2>1, <2>2, ThumbTransferDecoded
  <2>5. IsDecoded(ThumbTransfer(w, d, rd, rs, off))
    BY <1>5, <1>8, <2>1, ThumbTransferDecoded
  <2> QED BY <2>3, <2>4, <2>5 DEF i
<1> HIDE DEF off
<1>11. IsDecoded(byte)
  BY ZenonT(60), <1>10 DEF IsDecoded, InsnNames
<1> HIDE DEF byte, g, rd, rs, r8, imm8, imm5, three, sub
<1>12. /\ shift = [x \in InsnNames |-> shift[x]]
       /\ shift.op = "DpShImm" /\ shift.rd = rd /\ shift.rn = 0 /\ shift.rm = rs /\ shift.rs = imm5
       /\ shift.sub = "MOV" /\ shift.ty = g /\ shift.imm = 0 /\ shift.len = 2
  BY <1>5 DEF IsEmpty, InsnNames
<1>13. /\ addsub = [x \in InsnNames |-> addsub[x]]
       /\ addsub.rd = rd /\ addsub.rn = rs /\ addsub.rm = 0 /\ addsub.rs = 0
       /\ addsub.sub \in {"SUB", "ADD"} /\ addsub.ty = 0 /\ addsub.imm = 0 /\ addsub.len = 2
  BY <1>5 DEF IsEmpty, InsnNames
<1> HIDE DEF addsub
<1>14. /\ addimm = [x \in InsnNames |-> addimm[x]]
       /\ addimm.op = "DpImm" /\ addimm.rd = rd /\ addimm.rn = rs /\ addimm.rm = 0 /\ addimm.rs = 0
       /\ addimm.sub \in {"SUB", "ADD"} /\ addimm.imm = three /\ addimm.len = 2
  BY <1>13 DEF InsnNames
<1>15. /\ addreg = [x \in InsnNames |-> addreg[x]]
       /\ addreg.op = "DpShImm" /\ addreg.rd = rd /\ addreg.rn = rs /\ addreg.rm = three /\ addreg.rs = 0
       /\ addreg.sub \in {"SUB", "ADD"} /\ addreg.ty = 0 /\ addreg.imm = 0 /\ addreg.len = 2
  BY <1>13 DEF InsnNames
<1>16. /\ imm = [x \in InsnNames |-> imm[x]]
       /\ imm.op = "DpImm" /\ imm.rd = r8 /\ imm.rn = r8 /\ imm.rm = 0 /\ imm.rs = 0
       /\ imm.sub = sub /\ imm.imm = imm8 /\ imm.len = 2
  BY <1>5 DEF IsEmpty, InsnNames
<1>17. /\ half = [x \in InsnNames |-> half[x]]
       /\ half.op \in {"LdrMisc", "StrMisc"} /\ half.rd = rd /\ half.rn = rs /\ half.rm = 0 /\ half.rs = 0
       /\ half.sub = "H" /\ half.imm = 2 * imm5 /\ half.len = 2
  BY <1>5 DEF IsEmpty, InsnNames
<1>18. /\ adr = [x \in InsnNames |-> adr[x]]
       /\ adr.op = "DpImm" /\ adr.rd = r8 /\ adr.rn \in {13, PCA} /\ adr.rm = 0 /\ adr.rs = 0
       /\ adr.sub = "ADD" /\ adr.imm = 4 * imm8 /\ adr.len = 2
  BY <1>5 DEF IsEmpty, InsnNames
<1>19. /\ block = [x \in InsnNames |-> block[x]]
       /\ block.op \in {"Ldm", "Stm"} /\ block.rd = 0 /\ block.rn = r8 /\ block.rm = 0 /\ block.rs = 0
       /\ block.imm = 0 /\ block.len = 2
  BY <1>5 DEF IsEmpty, InsnNames
<1>20. /\ swi = [x \in InsnNames |-> swi[x]]
       /\ swi.op = "Swi" /\ swi.rd = 0 /\ swi.rn = 0 /\ swi.rm = 0 /\ swi.rs = 0
       /\ swi.imm = imm8 /\ swi.len = 2
  BY <1>5 DEF IsEmpty, InsnNames
<1>21. /\ bcond = [x \in InsnNames |-> bcond[x]]
       /\ bcond.op = "BranchImm" /\ bcond.rd = 0 /\ bcond.rn = 0 /\ bcond.rm = 0 /\ bcond.rs = 0
       /\ bcond.imm = 2 * SignExt(imm8, 8) /\ bcond.len = 2
  BY <1>5 DEF IsEmpty, InsnNames
<1>22. /\ b = [x \in InsnNames |-> b[x]]
       /\ b.op = "BranchImm" /\ b.rd = 0 /\ b.rn = 0 /\ b.rm = 0 /\ b.rs = 0
       /\ b.imm = 2 * SignExt(Field(w, 10, 0), 11) /\ b.len = 2
  BY <1>5 DEF IsEmpty, InsnNames
<1>23. /\ bl = [x \in InsnNames |-> bl[x]]
       /\ bl.op = "ThumbBl" /\ bl.rd = 0 /\ bl.rn = 0 /\ bl.rm = 0 /\ bl.rs = 0
       /\ bl.imm = Field(w, 10, 0) /\ bl.len = 2
  BY <1>5 DEF IsEmpty, InsnNames
<1> HIDE DEF shift, addimm, addreg, imm, half, adr, block, swi, bcond, b, bl
<1>24. g \in 0 .. 2 => IsDecoded(shift)
  BY <1>1, <1>6, <1>12 DEF IsDecoded, Ops
<1>25. IsDecoded(addimm) /\ IsDecoded(addreg)
  BY <1>1, <1>6, <1>14, <1>15 DEF IsDecoded, Ops
<1>26. g \in 4 .. 7 => IsDecoded(imm)
  BY <1>1, <1>2, <1>6, <1>7, <1>16 DEF IsDecoded, Ops
<1>27. IsDecoded(half) /\ IsDecoded(adr)
  BY <1>1, <1>2, <1>6, <1>17, <1>18 DEF IsDecoded, Ops, PCA
<1>28. IsDecoded(block) /\ IsDecoded(bcond) /\ IsDecoded(bl)
  BY <1>1, <1>2, <1>3, <1>19, <1>21, <1>23 DEF IsDecoded, Ops
<1>29. IsDecoded(swi) /\ IsDecoded(b)
  BY <1>2, <1>3, <1>20, <1>22 DEF IsDecoded, Ops
<1>30. IsDecoded(WithList(block, imm8))
  BY <1>2, <1>28, WithListDecoded
<1> QED BY <1>4, <1>9, <1>10, <1>11, <1>24, <1>25, <1>26, <1>27, <1>28, <1>29, <1>30

\* Whatever memory holds decodes to an instruction.
LEMMA DecodeInsn ==
  ASSUME NEW s, NEW pc, NEW thumb
  PROVE  IsInsn(FreshDecode(s, pc, thumb))
<1>1. \A v : IsInsn(decode_arm(ArmWord(v)))
  <2> SUFFICES ASSUME NEW v PROVE IsInsn(decode_arm(ArmWord(v)))
    OBVIOUS
  <2>1. CASE v \in DOMAIN ArmCode
    <3>1. PICK c \in 0 .. 15 : \E w \in Nat : ArmCode[v] = <<c, w>>
      BY <2>1, CodeAssumption
    <3>2. PICK w \in Nat : ArmCode[v] = <<c, w>>
      BY <3>1
    <3>3. ArmWord(v) = <<c, w>>
      BY <2>1, <3>2 DEF ArmWord
    <3>4. AmountFits(decode_arm(<<c, w>>))
      BY <2>1, <3>2, CodeAssumption
    <3> QED BY <3>3, <3>4, ArmDecoded DEF IsInsn
  <2>2. CASE v \notin DOMAIN ArmCode
    <3> DEFINE w == 2^27 + 2^26
    <3>1. w \in Nat /\ Field(w, 27, 25) = 6
      BY DEF Field
    <3>2. ArmWord(v) = <<COND_AL, w>>
      BY <2>2 DEF ArmWord
    <3> HIDE DEF w
    <3>3. decode_arm(<<COND_AL, w>>) = Skeleton(COND_AL, 4)
      BY <3>1 DEF decode_arm
    <3>4. AmountFits(Skeleton(COND_AL, 4))
      BY DEF AmountFits, Skeleton
    <3> QED BY <3>1, <3>2, <3>3, <3>4, ArmDecoded DEF IsInsn
  <2> QED BY <2>1, <2>2
<1>2. \A v : IsInsn(decode_thumb(ThumbHalf(v)))
  <2> SUFFICES ASSUME NEW v PROVE IsInsn(decode_thumb(ThumbHalf(v)))
    OBVIOUS
  <2>1. CASE v \in DOMAIN ThumbCode
    <3>1. ThumbHalf(v) = ThumbCode[v] /\ ThumbCode[v] \in Nat /\ AmountFits(decode_thumb(ThumbCode[v]))
      BY <2>1, CodeAssumption DEF ThumbHalf
    <3> QED BY <3>1, ThumbDecoded DEF IsInsn
  <2>2. CASE v \notin DOMAIN ThumbCode
    <3> DEFINE w == 2^15 + 2^14 + 2^13 + 2^11
    <3>1. w \in Nat /\ Field(w, 15, 11) = 29
      BY DEF Field
    <3>2. ThumbHalf(v) = w
      BY <2>2 DEF ThumbHalf
    <3> HIDE DEF w
    <3>3. decode_thumb(w) = Skeleton(COND_AL, 2)
      BY <3>1 DEF decode_thumb
    <3>4. AmountFits(Skeleton(COND_AL, 2))
      BY DEF AmountFits, Skeleton
    <3> QED BY <3>1, <3>2, <3>3, <3>4, ThumbDecoded DEF IsInsn
  <2> QED BY <2>1, <2>2
<1> QED BY <1>1, <1>2 DEF FreshDecode


-----------------------------------------------------------------------------
(* Machines as far as the proofs need them: register files and memory hold *)
(* numbers, the decoded-instruction cache holds instructions in the slots  *)
(* of their addresses, none of them newer than the clock.                  *)

PsrNames == {"n", "z", "c", "v", "i", "f", "t", "mode"}
RegNames == {"gpr", "cpsr", "spsr", "usr_bank", "fiq_bank", "exc_bank"}
CacheNames == {"entries", "stamps", "clock", "inval"}
MachineNames == {"regs", "halted", "irq", "fiq", "doorbell", "start_pc", "thumb", "cache", "trap_swi",
                 "trap_faults", "host_trap", "fused_only", "mem"}

IsPsr(p) == p = [x \in PsrNames |-> p[x]] /\ p.mode \in Int

IsRegs(r) ==
    /\ r = [x \in RegNames |-> r[x]]
    /\ r.gpr \in [0 .. 15 -> Int]
    /\ IsPsr(r.cpsr)
    /\ r.spsr = [m \in SpsrModes |-> r.spsr[m]] /\ \A m \in SpsrModes : IsPsr(r.spsr[m])
    /\ r.usr_bank \in [8 .. 14 -> Int] /\ r.fiq_bank \in [8 .. 14 -> Int]
    /\ r.exc_bank \in [ExcModes -> [13 .. 14 -> Int]]

IsEntry(c, k) ==
    LET e == c.entries[k]
    IN  /\ e.version \in 0 .. c.clock
        /\ e.key[1] \in Int
        /\ e.version > 0 => EntrySlot(e.key[1]) = k
        /\ IsInsn(e.insn)

IsCache(c) ==
    /\ c = [x \in CacheNames |-> c[x]]
    /\ c.clock \in Nat /\ c.inval \in 0 .. c.clock
    /\ c.stamps \in [0 .. STAMP_SLOTS - 1 -> 0 .. c.clock]
    /\ c.entries = [k \in 0 .. ICACHE_ENTRIES - 1 |-> c.entries[k]]
    /\ \A k \in 0 .. ICACHE_ENTRIES - 1 : IsEntry(c, k)

IsMachine(s) ==
    /\ s = [x \in MachineNames |-> s[x]]
    /\ IsRegs(s.regs) /\ IsCache(s.cache)
    /\ s.mem \in [0 .. MemWords - 1 -> Int]
    /\ s.start_pc \in Int
    /\ s.host_trap \in {"none", "Syscall", "Undefined"}

\* The inductive invariant.
Consistent == IsMachine(sys) /\ CacheExact


-----------------------------------------------------------------------------
(* Moves(x, t): t is a machine that x may have become without a host's     *)
(* write or a decode.  The cache keeps its entries; every word of memory   *)
(* that differs has a stamp newer than x's clock at one of its addresses;  *)
(* the banks and the SPSRs of the modes but x's and t's are the same.      *)

StampsKept(c, e) ==
    /\ e.entries = c.entries /\ e.inval = c.inval /\ e.clock >= c.clock
    /\ \A k \in 0 .. STAMP_SLOTS - 1 : e.stamps[k] >= c.stamps[k]

WordsStamped(x, t) ==
    \A i \in 0 .. MemWords - 1 :
        \/ t.mem[i] = x.mem[i]
        \/ \E b \in Int : (b \div 4) % MemWords = i /\ t.cache.stamps[Slot(b)] > x.cache.clock

SameBank(r, q, m) ==
    /\ q.spsr[m] = r.spsr[m]
    /\ m = "fiq" => q.fiq_bank = r.fiq_bank
    /\ m # "fiq" => q.exc_bank[m] = r.exc_bank[m]

BanksKept(r, q) ==
    \A m \in SpsrModes : m = CurrentMode(r) \/ m = CurrentMode(q) \/ SameBank(r, q, m)

Moves(x, t) ==
    /\ IsMachine(t)
    /\ StampsKept(x.cache, t.cache)
    /\ WordsStamped(x, t)
    /\ BanksKept(x.regs, t.regs)

\* ... and still in the same mode.
Stays(x, t) == Moves(x, t) /\ CurrentMode(t.regs) = CurrentMode(x.regs)

LEMMA SlotRange ==
  ASSUME NEW a \in Int
  PROVE  Slot(a) \in 0 .. STAMP_SLOTS - 1
<1>1. a \div PageBytes \in Int
  BY SizeAssumption, DivMod
<1> QED BY <1>1, SizeAssumption, DivMod DEF Slot

LEMMA IndexRange ==
  ASSUME NEW a \in Int
  PROVE  (a \div 4) % MemWords \in 0 .. MemWords - 1
<1>1. a \div 4 \in Int
  BY DivMod
<1> QED BY <1>1, SizeAssumption, DivMod

LEMMA WordInt ==
  ASSUME NEW s, IsMachine(s), NEW a \in Int
  PROVE  WordAt(s, a) \in Int
BY IndexRange DEF WordAt, IsMachine

LEMMA CacheNumbers ==
  ASSUME NEW s, IsMachine(s)
  PROVE  /\ s.cache.clock \in Nat /\ s.cache.inval \in 0 .. s.cache.clock
         /\ \A k \in 0 .. STAMP_SLOTS - 1 : s.cache.stamps[k] \in 0 .. s.cache.clock
<1> DEFINE c == s.cache
<1>1. IsCache(c)
  BY DEF IsMachine
<1> HIDE DEF c
<1>2. /\ c.clock \in Nat /\ c.inval \in 0 .. c.clock
      /\ \A k \in 0 .. STAMP_SLOTS - 1 : c.stamps[k] \in 0 .. c.clock
  BY <1>1 DEF IsCache
<1> QED BY <1>2 DEF c

LEMMA StaysRefl == ASSUME NEW s, IsMachine(s) PROVE Stays(s, s)
<1>1. StampsKept(s.cache, s.cache)
  BY CacheNumbers DEF StampsKept
<1>2. WordsStamped(s, s)
  BY DEF WordsStamped
<1>3. BanksKept(s.regs, s.regs)
  BY DEF BanksKept, SameBank
<1> QED BY <1>1, <1>2, <1>3 DEF Stays, Moves

LEMMA StampsTrans ==
  ASSUME NEW x, NEW t, NEW u, IsMachine(x), IsMachine(t), IsMachine(u),
         StampsKept(x.cache, t.cache), WordsStamped(x, t),
         StampsKept(t.cache, u.cache), WordsStamped(t, u)
  PROVE  StampsKept(x.cache, u.cache) /\ WordsStamped(x, u)
<1>1. /\ x.cache.clock \in Nat /\ t.cache.clock \in Nat /\ u.cache.clock \in Nat
      /\ \A k \in 0 .. STAMP_SLOTS - 1 : /\ x.cache.stamps[k] \in Int /\ t.cache.stamps[k] \in Int
                                         /\ u.cache.stamps[k] \in Int
  <2>1. \A m : IsMachine(m) => /\ m.cache.clock \in Nat
                              /\ \A k \in 0 .. STAMP_SLOTS - 1 : m.cache.stamps[k] \in Int
    BY CacheNumbers
  <2> QED BY <2>1
<1>2. StampsKept(x.cache, u.cache)
  BY <1>1 DEF StampsKept
<1>3. ASSUME NEW i \in 0 .. MemWords - 1, u.mem[i] # x.mem[i]
      PROVE  \E b \in Int : (b \div 4) % MemWords = i /\ u.cache.stamps[Slot(b)] > x.cache.clock
  <2>1. CASE u.mem[i] # t.mem[i]
    <3>1. PICK b \in Int : (b \div 4) % MemWords = i /\ u.cache.stamps[Slot(b)] > t.cache.clock
      BY <2>1 DEF WordsStamped
    <3>2. u.cache.stamps[Slot(b)] \in Int
      BY <1>1, SlotRange
    <3>3. u.cache.stamps[Slot(b)] > x.cache.clock
      BY <1>1, <3>1, <3>2 DEF StampsKept
    <3> QED BY <3>1, <3>3
  <2>2. CASE u.mem[i] = t.mem[i]
    <3>1. PICK b \in Int : (b \div 4) % MemWords = i /\ t.cache.stamps[Slot(b)] > x.cache.clock
      BY <1>3, <2>2 DEF WordsStamped
    <3>2. /\ u.cache.stamps[Slot(b)] \in Int /\ t.cache.stamps[Slot(b)] \in Int
          /\ u.cache.stamps[Slot(b)] >= t.cache.stamps[Slot(b)]
      BY <1>1, SlotRange DEF StampsKept
    <3>3. u.cache.stamps[Slot(b)] > x.cache.clock
      BY <1>1, <3>1, <3>2
    <3> QED BY <3>1, <3>3
  <2> QED BY <2>1, <2>2
<1> QED BY <1>2, <1>3 DEF WordsStamped

\* One change of mode at most: what stays may come before it or after it.
LEMMA MovesStays ==
  ASSUME NEW x, NEW t, NEW u, IsMachine(x), Moves(x, t), Stays(t, u)
  PROVE  Moves(x, u)
<1>1. IsMachine(t) /\ IsMachine(u)
  BY DEF Stays, Moves
<1>2. StampsKept(x.cache, u.cache) /\ WordsStamped(x, u)
  BY <1>1, StampsTrans DEF Stays, Moves
<1>3. BanksKept(x.regs, u.regs)
  BY DEF Stays, Moves, BanksKept, SameBank
<1> QED BY <1>1, <1>2, <1>3 DEF Moves

LEMMA StaysMoves ==
  ASSUME NEW x, NEW t, NEW u, IsMachine(x), Stays(x, t), Moves(t, u)
  PROVE  Moves(x, u)
<1>1. IsMachine(t) /\ IsMachine(u)
  BY DEF Stays, Moves
<1>2. StampsKept(x.cache, u.cache) /\ WordsStamped(x, u)
  BY <1>1, StampsTrans DEF Stays, Moves
<1>3. BanksKept(x.regs, u.regs)
  BY DEF Stays, Moves, BanksKept, SameBank
<1> QED BY <1>1, <1>2, <1>3 DEF Moves

LEMMA StaysStays ==
  ASSUME NEW x, NEW t, NEW u, IsMachine(x), Stays(x, t), Stays(t, u)
  PROVE  Stays(x, u)
BY MovesStays DEF Stays

(* A new register file.                                                    *)
LEMMA RegsMove ==
  ASSUME NEW s, IsMachine(s), NEW r, IsRegs(r), BanksKept(s.regs, r)
  PROVE  /\ Moves(s, [s EXCEPT !.regs = r])
         /\ [s EXCEPT !.regs = r].regs = r
<1> DEFINE t == [s EXCEPT !.regs = r]
<1>1. /\ t = [x \in MachineNames |-> t[x]] /\ t.regs = r /\ t.cache = s.cache /\ t.mem = s.mem
      /\ t.start_pc = s.start_pc /\ t.host_trap = s.host_trap
  BY DEF IsMachine, MachineNames
<1> HIDE DEF t
<1>2. IsMachine(t)
  BY <1>1 DEF IsMachine
<1>3. StampsKept(s.cache, t.cache) /\ WordsStamped(s, t)
  BY <1>1, StaysRefl DEF Stays, Moves, WordsStamped
<1>4. Moves(s, t)
  BY <1>1, <1>2, <1>3 DEF Moves
<1> QED BY <1>1, <1>4 DEF t

LEMMA RegsStay ==
  ASSUME NEW s, IsMachine(s), NEW r, IsRegs(r), BanksKept(s.regs, r),
         CurrentMode(r) = CurrentMode(s.regs)
  PROVE  Stays(s, [s EXCEPT !.regs = r])
<1>1. Moves(s, [s EXCEPT !.regs = r]) /\ [s EXCEPT !.regs = r].regs = r
  BY RegsMove
<1> QED BY <1>1 DEF Stays

LEMMA GprRegs ==
  ASSUME NEW r, IsRegs(r), NEW i, NEW v \in Int
  PROVE  LET q == [r EXCEPT !.gpr[i] = v] IN IsRegs(q) /\ BanksKept(r, q) /\ q.cpsr = r.cpsr
<1> DEFINE q == [r EXCEPT !.gpr[i] = v]
<1>1. /\ q = [x \in RegNames |-> q[x]] /\ q.gpr = [r.gpr EXCEPT ![i] = v] /\ q.cpsr = r.cpsr
      /\ q.spsr = r.spsr /\ q.usr_bank = r.usr_bank /\ q.fiq_bank = r.fiq_bank /\ q.exc_bank = r.exc_bank
  BY DEF IsRegs, RegNames
<1> HIDE DEF q
<1>2. q.gpr \in [0 .. 15 -> Int]
  BY <1>1 DEF IsRegs
<1>3. IsRegs(q) /\ BanksKept(r, q)
  BY <1>1, <1>2 DEF IsRegs, BanksKept, SameBank
<1> QED BY <1>1, <1>3 DEF q

LEMMA SetGprStays ==
  ASSUME NEW s, IsMachine(s), NEW i, NEW v \in Int
  PROVE  Stays(s, SetGpr(s, i, v))
<1> DEFINE q == [s.regs EXCEPT !.gpr[i] = Wrap(v)]
<1>1. Wrap(v) \in Int /\ IsRegs(s.regs)
  BY WrapInt DEF IsMachine
<1>2. IsRegs(q) /\ BanksKept(s.regs, q) /\ q.cpsr = s.regs.cpsr
  BY <1>1, GprRegs
<1>3. SetGpr(s, i, v) = [s EXCEPT !.regs = q]
  BY DEF SetGpr
<1> HIDE DEF q
<1>4. Stays(s, [s EXCEPT !.regs = q])
  BY <1>2, RegsStay DEF CurrentMode
<1> QED BY <1>3, <1>4


-----------------------------------------------------------------------------
(* Stores.                                                                 *)

LEMMA StampCache ==
  ASSUME NEW c, IsCache(c), NEW a \in Int
  PROVE  LET e == stamp_write(c, a)
         IN  IsCache(e) /\ StampsKept(c, e) /\ e.stamps[Slot(a)] > c.clock
<1> DEFINE e == stamp_write(c, a)
<1>1. /\ e = [x \in CacheNames |-> e[x]] /\ e.entries = c.entries /\ e.inval = c.inval
      /\ e.clock = c.clock + 1 /\ e.stamps = [c.stamps EXCEPT ![Slot(a)] = c.clock + 1]
  BY DEF stamp_write, IsCache, CacheNames
<1>2. c.clock \in Nat /\ c.inval \in 0 .. c.clock /\ Slot(a) \in 0 .. STAMP_SLOTS - 1
  BY SlotRange DEF IsCache
<1>3. \A k \in 0 .. STAMP_SLOTS - 1 : c.stamps[k] \in 0 .. c.clock
  BY DEF IsCache
<1>4. c.stamps = [k \in 0 .. STAMP_SLOTS - 1 |-> c.stamps[k]]
  BY DEF IsCache
<1>5. \A k \in 0 .. ICACHE_ENTRIES - 1 : IsEntry(c, k)
  BY DEF IsCache
<1>6. c.entries = [k \in 0 .. ICACHE_ENTRIES - 1 |-> c.entries[k]]
  BY DEF IsCache
<1> HIDE DEF e
<1>7. \A k \in 0 .. STAMP_SLOTS - 1 :
        e.stamps[k] = IF k = Slot(a) THEN c.clock + 1 ELSE c.stamps[k]
  BY <1>1, <1>4
<1>8. e.stamps \in [0 .. STAMP_SLOTS - 1 -> 0 .. e.clock]
  <2>1. \A k \in 0 .. STAMP_SLOTS - 1 : e.stamps[k] \in 0 .. e.clock
    BY <1>1, <1>2, <1>3, <1>7
  <2>2. e.stamps = [k \in 0 .. STAMP_SLOTS - 1 |-> e.stamps[k]]
    BY <1>1, <1>4
  <2> QED BY <2>1, <2>2
<1>9. \A k \in 0 .. ICACHE_ENTRIES - 1 : IsEntry(e, k)
  BY <1>1, <1>2, <1>5 DEF IsEntry
<1>10. IsCache(e)
  <2>1. e.clock \in Nat /\ e.inval \in 0 .. e.clock
    BY <1>1, <1>2
  <2>2. e.entries = [k \in 0 .. ICACHE_ENTRIES - 1 |-> e.entries[k]]
    BY <1>1, <1>6
  <2>3. e = [x \in CacheNames |-> e[x]]
    BY <1>1
  <2> QED BY <1>8, <1>9, <2>1, <2>2, <2>3 DEF IsCache
<1>11. StampsKept(c, e)
  BY <1>1, <1>2, <1>3, <1>7 DEF StampsKept
<1>12. e.stamps[Slot(a)] > c.clock
  BY <1>2, <1>7
<1> QED BY <1>10, <1>11, <1>12 DEF e

\* The bits of a word below the byte an address selects.
LEMMA ByteOffset ==
  ASSUME NEW a \in Int
  PROVE  ByteBits * (a % 4) \in 0 .. W /\ 2^(ByteBits * (a % 4)) \in Nat \ {0}
<1>1. a % 4 \in {0, 1, 2, 3}
  BY DivMod
<1>2. /\ ByteBits * 0 \in 0 .. W /\ ByteBits * 1 \in 0 .. W
      /\ ByteBits * 2 \in 0 .. W /\ ByteBits * 3 \in 0 .. W
  BY Width
<1>3. ByteBits * (a % 4) \in 0 .. W
  BY <1>1, <1>2
<1> QED BY <1>3, PowerAssumption

LEMMA StoreStays ==
  ASSUME NEW s, IsMachine(s), NEW a \in Int, NEW bits \in 0 .. W, NEW v \in Int
  PROVE  Stays(s, Store(s, a, bits, v))
<1> DEFINE c == stamp_write(s.cache, a)
           p == [s EXCEPT !.cache = c]
           k == (a \div 4) % MemWords
           lo == 2^(ByteBits * (a % 4))
           old == s.mem[k]
           new == old - ((old \div lo) % 2^bits) * lo + (v % 2^bits) * lo
           t == [p EXCEPT !.mem[k] = new]
<1>1. IsCache(c) /\ StampsKept(s.cache, c) /\ c.stamps[Slot(a)] > s.cache.clock
  BY StampCache DEF IsMachine
<1>2. k \in 0 .. MemWords - 1 /\ old \in Int
  BY IndexRange DEF IsMachine
<1>3. new \in Int
  <2>1. lo \in Nat \ {0} /\ 2^bits \in Nat \ {0}
    BY ByteOffset, PowerAssumption
  <2> HIDE DEF old, lo
  <2> DEFINE two == 2^bits
  <2>2. two \in Nat \ {0}
    BY <2>1
  <2> HIDE DEF two
  <2>3. old \in Int /\ old \div lo \in Int
    BY <1>2, <2>1, DivMod
  <2>4. (old \div lo) % two \in Int /\ v % two \in Int
    BY <2>2, <2>3, DivMod
  <2>5. ((old \div lo) % two) * lo \in Int /\ (v % two) * lo \in Int
    BY <2>1, <2>4
  <2> QED BY <2>3, <2>5 DEF two
<1> HIDE DEF c
<1>4. Store(s, a, bits, v) = t
  <2>1. WordAt(p, a) = old
    BY DEF WordAt, IsMachine, MachineNames
  <2> QED BY <2>1 DEF Store, Poke, c
<1> HIDE DEF new, k, old
<1>5. /\ p = [x \in MachineNames |-> p[x]] /\ p.regs = s.regs /\ p.cache = c /\ p.mem = s.mem
      /\ p.start_pc = s.start_pc /\ p.host_trap = s.host_trap
  BY DEF IsMachine, MachineNames
<1> HIDE DEF p
<1>6. /\ t = [x \in MachineNames |-> t[x]] /\ t.regs = s.regs /\ t.cache = c
      /\ t.mem = [s.mem EXCEPT ![k] = new]
      /\ t.start_pc = s.start_pc /\ t.host_trap = s.host_trap
  BY <1>5 DEF MachineNames
<1> HIDE DEF t
<1>7. t.mem \in [0 .. MemWords - 1 -> Int]
  BY <1>3, <1>6 DEF IsMachine
<1>8. IsMachine(t)
  BY <1>1, <1>6, <1>7 DEF IsMachine
<1>9. WordsStamped(s, t)
  <2>1. \A i \in 0 .. MemWords - 1 : i # k => t.mem[i] = s.mem[i]
    BY <1>6 DEF IsMachine
  <2>2. (a \div 4) % MemWords = k /\ t.cache.stamps[Slot(a)] > s.cache.clock
    BY <1>1, <1>6 DEF k
  <2> QED BY <2>1, <2>2 DEF WordsStamped
<1>10. BanksKept(s.regs, t.regs)
  BY <1>6 DEF BanksKept, SameBank
<1>11. Stays(s, t)
  BY <1>1, <1>6, <1>8, <1>9, <1>10 DEF Stays, Moves
<1> QED BY <1>4, <1>11

LEMMA WriteStays ==
  ASSUME NEW s, IsMachine(s), NEW a \in Int, NEW v \in Int
  PROVE  Stays(s, write8(s, a, v)) /\ Stays(s, write16(s, a, v)) /\ Stays(s, write32(s, a, v))
<1>1. ByteBits \in 0 .. W /\ 2 * ByteBits \in 0 .. W /\ W \in 0 .. W
  BY Width
<1> QED BY <1>1, StoreStays DEF write8, write16, write32

-----------------------------------------------------------------------------
(* Status registers and modes.                                             *)

LEMMA CpsrRegs ==
  ASSUME NEW r, IsRegs(r), NEW p, IsPsr(p)
  PROVE  LET q == [r EXCEPT !.cpsr = p] IN IsRegs(q) /\ BanksKept(r, q) /\ q.cpsr = p
<1> DEFINE q == [r EXCEPT !.cpsr = p]
<1>1. /\ q = [x \in RegNames |-> q[x]] /\ q.gpr = r.gpr /\ q.cpsr = p
      /\ q.spsr = r.spsr /\ q.usr_bank = r.usr_bank /\ q.fiq_bank = r.fiq_bank /\ q.exc_bank = r.exc_bank
  BY DEF IsRegs, RegNames
<1> HIDE DEF q
<1>2. IsRegs(q) /\ BanksKept(r, q)
  BY <1>1 DEF IsRegs, BanksKept, SameBank
<1> QED BY <1>1, <1>2 DEF q

\* New flags in the same mode.
LEMMA FlagsStay ==
  ASSUME NEW s, IsMachine(s), NEW p, IsPsr(p), p.mode = s.regs.cpsr.mode
  PROVE  Stays(s, [s EXCEPT !.regs.cpsr = p])
<1> DEFINE q == [s.regs EXCEPT !.cpsr = p]
<1>1. IsRegs(q) /\ BanksKept(s.regs, q) /\ q.cpsr = p
  BY CpsrRegs DEF IsMachine
<1>2. [s EXCEPT !.regs.cpsr = p] = [s EXCEPT !.regs = q]
  OBVIOUS
<1> HIDE DEF q
<1>3. Stays(s, [s EXCEPT !.regs = q])
  BY <1>1, RegsStay DEF CurrentMode
<1> QED BY <1>2, <1>3

LEMMA ModeOfBits ==
  ASSUME NEW m \in Modes
  PROVE  ModeOf(ModeBits[m]) = m /\ ModeBits[m] \in Int
BY DEF Modes, ModeOf, ModeBits

LEMMA ModeIsMode == ASSUME NEW x PROVE ModeOf(x) \in Modes
BY DEF ModeOf, Modes

\* The banks of the SPSR modes but the old one are not touched.
LEMMA SpilledRegs ==
  ASSUME NEW r, IsRegs(r)
  PROVE  LET q == Spilled(r)
         IN  /\ IsRegs(q) /\ q.cpsr = r.cpsr /\ q.gpr = r.gpr
             /\ \A m \in SpsrModes : m = CurrentMode(r) \/ SameBank(r, q, m)
<1> DEFINE q == Spilled(r)
           old == CurrentMode(r)
           fb == [i \in 8 .. 14 |-> r.gpr[i]]
           ub == [i \in 8 .. 14 |-> IF i <= 12 \/ ~has_spsr(old) THEN r.gpr[i] ELSE r.usr_bank[i]]
           eb == [m \in ExcModes |-> [i \in 13 .. 14 |-> IF m = old THEN r.gpr[i] ELSE r.exc_bank[m][i]]]
<1>1. /\ r.gpr \in [0 .. 15 -> Int] /\ r.usr_bank \in [8 .. 14 -> Int]
      /\ \A m \in ExcModes : r.exc_bank[m] \in [13 .. 14 -> Int]
  BY DEF IsRegs
<1>2. fb \in [8 .. 14 -> Int] /\ ub \in [8 .. 14 -> Int]
  BY <1>1
<1>3. eb \in [ExcModes -> [13 .. 14 -> Int]]
  BY <1>1
<1>4. \A m \in ExcModes : m # old => eb[m] = r.exc_bank[m]
  BY <1>1
<1>5. SpsrModes \ {"fiq"} = ExcModes
  BY DEF ExcModes
<1>6. CASE old = "fiq"
  <2>1. q = [r EXCEPT !.fiq_bank = fb]
    BY <1>6 DEF Spilled
  <2> HIDE DEF fb
  <2>2. /\ q = [x \in RegNames |-> q[x]] /\ q.gpr = r.gpr /\ q.cpsr = r.cpsr /\ q.spsr = r.spsr
        /\ q.usr_bank = r.usr_bank /\ q.fiq_bank = fb /\ q.exc_bank = r.exc_bank
    BY <2>1 DEF IsRegs, RegNames
  <2> HIDE DEF q
  <2>3. IsRegs(q)
    BY <1>2, <2>2 DEF IsRegs
  <2>4. \A m \in SpsrModes : m = old \/ SameBank(r, q, m)
    BY <1>6, <2>2 DEF SameBank
  <2> QED BY <2>2, <2>3, <2>4 DEF q
<1>7. CASE old # "fiq"
  <2>1. q = [r EXCEPT !.usr_bank = ub, !.exc_bank = eb]
    BY <1>7 DEF Spilled
  <2> HIDE DEF ub, eb
  <2>2. /\ q = [x \in RegNames |-> q[x]] /\ q.gpr = r.gpr /\ q.cpsr = r.cpsr /\ q.spsr = r.spsr
        /\ q.usr_bank = ub /\ q.fiq_bank = r.fiq_bank /\ q.exc_bank = eb
    BY <2>1 DEF IsRegs, RegNames
  <2> HIDE DEF q
  <2>3. IsRegs(q)
    BY <1>2, <1>3, <2>2 DEF IsRegs
  <2>4. \A m \in SpsrModes : m = old \/ SameBank(r, q, m)
    BY <1>4, <1>5, <1>7, <2>2 DEF SameBank
  <2> QED BY <2>2, <2>3, <2>4 DEF q
<1> QED BY <1>6, <1>7

LEMMA LoadedRegs ==
  ASSUME NEW r, IsRegs(r), NEW m \in Modes
  PROVE  LET q == Loaded(r, m)
         IN  /\ IsRegs(q) /\ q.cpsr = r.cpsr /\ q.spsr = r.spsr
             /\ q.fiq_bank = r.fiq_bank /\ q.exc_bank = r.exc_bank
<1> DEFINE q == Loaded(r, m)
           g == [i \in 0 .. 15 |->
                    CASE i \in 8 .. 14 /\ m = "fiq" -> r.fiq_bank[i]
                      [] i \in 8 .. 12 /\ m # "fiq" -> r.usr_bank[i]
                      [] i \in 13 .. 14 /\ m \in ExcModes -> r.exc_bank[m][i]
                      [] i \in 13 .. 14 /\ ~has_spsr(m) -> r.usr_bank[i]
                      [] OTHER -> r.gpr[i]]
<1>1. /\ \A i \in 8 .. 14 : r.fiq_bank[i] \in Int /\ r.usr_bank[i] \in Int
      /\ m \in ExcModes => \A i \in 13 .. 14 : r.exc_bank[m][i] \in Int
      /\ \A i \in 0 .. 15 : r.gpr[i] \in Int
  BY DEF IsRegs
<1>2. has_spsr(m) /\ m # "fiq" => m \in ExcModes
  BY DEF ExcModes, SpsrModes
<1>3. \A i \in 0 .. 15 : g[i] \in Int
  <2> SUFFICES ASSUME NEW i \in 0 .. 15 PROVE g[i] \in Int
    OBVIOUS
  <2>1. CASE i \in 8 .. 14 /\ m = "fiq"
    BY <1>1, <2>1
  <2>2. CASE i \in 8 .. 12 /\ m # "fiq"
    BY <1>1, <2>2
  <2>3. CASE i \in 13 .. 14 /\ m \in ExcModes
    BY <1>1, <2>3 DEF ExcModes
  <2>4. CASE i \in 13 .. 14 /\ ~has_spsr(m)
    BY <1>1, <2>4 DEF has_spsr, ExcModes, SpsrModes
  <2>5. CASE i \notin 8 .. 14
    BY <1>1, <2>5
  <2> QED BY <1>2, <2>1, <2>2, <2>3, <2>4, <2>5
<1>4. g \in [0 .. 15 -> Int]
  BY <1>3
<1>5. q = [r EXCEPT !.gpr = g]
  BY DEF Loaded
<1> HIDE DEF g
<1>6. /\ q = [x \in RegNames |-> q[x]] /\ q.gpr = g /\ q.cpsr = r.cpsr /\ q.spsr = r.spsr
      /\ q.usr_bank = r.usr_bank /\ q.fiq_bank = r.fiq_bank /\ q.exc_bank = r.exc_bank
  BY <1>5 DEF IsRegs, RegNames
<1> HIDE DEF q
<1>7. IsRegs(q)
  BY <1>4, <1>6 DEF IsRegs
<1> QED BY <1>6, <1>7 DEF q

LEMMA SetModeRegs ==
  ASSUME NEW r, IsRegs(r), NEW new \in Modes
  PROVE  LET q == set_mode(r, new)
         IN  /\ IsRegs(q) /\ CurrentMode(q) = new
             /\ \A m \in SpsrModes : m = CurrentMode(r) \/ SameBank(r, q, m)
<1> DEFINE w == IF CurrentMode(r) = new THEN r ELSE Loaded(Spilled(r), new)
           p == [w.cpsr EXCEPT !.mode = ModeBits[new]]
           q == [w EXCEPT !.cpsr = p]
<1>1. /\ IsRegs(w)
      /\ \A m \in SpsrModes : m = CurrentMode(r) \/ SameBank(r, w, m)
  <2>1. CASE CurrentMode(r) = new
    BY <2>1 DEF SameBank
  <2>2. CASE CurrentMode(r) # new
    <3> DEFINE u == Spilled(r)
               v == Loaded(u, new)
    <3>1. /\ IsRegs(u)
          /\ \A m \in SpsrModes : m = CurrentMode(r) \/ SameBank(r, u, m)
      BY SpilledRegs
    <3> HIDE DEF u
    <3>2. IsRegs(v) /\ v.spsr = u.spsr /\ v.fiq_bank = u.fiq_bank /\ v.exc_bank = u.exc_bank
      BY <3>1, LoadedRegs
    <3>3. w = v
      BY <2>2 DEF u
    <3> HIDE DEF v, w
    <3> QED BY <3>1, <3>2, <3>3 DEF SameBank
  <2> QED BY <2>1, <2>2
<1> HIDE DEF w
<1>2. IsPsr(p) /\ p.mode = ModeBits[new]
  BY <1>1, ModeOfBits DEF IsRegs, IsPsr, PsrNames
<1>3. set_mode(r, new) = q
  BY DEF set_mode, w
<1> HIDE DEF p
<1>4. IsRegs(q) /\ q.cpsr = p
  BY <1>1, <1>2, CpsrRegs
<1>5. q.spsr = w.spsr /\ q.fiq_bank = w.fiq_bank /\ q.exc_bank = w.exc_bank
  BY <1>1 DEF IsRegs, RegNames
<1> HIDE DEF q
<1>6. CurrentMode(q) = new
  BY <1>2, <1>4, ModeOfBits DEF CurrentMode
<1> QED BY <1>1, <1>3, <1>4, <1>5, <1>6 DEF SameBank


LEMMA TakePsrMoves ==
  ASSUME NEW s, IsMachine(s), NEW p, IsPsr(p)
  PROVE  Moves(s, TakePsr(s, p))
<1> DEFINE r == s.regs
           w == set_mode(r, ModeOf(p.mode))
           q == [w EXCEPT !.cpsr = p]
<1>1. IsRegs(r)
  BY DEF IsMachine
<1>2. /\ IsRegs(w)
      /\ \A m \in SpsrModes : m = CurrentMode(r) \/ SameBank(r, w, m)
  BY <1>1, ModeIsMode, SetModeRegs
<1> HIDE DEF w
<1>3. IsRegs(q) /\ q.cpsr = p
  BY <1>2, CpsrRegs
<1>4. q.spsr = w.spsr /\ q.fiq_bank = w.fiq_bank /\ q.exc_bank = w.exc_bank
  BY <1>2 DEF IsRegs, RegNames
<1>5. TakePsr(s, p) = [s EXCEPT !.regs = q]
  BY DEF TakePsr, w
<1> HIDE DEF q
<1>6. BanksKept(r, q)
  BY <1>2, <1>4 DEF BanksKept, SameBank
<1> QED BY <1>3, <1>5, <1>6, RegsMove

LEMMA RestoreMoves ==
  ASSUME NEW s, IsMachine(s)
  PROVE  Moves(s, restore_cpsr(s))
<1> DEFINE m == CurrentMode(s.regs)
<1>1. m \in Modes
  BY ModeIsMode DEF CurrentMode
<1>2. has_spsr(m) => IsPsr(s.regs.spsr[m])
  BY <1>1 DEF IsMachine, IsRegs, SpsrModes
<1>3. Moves(s, s)
  BY StaysRefl DEF Stays
<1> QED BY <1>2, <1>3, TakePsrMoves DEF restore_cpsr

Exceptions == {"Undefined", "Swi", "PrefetchAbort", "DataAbort", "Irq", "Fiq"}

LEMMA RaiseMoves ==
  ASSUME NEW s, IsMachine(s), NEW e \in Exceptions
  PROVE  Moves(s, raise(s, e))
<1> DEFINE ret == CASE e \in {"Undefined", "Swi"} -> Gpr(s, 15)
                    [] e = "PrefetchAbort" -> s.start_pc + 4
                    [] e = "DataAbort" -> s.start_pc + 8
                    [] e \in {"Irq", "Fiq"} -> Gpr(s, 15) + 4
           m == ModeFor[e]
           r == set_mode(s.regs, m)
           p == [r.cpsr EXCEPT !.t = FALSE, !.i = TRUE, !.f = @ \/ e = "Fiq"]
           sp == [r.spsr EXCEPT ![m] = s.regs.cpsr]
           g == [r.gpr EXCEPT ![14] = Wrap(ret), ![15] = Vector[e]]
           q == [r EXCEPT !.spsr[m] = s.regs.cpsr, !.gpr[14] = Wrap(ret), !.gpr[15] = Vector[e],
                          !.cpsr.t = FALSE, !.cpsr.i = TRUE, !.cpsr.f = @ \/ e = "Fiq"]
<1>1. IsRegs(s.regs) /\ s.start_pc \in Int /\ Gpr(s, 15) \in Int
  <2>1. IsRegs(s.regs) /\ s.start_pc \in Int
    BY DEF IsMachine
  <2>2. s.regs.gpr[15] \in Int
    BY <2>1 DEF IsRegs
  <2> QED BY <2>1, <2>2 DEF Gpr
<1>2. ret \in Int
  BY <1>1 DEF Exceptions
<1>3. Wrap(ret) \in Int /\ Vector[e] \in Int /\ m \in SpsrModes
  BY <1>2, WrapInt DEF Vector, ModeFor, Exceptions, SpsrModes, Modes, has_spsr
<1>4. m \in Modes
  BY <1>3 DEF SpsrModes
<1>5. /\ IsRegs(r) /\ CurrentMode(r) = m
      /\ \A n \in SpsrModes : n = CurrentMode(s.regs) \/ SameBank(s.regs, r, n)
  BY <1>1, <1>4, SetModeRegs
<1> HIDE DEF ret, m, r
<1>6. raise(s, e) = [s EXCEPT !.regs = q]
  BY DEF raise, ret, m, r
<1>7. IsPsr(p) /\ p.mode = r.cpsr.mode
  BY <1>5 DEF IsRegs, IsPsr, PsrNames
<1>8. sp = [n \in SpsrModes |-> sp[n]] /\ \A n \in SpsrModes : IsPsr(sp[n])
  BY <1>1, <1>5 DEF IsRegs
<1>9. \A n \in SpsrModes \ {m} : sp[n] = r.spsr[n]
  BY <1>5 DEF IsRegs
<1>10. g \in [0 .. 15 -> Int]
  BY <1>3, <1>5 DEF IsRegs
<1>11. /\ q = [x \in RegNames |-> q[x]] /\ q.gpr = g /\ q.cpsr = p /\ q.spsr = sp
       /\ q.usr_bank = r.usr_bank /\ q.fiq_bank = r.fiq_bank /\ q.exc_bank = r.exc_bank
  BY ZenonT(60), <1>5 DEF IsRegs, RegNames
<1> HIDE DEF p, sp, g, q
<1>12. IsRegs(q)
  BY <1>5, <1>7, <1>8, <1>10, <1>11 DEF IsRegs
<1>13. CurrentMode(q) = m
  BY <1>5, <1>7, <1>11 DEF CurrentMode
<1>14. BanksKept(s.regs, q)
  BY <1>5, <1>9, <1>11, <1>13 DEF BanksKept, SameBank
<1> QED BY <1>6, <1>12, <1>14, RegsMove

(* The boundary events and the trap are not the processor's state.         *)
LEMMA EventsStay ==
  ASSUME NEW s, IsMachine(s), NEW b, NEW e \in {"none", "Syscall", "Undefined"}
  PROVE  /\ Stays(s, [s EXCEPT !.doorbell = b]) /\ Stays(s, [s EXCEPT !.halted = b])
         /\ Stays(s, [s EXCEPT !.irq = b]) /\ Stays(s, [s EXCEPT !.fiq = b])
         /\ Stays(s, [s EXCEPT !.host_trap = e])
         /\ Stays(s, [s EXCEPT !.host_trap = e, !.doorbell = b])
<1>1. ASSUME NEW t, t = [x \in MachineNames |-> t[x]], t.regs = s.regs, t.cache = s.cache,
             t.mem = s.mem, t.start_pc = s.start_pc, t.host_trap \in {"none", "Syscall", "Undefined"}
      PROVE  Stays(s, t)
  <2>1. IsMachine(t)
    BY <1>1 DEF IsMachine
  <2>2. WordsStamped(s, t) /\ BanksKept(s.regs, t.regs) /\ StampsKept(s.cache, t.cache)
    BY <1>1, StaysRefl DEF Stays, Moves, WordsStamped
  <2> QED BY <1>1, <2>1, <2>2 DEF Stays, Moves
<1>2. /\ Stays(s, [s EXCEPT !.doorbell = b]) /\ Stays(s, [s EXCEPT !.halted = b])
  BY <1>1 DEF IsMachine, MachineNames
<1>3. /\ Stays(s, [s EXCEPT !.irq = b]) /\ Stays(s, [s EXCEPT !.fiq = b])
  BY <1>1 DEF IsMachine, MachineNames
<1>4. /\ Stays(s, [s EXCEPT !.host_trap = e])
  BY <1>1 DEF IsMachine, MachineNames
<1>5. /\ Stays(s, [s EXCEPT !.host_trap = e, !.doorbell = b])
  <2> DEFINE u == [s EXCEPT !.host_trap = e]
             w == [u EXCEPT !.doorbell = b]
  <2>1. /\ u = [x \in MachineNames |-> u[x]] /\ u.regs = s.regs /\ u.cache = s.cache
        /\ u.mem = s.mem /\ u.start_pc = s.start_pc /\ u.host_trap = e
    BY DEF IsMachine, MachineNames
  <2>2. [s EXCEPT !.host_trap = e, !.doorbell = b] = w
    OBVIOUS
  <2> HIDE DEF u
  <2>3. /\ w = [x \in MachineNames |-> w[x]] /\ w.regs = s.regs /\ w.cache = s.cache
        /\ w.mem = s.mem /\ w.start_pc = s.start_pc /\ w.host_trap = e
    BY <2>1 DEF MachineNames
  <2> HIDE DEF w
  <2> QED BY <1>1, <2>2, <2>3
<1> QED BY <1>2, <1>3, <1>4, <1>5

LEMMA TrapStays ==
  ASSUME NEW s, IsMachine(s), NEW e \in {"Syscall", "Undefined"}
  PROVE  Stays(s, set_host_trap(s, e))
BY EventsStay DEF set_host_trap

LEMMA FaultMoves ==
  ASSUME NEW s, IsMachine(s)
  PROVE  Moves(s, fault_epilogue(s, "Undefined"))
<1> DEFINE t == SetGpr(s, 15, s.start_pc)
<1>1. Stays(s, t) /\ IsMachine(t)
  BY SetGprStays DEF IsMachine, Stays, Moves
<1> HIDE DEF t
<1>2. Stays(t, set_host_trap(t, "Undefined"))
  BY <1>1, TrapStays
<1>3. Moves(s, set_host_trap(t, "Undefined"))
  BY <1>1, <1>2, MovesStays DEF Stays
<1>4. Moves(s, raise(s, "Undefined"))
  BY RaiseMoves DEF Exceptions
<1> QED BY <1>3, <1>4 DEF fault_epilogue, t

-----------------------------------------------------------------------------
(* Operands and results.                                                   *)

LEMMA RegInt ==
  ASSUME NEW s, IsMachine(s)
  PROVE  /\ \A i \in 0 .. 15 : Gpr(s, i) \in Int /\ reg_op12(s, i) \in Int
         /\ \A i \in 0 .. 16 : reg_op(s, i) \in Int
         /\ pc_op(s) \in Int /\ pc_store(s) \in Int
<1>1. s.start_pc \in Int /\ \A i \in 0 .. 15 : Gpr(s, i) \in Int
  BY DEF IsMachine, IsRegs, Gpr
<1>2. pc_op(s) \in Int /\ pc_store(s) \in Int /\ Wrap(s.start_pc + 12) \in Int
  BY <1>1, WrapInt DEF pc_op, pc_store
<1>3. \A i \in 0 .. 15 : reg_op12(s, i) \in Int
  BY <1>1, <1>2 DEF reg_op12
<1>4. pc_op(s) - (pc_op(s) % 4) \in Int
  BY <1>2
<1>5. \A i \in 0 .. 16 : reg_op(s, i) \in Int
  BY <1>1, <1>2, <1>4 DEF reg_op, PCA
<1> QED BY <1>1, <1>2, <1>3, <1>5

LEMMA BranchStays ==
  ASSUME NEW s, IsMachine(s), NEW v \in Int
  PROVE  Stays(s, branch_to(s, v))
<1>1. Wrap(v) \in Int /\ Wrap(v) - (Wrap(v) % 2) \in Int
  BY WrapInt
<1> QED BY <1>1, SetGprStays DEF branch_to

LEMMA SetRegStays ==
  ASSUME NEW s, IsMachine(s), NEW i, NEW v \in Int
  PROVE  Stays(s, set_reg(s, i, v))
BY SetGprStays, BranchStays DEF set_reg

LEMMA SetNz ==
  ASSUME NEW p, IsPsr(p), NEW v
  PROVE  IsPsr(set_nz(p, v)) /\ set_nz(p, v).mode = p.mode
BY DEF set_nz, IsPsr, PsrNames

LEMMA PsrWriteIsPsr ==
  ASSUME NEW p, IsPsr(p), NEW v \in Int, NEW control, NEW flags
  PROVE  IsPsr(PsrWrite(p, v, control, flags))
<1> DEFINE q == PsrWrite(p, v, control, flags)
<1>1. q = [x \in PsrNames |-> q[x]]
  BY DEF PsrWrite, PsrNames
<1>2. q.mode = IF control THEN v % 32 ELSE p.mode
  BY DEF PsrWrite
<1>3. v % 32 \in Int /\ p.mode \in Int
  BY DEF IsPsr
<1> QED BY <1>1, <1>2, <1>3 DEF IsPsr

LEMMA PsrInt ==
  ASSUME NEW p, IsPsr(p)
  PROVE  Psr2Word(p) \in Int
<1>1. W - 4 \in 0 .. W
  BY Width
<1>2. 2^(W - 4) \in Int /\ p.mode \in Int
  BY <1>1, PowerAssumption DEF IsPsr
<1>3. /\ Num(p.t) \in Int /\ Num(p.f) \in Int /\ Num(p.i) \in Int /\ Num(p.v) \in Int
      /\ Num(p.c) \in Int /\ Num(p.z) \in Int /\ Num(p.n) \in Int
  BY NumInt
<1>4. 2^(W - 4) * (Num(p.v) + 2 * Num(p.c) + 4 * Num(p.z) + 8 * Num(p.n)) \in Int
  BY <1>2, <1>3
<1> QED BY <1>2, <1>3, <1>4 DEF Psr2Word


LEMMA AmountRange ==
  ASSUME NEW d, IsInsn(d), d.op \in {"DpShImm", "Ldr", "Str"}
  PROVE  d.rs \in 0 .. W - 1
BY Width DEF IsInsn, IsDecoded, AmountFits

LEMMA Operand2Int ==
  ASSUME NEW s, IsMachine(s), NEW d, IsInsn(d), d.op \in {"DpImm", "DpShImm", "DpShReg"}
  PROVE  Operand2(s, d).v \in Int
<1>1. /\ d.imm \in Int /\ d.rm \in 0 .. 15 /\ d.rm \in 0 .. 16
      /\ d.op = "DpShReg" => d.rs \in 0 .. 15 /\ d.rs \in 0 .. 16
      /\ d.op # "DpImm" => d.ty \in 0 .. 3
  BY DEF IsInsn, IsDecoded
<1>2. CASE d.op = "DpImm"
  BY <1>1, <1>2 DEF Operand2
<1>3. CASE d.op = "DpShImm"
  <2>1. d.rs \in 0 .. W - 1 /\ reg_op(s, d.rm) \in Int /\ d.ty \in 0 .. 3
    BY <1>1, <1>3, AmountRange, RegInt
  <2>2. shift_imm(d.ty, d.rs, reg_op(s, d.rm), s.regs.cpsr.c).v \in Int
    BY <2>1, ShiftImmInt
  <2> QED BY <1>3, <2>2 DEF Operand2
<1>4. CASE d.op = "DpShReg"
  <2>1. reg_op(s, d.rs) \in Int /\ reg_op12(s, d.rm) \in Int /\ d.ty \in 0 .. 3
    BY <1>1, <1>4, RegInt
  <2>2. 2^8 \in Nat \ {0}
    OBVIOUS
  <2>3. reg_op(s, d.rs) % 2^8 \in Nat
    BY <2>1, <2>2, DivMod
  <2>4. shift_reg(d.ty, reg_op(s, d.rs) % 2^8, reg_op12(s, d.rm), s.regs.cpsr.c).v \in Int
    BY <2>1, <2>3, ShiftRegInt
  <2> QED BY <1>4, <2>4 DEF Operand2
<1> QED BY <1>2, <1>3, <1>4

-----------------------------------------------------------------------------
(* The instructions.                                                       *)

LEMMA DpMoves ==
  ASSUME NEW s, IsMachine(s), NEW d, IsInsn(d), d.op \in {"DpImm", "DpShImm", "DpShReg"}
  PROVE  Moves(s, exec_dp(s, d))
<1> DEFINE p == s.regs.cpsr
           rn == IF d.op = "DpShReg" THEN reg_op12(s, d.rn) ELSE reg_op(s, d.rn)
           writes == d.sub \notin Tests
           restores == d.rd = 15 /\ "s" \in d.aux /\ has_spsr(CurrentMode(s.regs))
           op2 == Operand2(s, d)
           x == AluResult(d.sub, rn, op2.v, op2.c, p)
           q == [set_nz(p, x.v) EXCEPT !.c = x.c, !.v = IF d.sub \in Logical THEN @ ELSE x.o]
           flagged == IF "s" \in d.aux /\ ~(restores /\ writes) THEN [s EXCEPT !.regs.cpsr = q] ELSE s
           restored == IF restores THEN restore_cpsr(flagged) ELSE flagged
           written == IF writes THEN set_reg(restored, d.rd, x.v) ELSE restored
<1>1. rn \in Int
  BY RegInt DEF IsInsn, IsDecoded
<1>2. op2.v \in Int /\ d.sub \in {AluOps[k] : k \in 1 .. 16}
  BY Operand2Int DEF IsInsn, IsDecoded
<1>3. exec_dp(s, d) = written
  BY DEF exec_dp
<1> HIDE DEF rn, op2
<1>4. x.v \in Int
  BY <1>1, <1>2, AluInt
<1> HIDE DEF x
<1>5. IsPsr(p) /\ IsPsr(set_nz(p, x.v)) /\ set_nz(p, x.v).mode = p.mode
  BY SetNz DEF IsMachine, IsRegs
<1>6. IsPsr(q) /\ q.mode = p.mode
  BY <1>5 DEF IsPsr, PsrNames
<1> HIDE DEF q
<1>7. Stays(s, flagged) /\ IsMachine(flagged)
  BY <1>6, FlagsStay, StaysRefl DEF Stays, Moves
<1> HIDE DEF flagged
<1>8. Moves(flagged, restored) /\ IsMachine(restored)
  BY <1>7, RestoreMoves, StaysRefl DEF Stays, Moves
<1> HIDE DEF restored
<1>9. Moves(s, restored)
  BY <1>7, <1>8, StaysMoves
<1>10. Stays(restored, written)
  BY <1>4, <1>8, SetRegStays, StaysRefl
<1> HIDE DEF written
<1>11. Moves(s, written)
  BY <1>9, <1>10, MovesStays
<1> QED BY <1>3, <1>11

LEMMA MulStays ==
  ASSUME NEW s, IsMachine(s), NEW d, IsInsn(d), d.op = "Mul"
  PROVE  Stays(s, exec_mul(s, d))
<1> DEFINE a == reg_op12(s, d.rm)
           b == reg_op12(s, d.rs)
           c == IF "acc" \in d.aux THEN reg_op12(s, d.rn) ELSE 0
           r == Wrap(Wrap(a) * b + c)
           t == set_reg(s, d.rd, r)
           p == set_nz(t.regs.cpsr, r)
<1>1. d.rm \in 0 .. 15 /\ d.rs \in 0 .. 15 /\ d.rn \in 0 .. 15
  BY DEF IsInsn, IsDecoded
<1>2. a \in Int /\ b \in Int /\ c \in Int
  BY <1>1, RegInt
<1>3. exec_mul(s, d) = IF "s" \in d.aux THEN [t EXCEPT !.regs.cpsr = p] ELSE t
  BY DEF exec_mul
<1> HIDE DEF a, b, c
<1>4. Wrap(a) * b + c \in Int
  BY <1>2, WrapInt
<1>5. r \in Int
  BY <1>4, WrapInt
<1> HIDE DEF r
<1>6. Stays(s, t) /\ IsMachine(t)
  BY <1>5, SetRegStays DEF Stays, Moves
<1> HIDE DEF t
<1>7. IsPsr(p) /\ p.mode = t.regs.cpsr.mode
  BY <1>6, SetNz DEF IsMachine, IsRegs
<1> HIDE DEF p
<1>8. Stays(t, [t EXCEPT !.regs.cpsr = p])
  BY <1>6, <1>7, FlagsStay
<1>9. Stays(s, [t EXCEPT !.regs.cpsr = p])
  BY <1>6, <1>8, StaysStays
<1> QED BY <1>3, <1>6, <1>9

LEMMA SignExtWord ==
  ASSUME NEW v \in Int
  PROVE  SignExt(v, W) \in Int
<1>1. 2^W \in Int
  BY Width, PowerAssumption
<1> QED BY <1>1 DEF SignExt

LEMMA NzStays ==
  ASSUME NEW s, IsMachine(s), NEW a, NEW b
  PROVE  Stays(s, [s EXCEPT !.regs.cpsr.n = a, !.regs.cpsr.z = b])
<1> DEFINE p == [s.regs.cpsr EXCEPT !.n = a]
           t == [s EXCEPT !.regs.cpsr = p]
           q == [t.regs.cpsr EXCEPT !.z = b]
           u == [t EXCEPT !.regs.cpsr = q]
<1>1. [s EXCEPT !.regs.cpsr.n = a, !.regs.cpsr.z = b] = u
  OBVIOUS
<1>2. IsPsr(p) /\ p.mode = s.regs.cpsr.mode
  BY DEF IsMachine, IsRegs, IsPsr, PsrNames
<1> HIDE DEF p
<1>3. Stays(s, t) /\ IsMachine(t)
  BY <1>2, FlagsStay DEF Stays, Moves
<1> HIDE DEF t
<1>4. IsPsr(q) /\ q.mode = t.regs.cpsr.mode
  BY <1>3 DEF IsMachine, IsRegs, IsPsr, PsrNames
<1> HIDE DEF q
<1>5. Stays(t, u)
  BY <1>3, <1>4, FlagsStay
<1> HIDE DEF u
<1> QED BY <1>1, <1>3, <1>5, StaysStays

LEMMA MullStays ==
  ASSUME NEW s, IsMachine(s), NEW d, IsInsn(d), d.op = "Mull"
  PROVE  Stays(s, exec_mull(s, d))
<1> DEFINE ra == reg_op12(s, d.rm)
           rb == reg_op12(s, d.rs)
           signed == "signed" \in d.aux
           a == IF signed THEN SignExt(ra, W) ELSE ra
           b == IF signed THEN SignExt(rb, W) ELSE rb
           lo == IF "acc" \in d.aux THEN reg_op12(s, d.rn) ELSE 0
           hi == IF "acc" \in d.aux THEN reg_op12(s, d.rd) ELSE 0
           low == Wrap(a * b) + lo
           high == Wrap((a * b) \div 2^W + low \div 2^W + hi)
           u == set_reg(s, d.rn, Wrap(low))
           t == set_reg(u, d.rd, high)
           f == [t EXCEPT !.regs.cpsr.n = Negative(high), !.regs.cpsr.z = high = 0 /\ Wrap(low) = 0]
<1>1. d.rm \in 0 .. 15 /\ d.rs \in 0 .. 15 /\ d.rn \in 0 .. 15 /\ d.rd \in 0 .. 15
  BY DEF IsInsn, IsDecoded
<1>2. ra \in Int /\ rb \in Int /\ lo \in Int /\ hi \in Int
  BY <1>1, RegInt
<1>3. exec_mull(s, d) = IF "s" \in d.aux THEN f ELSE t
  BY DEF exec_mull
<1> HIDE DEF ra, rb, lo, hi
<1>4. a \in Int /\ b \in Int
  BY <1>2, SignExtWord
<1> HIDE DEF a, b
<1>5. a * b \in Int /\ 2^W \in Nat \ {0}
  BY <1>4, Width, PowerAssumption
<1> DEFINE ab == a * b
           two == 2^W
<1>6. low \in Int /\ Wrap(low) \in Int
  <2> HIDE DEF ab
  <2>1. Wrap(ab) \in Int
    BY <1>5, WrapInt DEF ab
  <2>2. low \in Int
    BY <1>2, <2>1 DEF ab
  <2> QED BY <2>2, WrapInt
<1> HIDE DEF low
<1>7. high \in Int
  <2>1. ab \in Int /\ two \in Nat \ {0}
    BY <1>5
  <2> HIDE DEF ab, two
  <2>2. ab \div two \in Int /\ low \div two \in Int
    BY <1>6, <2>1, DivMod
  <2>3. Wrap(ab \div two + low \div two + hi) \in Int
    BY <1>2, <2>2, WrapInt
  <2> QED BY <2>3 DEF ab, two
<1> HIDE DEF high, ab, two
<1>8. Stays(s, u) /\ IsMachine(u)
  BY <1>6, SetRegStays DEF Stays, Moves
<1> HIDE DEF u
<1>9. Stays(u, t) /\ IsMachine(t)
  BY <1>7, <1>8, SetRegStays DEF Stays, Moves
<1> HIDE DEF t
<1>10. Stays(s, t)
  BY <1>8, <1>9, StaysStays
<1>11. Stays(t, f)
  BY <1>9, NzStays
<1> HIDE DEF f
<1>12. Stays(s, f)
  BY <1>10, <1>11, StaysStays
<1> QED BY <1>3, <1>10, <1>12

LEMMA MsrMoves ==
  ASSUME NEW s, IsMachine(s), NEW d, NEW value \in Int
  PROVE  Moves(s, exec_msr(s, value, d))
<1> DEFINE flags == Bit(d.ty, 3)
           control == Bit(d.ty, 0)
           m == CurrentMode(s.regs)
           own == control /\ privileged(s.regs.cpsr)
           next == PsrWrite(s.regs.cpsr, value, own, flags)
           forced == [next EXCEPT !.mode = 16 + (@ % 16)]
           p == PsrWrite(spsr_of(s.regs, m), value, control, flags)
           r == set_spsr_of(s.regs, m, p)
<1>1. IsRegs(s.regs) /\ IsPsr(s.regs.cpsr) /\ m \in Modes
  BY ModeIsMode DEF IsMachine, IsRegs, CurrentMode
<1>2. exec_msr(s, value, d) = IF "spsr" \in d.aux THEN [s EXCEPT !.regs = r]
                             ELSE TakePsr(s, IF own THEN forced ELSE next)
  BY DEF exec_msr
<1>3. IsPsr(spsr_of(s.regs, m))
  BY <1>1 DEF spsr_of, IsRegs, SpsrModes
<1> HIDE DEF m, flags, control
<1>4. IsPsr(p)
  BY <1>3, PsrWriteIsPsr
<1> HIDE DEF p
<1>5. IsRegs(r) /\ BanksKept(s.regs, r)
  <2>1. CASE ~has_spsr(m)
    BY <1>1, <2>1 DEF set_spsr_of, BanksKept, SameBank
  <2>2. CASE has_spsr(m)
    <3>1. r = [s.regs EXCEPT !.spsr[m] = p]
      BY <2>2 DEF set_spsr_of
    <3>2. /\ r = [x \in RegNames |-> r[x]] /\ r.gpr = s.regs.gpr /\ r.cpsr = s.regs.cpsr
          /\ r.spsr = [s.regs.spsr EXCEPT ![m] = p] /\ r.usr_bank = s.regs.usr_bank
          /\ r.fiq_bank = s.regs.fiq_bank /\ r.exc_bank = s.regs.exc_bank
      BY <1>1, <3>1 DEF IsRegs, RegNames
    <3> HIDE DEF r
    <3>3. r.spsr = [n \in SpsrModes |-> r.spsr[n]] /\ \A n \in SpsrModes : IsPsr(r.spsr[n])
      BY <1>1, <1>4, <3>2 DEF IsRegs
    <3>4. IsRegs(r)
      BY <1>1, <3>2, <3>3 DEF IsRegs
    <3>5. \A n \in SpsrModes : n = m \/ SameBank(s.regs, r, n)
      BY <1>1, <3>2 DEF IsRegs, SameBank
    <3> QED BY <3>4, <3>5 DEF BanksKept, m
  <2> QED BY <2>1, <2>2
<1> HIDE DEF r
<1>6. Moves(s, [s EXCEPT !.regs = r])
  BY <1>5, RegsMove
<1> HIDE DEF own
<1>7. IsPsr(next)
  BY <1>1, PsrWriteIsPsr
<1> HIDE DEF next
<1>8. next.mode \in Int
  BY <1>7 DEF IsPsr
<1>9. 16 + (next.mode % 16) \in Int
  BY <1>8
<1>10. IsPsr(forced)
  BY <1>7, <1>9 DEF IsPsr, PsrNames
<1> HIDE DEF forced
<1>11. Moves(s, TakePsr(s, forced)) /\ Moves(s, TakePsr(s, next))
  BY <1>7, <1>10, TakePsrMoves
<1> QED BY <1>2, <1>6, <1>11

LEMMA MrsStays ==
  ASSUME NEW s, IsMachine(s), NEW d
  PROVE  Stays(s, exec_mrs(s, d))
<1> DEFINE m == CurrentMode(s.regs)
           p == IF "spsr" \in d.aux THEN spsr_of(s.regs, m) ELSE s.regs.cpsr
           v == Psr2Word(p)
<1>1. m \in Modes /\ IsRegs(s.regs)
  BY ModeIsMode DEF IsMachine, CurrentMode
<1>2. IsPsr(p)
  BY <1>1 DEF spsr_of, IsRegs, SpsrModes
<1> HIDE DEF p
<1>3. v \in Int /\ v - 4 \in Int
  BY <1>2, PsrInt
<1>4. exec_mrs(s, d) = SetGpr(s, d.rd, IF d.rd = 15 THEN v - 4 ELSE v)
  BY DEF exec_mrs, p
<1> HIDE DEF v
<1> QED BY <1>3, <1>4, SetGprStays


(* Loads and stores.                                                       *)

LEMMA ReadInt ==
  ASSUME NEW s, IsMachine(s), NEW a \in Int
  PROVE  /\ ReadByte(s, a) \in Int /\ ReadHalf(s, a) \in Int
         /\ read32_rot(s, a) \in Int /\ read16_rot(s, a) \in Int
<1>1. \A b \in Int : ReadByte(s, b) \in Int /\ ReadHalf(s, b) \in Int
  <2> SUFFICES ASSUME NEW b \in Int PROVE ReadByte(s, b) \in Int /\ ReadHalf(s, b) \in Int
    OBVIOUS
  <2> DEFINE v == WordAt(s, b)
             lo == 2^(ByteBits * (b % 4))
             n1 == 2^ByteBits
             n2 == 2^(2 * ByteBits)
  <2>1. v \in Int /\ lo \in Nat \ {0}
    BY WordInt, ByteOffset
  <2>2. n1 \in Nat \ {0} /\ n2 \in Nat \ {0}
    <3>1. ByteBits \in 0 .. W /\ 2 * ByteBits \in 0 .. W
      BY Width
    <3> QED BY <3>1, PowerAssumption
  <2>3. ReadByte(s, b) = (v \div lo) % n1 /\ ReadHalf(s, b) = (v \div lo) % n2
    BY DEF ReadByte, ReadHalf
  <2> HIDE DEF v, lo, n1, n2
  <2>4. v \div lo \in Int
    BY <2>1, DivMod
  <2>5. (v \div lo) % n1 \in Int /\ (v \div lo) % n2 \in Int
    BY <2>2, <2>4, DivMod
  <2> QED BY <2>3, <2>5
<1>2. ByteBits * (a % 4) \in 0 .. W /\ WordAt(s, a) \in Int
  BY ByteOffset, WordInt
<1>3. read32_rot(s, a) \in Int
  BY <1>2, RorInt DEF read32_rot
<1>4. a - (a % 2) \in Int /\ ByteBits \in 0 .. W
  BY Width
<1>5. ReadHalf(s, a - (a % 2)) \in Int
  BY <1>1, <1>4
<1>6. read16_rot(s, a) \in Int
  BY <1>4, <1>5, RorInt DEF read16_rot
<1> QED BY <1>1, <1>3, <1>6

LEMMA IndexedInt ==
  ASSUME NEW s, IsMachine(s), NEW d, IsInsn(d), NEW off \in Int
  PROVE  Indexed(s, d, off).addr \in Int /\ Indexed(s, d, off).wb \in Int
<1>1. reg_op(s, d.rn) \in Int
  BY RegInt DEF IsInsn, IsDecoded
<1>2. reg_op(s, d.rn) + off \in Int /\ reg_op(s, d.rn) - off \in Int
  BY <1>1
<1>3. Wrap(reg_op(s, d.rn) + off) \in Int /\ Wrap(reg_op(s, d.rn) - off) \in Int
  BY <1>2, WrapInt
<1> QED BY <1>1, <1>3 DEF Indexed

LEMMA AddressInt ==
  ASSUME NEW s, IsMachine(s), NEW d, IsInsn(d)
  PROVE  /\ d.op \in {"Ldr", "Str"} => xfer_addr(s, d).addr \in Int /\ xfer_addr(s, d).wb \in Int
         /\ hw_addr(s, d).addr \in Int /\ hw_addr(s, d).wb \in Int
<1>1. reg_op(s, d.rm) \in Int /\ d.imm \in Int
  BY RegInt DEF IsInsn, IsDecoded
<1>2. ASSUME d.op \in {"Ldr", "Str"}
      PROVE  shift_imm(d.ty, d.rs, reg_op(s, d.rm), s.regs.cpsr.c).v \in Int
  <2>1. d.rs \in 0 .. W - 1 /\ d.ty \in 0 .. 3
    BY <1>2, AmountRange DEF IsInsn, IsDecoded
  <2> QED BY <1>1, <2>1, ShiftImmInt
<1>3. hw_addr(s, d).addr \in Int /\ hw_addr(s, d).wb \in Int
  BY <1>1, IndexedInt DEF hw_addr
<1>4. d.op \in {"Ldr", "Str"} => xfer_addr(s, d).addr \in Int /\ xfer_addr(s, d).wb \in Int
  BY <1>1, <1>2, IndexedInt DEF xfer_addr
<1> QED BY <1>3, <1>4

LEMMA WritebackStays ==
  ASSUME NEW s, IsMachine(s), NEW d, NEW wb \in Int
  PROVE  Stays(s, xfer_writeback(s, d, wb))
<1>1. wb + 4 \in Int
  OBVIOUS
<1> QED BY <1>1, SetGprStays, StaysRefl DEF xfer_writeback

\* A load: the base is written back, then the register.
LEMMA LoadStays ==
  ASSUME NEW s, IsMachine(s), NEW d, NEW wb \in Int, NEW v \in Int
  PROVE  Stays(s, set_reg(xfer_writeback(s, d, wb), d.rd, v))
<1> DEFINE t == xfer_writeback(s, d, wb)
<1>1. Stays(s, t) /\ IsMachine(t)
  BY WritebackStays DEF Stays, Moves
<1> HIDE DEF t
<1>2. Stays(t, set_reg(t, d.rd, v))
  BY <1>1, SetRegStays
<1>3. Stays(s, set_reg(t, d.rd, v))
  BY <1>1, <1>2, StaysStays
<1> QED BY <1>3 DEF t

LEMMA LdrStays ==
  ASSUME NEW s, IsMachine(s), NEW d, IsInsn(d), d.op = "Ldr"
  PROVE  Stays(s, exec_ldr(s, d))
<1> DEFINE x == xfer_addr(s, d)
           v == IF "byte" \in d.aux THEN ReadByte(s, x.addr) ELSE read32_rot(s, x.addr)
<1>1. exec_ldr(s, d) = set_reg(xfer_writeback(s, d, x.wb), d.rd, v)
  BY DEF exec_ldr
<1>2. x.addr \in Int /\ x.wb \in Int
  BY AddressInt
<1> HIDE DEF x
<1>3. v \in Int
  BY <1>2, ReadInt
<1> HIDE DEF v
<1> QED BY <1>1, <1>2, <1>3, LoadStays

LEMMA ExtendedInt ==
  ASSUME NEW v \in Int, NEW n \in 1 .. W
  PROVE  Extended(v, n) \in Int
<1>1. n - 1 \in 0 .. W /\ n \in 0 .. W
  BY Width
<1>2. 2^n \in Int /\ 2^(n - 1) \in Int
  BY <1>1, PowerAssumption
<1>3. SignExt(v, n) \in Int
  BY <1>2 DEF SignExt
<1> QED BY <1>3, WrapInt DEF Extended

LEMMA LdrMiscStays ==
  ASSUME NEW s, IsMachine(s), NEW d, IsInsn(d), d.op = "LdrMisc"
  PROVE  Stays(s, exec_ldr_misc(s, d))
<1> DEFINE x == hw_addr(s, d)
           v == CASE d.sub = "H" -> read16_rot(s, x.addr)
                  [] d.sub = "SB" \/ (d.sub = "SHW" /\ x.addr % 2 = 1) ->
                        Extended(ReadByte(s, x.addr), ByteBits)
                  [] d.sub = "SHW" /\ x.addr % 2 = 0 -> Extended(ReadHalf(s, x.addr), 2 * ByteBits)
<1>1. exec_ldr_misc(s, d) = set_reg(xfer_writeback(s, d, x.wb), d.rd, v)
  BY DEF exec_ldr_misc
<1>2. x.addr \in Int /\ x.wb \in Int
  BY AddressInt
<1> HIDE DEF x
<1>3. /\ ReadByte(s, x.addr) \in Int /\ ReadHalf(s, x.addr) \in Int /\ read16_rot(s, x.addr) \in Int
  BY <1>2, ReadInt
<1>4. ByteBits \in 1 .. W /\ 2 * ByteBits \in 1 .. W
  BY Width
<1>5. Extended(ReadByte(s, x.addr), ByteBits) \in Int /\ Extended(ReadHalf(s, x.addr), 2 * ByteBits) \in Int
  BY <1>3, <1>4, ExtendedInt
<1>6. d.sub \in {"H", "SB", "SHW"} /\ x.addr % 2 \in {0, 1}
  <2>1. x.addr % 2 \in 0 .. 2 - 1
    BY <1>2, DivMod
  <2>2. d.sub \in {"H", "SB", "SHW"}
    BY DEF IsInsn, IsDecoded
  <2> QED BY <2>1, <2>2
<1>7. v \in Int
  BY <1>3, <1>5, <1>6
<1> HIDE DEF v
<1> QED BY <1>1, <1>2, <1>7, LoadStays

\* A store, then the write-back.
LEMMA ThenWriteback ==
  ASSUME NEW s, IsMachine(s), NEW t, Stays(s, t), NEW d, NEW wb \in Int
  PROVE  Stays(s, xfer_writeback(t, d, wb))
<1>1. IsMachine(t)
  BY DEF Stays, Moves
<1>2. Stays(t, xfer_writeback(t, d, wb))
  BY <1>1, WritebackStays
<1> QED BY <1>1, <1>2, StaysStays

LEMMA StoredInt ==
  ASSUME NEW s, IsMachine(s), NEW d, IsInsn(d)
  PROVE  Stored(s, d) \in Int
BY RegInt DEF Stored, IsInsn, IsDecoded

LEMMA StrStays ==
  ASSUME NEW s, IsMachine(s), NEW d, IsInsn(d), d.op = "Str"
  PROVE  Stays(s, exec_str(s, d))
<1> DEFINE x == xfer_addr(s, d)
           v == Stored(s, d)
           t == IF "byte" \in d.aux THEN write8(s, x.addr, v) ELSE write32(s, x.addr - (x.addr % 4), v)
<1>1. exec_str(s, d) = xfer_writeback(t, d, x.wb)
  BY DEF exec_str
<1>2. x.addr \in Int /\ x.wb \in Int
  BY AddressInt
<1> HIDE DEF x
<1>3. x.addr - (x.addr % 4) \in Int /\ v \in Int
  BY <1>2, StoredInt
<1> HIDE DEF v
<1>4. Stays(s, t)
  BY <1>2, <1>3, WriteStays
<1> HIDE DEF t
<1> QED BY <1>1, <1>2, <1>4, ThenWriteback

LEMMA StrMiscStays ==
  ASSUME NEW s, IsMachine(s), NEW d, IsInsn(d), d.op = "StrMisc"
  PROVE  Stays(s, exec_str_misc(s, d))
<1> DEFINE x == hw_addr(s, d)
           v == Stored(s, d)
           t == write16(s, x.addr - (x.addr % 2), v)
<1>1. exec_str_misc(s, d) = xfer_writeback(t, d, x.wb)
  BY DEF exec_str_misc
<1>2. x.addr \in Int /\ x.wb \in Int
  BY AddressInt
<1> HIDE DEF x
<1>3. x.addr - (x.addr % 2) \in Int /\ v \in Int
  BY <1>2, StoredInt
<1> HIDE DEF v
<1>4. Stays(s, t)
  BY <1>3, WriteStays
<1> HIDE DEF t
<1> QED BY <1>1, <1>2, <1>4, ThenWriteback

LEMMA SwpStays ==
  ASSUME NEW s, IsMachine(s), NEW d, IsInsn(d), d.op = "Swp"
  PROVE  Stays(s, exec_swp(s, d))
<1> DEFINE a == reg_op12(s, d.rn)
           v == reg_op12(s, d.rm)
           t == IF "byte" \in d.aux THEN write8(s, a, v) ELSE write32(s, a - (a % 4), v)
           w == IF "byte" \in d.aux THEN ReadByte(s, a) ELSE read32_rot(s, a)
<1>1. exec_swp(s, d) = set_reg(t, d.rd, w)
  BY DEF exec_swp
<1>2. d.rn \in 0 .. 15 /\ d.rm \in 0 .. 15
  BY DEF IsInsn, IsDecoded
<1>3. a \in Int /\ v \in Int
  BY <1>2, RegInt
<1> HIDE DEF a, v
<1>4. a - (a % 4) \in Int
  BY <1>3
<1>5. Stays(s, t) /\ IsMachine(t)
  BY <1>3, <1>4, WriteStays DEF Stays, Moves
<1> HIDE DEF t
<1>6. w \in Int
  BY <1>3, ReadInt
<1> HIDE DEF w
<1>7. Stays(t, set_reg(t, d.rd, w))
  BY <1>5, <1>6, SetRegStays
<1> QED BY <1>1, <1>5, <1>7, StaysStays


-----------------------------------------------------------------------------
(* Block transfers.                                                        *)

LEMMA CountInt ==
  ASSUME NEW L \in SUBSET (0 .. 15)
  PROVE  Cardinality(L) \in Int
<1>1. IsFiniteSet(0 .. 15)
  <2>1. 0 \in Int /\ 15 \in Int
    OBVIOUS
  <2> QED BY ONLY <2>1, FS_Interval
<1>2. IsFiniteSet(L)
  BY <1>1, FS_Subset
<1> QED BY <1>2, FS_CardinalityType

LEMMA BlockAddrInt ==
  ASSUME NEW s, IsMachine(s), NEW d, IsInsn(d)
  PROVE  /\ blk_addr(s, d).addr \in Int /\ blk_addr(s, d).wb \in Int
         /\ \A i : SlotOf(blk_addr(s, d), d, i) \in Int
<1> DEFINE base == reg_op(s, d.rn)
           bytes == IF "empty" \in d.aux THEN 64 ELSE 4 * Cardinality(Listed(d))
           wb == Wrap(IF "up" \in d.aux THEN base + bytes ELSE base - bytes)
           low == IF "up" \in d.aux THEN base ELSE wb
           start == Wrap(low + IF ("pre" \in d.aux) = ("up" \in d.aux) THEN 4 ELSE 0)
           x == blk_addr(s, d)
<1>1. Listed(d) \in SUBSET (0 .. 15)
  BY DEF Listed
<1>2. base \in Int
  BY RegInt DEF IsInsn, IsDecoded
<1>3. bytes \in Int
  BY <1>1, CountInt
<1>4. x = [addr |-> start - (start % 4), wb |-> wb]
  BY DEF blk_addr
<1> HIDE DEF base, bytes
<1>5. base + bytes \in Int /\ base - bytes \in Int
  BY <1>2, <1>3
<1>6. wb \in Int
  BY <1>5, WrapInt
<1> HIDE DEF wb
<1>7. low \in Int
  BY <1>2, <1>6
<1> HIDE DEF low
<1>8. start \in Int
  BY <1>7, WrapInt
<1> HIDE DEF start
<1>9. x.addr \in Int /\ x.wb \in Int
  BY <1>4, <1>6, <1>8
<1> HIDE DEF x
<1>10. ASSUME NEW i PROVE SlotOf(x, d, i) \in Int
  <2>1. {j \in Listed(d) : j < i} \in SUBSET (0 .. 15)
    BY <1>1
  <2>2. x.addr + 4 * Cardinality({j \in Listed(d) : j < i}) \in Int
    BY <1>9, <2>1, CountInt
  <2> QED BY <2>2, WrapInt DEF SlotOf
<1> QED BY <1>9, <1>10 DEF x

\* The user bank belongs to no mode with an SPSR.
LEMMA UserBankStays ==
  ASSUME NEW s, IsMachine(s), NEW g \in [0 .. 15 -> Int], NEW u \in [8 .. 14 -> Int]
  PROVE  Stays(s, [s EXCEPT !.regs.gpr = g, !.regs.usr_bank = u])
<1> DEFINE r == [s.regs EXCEPT !.gpr = g]
           q == [r EXCEPT !.usr_bank = u]
<1>1. [s EXCEPT !.regs.gpr = g, !.regs.usr_bank = u] = [s EXCEPT !.regs = q]
  BY DEF IsMachine, MachineNames
<1>2. /\ r = [x \in RegNames |-> r[x]] /\ r.gpr = g /\ r.cpsr = s.regs.cpsr /\ r.spsr = s.regs.spsr
      /\ r.usr_bank = s.regs.usr_bank /\ r.fiq_bank = s.regs.fiq_bank /\ r.exc_bank = s.regs.exc_bank
  BY DEF IsMachine, IsRegs, RegNames
<1> HIDE DEF r
<1>3. /\ q = [x \in RegNames |-> q[x]] /\ q.gpr = g /\ q.cpsr = s.regs.cpsr /\ q.spsr = s.regs.spsr
      /\ q.usr_bank = u /\ q.fiq_bank = s.regs.fiq_bank /\ q.exc_bank = s.regs.exc_bank
  BY <1>2 DEF RegNames
<1> HIDE DEF q
<1>4. IsRegs(q)
  BY <1>3 DEF IsMachine, IsRegs
<1>5. BanksKept(s.regs, q) /\ CurrentMode(q) = CurrentMode(s.regs)
  BY <1>3 DEF BanksKept, SameBank, CurrentMode
<1> QED BY <1>1, <1>4, <1>5, RegsStay

LEMMA LoadAllStays ==
  ASSUME NEW s, IsMachine(s), NEW d, IsInsn(d), NEW L, NEW user
  PROVE  Stays(s, LoadAll(s, d, blk_addr(s, d), L, user))
<1> DEFINE x == blk_addr(s, d)
           value == [i \in 0 .. 15 |-> IF i \in L THEN WordAt(s, SlotOf(x, d, i)) ELSE 0]
           win == {i \in L : ~user \/ UserInWindow(s.regs, i)}
           g == [i \in 0 .. 15 |-> IF i \in win THEN value[i] ELSE s.regs.gpr[i]]
           u == [i \in 8 .. 14 |-> IF i \in L \ win THEN value[i] ELSE s.regs.usr_bank[i]]
<1>1. \A i : SlotOf(x, d, i) \in Int
  BY BlockAddrInt
<1> HIDE DEF x
<1>2. \A i \in 0 .. 15 : value[i] \in Int
  BY <1>1, WordInt
<1>3. LoadAll(s, d, x, L, user) = [s EXCEPT !.regs.gpr = g, !.regs.usr_bank = u]
  BY DEF LoadAll, IsMachine, IsRegs, MachineNames, RegNames
<1> HIDE DEF value, win
<1>4. \A i \in 0 .. 15 : s.regs.gpr[i] \in Int
  BY DEF IsMachine, IsRegs
<1>5. \A i \in 8 .. 14 : s.regs.usr_bank[i] \in Int
  BY DEF IsMachine, IsRegs
<1>6. g \in [0 .. 15 -> Int] /\ u \in [8 .. 14 -> Int]
  BY <1>2, <1>4, <1>5
<1> HIDE DEF g, u
<1>7. Stays(s, [s EXCEPT !.regs.gpr = g, !.regs.usr_bank = u])
  BY <1>6, UserBankStays
<1> QED BY <1>3, <1>7 DEF x

LEMMA SetUserRegs ==
  ASSUME NEW r, IsRegs(r), NEW i, NEW v \in Int
  PROVE  LET q == set_user_reg(r, i, v) IN IsRegs(q) /\ BanksKept(r, q) /\ q.cpsr = r.cpsr
<1> DEFINE g == [r EXCEPT !.gpr[i] = v]
           b == [r EXCEPT !.usr_bank[i] = v]
<1>1. IsRegs(g) /\ BanksKept(r, g) /\ g.cpsr = r.cpsr
  BY GprRegs
<1>2. /\ b = [x \in RegNames |-> b[x]] /\ b.gpr = r.gpr /\ b.cpsr = r.cpsr
      /\ b.spsr = r.spsr /\ b.usr_bank = [r.usr_bank EXCEPT ![i] = v]
      /\ b.fiq_bank = r.fiq_bank /\ b.exc_bank = r.exc_bank
  BY DEF IsRegs, RegNames
<1> HIDE DEF b
<1>3. b.usr_bank \in [8 .. 14 -> Int]
  BY SMTT(60), <1>2 DEF IsRegs
<1>4. IsRegs(b) /\ BanksKept(r, b)
  BY <1>2, <1>3 DEF IsRegs, BanksKept, SameBank
<1> QED BY <1>1, <1>2, <1>4 DEF set_user_reg, b

LEMMA BlockWritebackStays ==
  ASSUME NEW s, IsMachine(s), NEW d, NEW wb \in Int, NEW user
  PROVE  Stays(s, BlockWriteback(s, d, wb, user))
<1> DEFINE q == set_user_reg(s.regs, d.rn, wb)
<1>1. IsRegs(q) /\ BanksKept(s.regs, q) /\ q.cpsr = s.regs.cpsr
  BY SetUserRegs DEF IsMachine
<1> HIDE DEF q
<1>2. Stays(s, [s EXCEPT !.regs = q])
  BY <1>1, RegsStay DEF CurrentMode
<1>3. Stays(s, SetGpr(s, d.rn, wb))
  BY SetGprStays
<1> QED BY <1>2, <1>3 DEF BlockWriteback, q

LEMMA LdmMoves ==
  ASSUME NEW s, IsMachine(s), NEW d, IsInsn(d)
  PROVE  Moves(s, exec_ldm(s, d))
<1> DEFINE list == Listed(d)
           user == "s" \in d.aux /\ 15 \notin list
           x == blk_addr(s, d)
           pc == WordAt(s, SlotOf(x, d, 15))
           t == LoadAll(s, d, x, list \ {15}, user)
           u == IF "wb" \in d.aux /\ d.rn \notin list THEN BlockWriteback(t, d, x.wb, user) ELSE t
           v == IF "s" \in d.aux THEN restore_cpsr(u) ELSE u
           w == IF "empty" \in d.aux THEN SetGpr(v, 15, pc) ELSE branch_to(v, pc)
<1>1. exec_ldm(s, d) = IF 15 \notin list THEN u ELSE w
  BY DEF exec_ldm
<1>2. x.wb \in Int /\ SlotOf(x, d, 15) \in Int
  BY BlockAddrInt
<1>3. pc \in Int
  BY <1>2, WordInt
<1>4. Stays(s, t) /\ IsMachine(t)
  BY LoadAllStays DEF Stays, Moves
<1> HIDE DEF list, user, x, pc, t
<1>5. Stays(t, u) /\ IsMachine(u)
  BY <1>2, <1>4, BlockWritebackStays, StaysRefl DEF Stays, Moves
<1> HIDE DEF u
<1>6. Stays(s, u)
  BY <1>4, <1>5, StaysStays
<1>7. Moves(u, v) /\ IsMachine(v)
  BY <1>5, RestoreMoves, StaysRefl DEF Stays, Moves
<1> HIDE DEF v
<1>8. Moves(s, v)
  BY <1>6, <1>7, StaysMoves
<1>9. Stays(v, w)
  BY <1>3, <1>7, SetGprStays, BranchStays
<1> HIDE DEF w
<1>10. Moves(s, w) /\ Moves(s, u)
  BY <1>6, <1>8, <1>9, MovesStays DEF Stays
<1> QED BY <1>1, <1>10

LEMMA StmValueInt ==
  ASSUME NEW s, IsMachine(s), NEW d, IsInsn(d), NEW i \in 0 .. 15
  PROVE  StmValue(s, d, blk_addr(s, d), i) \in Int
<1>1. blk_addr(s, d).wb \in Int /\ pc_store(s) \in Int /\ Gpr(s, i) \in Int
  BY BlockAddrInt, RegInt
<1>2. user_reg(s.regs, i) \in Int
  <2>1. CASE UserInWindow(s.regs, i)
    BY <2>1, <1>1 DEF user_reg, Gpr
  <2>2. CASE ~UserInWindow(s.regs, i)
    <3>1. i \in 8 .. 14
      BY <2>2 DEF UserInWindow
    <3>2. s.regs.usr_bank[i] \in Int
      BY <3>1 DEF IsMachine, IsRegs
    <3> QED BY <2>2, <3>2 DEF user_reg
  <2> QED BY <2>1, <2>2
<1> QED BY <1>1, <1>2 DEF StmValue

(* The function that stores the registers in turn is what its definition   *)
(* says.                                                                   *)
LEMMA StoresDef ==
  ASSUME NEW s, NEW d, NEW x
  PROVE  \E g : /\ g = [i \in 0 .. 16 |-> IF i = 0 THEN s
                        ELSE IF i - 1 \in Listed(d)
                             THEN write32(g[i - 1], SlotOf(x, d, i - 1), StmValue(s, d, x, i - 1))
                             ELSE g[i - 1]]
                /\ (LET store[i \in 0 .. 16] ==
                            IF i = 0 THEN s
                            ELSE IF i - 1 \in Listed(d)
                                 THEN write32(store[i - 1], SlotOf(x, d, i - 1), StmValue(s, d, x, i - 1))
                                 ELSE store[i - 1]
                    IN  store[16]) = g[16]
<1> DEFINE F(i, y) == IF i = 0 THEN s
                      ELSE IF i - 1 \in Listed(d)
                           THEN write32(y, SlotOf(x, d, i - 1), StmValue(s, d, x, i - 1))
                           ELSE y
           T == {k \in Nat : \E g : g = [i \in 0 .. k |-> F(i, g[i - 1])]}
<1>1. 0 \in T
  <2> DEFINE g == [i \in 0 .. 0 |-> s]
  <2>1. g = [i \in 0 .. 0 |-> F(i, g[i - 1])]
    OBVIOUS
  <2> QED BY <2>1
<1>2. ASSUME NEW k \in Nat, k \in T PROVE k + 1 \in T
  <2>1. PICK g : g = [i \in 0 .. k |-> F(i, g[i - 1])]
    BY <1>2
  <2> DEFINE h == [i \in 0 .. k + 1 |-> IF i = k + 1 THEN F(k + 1, g[k]) ELSE g[i]]
  <2>2. \A i \in 0 .. k + 1 : h[i] = F(i, h[i - 1])
    BY <2>1
  <2>3. h = [i \in 0 .. k + 1 |-> h[i]]
    OBVIOUS
  <2> HIDE DEF h
  <2>4. h = [i \in 0 .. k + 1 |-> F(i, h[i - 1])]
    BY <2>2, <2>3
  <2> QED BY <2>4
<1>3. PICK g : g = [i \in 0 .. 16 |-> F(i, g[i - 1])]
  BY <1>1, <1>2, Induction
<1> DEFINE f == CHOOSE f : f = [i \in 0 .. 16 |-> F(i, f[i - 1])]
<1>4. f = [i \in 0 .. 16 |-> F(i, f[i - 1])]
  BY <1>3
<1> QED BY <1>4

LEMMA StmStays ==
  ASSUME NEW s, IsMachine(s), NEW d, IsInsn(d)
  PROVE  Stays(s, exec_stm(s, d))
<1> DEFINE x == blk_addr(s, d)
<1>1. PICK g : /\ g = [i \in 0 .. 16 |-> IF i = 0 THEN s
                       ELSE IF i - 1 \in Listed(d)
                            THEN write32(g[i - 1], SlotOf(x, d, i - 1), StmValue(s, d, x, i - 1))
                            ELSE g[i - 1]]
               /\ (LET store[i \in 0 .. 16] ==
                           IF i = 0 THEN s
                           ELSE IF i - 1 \in Listed(d)
                                THEN write32(store[i - 1], SlotOf(x, d, i - 1), StmValue(s, d, x, i - 1))
                                ELSE store[i - 1]
                   IN  store[16]) = g[16]
  BY StoresDef
<1>2. exec_stm(s, d) = IF "wb" \in d.aux THEN BlockWriteback(g[16], d, x.wb, "s" \in d.aux) ELSE g[16]
  BY <1>1 DEF exec_stm
<1>3. x.wb \in Int /\ \A i : SlotOf(x, d, i) \in Int
  BY BlockAddrInt
<1>4. \A i \in 0 .. 15 : StmValue(s, d, x, i) \in Int
  BY StmValueInt
<1> HIDE DEF x
<1> DEFINE T == {k \in Nat : k <= 16 => Stays(s, g[k])}
<1>5. 0 \in T
  BY <1>1, StaysRefl
<1>6. ASSUME NEW k \in Nat, k \in T PROVE k + 1 \in T
  <2> SUFFICES ASSUME k + 1 <= 16 PROVE Stays(s, g[k + 1])
    OBVIOUS
  <2>1. g[k + 1] = IF k \in Listed(d) THEN write32(g[k], SlotOf(x, d, k), StmValue(s, d, x, k)) ELSE g[k]
    BY <1>1
  <2>2. Stays(s, g[k]) /\ IsMachine(g[k])
    BY <1>6 DEF Stays, Moves
  <2>3. Stays(g[k], write32(g[k], SlotOf(x, d, k), StmValue(s, d, x, k)))
    BY <1>3, <1>4, <2>2, WriteStays
  <2>4. Stays(s, write32(g[k], SlotOf(x, d, k), StmValue(s, d, x, k)))
    BY <2>2, <2>3, StaysStays
  <2> QED BY <2>1, <2>2, <2>4
<1>7. 16 \in T
  BY <1>5, <1>6, Induction
<1>8. Stays(s, g[16]) /\ IsMachine(g[16])
  BY <1>7 DEF Stays, Moves
<1>9. Stays(g[16], BlockWriteback(g[16], d, x.wb, "s" \in d.aux))
  BY <1>3, <1>8, BlockWritebackStays
<1>10. Stays(s, BlockWriteback(g[16], d, x.wb, "s" \in d.aux))
  BY <1>8, <1>9, StaysStays
<1> QED BY <1>2, <1>8, <1>10


-----------------------------------------------------------------------------
(* Branches, and the instruction as a whole.                               *)

LEMMA BranchInsnStays ==
  ASSUME NEW s, IsMachine(s), NEW d, IsInsn(d)
  PROVE  Stays(s, exec_branch(s, d))
<1> DEFINE t == IF "link" \in d.aux THEN SetGpr(s, 14, s.start_pc + 4) ELSE s
           to == pc_op(s) + d.imm
<1>1. s.start_pc + 4 \in Int /\ to \in Int
  <2>1. s.start_pc \in Int /\ d.imm \in Int
    BY DEF IsMachine, IsInsn, IsDecoded
  <2>2. pc_op(s) \in Int
    BY RegInt
  <2> QED BY <2>1, <2>2
<1>2. Stays(s, t) /\ IsMachine(t)
  BY <1>1, SetGprStays, StaysRefl DEF Stays, Moves
<1>3. exec_branch(s, d) = branch_to(t, to)
  BY DEF exec_branch
<1> HIDE DEF t, to
<1>4. Stays(t, branch_to(t, to))
  BY <1>1, <1>2, BranchStays
<1> QED BY <1>2, <1>3, <1>4, StaysStays

LEMMA BxStays ==
  ASSUME NEW s, IsMachine(s), NEW d, IsInsn(d)
  PROVE  Stays(s, exec_bx(s, d))
<1> DEFINE v == reg_op(s, d.rm)
           p == [s.regs.cpsr EXCEPT !.t = v % 2 = 1]
           t == [s EXCEPT !.regs.cpsr = p]
<1>1. v \in Int
  BY RegInt DEF IsInsn, IsDecoded
<1>2. IsPsr(p) /\ p.mode = s.regs.cpsr.mode
  BY DEF IsMachine, IsRegs, IsPsr, PsrNames
<1>3. exec_bx(s, d) = branch_to(t, v - (v % 2))
  BY DEF exec_bx
<1> HIDE DEF v, p
<1>4. Stays(s, t) /\ IsMachine(t)
  BY <1>2, FlagsStay DEF Stays, Moves
<1> HIDE DEF t
<1>5. Stays(t, branch_to(t, v - (v % 2)))
  BY <1>1, <1>4, BranchStays
<1> QED BY <1>3, <1>4, <1>5, StaysStays

LEMMA ThumbBlStays ==
  ASSUME NEW s, IsMachine(s), NEW d, IsInsn(d)
  PROVE  Stays(s, exec_thumb_bl(s, d))
<1> DEFINE pc == Gpr(s, 15)
           to == Gpr(s, 14) + 2 * d.imm
           t == SetGpr(s, 14, pc - (pc % 2) + 1)
<1>1. /\ pc \in Int /\ to \in Int /\ d.imm \in Int
      /\ pc_op(s) + 4096 * SignExt(d.imm, 11) \in Int
  BY RegInt, SignExtInt DEF IsInsn, IsDecoded
<1>2. Stays(s, SetGpr(s, 14, pc_op(s) + 4096 * SignExt(d.imm, 11)))
  BY <1>1, SetGprStays
<1>3. Stays(s, t) /\ IsMachine(t)
  BY <1>1, SetGprStays DEF Stays, Moves
<1>4. exec_thumb_bl(s, d) = IF "suffix" \notin d.aux
                            THEN SetGpr(s, 14, pc_op(s) + 4096 * SignExt(d.imm, 11))
                            ELSE branch_to(t, to)
  BY DEF exec_thumb_bl
<1> HIDE DEF t, to
<1>5. Stays(t, branch_to(t, to))
  BY <1>1, <1>3, BranchStays
<1>6. Stays(s, branch_to(t, to))
  BY <1>3, <1>5, StaysStays
<1> QED BY <1>2, <1>4, <1>6

LEMMA ExecDecodedMoves ==
  ASSUME NEW s, IsMachine(s), NEW d, IsInsn(d)
  PROVE  Moves(s, exec_decoded(s, d))
<1> DEFINE t == exec_decoded(s, d)
<1>1. d.op \in Ops
  BY DEF IsInsn, IsDecoded
<1>2. CASE ~cond_pass(s.regs.cpsr, d.cond)
  BY <1>2, StaysRefl DEF Stays, exec_decoded
<1>3. CASE cond_pass(s.regs.cpsr, d.cond)
  <2>1. CASE d.op \in {"DpImm", "DpShImm", "DpShReg"}
    BY <1>3, <2>1, DpMoves DEF exec_decoded
  <2>2. CASE d.op \in {"MsrReg", "MsrImm"}
    <3>1. reg_op(s, d.rm) \in Int /\ d.imm \in Int
      BY RegInt DEF IsInsn, IsDecoded
    <3> QED BY <1>3, <2>2, <3>1, MsrMoves DEF exec_decoded
  <2>3. CASE d.op \in {"Mul", "Mull", "Mrs"}
    BY <1>3, <2>3, MulStays, MullStays, MrsStays DEF exec_decoded, Stays
  <2>4. CASE d.op \in {"BranchImm", "Bx", "ThumbBl"}
    BY <1>3, <2>4, BranchInsnStays, BxStays, ThumbBlStays DEF exec_decoded, Stays
  <2>5. CASE d.op \in {"Ldr", "Str", "LdrMisc", "StrMisc", "Swp"}
    BY <1>3, <2>5, LdrStays, StrStays, LdrMiscStays, StrMiscStays, SwpStays DEF exec_decoded, Stays
  <2>6. CASE d.op \in {"Ldm", "Stm"}
    BY <1>3, <2>6, LdmMoves, StmStays DEF exec_decoded, Stays
  <2>7. CASE d.op = "Swi"
    <3>1. Moves(s, set_host_trap(s, "Syscall")) /\ Moves(s, raise(s, "Swi"))
      BY TrapStays, RaiseMoves DEF Stays, Exceptions
    <3>2. t = IF s.trap_swi THEN set_host_trap(s, "Syscall") ELSE raise(s, "Swi")
      BY <1>3, <2>7 DEF exec_decoded
    <3> QED BY <3>1, <3>2
  <2>8. CASE d.op = "Undef"
    BY <1>3, <2>8, FaultMoves DEF exec_decoded
  <2> QED BY <1>1, <2>1, <2>2, <2>3, <2>4, <2>5, <2>6, <2>7, <2>8 DEF Ops
<1> QED BY <1>2, <1>3


-----------------------------------------------------------------------------
(* The decoded-instruction cache.                                          *)

(* A write stamps the page its own address lies in; the word is also the   *)
(* word of the addresses that wrap onto it.  All of them share a stamp.    *)
StampsCoverMemory ==
    \A a, b \in Int : (a \div 4) % MemWords = (b \div 4) % MemWords => Slot(a) = Slot(b)

\* CacheExact, of any machine.
CacheOk(s) ==
    \A k \in DOMAIN s.cache.entries :
        LET e == s.cache.entries[k]
        IN  e.version > 0 /\ Hits(s.cache, e.key[1], e.key[2])
              => e.insn = FreshDecode(s, e.key[1], e.key[2])

(* A step from s to t goes through no mirror of memory: a word that        *)
(* changes is stamped at its addresses within memory, unless the cache is  *)
(* invalidated with it, and no code is cached from beyond memory.          *)
AtHome(s, t) ==
    /\ \A i \in 0 .. MemWords - 1 : \A a \in 4 * i .. 4 * i + 3 :
          \/ t.mem[i] = s.mem[i]
          \/ t.cache.inval > s.cache.clock
          \/ t.cache.stamps[Slot(a)] > s.cache.clock
    /\ \A k \in DOMAIN t.cache.entries : t.cache.entries[k].key[1] \in 0 .. 4 * MemWords - 1

Covered(s, t) == StampsCoverMemory \/ AtHome(s, t)

(* What every step of the machine keeps; no decode goes stale where the    *)
(* stamps cover what was stored.                                           *)
Keeps(s, t) ==
    /\ IsMachine(t)
    /\ BanksKept(s.regs, t.regs)
    /\ Covered(s, t) /\ CacheOk(s) => CacheOk(t)

LEMMA DecodesWord ==
  ASSUME NEW s, NEW t, NEW pc, NEW thumb, WordAt(s, pc) = WordAt(t, pc)
  PROVE  FreshDecode(s, pc, thumb) = FreshDecode(t, pc, thumb)
BY DEF FreshDecode, ReadHalf

\* An entry that is still live has seen no store to its word.
LEMMA MovesCacheOk ==
  ASSUME NEW x, IsMachine(x), NEW t, Moves(x, t), Covered(x, t), CacheOk(x)
  PROVE  CacheOk(t)
<1> SUFFICES ASSUME NEW k \in DOMAIN t.cache.entries,
                    t.cache.entries[k].version > 0,
                    Hits(t.cache, t.cache.entries[k].key[1], t.cache.entries[k].key[2])
             PROVE  t.cache.entries[k].insn
                    = FreshDecode(t, t.cache.entries[k].key[1], t.cache.entries[k].key[2])
  BY DEF CacheOk
<1> DEFINE e == t.cache.entries[k]
           pc == e.key[1]
           thumb == e.key[2]
<1>1. IsMachine(t) /\ StampsKept(x.cache, t.cache) /\ WordsStamped(x, t)
  BY DEF Moves
<1>2. x.cache.entries = t.cache.entries /\ x.cache.inval = t.cache.inval
  BY <1>1 DEF StampsKept
<1>3. k \in 0 .. ICACHE_ENTRIES - 1 /\ IsEntry(x.cache, k)
  <2>1. IsCache(x.cache)
    BY DEF IsMachine
  <2>2. DOMAIN x.cache.entries = 0 .. ICACHE_ENTRIES - 1
    BY <2>1 DEF IsCache
  <2> QED BY <1>2, <2>1, <2>2 DEF IsCache
<1>4. pc \in Int /\ EntrySlot(pc) = k /\ e.version \in 0 .. x.cache.clock
  BY <1>2, <1>3 DEF IsEntry
<1>5. Slot(pc) \in 0 .. STAMP_SLOTS - 1
  BY <1>4, SlotRange
<1>6. /\ e.key = <<pc, thumb>> /\ e.version >= t.cache.stamps[Slot(pc)]
      /\ e.version >= t.cache.inval
  BY <1>4 DEF Hits
<1>7. /\ x.cache.clock \in Nat
      /\ x.cache.stamps[Slot(pc)] \in Int /\ t.cache.stamps[Slot(pc)] \in Int
  BY SMTT(60), <1>1, <1>5, CacheNumbers
<1>8. t.cache.stamps[Slot(pc)] >= x.cache.stamps[Slot(pc)]
  BY <1>1, <1>5 DEF StampsKept
<1>9. e.version >= x.cache.stamps[Slot(pc)]
  <2> HIDE DEF e, pc, thumb
  <2> QED BY <1>4, <1>6, <1>7, <1>8
<1>10. Hits(x.cache, pc, thumb)
  BY <1>2, <1>4, <1>6, <1>9 DEF Hits
<1>11. e.insn = FreshDecode(x, pc, thumb)
  BY <1>2, <1>10 DEF CacheOk
<1> DEFINE i == (pc \div 4) % MemWords
<1>12. t.mem[i] = x.mem[i]
  <2> SUFFICES ASSUME t.mem[i] # x.mem[i] PROVE FALSE
    OBVIOUS
  <2>1. i \in 0 .. MemWords - 1
    BY <1>4, IndexRange
  <2>2. CASE StampsCoverMemory
    <3>1. PICK b \in Int : (b \div 4) % MemWords = i /\ t.cache.stamps[Slot(b)] > x.cache.clock
      BY <1>1, <2>1 DEF WordsStamped
    <3>2. Slot(b) = Slot(pc)
      BY <1>4, <2>2, <3>1 DEF StampsCoverMemory
    <3> HIDE DEF e, pc, thumb, i
    <3> QED BY <1>4, <1>6, <1>7, <3>1, <3>2
  <2>3. CASE AtHome(x, t)
    <3>1. pc \in 0 .. 4 * MemWords - 1
      BY <2>3 DEF AtHome
    <3>2. t.cache.inval \in 0 .. x.cache.clock
      BY <1>2, CacheNumbers
    <3> HIDE DEF pc
    <3>3. pc \div 4 \in 0 .. MemWords - 1 /\ pc \in 4 * (pc \div 4) .. 4 * (pc \div 4) + 3
      BY <3>1, SizeAssumption
    <3>4. i = pc \div 4
      <4>1. (MemWords * 0 + pc \div 4) % MemWords = pc \div 4
        BY SMTT(60), <3>3, SizeAssumption, DivModUnique
      <4>2. MemWords * 0 + pc \div 4 = pc \div 4
        BY <3>3, SizeAssumption
      <4> QED BY <4>1, <4>2
    <3> HIDE DEF e, thumb, i
    <3>5. t.cache.stamps[Slot(pc)] > x.cache.clock
      BY <1>7, <2>1, <2>3, <3>2, <3>3, <3>4 DEF AtHome
    <3> QED BY <1>4, <1>6, <1>7, <3>5
  <2> QED BY <2>2, <2>3 DEF Covered
<1>13. WordAt(x, pc) = WordAt(t, pc)
  BY <1>12 DEF WordAt
<1> QED BY <1>11, <1>13, DecodesWord

LEMMA MovesKeeps ==
  ASSUME NEW x, IsMachine(x), NEW t, Moves(x, t)
  PROVE  Keeps(x, t)
BY MovesCacheOk DEF Keeps, Moves

\* What is covered depends on the memory and the clock alone.
LEMMA CoveredFrom ==
  ASSUME NEW s, NEW x, NEW t, x.mem = s.mem, x.cache.clock = s.cache.clock, Covered(s, t)
  PROVE  Covered(x, t)
BY DEF Covered, AtHome

LEMMA StaysKeeps ==
  ASSUME NEW x, IsMachine(x), NEW t, NEW u, Stays(x, t), Keeps(t, u),
         t.mem = x.mem, t.cache = x.cache
  PROVE  Keeps(x, u)
<1>1. BanksKept(x.regs, t.regs) /\ CurrentMode(t.regs) = CurrentMode(x.regs)
  BY DEF Stays, Moves
<1>2. BanksKept(x.regs, u.regs)
  BY <1>1 DEF Keeps, BanksKept, SameBank
<1>3. \A a, m : FreshDecode(x, a, m) = FreshDecode(t, a, m)
  BY DecodesWord DEF WordAt
<1>4. CacheOk(x) => CacheOk(t)
  BY <1>3 DEF CacheOk
<1>5. Covered(x, u) => Covered(t, u)
  BY CoveredFrom
<1> QED BY <1>2, <1>4, <1>5 DEF Keeps

(* A decode enters the cache as of now, in the slot of its address.        *)
LEMMA FillCache ==
  ASSUME NEW c, IsCache(c), NEW pc \in Int, NEW thumb, NEW d, IsInsn(d)
  PROVE  LET e == icache_fill(c, pc, thumb, d)
         IN  /\ IsCache(e) /\ e.stamps = c.stamps /\ e.inval = c.inval /\ e.clock = c.clock
             /\ EntrySlot(pc) \in 0 .. ICACHE_ENTRIES - 1
             /\ e.entries = [c.entries EXCEPT ![EntrySlot(pc)] =
                                [key |-> <<pc, thumb>>, version |-> c.clock, insn |-> d]]
<1> DEFINE e == icache_fill(c, pc, thumb, d)
           n == [key |-> <<pc, thumb>>, version |-> c.clock, insn |-> d]
           k == EntrySlot(pc)
<1>1. k \in 0 .. ICACHE_ENTRIES - 1
  <2>1. pc \div 2 \in Int
    BY DivMod
  <2> QED BY <2>1, SizeAssumption, DivMod DEF EntrySlot
<1>2. n.key[1] = pc /\ n.version = c.clock /\ n.insn = d
  OBVIOUS
<1> HIDE DEF n
<1>3. /\ e = [x \in CacheNames |-> e[x]] /\ e.stamps = c.stamps /\ e.inval = c.inval
      /\ e.clock = c.clock /\ e.entries = [c.entries EXCEPT ![k] = n]
  BY DEF icache_fill, IsCache, CacheNames, n
<1> HIDE DEF e
<1>4. e.entries = [j \in 0 .. ICACHE_ENTRIES - 1 |-> IF j = k THEN n ELSE c.entries[j]]
  BY <1>3 DEF IsCache
<1>5. c.clock \in Nat
  BY DEF IsCache
<1>6. ASSUME NEW j \in 0 .. ICACHE_ENTRIES - 1 PROVE IsEntry(e, j)
  <2>1. CASE j = k
    <3>1. e.entries[j] = n
      BY <1>4, <2>1
    <3> QED BY <1>2, <1>3, <1>5, <2>1, <3>1 DEF IsEntry
  <2>2. CASE j # k
    <3>1. e.entries[j] = c.entries[j]
      BY <1>4, <2>2
    <3>2. IsEntry(c, j)
      BY DEF IsCache
    <3> QED BY <1>3, <3>1, <3>2 DEF IsEntry
  <2> QED BY <2>1, <2>2
<1>7. IsCache(e)
  <2>1. c.inval \in 0 .. c.clock /\ c.stamps \in [0 .. STAMP_SLOTS - 1 -> 0 .. c.clock]
    BY DEF IsCache
  <2>2. e.entries = [j \in 0 .. ICACHE_ENTRIES - 1 |-> e.entries[j]]
    BY <1>4
  <2> QED BY <1>3, <1>5, <1>6, <2>1, <2>2 DEF IsCache
<1> QED BY <1>1, <1>3, <1>7 DEF e, n

(* The machine exec_one executes its instruction on: the same one with its *)
(* cache filled on a miss.                                                 *)
Fetched(s, pc, thumb, c) == [s EXCEPT !.thumb = thumb, !.start_pc = pc, !.cache = c]

LEMMA FetchFills ==
  ASSUME NEW s, IsMachine(s), NEW pc \in Int, NEW thumb, NEW c,
         c \in {s.cache, icache_fill(s.cache, pc, thumb, FreshDecode(s, pc, thumb))}
  PROVE  LET x == Fetched(s, pc, thumb, c)
         IN  /\ IsMachine(x) /\ x.regs = s.regs /\ (CacheOk(s) => CacheOk(x))
             /\ x.mem = s.mem /\ x.cache.clock = s.cache.clock
<1> DEFINE x == Fetched(s, pc, thumb, c)
           d == FreshDecode(s, pc, thumb)
           n == [key |-> <<pc, thumb>>, version |-> s.cache.clock, insn |-> d]
<1>1. /\ x = [y \in MachineNames |-> x[y]] /\ x.regs = s.regs /\ x.cache = c /\ x.mem = s.mem
      /\ x.start_pc = pc /\ x.host_trap = s.host_trap
  BY DEF Fetched, IsMachine, MachineNames
<1> HIDE DEF x
<1>2. IsInsn(d) /\ IsCache(s.cache)
  BY DecodeInsn DEF IsMachine
<1> HIDE DEF d
<1>3. IsCache(c) /\ c.clock = s.cache.clock
  <2>1. IsCache(icache_fill(s.cache, pc, thumb, d))
    BY <1>2, FillCache
  <2>2. icache_fill(s.cache, pc, thumb, d).clock = s.cache.clock
    BY <1>2 DEF icache_fill, IsCache, CacheNames
  <2> QED BY <1>2, <2>1, <2>2 DEF d
<1>4. IsMachine(x)
  BY <1>1, <1>3 DEF IsMachine
<1>5. \A a, m : FreshDecode(x, a, m) = FreshDecode(s, a, m)
  BY <1>1, DecodesWord DEF WordAt
<1>6. ASSUME CacheOk(s), NEW k \in DOMAIN c.entries, c.entries[k].version > 0,
             Hits(c, c.entries[k].key[1], c.entries[k].key[2])
      PROVE  c.entries[k].insn = FreshDecode(s, c.entries[k].key[1], c.entries[k].key[2])
  <2>1. CASE c = s.cache
    BY <1>6, <2>1 DEF CacheOk
  <2>2. CASE c = icache_fill(s.cache, pc, thumb, d)
    <3>1. /\ c.entries = [s.cache.entries EXCEPT ![EntrySlot(pc)] = n]
          /\ c.stamps = s.cache.stamps /\ c.inval = s.cache.inval
          /\ EntrySlot(pc) \in 0 .. ICACHE_ENTRIES - 1
      BY <1>2, <2>2, FillCache
    <3>2. s.cache.entries = [j \in 0 .. ICACHE_ENTRIES - 1 |-> s.cache.entries[j]]
      BY <1>2 DEF IsCache
    <3>3. k \in 0 .. ICACHE_ENTRIES - 1 /\ k \in DOMAIN s.cache.entries
      BY <1>6, <3>1, <3>2
    <3>4. CASE k = EntrySlot(pc)
      <4>1. c.entries[k] = n
        BY <3>1, <3>2, <3>4
      <4>2. n.key[1] = pc /\ n.key[2] = thumb /\ n.insn = d
        OBVIOUS
      <4> QED BY <4>1, <4>2 DEF d
    <3>5. CASE k # EntrySlot(pc)
      <4> DEFINE e == s.cache.entries[k]
      <4>1. c.entries[k] = e
        BY <3>1, <3>2, <3>5
      <4>2. IsEntry(s.cache, k)
        BY <1>2, <3>3 DEF IsCache
      <4>3. EntrySlot(e.key[1]) = k
        BY <1>6, <4>1, <4>2 DEF IsEntry
      <4>4. Hits(s.cache, e.key[1], e.key[2])
        BY <1>6, <3>1, <4>1, <4>3 DEF Hits
      <4> QED BY <1>6, <3>3, <4>1, <4>4 DEF CacheOk
    <3> QED BY <3>4, <3>5
  <2> QED BY <2>1, <2>2 DEF d
<1>7. CacheOk(s) => CacheOk(x)
  BY SMTT(60), <1>1, <1>5, <1>6 DEF CacheOk
<1> QED BY <1>1, <1>3, <1>4, <1>7 DEF x

LEMMA ExecOneKeeps ==
  ASSUME NEW s, IsMachine(s)
  PROVE  Keeps(s, exec_one(s))
<1> DEFINE thumb == s.regs.cpsr.t
           raw == Gpr(s, 15)
           pc == raw - (raw % (IF thumb THEN 2 ELSE 4))
           hit == ~s.fused_only /\ Hits(s.cache, pc, thumb)
           d == IF hit THEN s.cache.entries[EntrySlot(pc)].insn ELSE FreshDecode(s, pc, thumb)
           c == IF hit \/ s.fused_only THEN s.cache ELSE icache_fill(s.cache, pc, thumb, d)
           x == Fetched(s, pc, thumb, c)
           y == SetGpr(x, 15, pc + d.len)
<1>1. exec_one(s) = exec_decoded(y, d)
  BY DEF exec_one, Fetched
<1>2. pc \in Int
  <2>1. raw \in Int
    BY RegInt
  <2> HIDE DEF raw, thumb
  <2> QED BY <2>1
<1> HIDE DEF thumb, pc
<1>3. c \in {s.cache, icache_fill(s.cache, pc, thumb, FreshDecode(s, pc, thumb))}
  OBVIOUS
<1>4. IsInsn(d)
  <2>1. IsInsn(FreshDecode(s, pc, thumb))
    BY DecodeInsn
  <2>2. IsInsn(s.cache.entries[EntrySlot(pc)].insn)
    <3>1. pc \div 2 \in Int
      BY <1>2, DivMod
    <3>2. EntrySlot(pc) \in 0 .. ICACHE_ENTRIES - 1
      BY <3>1, SizeAssumption, DivMod DEF EntrySlot
    <3>3. IsEntry(s.cache, EntrySlot(pc))
      BY <3>2 DEF IsMachine, IsCache
    <3> QED BY <3>3 DEF IsEntry
  <2> QED BY <2>1, <2>2
<1> HIDE DEF hit, c, d
<1>5. /\ IsMachine(x) /\ x.regs = s.regs /\ (CacheOk(s) => CacheOk(x))
      /\ x.mem = s.mem /\ x.cache.clock = s.cache.clock
  BY <1>2, <1>3, FetchFills
<1> HIDE DEF x
<1>6. pc + d.len \in Int
  BY <1>2, <1>4 DEF IsInsn, IsDecoded
<1>7. Stays(x, y) /\ IsMachine(y)
  BY <1>5, <1>6, SetGprStays DEF Stays, Moves
<1> HIDE DEF y
<1>8. Moves(y, exec_decoded(y, d))
  BY <1>4, <1>7, ExecDecodedMoves
<1>9. Keeps(x, exec_decoded(y, d))
  BY <1>5, <1>7, <1>8, StaysMoves, MovesKeeps
<1>10. Covered(s, exec_decoded(y, d)) => Covered(x, exec_decoded(y, d))
  BY <1>5, CoveredFrom
<1> QED BY <1>1, <1>5, <1>9, <1>10 DEF Keeps

LEMMA StepKeeps ==
  ASSUME NEW s, IsMachine(s)
  PROVE  Keeps(s, step(s))
<1> DEFINE t == [s EXCEPT !.doorbell = FALSE]
           u == [t EXCEPT !.halted = FALSE]
<1>1. Stays(s, t) /\ IsMachine(t)
  BY EventsStay DEF Stays, Moves
<1>10. t.mem = s.mem /\ t.cache = s.cache
  BY DEF IsMachine, MachineNames
<1> HIDE DEF t
<1>2. Stays(t, u) /\ IsMachine(u)
  BY <1>1, EventsStay DEF Stays, Moves
<1> HIDE DEF u
<1>3. Stays(s, u)
  BY <1>1, <1>2, StaysStays
<1>4. ASSUME NEW e \in Exceptions PROVE Keeps(s, raise(u, e))
  BY <1>2, <1>3, RaiseMoves, StaysMoves, MovesKeeps
<1>5. Keeps(s, t) /\ Keeps(s, exec_one(t))
  BY <1>1, <1>10, ExecOneKeeps, StaysKeeps, MovesKeeps DEF Stays
<1>6. step_slow(s) \in {raise(u, "Fiq"), raise(u, "Irq"), t, exec_one(t)}
  BY DEF step_slow, t, u
<1>7. Keeps(s, step_slow(s))
  BY <1>4, <1>5, <1>6 DEF Exceptions
<1> QED BY <1>7, ExecOneKeeps DEF step

\* One turn of the run loop steps, or leaves with the doorbell answered.
LEMMA TurnKeeps ==
  ASSUME NEW s, IsMachine(s)
  PROVE  Keeps(s, RunTurn(s).s)
<1>1. RunTurn(s).s \in {step(s), [s EXCEPT !.doorbell = FALSE], s}
  BY DEF RunTurn
<1>2. Keeps(s, [s EXCEPT !.doorbell = FALSE]) /\ Keeps(s, s)
  BY EventsStay, StaysRefl, MovesKeeps DEF Stays
<1> QED BY <1>1, <1>2, StepKeeps

LEMMA ServedKeeps ==
  ASSUME NEW s, IsMachine(s), s.host_trap # "none"
  PROVE  Keeps(s, Served(s))
<1> DEFINE t == CASE s.host_trap = "Syscall" -> SetGpr(s, 0, Gpr(s, 0) + 1)
                  [] s.host_trap = "Undefined" -> SetGpr(s, 15, Gpr(s, 15) + 4)
<1>1. s.host_trap \in {"Syscall", "Undefined"} /\ Gpr(s, 0) + 1 \in Int /\ Gpr(s, 15) + 4 \in Int
  <2>1. Gpr(s, 0) \in Int /\ Gpr(s, 15) \in Int
    BY RegInt
  <2> QED BY <2>1 DEF IsMachine
<1>2. Stays(s, t) /\ IsMachine(t)
  BY <1>1, SetGprStays DEF Stays, Moves
<1>3. Served(s) = [t EXCEPT !.host_trap = "none"]
  BY DEF Served
<1> HIDE DEF t
<1>4. Stays(t, [t EXCEPT !.host_trap = "none"])
  BY <1>2, EventsStay
<1> QED BY <1>2, <1>3, <1>4, StaysStays, MovesKeeps DEF Stays


-----------------------------------------------------------------------------
(* The actions.                                                            *)

\* A cache just invalidated has no live entry.
LEMMA InvalidatedCache ==
  ASSUME NEW c, IsCache(c)
  PROVE  LET e == invalidate_all(c)
         IN  /\ IsCache(e)
             /\ \A k \in DOMAIN e.entries : e.entries[k].version < e.inval
             /\ \A k \in DOMAIN e.entries :
                   e.entries[k].version > 0 => EntrySlot(e.entries[k].key[1]) = k
<1> DEFINE e == invalidate_all(c)
<1>1. /\ e = [x \in CacheNames |-> e[x]] /\ e.entries = c.entries /\ e.stamps = c.stamps
      /\ e.clock = c.clock + 1 /\ e.inval = c.clock + 1
  BY DEF invalidate_all, IsCache, CacheNames
<1> HIDE DEF e
<1>2. c.clock \in Nat /\ c.stamps \in [0 .. STAMP_SLOTS - 1 -> 0 .. c.clock]
  BY DEF IsCache
<1>3. \A k \in 0 .. ICACHE_ENTRIES - 1 : IsEntry(c, k)
  BY DEF IsCache
<1>4. c.entries = [k \in 0 .. ICACHE_ENTRIES - 1 |-> c.entries[k]]
  BY DEF IsCache
<1>5. \A k \in 0 .. ICACHE_ENTRIES - 1 : IsEntry(e, k)
  BY <1>1, <1>2, <1>3 DEF IsEntry
<1>6. e.stamps \in [0 .. STAMP_SLOTS - 1 -> 0 .. e.clock]
  <2>1. \A k \in 0 .. STAMP_SLOTS - 1 : c.stamps[k] \in 0 .. c.clock
    BY <1>2
  <2>2. \A k \in 0 .. STAMP_SLOTS - 1 : e.stamps[k] \in 0 .. e.clock
    BY <1>1, <1>2, <2>1
  <2>3. e.stamps = [k \in 0 .. STAMP_SLOTS - 1 |-> e.stamps[k]]
    BY <1>1, <1>2
  <2> QED BY <2>2, <2>3
<1>7. IsCache(e)
  <2>1. e.clock \in Nat /\ e.inval \in 0 .. e.clock
    BY <1>1, <1>2
  <2>2. e.entries = [k \in 0 .. ICACHE_ENTRIES - 1 |-> e.entries[k]]
    BY <1>1, <1>4
  <2>3. e = [x \in CacheNames |-> e[x]]
    BY <1>1
  <2> QED BY <1>5, <1>6, <2>1, <2>2, <2>3 DEF IsCache
<1>8. DOMAIN e.entries = 0 .. ICACHE_ENTRIES - 1
  BY <1>1, <1>4
<1>9. \A k \in 0 .. ICACHE_ENTRIES - 1 :
        e.entries[k].version < e.inval /\ (e.entries[k].version > 0 => EntrySlot(e.entries[k].key[1]) = k)
  BY <1>1, <1>2, <1>3 DEF IsEntry
<1> QED BY <1>7, <1>8, <1>9 DEF e

LEMMA InvalidatedOk ==
  ASSUME NEW c, IsCache(c), NEW t, t.cache = invalidate_all(c)
  PROVE  IsCache(t.cache) /\ CacheOk(t)
<1> DEFINE e == t.cache
<1>1. /\ IsCache(e)
      /\ \A k \in DOMAIN e.entries : e.entries[k].version < e.inval
      /\ \A k \in DOMAIN e.entries : e.entries[k].version > 0 => EntrySlot(e.entries[k].key[1]) = k
  BY InvalidatedCache
<1> HIDE DEF e
<1>2. \A k \in DOMAIN e.entries : e.entries[k].version \in Int /\ e.inval \in Int
  <2>1. DOMAIN e.entries = 0 .. ICACHE_ENTRIES - 1
    BY <1>1 DEF IsCache
  <2>2. e.clock \in Nat /\ e.inval \in Int /\ \A k \in 0 .. ICACHE_ENTRIES - 1 : IsEntry(e, k)
    BY <1>1 DEF IsCache
  <2>3. \A k \in 0 .. ICACHE_ENTRIES - 1 : e.entries[k].version \in 0 .. e.clock
    BY <2>2 DEF IsEntry
  <2> QED BY <2>1, <2>2, <2>3
<1>3. ASSUME NEW k \in DOMAIN e.entries, e.entries[k].version > 0,
             Hits(e, e.entries[k].key[1], e.entries[k].key[2])
      PROVE  FALSE
  <2>1. EntrySlot(e.entries[k].key[1]) = k
    BY <1>1, <1>3
  <2>2. e.entries[k].version >= e.inval
    BY <1>3, <2>1 DEF Hits
  <2> QED BY <1>1, <1>2, <2>2
<1> QED BY <1>1, <1>3 DEF CacheOk, e

LEMMA StartRegs ==
  ASSUME NEW r \in Registers
  PROVE  IsRegs(r)
<1>1. \A p \in Psr : IsPsr(p)
  BY DEF Psr, IsPsr, PsrNames
<1>2. r = [x \in RegNames |-> r[x]] /\ r.cpsr \in Psr /\ r.spsr \in [SpsrModes -> Psr]
  BY DEF Registers, RegNames
<1>3. /\ r.gpr \in [0 .. 15 -> Int] /\ r.usr_bank \in [8 .. 14 -> Int]
      /\ r.fiq_bank \in [8 .. 14 -> Int] /\ r.exc_bank \in [ExcModes -> [13 .. 14 -> Int]]
  BY DEF Registers
<1> QED BY <1>1, <1>2, <1>3 DEF IsRegs

LEMMA NewRegistersTyped == NewRegisters \in Registers
<1>1. ResetPsr \in Psr
  BY DEF ResetPsr, Psr, ModeBits
<1>2. [ResetPsr EXCEPT !.i = TRUE, !.f = TRUE] \in Psr
  BY <1>1 DEF Psr
<1> QED BY <1>1, <1>2 DEF NewRegisters, Registers

LEMMA NewCacheIsCache == IsCache(NewCache)
<1> DEFINE c == NewCache
           n == [key |-> <<0, FALSE>>, version |-> 0, insn |-> Skeleton(0, 0)]
<1>1. IsInsn(Skeleton(0, 0))
  <2>1. AmountFits(Skeleton(0, 0))
    BY DEF AmountFits, Skeleton
  <2> QED BY <2>1, SkeletonDecoded DEF IsInsn
<1>2. n.key[1] = 0 /\ n.version = 0 /\ n.insn = Skeleton(0, 0)
  OBVIOUS
<1>3. /\ c = [x \in CacheNames |-> c[x]] /\ c.clock = 1 /\ c.inval = 1
      /\ c.stamps = [i \in 0 .. STAMP_SLOTS - 1 |-> 0]
      /\ c.entries = [i \in 0 .. ICACHE_ENTRIES - 1 |-> n]
  BY DEF NewCache, CacheNames
<1> HIDE DEF c, n
<1>4. \A k \in 0 .. ICACHE_ENTRIES - 1 : IsEntry(c, k)
  <2>1. \A k \in 0 .. ICACHE_ENTRIES - 1 : c.entries[k] = n
    BY <1>3
  <2> QED BY <1>1, <1>2, <1>3, <2>1 DEF IsEntry
<1>5. c.entries = [k \in 0 .. ICACHE_ENTRIES - 1 |-> c.entries[k]]
  BY <1>3
<1>6. c.stamps \in [0 .. STAMP_SLOTS - 1 -> 0 .. c.clock]
  BY <1>3
<1> QED BY <1>3, <1>4, <1>5, <1>6 DEF IsCache, c

LEMMA InitMachine ==
  ASSUME Init
  PROVE  IsMachine(sys) /\ CacheOk(sys)
<1>1. PICK hosted \in BOOLEAN :
         sys = [NewCpu(Image[program]) EXCEPT
                  !.trap_swi = hosted, !.trap_faults = hosted, !.regs = Start[program]]
  BY DEF Init
<1>2. program \in DOMAIN Image
  BY DEF Init
<1>3. /\ sys = [x \in MachineNames |-> sys[x]] /\ sys.regs = Start[program] /\ sys.cache = NewCache
      /\ sys.start_pc = 0 /\ sys.host_trap = "none" /\ sys.mem = Image[program]
  BY <1>1 DEF NewCpu, MachineNames
<1>4. Image[program] \in [0 .. MemWords - 1 -> Int] /\ IsRegs(Start[program])
  BY <1>2, ProgramAssumption, StartRegs
<1>5. IsMachine(sys)
  BY <1>3, <1>4, NewCacheIsCache DEF IsMachine
<1>6. CacheOk(sys)
  <2>1. \A k \in DOMAIN NewCache.entries : NewCache.entries[k].version = 0
    BY DEF NewCache
  <2> QED BY <1>3, <2>1 DEF CacheOk
<1> QED BY <1>5, <1>6

\* The host's write to code, with the invalidation it owes.
LEMMA PatchKeeps ==
  ASSUME IsMachine(sys), PatchCode
  PROVE  Keeps(sys, sys')
<1> DEFINE t == [sys EXCEPT !.mem[Patch[1]] = Patch[2], !.cache = invalidate_all(@)]
           p == [sys EXCEPT !.mem[Patch[1]] = Patch[2]]
<1>1. sys' = t
  BY DEF PatchCode
<1>2. /\ p = [x \in MachineNames |-> p[x]] /\ p.regs = sys.regs /\ p.cache = sys.cache
      /\ p.mem = [sys.mem EXCEPT ![Patch[1]] = Patch[2]]
      /\ p.start_pc = sys.start_pc /\ p.host_trap = sys.host_trap
  BY DEF IsMachine, MachineNames
<1>3. t = [p EXCEPT !.cache = invalidate_all(@)]
  OBVIOUS
<1> HIDE DEF p
<1>4. /\ t = [x \in MachineNames |-> t[x]] /\ t.regs = sys.regs /\ t.cache = invalidate_all(sys.cache)
      /\ t.mem = [sys.mem EXCEPT ![Patch[1]] = Patch[2]]
      /\ t.start_pc = sys.start_pc /\ t.host_trap = sys.host_trap
  BY <1>2, <1>3 DEF MachineNames
<1> HIDE DEF t
<1>5. IsCache(t.cache) /\ CacheOk(t)
  BY <1>4, InvalidatedOk DEF IsMachine
<1>6. t.mem \in [0 .. MemWords - 1 -> Int]
  BY <1>4, ProgramAssumption DEF IsMachine
<1>7. IsMachine(t)
  BY <1>4, <1>5, <1>6 DEF IsMachine
<1>8. BanksKept(sys.regs, t.regs)
  BY <1>4 DEF BanksKept, SameBank
<1> QED BY <1>1, <1>5, <1>7, <1>8 DEF Keeps

LEMMA ResetMachine ==
  ASSUME NEW s, IsMachine(s)
  PROVE  IsMachine(reset(s)) /\ CacheOk(reset(s)) /\ reset(s).regs = NewRegisters
<1> DEFINE t == reset(s)
<1>1. /\ t = [x \in MachineNames |-> t[x]] /\ t.regs = NewRegisters
      /\ t.cache = invalidate_all(s.cache) /\ t.mem = s.mem
      /\ t.start_pc = s.start_pc /\ t.host_trap = "none"
  BY DEF reset, IsMachine, MachineNames
<1> HIDE DEF t
<1>2. IsCache(t.cache) /\ CacheOk(t)
  BY <1>1, InvalidatedOk DEF IsMachine
<1>3. IsRegs(NewRegisters)
  BY NewRegistersTyped, StartRegs
<1>4. IsMachine(t)
  BY <1>1, <1>2, <1>3 DEF IsMachine
<1> QED BY <1>1, <1>2, <1>4 DEF t

(* A step either keeps the machine's order or is a reset.                  *)
LEMMA NextKeeps ==
  ASSUME IsMachine(sys), [Next]_vars
  PROVE  \/ Keeps(sys, sys')
         \/ IsMachine(sys') /\ CacheOk(sys') /\ sys'.regs = NewRegisters
<1>1. Keeps(sys, sys)
  BY StaysRefl, MovesKeeps DEF Stays
<1>2. CASE UNCHANGED vars
  BY <1>1, <1>2 DEF vars
<1>3. CASE \E n \in Budgets : CallRun(n)
  BY <1>1, <1>3 DEF CallRun
<1>4. CASE Turn
  <2>1. sys' = RunTurn(sys).s
    BY <1>4 DEF Turn
  <2> QED BY <2>1, TurnKeeps
<1>5. CASE CallStep
  BY <1>5, StepKeeps DEF CallStep
<1>6. CASE TakeTrap
  BY <1>6, ServedKeeps DEF TakeTrap
<1>7. CASE Halt
  BY <1>7, EventsStay, MovesKeeps DEF Halt, Stays
<1>8. CASE PatchCode
  BY <1>8, PatchKeeps
<1>9. CASE Reset
  BY <1>9, ResetMachine DEF Reset
<1>10. CASE \E level \in BOOLEAN : SetIrq(level) \/ SetFiq(level)
  <2>1. PICK level \in BOOLEAN : sys' \in {[sys EXCEPT !.irq = level], [sys EXCEPT !.fiq = level]}
    BY <1>10 DEF SetIrq, SetFiq
  <2>2. Keeps(sys, [sys EXCEPT !.irq = level]) /\ Keeps(sys, [sys EXCEPT !.fiq = level])
    BY EventsStay, MovesKeeps DEF Stays
  <2> QED BY <2>1, <2>2
<1> QED BY <1>2, <1>3, <1>4, <1>5, <1>6, <1>7, <1>8, <1>9, <1>10 DEF Next

LEMMA InitConsistent == Init => Consistent
BY InitMachine DEF Consistent, CacheOk, CacheExact

LEMMA ConsistentStep ==
  ASSUME Consistent, [Next]_vars, [Covered(sys, sys')]_vars
  PROVE  Consistent'
<1> SUFFICES IsMachine(sys') /\ CacheOk(sys')
  BY DEF Consistent, CacheOk, CacheExact
<1>1. IsMachine(sys) /\ CacheOk(sys)
  BY DEF Consistent, CacheOk, CacheExact
<1>2. CASE UNCHANGED vars
  BY <1>1, <1>2 DEF vars
<1>3. CASE Covered(sys, sys')
  BY <1>1, <1>3, NextKeeps DEF Keeps
<1> QED BY <1>2, <1>3

(* Memory that is a whole number of the ranges the stamps reach, in whole  *)
(* pages of whole words, is covered: its mirrors have the same stamps.     *)
LEMMA WholeRangesCovered ==
  ASSUME NEW p \in Nat \ {0}, NEW q \in Nat \ {0},
         PageBytes = 4 * p, MemWords = p * (STAMP_SLOTS * q)
  PROVE  StampsCoverMemory
<1> DEFINE n == STAMP_SLOTS
<1>1. n \in Nat \ {0}
  BY SizeAssumption
<1> HIDE DEF n
<1>2. ASSUME NEW a \in Int
      PROVE  Slot(a) = (((a \div 4) % MemWords) \div p) % n
  <2> DEFINE w == a \div 4
             r == a % 4
             u == w \div p
             v == w % p
             z == u \div n
             s == u % n
             y == z \div q
             j == z % q
  <2>1. w \in Int /\ r \in 0 .. 3 /\ a = 4 * w + r
    OBVIOUS
  <2> HIDE DEF w, r
  <2>2. u \in Int /\ v \in 0 .. p - 1 /\ w = p * u + v
    BY <2>1, DivMod
  <2> HIDE DEF u, v
  <2>3. z \in Int /\ s \in 0 .. n - 1 /\ u = n * z + s
    BY <1>1, <2>2, DivMod
  <2> HIDE DEF z, s
  <2>4. y \in Int /\ j \in 0 .. q - 1 /\ z = q * y + j
    BY <2>3, DivMod
  <2> HIDE DEF y, j
  <2>5. a \div PageBytes = u
    <3>1. 4 * (p * u) = (4 * p) * u /\ 4 * p \in Nat \ {0} /\ p * u \in Int
      BY <2>2
    <3>2. a = (4 * p) * u + (4 * v + r) /\ 4 * v + r \in 0 .. 4 * p - 1
      BY <2>1, <2>2, <3>1
    <3> QED BY ZenonT(60), <2>2, <3>1, <3>2, DivModUnique
  <2>6. Slot(a) = s
    BY <2>5 DEF Slot, s, n
  <2> DEFINE t == n * j + s
             x == p * t + v
  <2>7. t \in Nat /\ t < n * q /\ t % n = s
    <3>1. n * j \in Nat /\ n * q \in Nat /\ n * j + n <= n * q
      BY <1>1, <2>4, MulLe
    <3>2. t % n = s
      BY <1>1, <2>3, <2>4, DivModUnique
    <3> DEFINE nj == n * j
               nq == n * q
    <3>3. nj \in Nat /\ nq \in Nat /\ nj + n <= nq
      BY <3>1
    <3> HIDE DEF nj, nq
    <3>4. nj + s \in Nat /\ nj + s < nq
      BY <1>1, <2>3, <3>3
    <3> QED BY <3>2, <3>4 DEF nj, nq
  <2> HIDE DEF t
  <2>8. x \in 0 .. MemWords - 1 /\ x \div p = t
    <3>1. n * q \in Int /\ t \in Int
      BY <1>1, <2>7
    <3>2. p * t \in Nat /\ p * (n * q) \in Nat /\ p * t + p <= p * (n * q)
      BY <2>7, <3>1, MulLe
    <3>3. MemWords = p * (n * q)
      BY DEF n
    <3>4. x \div p = t
      BY <2>2, <3>1, DivModUnique
    <3> QED BY <2>2, <3>2, <3>3, <3>4
  <2> HIDE DEF x
  <2>9. w = MemWords * y + x
    <3>1. u = (n * q) * y + t
      <4>1. n * (q * y + j) = (n * q) * y + n * j
        BY <1>1, <2>4
      <4>2. n * j \in Int /\ (n * q) * y \in Int
        BY <1>1, <2>4
      <4> QED BY <2>3, <2>4, <4>1, <4>2 DEF t
    <3> DEFINE nq == n * q
    <3>2. nq \in Int
      BY <1>1
    <3>3. MemWords = p * nq
      BY DEF n
    <3> HIDE DEF nq
    <3>4. p * (nq * y + t) = (p * nq) * y + p * t
      BY <2>4, <2>7, <3>2
    <3>5. (p * nq) * y \in Int /\ p * t \in Int
      BY <2>4, <2>7, <3>2
    <3> QED BY <2>2, <3>1, <3>3, <3>4, <3>5 DEF nq, x
  <2>10. w % MemWords = x
    BY <2>4, <2>8, <2>9, SizeAssumption, DivModUnique
  <2> QED BY <2>6, <2>7, <2>8, <2>10 DEF w
<1> QED BY <1>2 DEF StampsCoverMemory

-----------------------------------------------------------------------------
(* The theorems.                                                           *)

(* The machine stays one: every register, bank and word of memory holds a  *)
(* number, every status register a mode, and every entry of the cache an   *)
(* instruction in the slot of its address that is no newer than the clock  *)
(* (exec_decoded with all its handlers, raise, set_mode, icache_fill,      *)
(* stamp_write, invalidate_all, reset).                                    *)
THEOREM MachineStays == Spec => []IsMachine(sys)
<1>1. Init => IsMachine(sys)
  BY InitMachine
<1>2. IsMachine(sys) /\ [Next]_vars => IsMachine(sys)'
  BY NextKeeps DEF Keeps
<1> QED BY <1>1, <1>2, PTL DEF Spec

(* No stale decode: where the write stamps cover the memory, a live entry  *)
(* of the decoded-instruction cache holds the decode of what memory holds  *)
(* now, whatever was stored, patched, raised or reset since it was filled  *)
(* (exec_one's probe, icache_fill, stamp_write, invalidate_all), for every *)
(* program, memory size, word size and cache geometry.                     *)
THEOREM CacheIsExact == StampsCoverMemory => (Spec => []CacheExact)
<1> SUFFICES ASSUME StampsCoverMemory PROVE Spec => []CacheExact
  OBVIOUS
<1>1. Consistent /\ [Next]_vars => Consistent'
  BY ConsistentStep DEF Covered
<1> QED BY <1>1, InitConsistent, PTL DEF Spec, Consistent

(* The same where memory is smaller than the stamps reach, as the default  *)
(* LinearMemory is: as long as nothing is stored or fetched through a      *)
(* mirror of memory, no decode goes stale.                                 *)
THEOREM CacheIsExactAtHome == Spec /\ [][AtHome(sys, sys')]_vars => []CacheExact
<1>1. Consistent /\ [Next]_vars /\ [AtHome(sys, sys')]_vars => Consistent'
  BY ConsistentStep DEF Covered
<1> QED BY <1>1, InitConsistent, PTL DEF Spec, Consistent

(* Registers banked in other modes survive: a step changes the private     *)
(* registers and the SPSR of no mode but the one it starts in and the one  *)
(* it ends in, whichever instruction, exception or call it is; a reset     *)
(* clears them all (set_mode, raise, restore_cpsr, exec_msr, set_user_reg). *)
THEOREM BanksStayIsolated == Spec => BanksIsolated
<1>1. ASSUME IsMachine(sys), [Next]_vars,
             NEW m \in SpsrModes \ {CurrentMode(sys.regs), CurrentMode(sys'.regs)},
             sys'.regs # NewRegisters
      PROVE  /\ sys'.regs.spsr[m] = sys.regs.spsr[m]
             /\ \A i \in 8 .. 14 :
                   Private(m, i) => reg_of(sys'.regs, m, i) = reg_of(sys.regs, m, i)
  <2>1. SameBank(sys.regs, sys'.regs, m)
    BY <1>1, NextKeeps DEF Keeps, BanksKept
  <2>2. ASSUME NEW r, CurrentMode(r) # m, NEW i \in 8 .. 14, Private(m, i)
        PROVE  reg_of(r, m, i) = IF m = "fiq" THEN r.fiq_bank[i] ELSE r.exc_bank[m][i]
    BY <2>2 DEF reg_of, Private, same_bank, SpsrModes, ExcModes, has_spsr
  <2> QED BY <2>1, <2>2 DEF SameBank
<1>2. IsMachine(sys) /\ [Next]_vars =>
        [\A m \in SpsrModes \ {CurrentMode(sys.regs), CurrentMode(sys'.regs)} :
            \/ sys'.regs = NewRegisters
            \/ /\ sys'.regs.spsr[m] = sys.regs.spsr[m]
               /\ \A i \in 8 .. 14 :
                     Private(m, i) => reg_of(sys'.regs, m, i) = reg_of(sys.regs, m, i)]_vars
  BY <1>1
<1> QED BY <1>2, MachineStays, PTL DEF Spec, BanksIsolated

=============================================================================
