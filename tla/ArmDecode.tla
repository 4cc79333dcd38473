------------------------------ MODULE ArmDecode ------------------------------
(***************************************************************************)
(* decode_arm and decode_thumb (arm32/decode.rs).  An ARM word is given as *)
(* <<condition, the 28 bits below it>>, a Thumb halfword as a number.  A   *)
(* decoded instruction keeps the code's fields; its aux byte is taken      *)
(* apart into the flags `aux`, the ALU opcode or halfword kind `sub`, and  *)
(* the shift type or MSR field mask `ty`.  Offsets are signed numbers.     *)
(***************************************************************************)
EXTENDS Integers

-----------------------------------------------------------------------------
(* The barrel shifter and the carry and overflow rules (arm32/alu.rs) over *)
(* words of W bits; the code's W is 32.  Results are [v, c] and, for sums, *)
(* [v, c, o].  mul_cycles only counts cycles and is left out.              *)

CONSTANT ByteBits    \* bits of a byte: 8 in the code

ASSUME ByteBitsAssumption == ByteBits \in Nat \ {0, 1, 2}

W == 4 * ByteBits

ASSUME PowerAssumption == \A n \in 0 .. W : 2^n \in Nat \ {0}

Wrap(x) == x % 2^W
Bit(x, k) == (x \div 2^k) % 2 = 1
Num(b) == IF b THEN 1 ELSE 0
Complement(x) == 2^W - 1 - x
Negative(x) == Bit(x, W - 1)

\* A word as the set of its bits, and back.
Bits(x) == {k \in 0 .. W - 1 : Bit(x, k)}
FromBits(S) ==
    LET sum[n \in 0 .. W] ==
            IF n = 0 THEN 0 ELSE sum[n - 1] + (IF n - 1 \in S THEN 2^(n - 1) ELSE 0)
    IN  sum[W]

Lsl(x, n) == (x % 2^(W - n)) * 2^n
Asr(x, n) == (x \div 2^n) + IF Negative(x) THEN 2^W - 2^(W - n) ELSE 0
Ror(x, n) == (x \div 2^n) + (x % 2^n) * 2^(W - n)

LSL == 0
LSR == 1
ASR == 2
ROR == 3

\* Shift types by an amount between 1 and W - 1.
Shifted(ty, n, value) ==
    CASE ty = LSL -> [v |-> Lsl(value, n), c |-> Bit(value, W - n)]
      [] ty = LSR -> [v |-> value \div 2^n, c |-> Bit(value, n - 1)]
      [] ty = ASR -> [v |-> Asr(value, n), c |-> Bit(value, n - 1)]
      [] ty = ROR -> [v |-> Ror(value, n), c |-> Bit(value, n - 1)]

\* By an immediate: amount 0 is no shift, a shift by W, or RRX.
shift_imm(ty, amount, value, carry_in) ==
    IF amount # 0 THEN Shifted(ty, amount, value)
    ELSE CASE ty = LSL -> [v |-> value, c |-> carry_in]
           [] ty = LSR -> [v |-> 0, c |-> Negative(value)]
           [] ty = ASR -> [v |-> Asr(value, W - 1), c |-> Negative(value)]
           [] ty = ROR -> [v |-> (value \div 2) + Num(carry_in) * 2^(W - 1), c |-> Bit(value, 0)]

\* As shift_reg, with a shift by exactly a word treated as a longer one.
ShiftRegSaturating(ty, amount, value, carry_in) ==
    CASE amount = 0 -> [v |-> value, c |-> carry_in]
      [] amount # 0 /\ ty = ROR ->
            IF amount % W = 0 THEN [v |-> value, c |-> Negative(value)]
            ELSE Shifted(ROR, amount % W, value)
      [] amount \in 1 .. W - 1 /\ ty # ROR -> Shifted(ty, amount, value)
      [] amount >= W /\ ty \in {LSL, LSR} -> [v |-> 0, c |-> FALSE]
      [] amount >= W /\ ty = ASR -> [v |-> Asr(value, W - 1), c |-> Negative(value)]

\* By a register: the amount is used as it is.
shift_reg(ty, amount, value, carry_in) ==
    CASE amount = 0 -> [v |-> value, c |-> carry_in]
      [] amount # 0 /\ ty = ROR ->
            IF amount % W = 0 THEN [v |-> value, c |-> Negative(value)]
            ELSE Shifted(ROR, amount % W, value)
      [] amount \in 1 .. W - 1 /\ ty # ROR -> Shifted(ty, amount, value)
      [] amount >= W /\ ty = LSL -> [v |-> 0, c |-> amount = W /\ Bit(value, 0)]
      [] amount >= W /\ ty = LSR -> [v |-> 0, c |-> amount = W /\ Negative(value)]
      [] amount >= W /\ ty = ASR -> [v |-> Asr(value, W - 1), c |-> Negative(value)]

add_with_carry(a, b, carry) ==
    LET sum == a + b + Num(carry)
        r == Wrap(sum)
    IN  [v |-> r, c |-> sum >= 2^W,
         o |-> Negative(a) = Negative(b) /\ Negative(r) # Negative(a)]
sub_with_carry(a, b, carry) == add_with_carry(a, Complement(b), carry)

-----------------------------------------------------------------------------
(* The decoders.                                                           *)

Field(w, hi, lo) == (w \div 2^lo) % 2^(hi - lo + 1)
SignExt(v, bits) == IF v >= 2^(bits - 1) THEN v - 2^bits ELSE v
Flag(on, name) == IF on THEN {name} ELSE {}

PCA == 16          \* base register: the word-aligned PC
COND_AL == 14

AluOps == <<"AND", "EOR", "SUB", "RSB", "ADD", "ADC", "SBC", "RSC",
            "TST", "TEQ", "CMP", "CMN", "ORR", "MOV", "BIC", "MVN">>
AluOp(n) == AluOps[n + 1]
HalfwordKind(n) == <<"H", "SB", "SHW">>[n]

Skeleton(cond, len) ==
    [op |-> "Undef", cond |-> cond, rd |-> 0, rn |-> 0, rm |-> 0, rs |-> 0,
     aux |-> {}, sub |-> "", ty |-> 0, len |-> len, imm |-> 0]

\* An immediate of eight bits rotated right by twice a nibble.
Rotated(w) ==
    LET n == (2 * Field(w, 11, 8)) % W
    IN  IF n = 0 THEN w % 256 ELSE Ror(w % 256, n)

\* An empty register list transfers the PC alone.
WithList(d, list) ==
    IF list = 0 THEN [d EXCEPT !.imm = 2^15, !.aux = @ \cup {"empty"}] ELSE [d EXCEPT !.imm = list]

decode_dp_reg(w, d) ==
    LET common == [d EXCEPT !.rn = Field(w, 19, 16), !.rd = Field(w, 15, 12), !.rm = Field(w, 3, 0),
                            !.sub = AluOp(Field(w, 24, 21)), !.aux = Flag(Bit(w, 20), "s"),
                            !.ty = Field(w, 6, 5)]
    IN  IF Bit(w, 4) THEN [common EXCEPT !.op = "DpShReg", !.rs = Field(w, 11, 8)]
        ELSE [common EXCEPT !.op = "DpShImm", !.rs = Field(w, 11, 7)]

DecodeMultiply(w, d, op) ==
    [d EXCEPT !.op = op, !.rd = Field(w, 19, 16), !.rn = Field(w, 15, 12),
              !.rs = Field(w, 11, 8), !.rm = Field(w, 3, 0),
              !.aux = Flag(Bit(w, 21), "acc") \cup Flag(Bit(w, 20), "s")
                      \cup Flag(op = "Mull" /\ Bit(w, 22), "signed")]

\* Halfword and signed transfers; a signed store stays undefined.
DecodeHalfword(w, d) ==
    LET sh == Field(w, 6, 5)
        pre == Bit(w, 24)
        x == [d EXCEPT !.op = IF Bit(w, 20) THEN "LdrMisc" ELSE "StrMisc",
                       !.rn = Field(w, 19, 16), !.rd = Field(w, 15, 12), !.sub = HalfwordKind(sh),
                       !.aux = Flag(pre, "pre") \cup Flag(Bit(w, 23), "up")
                               \cup Flag(~pre \/ Bit(w, 21), "wb")]
    IN  IF sh = 0 \/ (~Bit(w, 20) /\ sh # 1) THEN d
        ELSE IF Bit(w, 22) THEN [x EXCEPT !.imm = 16 * Field(w, 11, 8) + Field(w, 3, 0)]
        ELSE [x EXCEPT !.aux = @ \cup {"reg"}, !.rm = Field(w, 3, 0)]

DecodeMsr(w, d, op) ==
    [d EXCEPT !.op = op, !.aux = Flag(Bit(w, 22), "spsr"), !.ty = Field(w, 19, 16)]

\* Group 000: BX, SWP, the multiplies, halfword transfers, MRS, MSR, register forms.
DecodeGroup0(w, d) ==
    LET status == Field(w, 27, 23) = 2
    IN  CASE Field(w, 27, 4) = 1245169 -> [d EXCEPT !.op = "Bx", !.rm = Field(w, 3, 0)]
          [] status /\ Field(w, 21, 20) = 0 /\ Field(w, 11, 4) = 9 ->
                [d EXCEPT !.op = "Swp", !.rn = Field(w, 19, 16), !.rd = Field(w, 15, 12),
                          !.rm = Field(w, 3, 0), !.aux = Flag(Bit(w, 22), "byte")]
          [] Field(w, 27, 22) = 0 /\ Field(w, 7, 4) = 9 -> DecodeMultiply(w, d, "Mul")
          [] Field(w, 27, 23) = 1 /\ Field(w, 7, 4) = 9 -> DecodeMultiply(w, d, "Mull")
          [] OTHER ->
               CASE Bit(w, 7) /\ Bit(w, 4) -> DecodeHalfword(w, d)
                 [] status /\ Field(w, 21, 16) = 15 /\ Field(w, 11, 0) = 0 ->
                       [d EXCEPT !.op = "Mrs", !.rd = Field(w, 15, 12), !.aux = Flag(Bit(w, 22), "spsr")]
                 [] status /\ Field(w, 21, 20) = 2 /\ Field(w, 15, 4) = 3840 ->
                       [DecodeMsr(w, d, "MsrReg") EXCEPT !.rm = Field(w, 3, 0)]
                 [] OTHER -> decode_dp_reg(w, d)

DecodeGroup1(w, d) ==
    IF Field(w, 27, 23) = 6 /\ Field(w, 21, 20) = 2 /\ Field(w, 15, 12) = 15
    THEN [DecodeMsr(w, d, "MsrImm") EXCEPT !.imm = Rotated(w)]
    ELSE [d EXCEPT !.op = "DpImm", !.rn = Field(w, 19, 16), !.rd = Field(w, 15, 12),
                   !.imm = Rotated(w), !.sub = AluOp(Field(w, 24, 21)),
                   !.aux = Flag(Bit(w, 20), "s") \cup Flag(Field(w, 11, 8) # 0, "rot")]

\* Groups 010 and 011; a post-indexed form writes back and its W bit asks for user access.
DecodeTransfer(w, d) ==
    LET pre == Bit(w, 24)
        x == [d EXCEPT !.op = IF Bit(w, 20) THEN "Ldr" ELSE "Str",
                       !.rn = Field(w, 19, 16), !.rd = Field(w, 15, 12),
                       !.aux = Flag(Bit(w, 22), "byte") \cup Flag(pre, "pre") \cup Flag(Bit(w, 23), "up")
                               \cup Flag(~pre \/ Bit(w, 21), "wb") \cup Flag(~pre /\ Bit(w, 21), "user")]
    IN  CASE Bit(w, 25) /\ Bit(w, 4) -> d
          [] Bit(w, 25) /\ ~Bit(w, 4) ->
                [x EXCEPT !.aux = @ \cup {"reg"}, !.ty = Field(w, 6, 5),
                          !.rm = Field(w, 3, 0), !.rs = Field(w, 11, 7)]
          [] ~Bit(w, 25) -> [x EXCEPT !.imm = Field(w, 11, 0)]

DecodeBlock(w, d) ==
    WithList([d EXCEPT !.op = IF Bit(w, 20) THEN "Ldm" ELSE "Stm", !.rn = Field(w, 19, 16),
                       !.aux = Flag(Bit(w, 24), "pre") \cup Flag(Bit(w, 23), "up")
                               \cup Flag(Bit(w, 22), "s") \cup Flag(Bit(w, 21), "wb")],
             Field(w, 15, 0))

decode_arm(word) ==
    LET w == word[2]
        g == Field(w, 27, 25)
        d == Skeleton(word[1], 4)
    IN  CASE g = 0 -> DecodeGroup0(w, d)
          [] g = 1 -> DecodeGroup1(w, d)
          [] g \in {2, 3} -> DecodeTransfer(w, d)
          [] g = 4 -> DecodeBlock(w, d)
          [] g = 5 -> [d EXCEPT !.op = "BranchImm", !.aux = Flag(Bit(w, 24), "link"),
                                !.imm = 4 * SignExt(Field(w, 23, 0), 24)]
          [] g = 6 -> d
          [] g = 7 -> IF Bit(w, 24) THEN [d EXCEPT !.op = "Swi", !.imm = Field(w, 23, 0)] ELSE d

(* --- Thumb ---------------------------------------------------------------- *)

\* Formats 4 and 5.
DecodeThumbAlu(w, d) ==
    LET rd == Field(w, 2, 0)
        rs == Field(w, 5, 3)
        n == Field(w, 9, 6)
        shift == {k \in DOMAIN <<2, 3, 4, 7>> : <<2, 3, 4, 7>>[k] = n}
    IN  CASE shift # {} ->
               [d EXCEPT !.op = "DpShReg", !.rd = rd, !.rm = rd, !.rs = rs, !.sub = "MOV", !.aux = {"s"},
                         !.ty = (CHOOSE k \in shift : TRUE) - 1]
          [] n = 9 -> [d EXCEPT !.op = "DpImm", !.rd = rd, !.rn = rs, !.sub = "RSB", !.aux = {"s"}]
          [] n = 13 -> [d EXCEPT !.op = "Mul", !.rd = rd, !.rm = rd, !.rs = rs, !.aux = {"s"}]
          [] OTHER -> [d EXCEPT !.op = "DpShImm", !.rd = rd, !.rn = rd, !.rm = rs,
                                !.sub = AluOp(n), !.aux = {"s"}]

DecodeThumbHigh(w, d) ==
    LET rd == Field(w, 2, 0) + 8 * Field(w, 7, 7)
        x == [d EXCEPT !.op = "DpShImm", !.rm = Field(w, 6, 3)]
        n == Field(w, 9, 8)
    IN  CASE n = 0 -> [x EXCEPT !.rd = rd, !.rn = rd, !.sub = "ADD"]
          [] n = 1 -> [x EXCEPT !.rn = rd, !.sub = "CMP", !.aux = {"s"}]
          [] n = 2 -> [x EXCEPT !.rd = rd, !.sub = "MOV"]
          [] n = 3 -> [x EXCEPT !.op = "Bx"]

\* As DecodeThumbRegOffset, with the signed and the plain halfword form exchanged.
DecodeThumbRegOffsetSwapped(w, d) ==
    LET x == [d EXCEPT !.rd = Field(w, 2, 0), !.rn = Field(w, 5, 3), !.rm = Field(w, 8, 6),
                       !.aux = {"pre", "up", "reg"}]
        n == Field(w, 11, 10)
    IN  IF ~Bit(w, 9)
        THEN [x EXCEPT !.op = IF Bit(w, 11) THEN "Ldr" ELSE "Str", !.aux = @ \cup Flag(Bit(w, 10), "byte")]
        ELSE [x EXCEPT !.op = IF n = 0 THEN "StrMisc" ELSE "LdrMisc",
                       !.sub = <<"H", "H", "SB", "SHW">>[n + 1]]

\* Formats 7 and 8.
DecodeThumbRegOffset(w, d) ==
    LET x == [d EXCEPT !.rd = Field(w, 2, 0), !.rn = Field(w, 5, 3), !.rm = Field(w, 8, 6),
                       !.aux = {"pre", "up", "reg"}]
        n == Field(w, 11, 10)
    IN  IF ~Bit(w, 9)
        THEN [x EXCEPT !.op = IF Bit(w, 11) THEN "Ldr" ELSE "Str", !.aux = @ \cup Flag(Bit(w, 10), "byte")]
        ELSE [x EXCEPT !.op = IF n = 0 THEN "StrMisc" ELSE "LdrMisc",
                       !.sub = <<"H", "SB", "H", "SHW">>[n + 1]]

\* A load or store at a constant offset from a base.
ThumbTransfer(w, d, rd, rn, offset) ==
    [d EXCEPT !.op = IF Bit(w, 11) THEN "Ldr" ELSE "Str", !.rd = rd, !.rn = rn, !.imm = offset,
              !.aux = {"pre", "up"}]

\* Formats 13 and 14.
DecodeThumbStack(w, d) ==
    LET n == Field(w, 11, 8)
    IN  CASE n = 0 -> [d EXCEPT !.op = "DpImm", !.rd = 13, !.rn = 13, !.imm = 4 * Field(w, 6, 0),
                                !.sub = IF Bit(w, 7) THEN "SUB" ELSE "ADD"]
          [] n \in {4, 5} -> WithList([d EXCEPT !.op = "Stm", !.rn = 13, !.aux = {"pre", "wb"}],
                                      Field(w, 7, 0) + 2^14 * Field(w, 8, 8))
          [] n \in {12, 13} -> WithList([d EXCEPT !.op = "Ldm", !.rn = 13, !.aux = {"up", "wb"}],
                                        Field(w, 7, 0) + 2^15 * Field(w, 8, 8))
          [] OTHER -> d

decode_thumb(w) ==
    LET d == Skeleton(COND_AL, 2)
        g == Field(w, 15, 11)
        rd == Field(w, 2, 0)
        rs == Field(w, 5, 3)
        r8 == Field(w, 10, 8)
        imm8 == Field(w, 7, 0)
        imm5 == Field(w, 10, 6)
    IN  CASE g \in 0 .. 2 -> [d EXCEPT !.op = "DpShImm", !.rd = rd, !.rm = rs, !.rs = imm5,
                                       !.sub = "MOV", !.aux = {"s"}, !.ty = g]
          [] g = 3 -> LET x == [d EXCEPT !.rd = rd, !.rn = rs, !.aux = {"s"},
                                         !.sub = IF Bit(w, 9) THEN "SUB" ELSE "ADD"]
                      IN  IF Bit(w, 10) THEN [x EXCEPT !.op = "DpImm", !.imm = Field(w, 8, 6)]
                          ELSE [x EXCEPT !.op = "DpShImm", !.rm = Field(w, 8, 6)]
          [] g \in 4 .. 7 -> [d EXCEPT !.op = "DpImm", !.rd = r8, !.rn = r8, !.imm = imm8, !.aux = {"s"},
                                       !.sub = <<"MOV", "CMP", "ADD", "SUB">>[g - 3]]
          [] g = 8 -> IF Bit(w, 10) THEN DecodeThumbHigh(w, d) ELSE DecodeThumbAlu(w, d)
          [] g = 9 -> ThumbTransfer(w, d, r8, PCA, 4 * imm8)
          [] g \in {10, 11} -> DecodeThumbRegOffset(w, d)
          [] g \in 12 .. 15 -> LET byte == Bit(w, 12)
                                   x == ThumbTransfer(w, d, rd, rs, IF byte THEN imm5 ELSE 4 * imm5)
                               IN  [x EXCEPT !.aux = @ \cup Flag(byte, "byte")]
          [] g \in {16, 17} -> [d EXCEPT !.op = IF Bit(w, 11) THEN "LdrMisc" ELSE "StrMisc", !.rd = rd,
                                         !.rn = rs, !.imm = 2 * imm5, !.sub = "H", !.aux = {"pre", "up"}]
          [] g \in {18, 19} -> ThumbTransfer(w, d, r8, 13, 4 * imm8)
          [] g \in {20, 21} -> [d EXCEPT !.op = "DpImm", !.rd = r8, !.rn = IF Bit(w, 11) THEN 13 ELSE PCA,
                                         !.imm = 4 * imm8, !.sub = "ADD"]
          [] g \in {22, 23} -> DecodeThumbStack(w, d)
          [] g \in {24, 25} -> WithList([d EXCEPT !.op = IF Bit(w, 11) THEN "Ldm" ELSE "Stm",
                                                  !.rn = r8, !.aux = {"up", "wb"}], imm8)
          [] g \in {26, 27} -> IF Field(w, 11, 8) = 15 THEN [d EXCEPT !.op = "Swi", !.imm = imm8]
                               ELSE [d EXCEPT !.op = "BranchImm", !.cond = Field(w, 11, 8),
                                              !.imm = 2 * SignExt(imm8, 8)]
          [] g = 28 -> [d EXCEPT !.op = "BranchImm", !.imm = 2 * SignExt(Field(w, 10, 0), 11)]
          [] g = 29 -> d
          [] g \in {30, 31} -> [d EXCEPT !.op = "ThumbBl", !.aux = Flag(Bit(w, 11), "suffix"),
                                         !.imm = Field(w, 10, 0)]
=============================================================================
