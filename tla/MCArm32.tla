------------------------------- MODULE MCArm32 -------------------------------
(* Words of twelve bits (bytes of three), eighty words of memory.  "tour"      *)
(* boots in Supervisor mode, sets up the stacks of the modes, enters User mode *)
(* and tours the instruction set: a loop that patches itself as in             *)
(* icache.rs's smc_same_page_repatches, system calls, an undefined             *)
(* instruction, transfers of every kind and a Thumb part.  "main" is its first *)
(* half, in User mode from the start, under two host events.  "shift" shifts   *)
(* twice; "thumb" stands for a block of halfwords.                             *)
EXTENDS ArmSystem

B(cond, from, to) == <<cond, 5 * 2^25 + ((to - from - 2) % 2^24)>>
Bl(from, to) == <<14, 5 * 2^25 + 2^24 + ((to - from - 2) % 2^24)>>
MsrControl(v) == <<14, 52555776 + v>>     \* MSR cpsr_c, #v
MsrAll(rm) == <<14, 19525632 + rm>>       \* MSR cpsr_cf, Rm
MrsTo(rd) == <<14, 17760256 + 2^12 * rd>> \* MRS Rd, cpsr
Quad(v) == Imm(2^8 * 5 + v)               \* 4 * v as a rotated immediate
Reg(rm) == ShImm(rm, LSL, 0)

\* Words 0 .. 19: vectors, handlers and boot; from 20 on: the User program.
MainCode == <<
    B(14, 0, 15), Dp("MOV", TRUE, 0, 15, Reg(14)), B(14, 2, 10), UndefWord, UndefWord, UndefWord,
    B(14, 6, 12),
    Dp("MVN", FALSE, 0, 8, Reg(0)), Dp("MOV", TRUE, 0, 13, Reg(8)), Dp("SUB", TRUE, 14, 15, Imm(4)),
    Dp("ADD", FALSE, 0, 0, Imm(1)), Dp("MOV", TRUE, 0, 15, Reg(14)),
    \* 12: the IRQ handler pushes and returns with LDM^
    Dp("SUB", FALSE, 14, 14, Imm(4)), Block(2^24 + WB, 13, 2^14 + 2^0),
    Block(2^23 + 2^22 + WB + LOAD, 13, 2^15 + 2^0),
    \* 15: boot
    MsrControl(210), Dp("MOV", FALSE, 0, 13, Quad(80)), MsrControl(211),
    Dp("MOV", FALSE, 0, 10, Quad(70)), Block(2^23 + 2^22 + LOAD, 10, 2^13 + 2^14), MsrControl(16),
    \* 21: the self-patching loop; Patch replaces word 21
    Dp("ADD", FALSE, 4, 4, Imm(2)),
    Dp("MOV", TRUE, 0, 1, Imm(2)),
    Dp("ADD", FALSE, 0, 0, Imm(1)), Xfer(PU + LOAD, 15, 2, 4 * (68 - 24 - 2)), Xfer(2^24, 15, 2, 16),
    Dp("SUB", TRUE, 1, 1, Imm(1)), B(1, 27, 23),
    SwiWord(0), UndefWord,
    \* 30: pushes, unaligned and narrow transfers, multiplies, status transfers
    Block(2^24 + WB, 13, 31), Block(2^23 + WB + LOAD, 13, 32 + 64 + 2^7 + 2^8 + 2^9),
    Dp("MOV", FALSE, 0, 10, Quad(71)), Xfer(PU + LOAD, 10, 1, 1), XferB(PU, 10, 1, 2),
    Half(PU + LOAD, 10, 3, 3, 1), HalfImm(2^23, 10, 3, 1, 2),
    <<14, 2^24 + 2^16 * 10 + 2^12 * 5 + 9 * 2^4 + 1>>,                      \* SWP r5, r1, [r10]
    <<14, 2^23 + 2^22 + 2^21 + 2^20 + 2^16 * 7 + 2^12 * 6 + 2^8 * 1 + 9 * 2^4 + 3>>, \* SMLALS
    Multiply(8, 1, 3), Dp("RSC", TRUE, 8, 8, ShReg(1, ROR, 3)), MrsTo(9), MsrAll(9),
    Bl(43, 45), B(14, 44, 51),
    \* 45: to Thumb by BX, back at word 49
    Dp("ADD", FALSE, 15, 11, Imm(1)), BxTo(11), UndefWord, UndefWord,
    Dp("MOV", FALSE, 0, 15, Reg(12)), UndefWord,
    \* 51: the end, and the patches
    B(14, 51, 51), Dp("SUB", FALSE, 0, 0, Imm(1)), Dp("ADD", FALSE, 4, 4, Imm(3)),
    B(14, 30, 51)>>

ShiftCode(k) == \* k = 0 .. 3: by register, then 4 * W by immediate
    IF k < 4 THEN Dp("MOV", TRUE, 0, 0, ShReg(1, k, 2))
    ELSE Dp("MOV", TRUE, 0, 3, ShImm(1, (k - 4) % 4, (k - 4) \div 4))

MCArmCode ==
    [v \in 0 .. 99 + 4 + 4 * W |->
        IF v < Len(MainCode) THEN MainCode[v + 1] ELSE IF v >= 100 THEN ShiftCode(v - 100) ELSE UndefWord]

\* At word 46: MOV r12, lr; PUSH; BL to the next instruction; POP; SWI; BX pc.
MCThumbCode == [v \in 0 .. 63 |->
    CASE v = 1 -> 18108            \* MOV r12, r14
      [] v = 2 -> 46337            \* PUSH {r0, lr}
      [] v = 3 -> 61440            \* BL prefix
      [] v = 4 -> 63488            \* BL suffix, to the next instruction
      [] v = 5 -> 48385            \* POP {r0} into r0 only: LDMIA SP!, {r0}
      [] v = 6 -> 57089            \* SWI 1
      [] v = 7 -> 18296            \* BX pc
      [] OTHER -> 18112]           \* MOV r8, r8
Thumb(a, b) == a + 64 * b

MainMem ==
    [a \in 0 .. 79 |->
        CASE a = 47 -> Thumb(1, 2) [] a = 48 -> Thumb(6, 7)
          [] a = 68 -> 52 [] a = 70 -> 4 * 66 [] a = 71 -> 2741 [] a = 72 -> 1365
          [] OTHER -> a]

Amounts == {0, 1, 5, 11, 12, 13, 24, 30}
Values == {1, 2049, 2734}
ShiftPrograms == {<<"shift", ty, n, c, v>> : ty \in 0 .. 3, n \in Amounts, c \in BOOLEAN, v \in Values}
ThumbPrograms == {<<"thumb", k>> : k \in 0 .. 255}

MCImage ==
    [p \in ShiftPrograms \cup ThumbPrograms \cup {<<"main", 0>>, <<"tour", 0>>} |->
        CASE p[1] = "main" -> [MainMem EXCEPT ![30] = 54]
          [] p[1] = "tour" -> MainMem
          [] p[1] = "shift" ->
                [a \in 0 .. 79 |-> CASE a = 0 -> 100 + p[2]
                                     [] a = 1 -> 104 + p[2] + 4 * (p[3] % W)
                                     [] OTHER -> 51]
          [] p[1] = "thumb" -> [a \in 0 .. 79 |-> 51]]
MCStart ==
    [p \in ShiftPrograms \cup ThumbPrograms \cup {<<"main", 0>>, <<"tour", 0>>} |->
        CASE p[1] = "shift" ->
               [NewRegisters EXCEPT !.gpr[1] = p[5], !.gpr[2] = p[3], !.cpsr.c = p[4]]
          [] p[1] = "main" ->
               [NewRegisters EXCEPT !.cpsr.mode = ModeBits["usr"], !.cpsr.i = FALSE, !.cpsr.f = FALSE,
                                    !.gpr[13] = 264, !.gpr[15] = 4 * 21, !.exc_bank["irq"][13] = 320]
          [] OTHER -> NewRegisters]
MCMaxEvents == [main |-> 2, tour |-> 1, shift |-> 0, thumb |-> 0]
MCMaxClock == [main |-> 5, tour |-> 18, shift |-> 1, thumb |-> 0]
MCPatch == <<21, 53>>
=============================================================================
