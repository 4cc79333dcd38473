------------------------------ MODULE ArmSystem ------------------------------
(***************************************************************************)
(* An ARM32 machine under an embedder, which calls run() and step(), moves *)
(* the interrupt lines, patches code, takes traps, halts and resets.  One  *)
(* action is one turn of run()'s loop or one call.  `sys` is the machine.  *)
(* `solo` is a second machine with the decoded-instruction cache off that  *)
(* never sees an interrupt and whose system calls are served on the spot:  *)
(* it executes the instructions of the program proper one for one.         *)
(***************************************************************************)
EXTENDS Arm32

-----------------------------------------------------------------------------
(* A reference for the two decoders: encoders of ARM instructions, the ARM *)
(* instruction that each Thumb instruction abbreviates, and the barrel     *)
(* shifter as a repetition of one-bit shifts.                              *)

Dp(op, s, rn, rd, operand) ==
    LET n == CHOOSE k \in DOMAIN AluOps : AluOps[k] = op
    IN  <<COND_AL, 2^21 * (n - 1) + 2^20 * Num(s) + 2^16 * rn + 2^12 * rd + operand>>
Imm(v) == 2^25 + v
ShImm(rm, ty, n) == rm + 2^5 * ty + 2^7 * n
ShReg(rm, ty, rs) == rm + 2^4 + 2^5 * ty + 2^8 * rs

\* The addressing bits: pre-indexed, up, write-back.
PU == 2^24 + 2^23
WB == 2^21
LOAD == 2^20
Xfer(bits, rn, rd, offset) == <<COND_AL, 2^26 + bits + 2^16 * rn + 2^12 * rd + offset>>
XferReg(bits, rn, rd, rm) == <<COND_AL, 2^26 + 2^25 + bits + 2^16 * rn + 2^12 * rd + rm>>
XferB(bits, rn, rd, offset) == Xfer(2^22 + bits, rn, rd, offset)
Half(bits, rn, rd, kind, rm) == <<COND_AL, bits + 2^16 * rn + 2^12 * rd + 2^7 + 2^4 + 2^5 * kind + rm>>
HalfImm(bits, rn, rd, kind, off) ==
    Half(2^22 + bits, rn, rd, kind, 2^8 * (off \div 16) + (off % 16))
Block(bits, rn, list) == <<COND_AL, 2^27 + bits + 2^16 * rn + list>>
Multiply(rd, rm, rs) == <<COND_AL, 2^20 + 2^16 * rd + 2^8 * rs + 9 * 2^4 + rm>>
BxTo(rm) == <<COND_AL, 2^4 * 1245169 + rm>>
SwiWord(n) == <<COND_AL, 15 * 2^24 + n>>
UndefWord == <<COND_AL, 3 * 2^26>>

\* The ARM instruction a Thumb halfword stands for, branches excepted.
ArmForm(w) ==
    LET g == Field(w, 15, 11)
        rd == Field(w, 2, 0)
        rs == Field(w, 5, 3)
        rn == Field(w, 8, 6)
        r8 == Field(w, 10, 8)
        imm5 == Field(w, 10, 6)
        imm8 == Field(w, 7, 0)
        load == IF Bit(w, 11) THEN LOAD ELSE 0
        alu == <<"AND", "EOR", "LSL", "LSR", "ASR", "ADC", "SBC", "ROR",
                 "TST", "NEG", "CMP", "CMN", "ORR", "MUL", "BIC", "MVN">>[Field(w, 9, 6) + 1]
        hd == rd + 8 * Field(w, 7, 7)
        hs == Field(w, 6, 3)
    IN  CASE g < 3 -> Dp("MOV", TRUE, 0, rd, ShImm(rs, g, imm5))
          [] g = 3 -> Dp(IF Bit(w, 9) THEN "SUB" ELSE "ADD", TRUE, rs, rd,
                         IF Bit(w, 10) THEN Imm(rn) ELSE ShImm(rn, LSL, 0))
          [] g = 4 -> Dp("MOV", TRUE, 0, r8, Imm(imm8))
          [] g = 5 -> Dp("CMP", TRUE, r8, 0, Imm(imm8))
          [] g = 6 -> Dp("ADD", TRUE, r8, r8, Imm(imm8))
          [] g = 7 -> Dp("SUB", TRUE, r8, r8, Imm(imm8))
          [] g = 8 /\ ~Bit(w, 10) ->
               (CASE alu = "LSL" -> Dp("MOV", TRUE, 0, rd, ShReg(rd, LSL, rs))
                  [] alu = "LSR" -> Dp("MOV", TRUE, 0, rd, ShReg(rd, LSR, rs))
                  [] alu = "ASR" -> Dp("MOV", TRUE, 0, rd, ShReg(rd, ASR, rs))
                  [] alu = "ROR" -> Dp("MOV", TRUE, 0, rd, ShReg(rd, ROR, rs))
                  [] alu = "NEG" -> Dp("RSB", TRUE, rs, rd, Imm(0))
                  [] alu = "MUL" -> Multiply(rd, rd, rs)
                  [] OTHER -> Dp(alu, TRUE, rd, rd, ShImm(rs, LSL, 0)))
          [] g = 8 /\ Bit(w, 10) ->
               (CASE Field(w, 9, 8) = 0 -> Dp("ADD", FALSE, hd, hd, ShImm(hs, LSL, 0))
                  [] Field(w, 9, 8) = 1 -> Dp("CMP", TRUE, hd, 0, ShImm(hs, LSL, 0))
                  [] Field(w, 9, 8) = 2 -> Dp("MOV", FALSE, 0, hd, ShImm(hs, LSL, 0))
                  [] Field(w, 9, 8) = 3 -> BxTo(hs))
          [] g = 9 -> Xfer(PU + LOAD, 15, r8, 4 * imm8)
          [] g \in {10, 11} ->
               (CASE ~Bit(w, 9) /\ ~Bit(w, 10) -> XferReg(PU + load, rs, rd, rn)
                  [] ~Bit(w, 9) /\ Bit(w, 10) -> XferReg(2^22 + PU + load, rs, rd, rn)
                  [] Field(w, 11, 9) = 1 -> Half(PU, rs, rd, 1, rn)
                  [] Field(w, 11, 9) = 3 -> Half(PU + LOAD, rs, rd, 2, rn)
                  [] Field(w, 11, 9) = 5 -> Half(PU + LOAD, rs, rd, 1, rn)
                  [] Field(w, 11, 9) = 7 -> Half(PU + LOAD, rs, rd, 3, rn))
          [] g \in {12, 13} -> Xfer(PU + load, rs, rd, 4 * imm5)
          [] g \in {14, 15} -> XferB(PU + load, rs, rd, imm5)
          [] g \in {16, 17} -> HalfImm(PU + load, rs, rd, 1, 2 * imm5)
          [] g \in {18, 19} -> Xfer(PU + load, 13, r8, 4 * imm8)
          [] g \in {20, 21} -> Dp("ADD", FALSE, IF g = 20 THEN 15 ELSE 13, r8,
                                  Imm(imm8))
          [] g \in {22, 23} ->
               (CASE Field(w, 11, 7) = 0 -> Dp("ADD", FALSE, 13, 13, Imm(Field(w, 6, 0)))
                  [] Field(w, 11, 7) = 1 -> Dp("SUB", FALSE, 13, 13, Imm(Field(w, 6, 0)))
                  [] Field(w, 11, 9) = 2 -> Block(2^24 + WB, 13, imm8 + 2^14 * Field(w, 8, 8))
                  [] Field(w, 11, 9) = 6 -> Block(2^23 + WB + LOAD, 13, imm8 + 2^15 * Field(w, 8, 8))
                  [] OTHER -> UndefWord)
          [] g \in {24, 25} -> Block(2^23 + WB + load, r8, imm8)
          [] Field(w, 15, 8) = 223 -> SwiWord(imm8)
          [] OTHER -> UndefWord

\* Formats 12 and 13 scale their immediate; the ARM form would rotate it instead.
Scaled(w) == Field(w, 15, 12) = 10 \/ Field(w, 15, 8) = 176
Branches(w) == (Field(w, 15, 12) = 13 /\ Field(w, 11, 8) # 15) \/ Field(w, 15, 11) \in {28, 30, 31}

\* Fields an operation does not read, and the word-aligned PC, make no difference.
Canonical(d) ==
    [d EXCEPT !.len = 0, !.rn = IF d.sub \in {"MOV", "MVN"} THEN 0 ELSE IF @ = PCA THEN 15 ELSE @,
              !.rd = IF d.sub \in {"TST", "CMP", "CMN"} THEN 0 ELSE @,
              !.aux = @ \ {"rot"}]

Abbreviates(w) ==
    LET t == Canonical(decode_thumb(w))
        a == Canonical(decode_arm(ArmForm(w)))
    IN  t = IF Scaled(w) THEN [a EXCEPT !.imm = 4 * @] ELSE a

OneBit(ty, x) ==
    CASE ty = LSL -> [v |-> Wrap(2 * x.v), c |-> Negative(x.v)]
      [] ty = LSR -> [v |-> x.v \div 2, c |-> Bit(x.v, 0)]
      [] ty = ASR -> [v |-> (x.v \div 2) + 2^(W - 1) * Num(Negative(x.v)), c |-> Bit(x.v, 0)]
      [] ty = ROR -> [v |-> (x.v \div 2) + 2^(W - 1) * Num(Bit(x.v, 0)), c |-> Bit(x.v, 0)]

\* n shifts by one bit.
Repeated(ty, n, value, carry) ==
    LET it[k \in 0 .. n] == IF k = 0 THEN [v |-> value, c |-> carry] ELSE OneBit(ty, it[k - 1])
    IN  it[n]

-----------------------------------------------------------------------------
(* The machine.                                                            *)

CONSTANTS
    Image,        \* Image[n]: the memory of program n, words by index
    Start,        \* Start[n]: the registers program n starts from
    HandlerWords, \* the memory that belongs to the interrupt handlers
    Patch,        \* <<word index, value>>: the host's write to code
    Budgets,      \* the instruction counts the embedder passes to run()
    MaxEvents,    \* by kind of program, bound on raised lines, patches, halts and resets together
    MaxClock      \* by kind of program, bound on the cache's clock, which every store advances

ASSUME ProgramAssumption ==
    /\ \A n \in DOMAIN Image : Image[n] \in [0 .. MemWords - 1 -> Int] /\ Start[n] \in Registers
    /\ Patch[2] \in Int

VARIABLES sys, solo, frames, program, left, events

vars == <<sys, solo, frames, program, left, events>>

Event == events < MaxEvents[program[1]] /\ events' = events + 1

\* The embedder's answers: a system call adds one to R0, an unknown instruction is skipped.
Served(s) ==
    [(CASE s.host_trap = "Syscall" -> SetGpr(s, 0, Gpr(s, 0) + 1)
        [] s.host_trap = "Undefined" -> SetGpr(s, 15, Gpr(s, 15) + 4)) EXCEPT !.host_trap = "none"]

Init ==
    /\ program \in DOMAIN Image
    /\ \E hosted \in BOOLEAN :
          /\ program[1] \notin {"main", "tour"} => ~hosted
          /\ sys = [NewCpu(Image[program]) EXCEPT
                       !.trap_swi = hosted, !.trap_faults = hosted, !.regs = Start[program]]
    /\ solo = [sys EXCEPT !.fused_only = TRUE]
    /\ frames = <<>>
    /\ left = 0 /\ events = 0

Interrupted == frames # <<>>

SoloStep ==
    LET Answered(t) == IF t.host_trap = "none" THEN t ELSE [Served(t) EXCEPT !.doorbell = FALSE]
    IN  Answered(exec_one(solo))

\* What a step does to the two machines and to the frames, given sys'.
Advance ==
    LET m == CurrentMode(sys.regs)
        idle == sys.halted /\ ~interrupt_pending(sys)
    IN  IF interrupt_pending(sys) THEN frames' = Append(frames, m) /\ UNCHANGED solo
        ELSE /\ solo' = IF Interrupted \/ idle THEN solo ELSE SoloStep
             /\ frames' = IF Interrupted /\ CurrentMode(sys'.regs) # m
                          THEN SubSeq(frames, 1, Len(frames) - 1) ELSE frames

\* run(n): a trap that was not taken ends it before anything executes.
CallRun(n) ==
    /\ left = 0 /\ sys.host_trap = "none"
    /\ left' = n
    /\ UNCHANGED <<sys, solo, frames, program, events>>

Turn ==
    /\ left > 0 /\ sys.cache.clock <= MaxClock[program[1]]
    /\ \E t \in {RunTurn(sys)} :
          /\ sys' = t.s
          /\ IF t.exit = "none" THEN left' = left - 1 /\ Advance
             ELSE left' = 0 /\ UNCHANGED <<solo, frames>>
    /\ UNCHANGED <<program, events>>

CallStep ==
    /\ left = 0 /\ sys.host_trap = "none" /\ sys.cache.clock <= MaxClock[program[1]]
    /\ sys' = step(sys)
    /\ Advance
    /\ UNCHANGED <<program, left, events>>

\* Between calls: take a trap and answer it.
TakeTrap ==
    /\ left = 0 /\ sys.host_trap # "none"
    /\ sys' = Served(sys)
    /\ UNCHANGED <<solo, frames, program, left, events>>

SetIrq(level) ==
    /\ left = 0 /\ level # sys.irq
    /\ IF level THEN Event ELSE UNCHANGED events
    /\ sys' = [sys EXCEPT !.irq = level]
    /\ UNCHANGED <<solo, frames, program, left>>

SetFiq(level) ==
    /\ left = 0 /\ level # sys.fiq
    /\ IF level THEN Event ELSE UNCHANGED events
    /\ sys' = [sys EXCEPT !.fiq = level]
    /\ UNCHANGED <<solo, frames, program, left>>

Halt ==
    /\ left = 0 /\ ~sys.halted
    /\ Event
    /\ sys' = [sys EXCEPT !.halted = TRUE]
    /\ UNCHANGED <<solo, frames, program, left>>

\* A host write to code, followed by the invalidation the host owes.
PatchCode ==
    /\ left = 0 /\ ~Interrupted /\ sys.host_trap = "none"
    /\ Event
    /\ sys' = [sys EXCEPT !.mem[Patch[1]] = Patch[2], !.cache = invalidate_all(@)]
    /\ solo' = [solo EXCEPT !.mem[Patch[1]] = Patch[2]]
    /\ UNCHANGED <<frames, program, left>>

Reset ==
    /\ left = 0 /\ sys.host_trap = "none"
    /\ Event
    /\ sys' = reset(sys)
    /\ solo' = reset(solo)
    /\ frames' = <<>>
    /\ UNCHANGED <<program, left>>

Next ==
    \/ \E n \in Budgets : CallRun(n)
    \/ Turn \/ CallStep \/ TakeTrap \/ Halt \/ PatchCode \/ Reset
    \/ \E level \in BOOLEAN : SetIrq(level) \/ SetFiq(level)

Spec == Init /\ [][Next]_vars

(* --- Properties ------------------------------------------------------------------ *)

(* Interrupts, the cache and the host are transparent: outside interrupt handlers   *)
(* and with no trap outstanding the program has the registers of every mode but the *)
(* handlers', the status registers and the memory that it would have had if it had  *)
(* run alone, uncached, with its calls served at once (raise, set_mode,             *)
(* restore_cpsr, run_boundary, the write stamps and the trap doorbell together).    *)
ProgramUndisturbed ==
    ~Interrupted /\ sys.host_trap = "none" =>
        /\ sys.regs.cpsr = solo.regs.cpsr
        /\ \A m \in {"usr", "svc", "und"} :
              /\ \A i \in 0 .. 15 : reg_of(sys.regs, m, i) = reg_of(solo.regs, m, i)
              /\ has_spsr(m) => sys.regs.spsr[m] = solo.regs.spsr[m]
        /\ \A a \in (0 .. MemWords - 1) \ HandlerWords : sys.mem[a] = solo.mem[a]

(* A live cache entry holds the decode of what memory holds now, whoever wrote it   *)
(* last: stores stamp their page, the host invalidates, and the key tells ARM from  *)
(* Thumb (exec_one's probe, icache_fill, stamp_write, invalidate_all).              *)
CacheExact ==
    \A k \in DOMAIN sys.cache.entries :
        LET e == sys.cache.entries[k]
        IN  e.version > 0 /\ Hits(sys.cache, e.key[1], e.key[2])
              => e.insn = FreshDecode(sys, e.key[1], e.key[2])

\* Registers only mode m sees.
Private(m, i) == (m = "fiq" /\ i \in 8 .. 14) \/ (m \in ExcModes /\ i \in 13 .. 14)

(* A step changes no private register and no SPSR of a mode other than the one it   *)
(* starts in and the one it ends in, whatever the window was spilled to in between  *)
(* (set_mode, set_user_reg, raise); only a reset clears them.                       *)
BanksIsolated ==
    [][\A m \in SpsrModes \ {CurrentMode(sys.regs), CurrentMode(sys'.regs)} :
          \/ sys'.regs = NewRegisters
          \/ /\ sys'.regs.spsr[m] = sys.regs.spsr[m]
             /\ \A i \in 8 .. 14 :
                   Private(m, i) => reg_of(sys'.regs, m, i) = reg_of(sys.regs, m, i)]_vars

(* The barrel shifter shifts one bit at a time, n times over: a register amount of  *)
(* any size, an immediate zero as a shift by a word (LSR, ASR) or through the carry *)
(* (ROR).  R1 holds the value and R2 the amount; the first instruction shifts R1 by *)
(* R2 into R0, the second by the same amount as an immediate into R3.               *)
ShifterExact ==
    program[1] = "shift" /\ events = 0 /\ sys.regs.gpr[15] \in {4, 8} =>
        LET ty == program[2]
            n == sys.regs.gpr[2]
            m == n % W
            v == sys.regs.gpr[1]
            reg == Repeated(ty, n, v, program[4])
            imm == CASE m # 0 \/ ty = LSL -> Repeated(ty, m, v, reg.c)
                     [] m = 0 /\ ty \in {LSR, ASR} -> Repeated(ty, W, v, reg.c)
                     [] m = 0 /\ ty = ROR ->
                           [v |-> (v \div 2) + 2^(W - 1) * Num(reg.c), c |-> Bit(v, 0)]
        IN  /\ sys.regs.gpr[0] = reg.v
            /\ sys.regs.gpr[15] = 4 => sys.regs.cpsr.c = reg.c
            /\ sys.regs.gpr[15] = 8 => sys.regs.gpr[3] = imm.v /\ sys.regs.cpsr.c = imm.c

(* A Thumb instruction decodes to what the ARM instruction it abbreviates decodes   *)
(* to, up to the fields the operation does not read: format by format, the empty    *)
(* register lists and the undefined encodings included.  Program <<"thumb", k>>     *)
(* stands for the halfwords 256k to 256k + 255.                                     *)
ThumbIsArm ==
    program[1] = "thumb" /\ left > 0 =>
        \A w \in 256 * program[2] .. 256 * program[2] + 255 : Branches(w) \/ Abbreviates(w)

(* What the instruction decoder and the operand shifter make of a word is what the  *)
(* architecture's own definitions say (shift_imm, shift_reg, decode_thumb).         *)
InstructionsExact == ShifterExact /\ ThumbIsArm
=============================================================================
