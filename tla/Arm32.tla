-------------------------------- MODULE Arm32 --------------------------------
(***************************************************************************)
(* The ARM32 core (arm32/mod.rs, execute.rs, icache.rs) as a function from *)
(* machine state to machine state.  A machine is a record: the register    *)
(* file, the boundary events (irq, fiq, doorbell), the address and state   *)
(* of the instruction under execution, the decoded-instruction cache, the  *)
(* host hooks and the memory.  Memory is kept as words; the instruction a  *)
(* word or a halfword of it stands for is looked up in a table, so that    *)
(* words may be narrower than encodings.  The core aligns every access, so *)
(* a word is read and written whole.  Cycle counts are left out.           *)
(***************************************************************************)
EXTENDS ArmDecode, Sequences, FiniteSets

-----------------------------------------------------------------------------
(* The register file (arm32/registers.rs): sixteen registers seen through  *)
(* a window `gpr` that holds the current mode's view, the banks the window *)
(* is spilled to, and the status registers.  A register file is a record   *)
(* [gpr, cpsr, spsr, usr_bank, fiq_bank, exc_bank]; the banks are indexed  *)
(* by register number.  The reserved middle bits of a PSR are left out.    *)

Modes == {"usr", "fiq", "irq", "svc", "abt", "und", "sys"}
ModeBits == [usr |-> 16, fiq |-> 17, irq |-> 18, svc |-> 19, abt |-> 23, und |-> 27, sys |-> 31]

\* Psr::mode: a reserved encoding selects the user bank.
ModeOf(bits) ==
    CASE bits = 17 -> "fiq" [] bits = 18 -> "irq" [] bits = 19 -> "svc" [] bits = 23 -> "abt"
      [] bits = 27 -> "und" [] bits = 31 -> "sys" [] OTHER -> "usr"

has_spsr(m) == m \notin {"usr", "sys"}
same_bank(a, b) == a = b \/ (~has_spsr(a) /\ ~has_spsr(b))

\* The modes with an entry in spsr, and those with one in exc_bank.
SpsrModes == {m \in Modes : has_spsr(m)}
ExcModes == SpsrModes \ {"fiq"}

Psr == [n : BOOLEAN, z : BOOLEAN, c : BOOLEAN, v : BOOLEAN,
        i : BOOLEAN, f : BOOLEAN, t : BOOLEAN, mode : 0 .. 31]

privileged(p) == p.mode # ModeBits["usr"]

ResetPsr == [n |-> FALSE, z |-> FALSE, c |-> FALSE, v |-> FALSE,
             i |-> FALSE, f |-> FALSE, t |-> FALSE, mode |-> ModeBits["svc"]]

NewRegisters ==
    [gpr |-> [i \in 0 .. 15 |-> 0], cpsr |-> [ResetPsr EXCEPT !.i = TRUE, !.f = TRUE],
     spsr |-> [m \in SpsrModes |-> ResetPsr],
     usr_bank |-> [i \in 8 .. 14 |-> 0], fiq_bank |-> [i \in 8 .. 14 |-> 0],
     exc_bank |-> [m \in ExcModes |-> [i \in 13 .. 14 |-> 0]]]

\* The register files.
Registers ==
    [gpr : [0 .. 15 -> Int], cpsr : Psr, spsr : [SpsrModes -> Psr],
     usr_bank : [8 .. 14 -> Int], fiq_bank : [8 .. 14 -> Int],
     exc_bank : [ExcModes -> [13 .. 14 -> Int]]]

CurrentMode(r) == ModeOf(r.cpsr.mode)

\* As Spilled, with the index of exc_bank off by one.
SpilledNextBank(r) ==
    LET old == CurrentMode(r)
        next == [svc |-> "abt", abt |-> "irq", irq |-> "und", und |-> "und", usr |-> "usr", sys |-> "usr"]
    IN  IF old = "fiq" THEN [r EXCEPT !.fiq_bank = [i \in 8 .. 14 |-> r.gpr[i]]]
        ELSE [r EXCEPT
                !.usr_bank = [i \in 8 .. 14 |-> IF i <= 12 \/ ~has_spsr(old) THEN r.gpr[i] ELSE @[i]],
                !.exc_bank = [m \in ExcModes |->
                                [i \in 13 .. 14 |-> IF m = next[old] THEN r.gpr[i] ELSE @[m][i]]]]

\* The window spilled into the storage of the mode it belongs to ...
Spilled(r) ==
    LET old == CurrentMode(r)
    IN  IF old = "fiq" THEN [r EXCEPT !.fiq_bank = [i \in 8 .. 14 |-> r.gpr[i]]]
        ELSE [r EXCEPT
                !.usr_bank = [i \in 8 .. 14 |-> IF i <= 12 \/ ~has_spsr(old) THEN r.gpr[i] ELSE @[i]],
                !.exc_bank = [m \in ExcModes |-> [i \in 13 .. 14 |-> IF m = old THEN r.gpr[i] ELSE @[m][i]]]]

\* ... and loaded from that of mode m.
Loaded(r, m) ==
    [r EXCEPT !.gpr =
        [i \in 0 .. 15 |->
            CASE i \in 8 .. 14 /\ m = "fiq" -> r.fiq_bank[i]
              [] i \in 8 .. 12 /\ m # "fiq" -> r.usr_bank[i]
              [] i \in 13 .. 14 /\ m \in ExcModes -> r.exc_bank[m][i]
              [] i \in 13 .. 14 /\ ~has_spsr(m) -> r.usr_bank[i]
              [] OTHER -> @[i]]]

set_mode(r, new) ==
    LET w == IF CurrentMode(r) = new THEN r ELSE Loaded(Spilled(r), new)
    IN  [w EXCEPT !.cpsr.mode = ModeBits[new]]

\* Register i as mode m has it, read from any current mode.
reg_of(r, m, i) ==
    LET cur == CurrentMode(r)
        fiq_banked == i \in 8 .. 14 /\ (cur = "fiq") # (m = "fiq")
        exc_banked == i \in 13 .. 14
    IN  IF same_bank(cur, m) \/ i < 8 \/ i = 15 \/ (~fiq_banked /\ ~exc_banked) THEN r.gpr[i]
        ELSE IF m = "fiq" THEN r.fiq_bank[i]
        ELSE IF i < 13 \/ ~has_spsr(m) THEN r.usr_bank[i]
        ELSE r.exc_bank[m][i]

\* The user bank, as LDM and STM with the S bit reach it.
UserInWindow(r, i) ==
    \/ i \in 0 .. 7 \cup {15}
    \/ i \in 8 .. 12 /\ CurrentMode(r) # "fiq"
    \/ i \in 13 .. 14 /\ ~has_spsr(CurrentMode(r))
user_reg(r, i) == IF UserInWindow(r, i) THEN r.gpr[i] ELSE r.usr_bank[i]
set_user_reg(r, i, v) ==
    IF UserInWindow(r, i) THEN [r EXCEPT !.gpr[i] = v] ELSE [r EXCEPT !.usr_bank[i] = v]

\* A mode without an SPSR reads the CPSR in its place and ignores writes.
spsr_of(r, m) == IF has_spsr(m) THEN r.spsr[m] ELSE r.cpsr
set_spsr_of(r, m, p) == IF has_spsr(m) THEN [r EXCEPT !.spsr[m] = p] ELSE r

-----------------------------------------------------------------------------
(* The core.                                                               *)

CONSTANTS
    MemWords,        \* words of LinearMemory
    ArmCode,         \* ArmCode[v]: the ARM instruction whose word is v
    ThumbCode,       \* ThumbCode[v]: the Thumb instruction whose halfword is v
    ICACHE_ENTRIES, PageBytes, STAMP_SLOTS

ASSUME SizeAssumption ==
    /\ MemWords \in Nat \ {0}
    /\ ICACHE_ENTRIES \in Nat \ {0} /\ PageBytes \in Nat \ {0} /\ STAMP_SLOTS \in Nat \ {0}

\* A constant shift amount is shorter than a word; the code has five bits of it
\* for words of 32.
AmountFits(d) == d.op \in {"DpShImm", "Ldr", "Str"} => d.rs < W

ASSUME CodeAssumption ==
    /\ \A v \in DOMAIN ArmCode :
          ArmCode[v] \in (0 .. 15) \X Nat /\ AmountFits(decode_arm(ArmCode[v]))
    /\ \A v \in DOMAIN ThumbCode :
          ThumbCode[v] \in Nat /\ AmountFits(decode_thumb(ThumbCode[v]))

ArmWord(v) == IF v \in DOMAIN ArmCode THEN ArmCode[v] ELSE <<COND_AL, 2^27 + 2^26>>
ThumbHalf(v) == IF v \in DOMAIN ThumbCode THEN ThumbCode[v] ELSE 2^15 + 2^14 + 2^13 + 2^11

Gpr(s, i) == s.regs.gpr[i]
SetGpr(s, i, v) == [s EXCEPT !.regs.gpr[i] = Wrap(v)]

(* --- Status registers as words --------------------------------------------- *)

Psr2Word(p) ==
    p.mode + 32 * Num(p.t) + 64 * Num(p.f) + 128 * Num(p.i)
    + 2^(W - 4) * (Num(p.v) + 2 * Num(p.c) + 4 * Num(p.z) + 8 * Num(p.n))

\* Psr::write under the c and f parts of a field mask.
PsrWrite(p, v, control, flags) ==
    [n |-> IF flags THEN Bit(v, W - 1) ELSE p.n, z |-> IF flags THEN Bit(v, W - 2) ELSE p.z,
     c |-> IF flags THEN Bit(v, W - 3) ELSE p.c, v |-> IF flags THEN Bit(v, W - 4) ELSE p.v,
     i |-> IF control THEN Bit(v, 7) ELSE p.i, f |-> IF control THEN Bit(v, 6) ELSE p.f,
     t |-> IF control THEN Bit(v, 5) ELSE p.t, mode |-> IF control THEN v % 32 ELSE p.mode]

set_nz(p, v) == [p EXCEPT !.n = Negative(v), !.z = v = 0]

(* --- Memory and the write stamps -------------------------------------------- *)

Slot(addr) == (addr \div PageBytes) % STAMP_SLOTS

\* As stamp_write, with the stamp taken before the clock advances.
StampEarly(c, addr) == [c EXCEPT !.clock = @ + 1, !.stamps[Slot(addr)] = c.clock]
stamp_write(c, addr) == [c EXCEPT !.clock = @ + 1, !.stamps[Slot(addr)] = c.clock + 1]
invalidate_all(c) == [c EXCEPT !.clock = @ + 1, !.inval = c.clock + 1]

WordAt(s, addr) == s.mem[(addr \div 4) % MemWords]
ReadByte(s, addr) == (WordAt(s, addr) \div 2^(ByteBits * (addr % 4))) % 2^ByteBits
ReadHalf(s, addr) == (WordAt(s, addr) \div 2^(ByteBits * (addr % 4))) % 2^(2 * ByteBits)

\* The low `bits` bits of v replace those at addr in its word.
Poke(s, addr, bits, v) ==
    LET lo == 2^(ByteBits * (addr % 4))
        old == WordAt(s, addr)
        part == ((old \div lo) % 2^bits) * lo
    IN  [s EXCEPT !.mem[(addr \div 4) % MemWords] = old - part + (v % 2^bits) * lo]

Store(s, addr, bits, v) == Poke([s EXCEPT !.cache = stamp_write(@, addr)], addr, bits, v)
write8(s, addr, v) == Store(s, addr, ByteBits, v)
write16(s, addr, v) == Store(s, addr, 2 * ByteBits, v)
write32(s, addr, v) == Store(s, addr, W, v)

read32_rot(s, addr) ==
    LET n == ByteBits * (addr % 4) IN IF n = 0 THEN WordAt(s, addr) ELSE Ror(WordAt(s, addr), n)
read16_rot(s, addr) ==
    LET v == ReadHalf(s, addr - (addr % 2)) IN IF addr % 2 = 1 THEN Ror(v, ByteBits) ELSE v

\* A narrow value sign-extended to a word.
Extended(v, bits) == Wrap(SignExt(v, bits))

(* --- Exceptions --------------------------------------------------------------- *)

Vector == [Undefined |-> 4, Swi |-> 8, PrefetchAbort |-> 12, DataAbort |-> 16, Irq |-> 24, Fiq |-> 28]
ModeFor == [Undefined |-> "und", Swi |-> "svc", PrefetchAbort |-> "abt", DataAbort |-> "abt",
            Irq |-> "irq", Fiq |-> "fiq"]

raise(s, e) ==
    LET ret == CASE e \in {"Undefined", "Swi"} -> Gpr(s, 15)
                 [] e = "PrefetchAbort" -> s.start_pc + 4
                 [] e = "DataAbort" -> s.start_pc + 8
                 [] e \in {"Irq", "Fiq"} -> Gpr(s, 15) + 4
        r == set_mode(s.regs, ModeFor[e])
    IN  [s EXCEPT !.regs = [r EXCEPT !.spsr[ModeFor[e]] = s.regs.cpsr,
                                     !.gpr[14] = Wrap(ret), !.gpr[15] = Vector[e],
                                     !.cpsr.t = FALSE, !.cpsr.i = TRUE, !.cpsr.f = @ \/ e = "Fiq"]]

set_host_trap(s, t) == [s EXCEPT !.host_trap = t, !.doorbell = TRUE]

fault_epilogue(s, e) ==
    IF s.trap_faults THEN set_host_trap(SetGpr(s, 15, s.start_pc), e) ELSE raise(s, e)

(* --- Operands ------------------------------------------------------------------- *)

cond_pass(p, cond) ==
    CASE cond = 0 -> p.z   [] cond = 1 -> ~p.z
      [] cond = 2 -> p.c   [] cond = 3 -> ~p.c
      [] cond = 4 -> p.n   [] cond = 5 -> ~p.n
      [] cond = 6 -> p.v   [] cond = 7 -> ~p.v
      [] cond = 8 -> p.c /\ ~p.z     [] cond = 9 -> ~p.c \/ p.z
      [] cond = 10 -> p.n = p.v      [] cond = 11 -> p.n # p.v
      [] cond = 12 -> ~p.z /\ p.n = p.v
      [] cond = 13 -> p.z \/ p.n # p.v
      [] cond = 14 -> TRUE
      [] cond = 15 -> FALSE

pc_op(s) == Wrap(s.start_pc + IF s.thumb THEN 4 ELSE 8)
pc_store(s) == Wrap(s.start_pc + IF s.thumb THEN 6 ELSE 12)
reg_op(s, i) ==
    CASE i = 15 -> pc_op(s) [] i = PCA -> pc_op(s) - (pc_op(s) % 4) [] OTHER -> Gpr(s, i)
reg_op12(s, i) == IF i = 15 THEN Wrap(s.start_pc + 12) ELSE Gpr(s, i)

branch_to(s, target) ==
    LET v == Wrap(target) IN SetGpr(s, 15, IF s.regs.cpsr.t THEN v - (v % 2) ELSE v)
set_reg(s, i, v) == IF i = 15 THEN branch_to(s, v) ELSE SetGpr(s, i, v)

\* A raw status image, banks switched to the mode it names.
TakePsr(s, p) == [s EXCEPT !.regs = [set_mode(s.regs, ModeOf(p.mode)) EXCEPT !.cpsr = p]]
\* As restore_cpsr, without the switch of banks.
RestoreFlagsOnly(s) ==
    LET m == CurrentMode(s.regs) IN IF has_spsr(m) THEN [s EXCEPT !.regs.cpsr = s.regs.spsr[m]] ELSE s
restore_cpsr(s) ==
    LET m == CurrentMode(s.regs) IN IF has_spsr(m) THEN TakePsr(s, s.regs.spsr[m]) ELSE s

(* --- Data processing, multiplies, status transfers ------------------------------ *)

Logical == {"AND", "EOR", "TST", "TEQ", "ORR", "MOV", "BIC", "MVN"}
Tests == {"TST", "TEQ", "CMP", "CMN"}

\* Result, carry and overflow of an ALU operation; the shifter's carry is sc.
AluResult(op, rn, op2, sc, p) ==
    LET logic(v) == [v |-> v, c |-> sc, o |-> p.v]
    IN  CASE op \in {"AND", "TST"} -> logic(FromBits(Bits(rn) \cap Bits(op2)))
          [] op \in {"EOR", "TEQ"} -> logic(FromBits((Bits(rn) \cup Bits(op2)) \ (Bits(rn) \cap Bits(op2))))
          [] op = "ORR" -> logic(FromBits(Bits(rn) \cup Bits(op2)))
          [] op = "MOV" -> logic(op2)
          [] op = "BIC" -> logic(FromBits(Bits(rn) \ Bits(op2)))
          [] op = "MVN" -> logic(Complement(op2))
          [] op \in {"SUB", "CMP"} -> sub_with_carry(rn, op2, TRUE)
          [] op = "RSB" -> sub_with_carry(op2, rn, TRUE)
          [] op \in {"ADD", "CMN"} -> add_with_carry(rn, op2, FALSE)
          [] op = "ADC" -> add_with_carry(rn, op2, p.c)
          [] op = "SBC" -> sub_with_carry(rn, op2, p.c)
          [] op = "RSC" -> sub_with_carry(op2, rn, p.c)

\* A register-specified amount is read before the prefetch advances.
Operand2(s, d) ==
    CASE d.op = "DpImm" ->
            [v |-> d.imm, c |-> IF "rot" \in d.aux THEN Negative(d.imm) ELSE s.regs.cpsr.c]
      [] d.op = "DpShImm" -> shift_imm(d.ty, d.rs, reg_op(s, d.rm), s.regs.cpsr.c)
      [] d.op = "DpShReg" ->
            shift_reg(d.ty, reg_op(s, d.rs) % 2^8, reg_op12(s, d.rm), s.regs.cpsr.c)

exec_dp(s, d) ==
    LET p == s.regs.cpsr
        rn == IF d.op = "DpShReg" THEN reg_op12(s, d.rn) ELSE reg_op(s, d.rn)
        writes_rd == d.sub \notin Tests
        restores == d.rd = 15 /\ "s" \in d.aux /\ has_spsr(CurrentMode(s.regs))
        Flagged(x) == IF "s" \in d.aux /\ ~(restores /\ writes_rd)
                      THEN [s EXCEPT !.regs.cpsr = [set_nz(p, x.v) EXCEPT
                               !.c = x.c, !.v = IF d.sub \in Logical THEN @ ELSE x.o]]
                      ELSE s
        Restored(t) == IF restores THEN restore_cpsr(t) ELSE t
        Written(t, x) == IF writes_rd THEN set_reg(t, d.rd, x.v) ELSE t
        Finished(x) == Written(Restored(Flagged(x)), x)
        Operated(op2) == Finished(AluResult(d.sub, rn, op2.v, op2.c, p))
    IN  Operated(Operand2(s, d))

exec_mul(s, d) ==
    LET r == Wrap(Wrap(reg_op12(s, d.rm)) * reg_op12(s, d.rs)
                  + IF "acc" \in d.aux THEN reg_op12(s, d.rn) ELSE 0)
        t == set_reg(s, d.rd, r)
    IN  IF "s" \in d.aux THEN [t EXCEPT !.regs.cpsr = set_nz(@, r)] ELSE t

\* The product and the accumulator as two words, high and low.
exec_mull(s, d) ==
    LET signed == "signed" \in d.aux
        a == IF signed THEN SignExt(reg_op12(s, d.rm), W) ELSE reg_op12(s, d.rm)
        b == IF signed THEN SignExt(reg_op12(s, d.rs), W) ELSE reg_op12(s, d.rs)
        low == Wrap(a * b) + IF "acc" \in d.aux THEN reg_op12(s, d.rn) ELSE 0
        high == Wrap((a * b) \div 2^W + low \div 2^W
                     + IF "acc" \in d.aux THEN reg_op12(s, d.rd) ELSE 0)
        t == set_reg(set_reg(s, d.rn, Wrap(low)), d.rd, high)
    IN  IF "s" \in d.aux
        THEN [t EXCEPT !.regs.cpsr.n = Negative(high), !.regs.cpsr.z = high = 0 /\ Wrap(low) = 0]
        ELSE t

\* User mode reaches the flags only; a CPSR control write sets mode bit 4.
exec_msr(s, value, d) ==
    LET flags == Bit(d.ty, 3)
        control == Bit(d.ty, 0)
        m == CurrentMode(s.regs)
        own == control /\ privileged(s.regs.cpsr)
        next == PsrWrite(s.regs.cpsr, value, own, flags)
    IN  IF "spsr" \in d.aux
        THEN [s EXCEPT !.regs = set_spsr_of(@, m, PsrWrite(spsr_of(@, m), value, control, flags))]
        ELSE TakePsr(s, IF own THEN [next EXCEPT !.mode = 16 + (@ % 16)] ELSE next)

exec_mrs(s, d) ==
    LET v == Psr2Word(IF "spsr" \in d.aux THEN spsr_of(s.regs, CurrentMode(s.regs)) ELSE s.regs.cpsr)
    IN  SetGpr(s, d.rd, IF d.rd = 15 THEN v - 4 ELSE v)

(* --- Transfers -------------------------------------------------------------------- *)

\* The address accessed and the value written back to the base.
Indexed(s, d, off) ==
    LET base == reg_op(s, d.rn)
        x == Wrap(IF "up" \in d.aux THEN base + off ELSE base - off)
    IN  [addr |-> IF "pre" \in d.aux THEN x ELSE base, wb |-> x]
xfer_addr(s, d) ==
    Indexed(s, d, IF "reg" \in d.aux THEN shift_imm(d.ty, d.rs, reg_op(s, d.rm), s.regs.cpsr.c).v
                  ELSE d.imm)
hw_addr(s, d) == Indexed(s, d, IF "reg" \in d.aux THEN reg_op(s, d.rm) ELSE d.imm)

xfer_writeback(s, d, wb) ==
    IF "wb" \in d.aux /\ d.rn # PCA THEN SetGpr(s, d.rn, IF d.rn = 15 THEN wb + 4 ELSE wb) ELSE s

\* The write-back comes first: when Rd is the base, the loaded value wins.
exec_ldr(s, d) ==
    LET From(x) == set_reg(xfer_writeback(s, d, x.wb), d.rd,
                           IF "byte" \in d.aux THEN ReadByte(s, x.addr) ELSE read32_rot(s, x.addr))
    IN  From(xfer_addr(s, d))

Stored(s, d) == IF d.rd = 15 THEN pc_store(s) ELSE Gpr(s, d.rd)
exec_str(s, d) ==
    LET Put(addr) == IF "byte" \in d.aux THEN write8(s, addr, Stored(s, d))
                     ELSE write32(s, addr - (addr % 4), Stored(s, d))
        To(x) == xfer_writeback(Put(x.addr), d, x.wb)
    IN  To(xfer_addr(s, d))

exec_ldr_misc(s, d) ==
    LET Value(a) == CASE d.sub = "H" -> read16_rot(s, a)
                      [] d.sub = "SB" \/ (d.sub = "SHW" /\ a % 2 = 1) ->
                            Extended(ReadByte(s, a), ByteBits)
                      [] d.sub = "SHW" /\ a % 2 = 0 -> Extended(ReadHalf(s, a), 2 * ByteBits)
        From(x) == set_reg(xfer_writeback(s, d, x.wb), d.rd, Value(x.addr))
    IN  From(hw_addr(s, d))

exec_str_misc(s, d) ==
    LET x == hw_addr(s, d)
    IN  xfer_writeback(write16(s, x.addr - (x.addr % 2), Stored(s, d)), d, x.wb)

exec_swp(s, d) ==
    LET addr == reg_op12(s, d.rn)
        src == reg_op12(s, d.rm)
    IN  IF "byte" \in d.aux THEN set_reg(write8(s, addr, src), d.rd, ReadByte(s, addr))
        ELSE set_reg(write32(s, addr - (addr % 4), src), d.rd, read32_rot(s, addr))

(* --- Block transfers ---------------------------------------------------------------- *)

Listed(d) == {i \in 0 .. 15 : Bit(d.imm, i)}

\* The transfer walks ascending addresses, lowest register first.
blk_addr(s, d) ==
    LET base == reg_op(s, d.rn)
        bytes == IF "empty" \in d.aux THEN 64 ELSE 4 * Cardinality(Listed(d))
        wb == Wrap(IF "up" \in d.aux THEN base + bytes ELSE base - bytes)
        low == IF "up" \in d.aux THEN base ELSE wb
        start == Wrap(low + IF ("pre" \in d.aux) = ("up" \in d.aux) THEN 4 ELSE 0)
    IN  [addr |-> start - (start % 4), wb |-> wb]

\* The address of register i's slot.
SlotOf(x, d, i) == Wrap(x.addr + 4 * Cardinality({j \in Listed(d) : j < i}))

\* Registers of set L written from memory through the window or the user bank.
LoadAll(s, d, x, L, user_bank) ==
    LET value == [i \in 0 .. 15 |-> IF i \in L THEN WordAt(s, SlotOf(x, d, i)) ELSE 0]
        inWindow == {i \in L : ~user_bank \/ UserInWindow(s.regs, i)}
    IN  [s EXCEPT !.regs.gpr = [i \in 0 .. 15 |-> IF i \in inWindow THEN value[i] ELSE @[i]],
                  !.regs.usr_bank = [i \in 8 .. 14 |-> IF i \in L \ inWindow THEN value[i] ELSE @[i]]]

BlockWriteback(s, d, wb, user_bank) ==
    IF user_bank THEN [s EXCEPT !.regs = set_user_reg(@, d.rn, wb)] ELSE SetGpr(s, d.rn, wb)

\* S with the PC listed restores the CPSR, S without it selects the user bank.
exec_ldm(s, d) ==
    LET list == Listed(d)
        user_bank == "s" \in d.aux /\ 15 \notin list
        Based(t, wb) == IF "wb" \in d.aux /\ d.rn \notin list THEN BlockWriteback(t, d, wb, user_bank)
                        ELSE t
        Restored(t) == IF "s" \in d.aux THEN restore_cpsr(t) ELSE t
        WithPc(t, pc) == IF "empty" \in d.aux THEN SetGpr(t, 15, pc) ELSE branch_to(t, pc)
        Finished(t, x) ==
            IF 15 \notin list THEN t ELSE WithPc(Restored(t), WordAt(s, SlotOf(x, d, 15)))
        From(x) == Finished(Based(LoadAll(s, d, x, list \ {15}, user_bank), x.wb), x)
    IN  From(blk_addr(s, d))

\* What STM stores for a listed register.
StmValue(s, d, x, i) ==
    CASE i = d.rn /\ "wb" \in d.aux /\ \E j \in Listed(d) : j < i -> x.wb
      [] OTHER -> IF i = 15 THEN pc_store(s)
                  ELSE IF "s" \in d.aux THEN user_reg(s.regs, i) ELSE Gpr(s, i)

exec_stm(s, d) ==
    LET Stores(x) ==
            LET store[i \in 0 .. 16] ==
                    IF i = 0 THEN s
                    ELSE IF i - 1 \in Listed(d)
                         THEN write32(store[i - 1], SlotOf(x, d, i - 1), StmValue(s, d, x, i - 1))
                         ELSE store[i - 1]
            IN  store[16]
        Based(t, wb) == IF "wb" \in d.aux THEN BlockWriteback(t, d, wb, "s" \in d.aux) ELSE t
        To(x) == Based(Stores(x), x.wb)
    IN  To(blk_addr(s, d))

(* --- Dispatch, the boundary and the run loop ----------------------------------------- *)

exec_branch(s, d) ==
    LET t == IF "link" \in d.aux THEN SetGpr(s, 14, s.start_pc + 4) ELSE s
    IN  branch_to(t, pc_op(s) + d.imm)

exec_bx(s, d) ==
    LET v == reg_op(s, d.rm)
    IN  branch_to([s EXCEPT !.regs.cpsr.t = v % 2 = 1], v - (v % 2))

exec_thumb_bl(s, d) ==
    IF "suffix" \notin d.aux THEN SetGpr(s, 14, pc_op(s) + 4096 * SignExt(d.imm, 11))
    ELSE LET pc == Gpr(s, 15)
         IN  branch_to(SetGpr(s, 14, pc - (pc % 2) + 1), Gpr(s, 14) + 2 * d.imm)

exec_decoded(s, d) ==
    IF ~cond_pass(s.regs.cpsr, d.cond) THEN s
    ELSE CASE d.op \in {"DpImm", "DpShImm", "DpShReg"} -> exec_dp(s, d)
           [] d.op = "Mul" -> exec_mul(s, d)
           [] d.op = "Mull" -> exec_mull(s, d)
           [] d.op = "Mrs" -> exec_mrs(s, d)
           [] d.op = "MsrReg" -> exec_msr(s, reg_op(s, d.rm), d)
           [] d.op = "MsrImm" -> exec_msr(s, d.imm, d)
           [] d.op = "BranchImm" -> exec_branch(s, d)
           [] d.op = "Bx" -> exec_bx(s, d)
           [] d.op = "Ldr" -> exec_ldr(s, d)
           [] d.op = "Str" -> exec_str(s, d)
           [] d.op = "LdrMisc" -> exec_ldr_misc(s, d)
           [] d.op = "StrMisc" -> exec_str_misc(s, d)
           [] d.op = "Ldm" -> exec_ldm(s, d)
           [] d.op = "Stm" -> exec_stm(s, d)
           [] d.op = "Swp" -> exec_swp(s, d)
           [] d.op = "Swi" -> IF s.trap_swi THEN set_host_trap(s, "Syscall") ELSE raise(s, "Swi")
           [] d.op = "Undef" -> fault_epilogue(s, "Undefined")
           [] d.op = "ThumbBl" -> exec_thumb_bl(s, d)

FreshDecode(s, pc, thumb) ==
    IF thumb THEN decode_thumb(ThumbHalf(ReadHalf(s, pc))) ELSE decode_arm(ArmWord(WordAt(s, pc)))

EntrySlot(pc) == (pc \div 2) % ICACHE_ENTRIES
Hits(c, pc, thumb) ==
    LET e == c.entries[EntrySlot(pc)]
    IN  e.key = <<pc, thumb>> /\ e.version >= c.stamps[Slot(pc)] /\ e.version >= c.inval

icache_fill(c, pc, thumb, d) ==
    [c EXCEPT !.entries[EntrySlot(pc)] = [key |-> <<pc, thumb>>, version |-> c.clock, insn |-> d]]

exec_one(s) ==
    LET thumb == s.regs.cpsr.t
        raw == Gpr(s, 15)
        pc == raw - (raw % (IF thumb THEN 2 ELSE 4))
        hit == ~s.fused_only /\ Hits(s.cache, pc, thumb)
        Filled(d) == IF hit \/ s.fused_only THEN s.cache ELSE icache_fill(s.cache, pc, thumb, d)
        Execute(d) ==
            exec_decoded(SetGpr([s EXCEPT !.thumb = thumb, !.start_pc = pc, !.cache = Filled(d)],
                                15, pc + d.len), d)
    IN  Execute(IF hit THEN s.cache.entries[EntrySlot(pc)].insn ELSE FreshDecode(s, pc, thumb))

TakesFiq(s) == s.fiq /\ ~s.regs.cpsr.f
TakesIrq(s) == s.irq /\ ~s.regs.cpsr.i
interrupt_pending(s) == TakesFiq(s) \/ TakesIrq(s)
boundary_pending(s) == s.irq \/ s.fiq \/ s.doorbell \/ s.halted

step_slow(s) ==
    LET t == [s EXCEPT !.doorbell = FALSE]
    IN  CASE TakesFiq(t) -> raise([t EXCEPT !.halted = FALSE], "Fiq")
          [] ~TakesFiq(t) /\ TakesIrq(t) -> raise([t EXCEPT !.halted = FALSE], "Irq")
          [] OTHER -> IF t.halted THEN t ELSE exec_one(t)

step(s) == IF boundary_pending(s) THEN step_slow(s) ELSE exec_one(s)

\* run_boundary's verdict: the reason to leave the run loop, or "none".
RunExit(s) ==
    CASE s.host_trap # "none" -> "HostTrap"
      [] s.host_trap = "none" /\ s.halted /\ ~interrupt_pending(s) -> "Halted"
      [] OTHER -> "none"

\* One turn of run(): the new machine and the exit it ends with.
RunTurn(s) ==
    IF ~boundary_pending(s) \/ RunExit(s) = "none" THEN [s |-> step(s), exit |-> "none"]
    ELSE [s |-> IF RunExit(s) = "HostTrap" THEN [s EXCEPT !.doorbell = FALSE] ELSE s,
          exit |-> RunExit(s)]

NewCache ==
    [entries |-> [i \in 0 .. ICACHE_ENTRIES - 1 |->
                    [key |-> <<0, FALSE>>, version |-> 0, insn |-> Skeleton(0, 0)]],
     stamps |-> [i \in 0 .. STAMP_SLOTS - 1 |-> 0], clock |-> 1, inval |-> 1]

NewCpu(mem) ==
    [mem |-> mem, regs |-> NewRegisters,
     halted |-> FALSE, irq |-> FALSE, fiq |-> FALSE, doorbell |-> FALSE,
     start_pc |-> 0, thumb |-> FALSE, cache |-> NewCache, trap_swi |-> FALSE, trap_faults |-> FALSE,
     host_trap |-> "none", fused_only |-> FALSE]

\* The lines are the host's and survive a reset.
reset(s) ==
    [s EXCEPT !.regs = NewRegisters, !.halted = FALSE, !.doorbell = FALSE,
              !.cache = invalidate_all(@), !.host_trap = "none"]
=============================================================================
