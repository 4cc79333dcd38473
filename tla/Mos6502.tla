------------------------------ MODULE Mos6502 -------------------------------
(***************************************************************************)
(* The 6502 core (cpu/) on the address decoder of device/mod.rs, as a      *)
(* function from machine state to machine state.  A machine is a record of *)
(* the registers, the interrupt latches, the RAM (the image loaded into it *)
(* and the cells written since) and the devices behind the windows.  Reads may *)
(* change a device, so they return [v |-> value, s |-> machine].           *)
(* Cycle counts are left out.                                              *)
(***************************************************************************)
EXTENDS Integers, Sequences, FiniteSets, Bitwise, TLC

-----------------------------------------------------------------------------
(* The polled 16550 UART of device/uart.rs as operators on its state: the  *)
(* bytes transmitted, the bytes the host fed and the guest has not read,   *)
(* and the stored registers.  Bytes are 0 .. 255.  A read may change the   *)
(* device, so it returns the value and the device.                         *)

WINDOW == 8

\* Register offsets.
RBR_THR == 0
IER == 1
IIR_FCR == 2
LCR == 3
MCR == 4
LSR == 5
SCR == 7

LSR_DATA_READY == 1
LSR_THR_EMPTY == 32
LSR_TX_IDLE == 64

NewUart ==
    [tx |-> <<>>, rx |-> <<>>, divisor |-> <<0, 0>>,
     regs |-> [r \in {IER, LCR, MCR, SCR} |-> 0]]

feed(u, bytes) == [u EXCEPT !.rx = @ \o bytes]

dlab(u) == u.regs[LCR] >= 128

Popped(u) == IF u.rx = <<>> THEN u ELSE [u EXCEPT !.rx = Tail(@)]

uart_read(u, offset) ==
    [d |-> IF offset = RBR_THR /\ ~dlab(u) THEN Popped(u) ELSE u,
     v |-> CASE offset \in {RBR_THR, IER} /\ dlab(u) -> u.divisor[offset + 1]
             [] offset = RBR_THR /\ ~dlab(u) -> IF u.rx = <<>> THEN 0 ELSE Head(u.rx)
             [] offset = IIR_FCR -> 1
             [] offset = LSR -> LSR_THR_EMPTY + LSR_TX_IDLE
                                  + (IF u.rx = <<>> THEN 0 ELSE LSR_DATA_READY)
             [] offset \in DOMAIN u.regs /\ (offset = IER => ~dlab(u)) -> u.regs[offset]
             [] OTHER -> 0]

\* Mutant: the divisor latch does not shadow the transmitter.
WriteIgnoringDlab(u, offset, value) ==
    IF offset = RBR_THR THEN [u EXCEPT !.tx = Append(@, value)] ELSE u

uart_write(u, offset, value) ==
    CASE offset \in {RBR_THR, IER} /\ dlab(u) -> [u EXCEPT !.divisor[offset + 1] = value]
      [] offset = RBR_THR /\ ~dlab(u) -> [u EXCEPT !.tx = Append(@, value)]
      [] offset \in DOMAIN u.regs /\ (offset = IER => ~dlab(u)) -> [u EXCEPT !.regs[offset] = value]
      [] OTHER -> u

-----------------------------------------------------------------------------
(* The processor and its bus.                                              *)

CONSTANT Windows    \* sequence of [start, len]: the mapped UARTs, in mapping order

\* SystemBus::map refuses a window that is empty or leaves the address space.
ASSUME WindowAssumption ==
    \A i \in DOMAIN Windows :
        Windows[i].len > 0 /\ Windows[i].start >= 0 /\ Windows[i].start + Windows[i].len <= 65536

Byte(v) == v % 256
Address(v) == v % 65536
Lo(a) == a % 256
Hi(a) == a \div 256
SignedByte(v) == IF v >= 128 THEN v - 256 ELSE v

(* --- Registers ---------------------------------------------------------- *)

\* The bits of Status; P is kept as the set of those that are set.
StatusBit == [C |-> 1, Z |-> 2, I |-> 4, D |-> 8, B |-> 16, U |-> 32, V |-> 64, N |-> 128]

Bits(p) ==
    LET sum[S \in SUBSET p] ==
            IF S = {} THEN 0 ELSE LET f == CHOOSE f \in S : TRUE IN StatusBit[f] + sum[S \ {f}]
    IN  sum[p]
FromByte(v) == {f \in DOMAIN StatusBit : (v \div StatusBit[f]) % 2 = 1}

SetTo(p, f, on) == IF on THEN p \cup {f} ELSE p \ {f}
set_zn(p, v) == SetTo(SetTo(p, "Z", v = 0), "N", v >= 128)

NewCpu ==
    [a |-> 0, x |-> 0, y |-> 0, sp |-> 253, pc |-> 0, p |-> {"I", "U"},
     halted |-> FALSE, nmi_pending |-> FALSE, prev_nmi |-> TRUE, irq_line |-> FALSE]

(* --- The bus ------------------------------------------------------------ *)

\* The first window that contains the address, or 0.
WindowOf(a) ==
    LET hit == {i \in DOMAIN Windows : Address(a - Windows[i].start) < Windows[i].len}
    IN  IF hit = {} THEN 0 ELSE CHOOSE i \in hit : \A j \in hit : i <= j

RamAt(s, a) ==
    CASE a \in DOMAIN s.ram -> s.ram[a]
      [] a \notin DOMAIN s.ram /\ a \in DOMAIN s.loaded -> s.loaded[a]
      [] OTHER -> 0

read(s, a) ==
    LET Through(w, r) == [v |-> r.v, s |-> [s EXCEPT !.dev[w] = r.d]]
        In(w) == IF w = 0 THEN [v |-> RamAt(s, a), s |-> s]
                 ELSE Through(w, uart_read(s.dev[w], a - Windows[w].start))
    IN  In(WindowOf(a))

write(s, a, v) ==
    LET In(w) == IF w = 0 THEN [s EXCEPT !.ram = (a :> v) @@ @]
                 ELSE [s EXCEPT !.dev[w] = uart_write(@, a - Windows[w].start, v)]
    IN  In(WindowOf(a))

\* The word of a low byte and of the read of its high byte.
Word(lo, r) == [v |-> lo + 256 * r.v, s |-> r.s]

\* Two reads, low byte first, at addresses that the caller chooses.
ReadPair(s, lo, hi) ==
    LET Second(r) == Word(r.v, read(r.s, hi)) IN Second(read(s, lo))

read_u16(s, a) == ReadPair(s, a, Address(a + 1))

fetch_byte(s) == [read(s, s.pc) EXCEPT !.s.pc = Address(@ + 1)]

fetch_word(s) ==
    LET Second(r) == Word(r.v, fetch_byte(r.s)) IN Second(fetch_byte(s))

(* --- Stack and interrupts ----------------------------------------------- *)

push(s, v) == [write(s, 256 + s.sp, v) EXCEPT !.sp = Byte(@ - 1)]

pull(s) == LET sp == Byte(s.sp + 1) IN read([s EXCEPT !.sp = sp], 256 + sp)

pull_u16(s) ==
    LET Second(r) == Word(r.v, pull(r.s)) IN Second(pull(s))

push_status(s, with_b) ==
    push(s, Bits(SetTo(s.p \cup {"U"}, "B", with_b)))

pull_status(s) ==
    LET Restored(r) == [r.s EXCEPT !.p = (FromByte(r.v) \cup {"U"}) \ {"B"}] IN Restored(pull(s))

NMI_VECTOR == 65530
RESET_VECTOR == 65532
IRQ_VECTOR == 65534

PushPc(s) == push(push(s, Hi(s.pc)), Lo(s.pc))
Masked(s) == [s EXCEPT !.p = @ \cup {"I"}]
Jump(r) == [r.s EXCEPT !.pc = r.v]

\* Mutant: the flags are pushed after I was set.
ServiceMaskedFirst(s, vector, with_b) ==
    Jump(read_u16(push_status(Masked(PushPc(s)), with_b), vector))

service_interrupt(s, vector, with_b) ==
    Jump(read_u16(Masked(push_status(PushPc(s), with_b)), vector))

(* --- Addressing modes --------------------------------------------------- *)

\* A zero-page pointer: its second byte wraps within the page.
ZeroPagePointer(s, z) == ReadPair(s, z, Byte(z + 1))

\* JMP ($nnnn) does not carry into the high byte of the pointer.
SamePagePointer(s, ptr) == ReadPair(s, ptr, 256 * Hi(ptr) + Byte(ptr + 1))

At(s, a) == [s |-> s, addr |-> a]

Indirected(r, i) == At(r.s, Address(r.v + i))

\* The modes that take one byte b and those that take a word w.
ByteAddress(b, s, mode) ==
    CASE mode = "ZeroPage" -> At(b.s, b.v)
      [] mode = "ZeroPageX" -> At(b.s, Byte(b.v + s.x))
      [] mode = "ZeroPageY" -> At(b.s, Byte(b.v + s.y))
      [] mode = "IndexedIndirect" -> Indirected(ZeroPagePointer(b.s, Byte(b.v + s.x)), 0)
      [] mode = "IndirectIndexed" -> Indirected(ZeroPagePointer(b.s, b.v), s.y)
      [] mode = "Relative" -> At(b.s, Address(b.s.pc + SignedByte(b.v)))
WordAddress(w, s, mode) ==
    CASE mode = "Absolute" -> At(w.s, w.v)
      [] mode = "AbsoluteX" -> At(w.s, Address(w.v + s.x))
      [] mode = "AbsoluteY" -> At(w.s, Address(w.v + s.y))
      [] mode = "Indirect" -> Indirected(SamePagePointer(w.s, w.v), 0)

resolve(s, mode) ==
    CASE mode \in {"Implied", "Accumulator", "JsrAbsolute"} -> At(s, 0)
      [] mode = "Immediate" -> At([s EXCEPT !.pc = Address(@ + 1)], s.pc)
      [] mode \in {"Absolute", "AbsoluteX", "AbsoluteY", "Indirect"} ->
           WordAddress(fetch_word(s), s, mode)
      [] OTHER -> ByteAddress(fetch_byte(s), s, mode)

(* --- The opcode table --------------------------------------------------- *)

\* op(operation, mode): the entries of one operation, opcode by mode.
Rows(operation, modes) == {[code |-> modes[m], op |-> operation, mode |-> m] : m \in DOMAIN modes}

\* The eight modes of the accumulator operations lie at fixed distances.
Accumulating(base) ==
    [Immediate |-> base + 9, ZeroPage |-> base + 5, ZeroPageX |-> base + 21, Absolute |-> base + 13,
     AbsoluteX |-> base + 29, AbsoluteY |-> base + 25, IndexedIndirect |-> base + 1,
     IndirectIndexed |-> base + 17]
Modifying(base) ==
    [ZeroPage |-> base + 6, ZeroPageX |-> base + 22, Absolute |-> base + 14, AbsoluteX |-> base + 30]
Shifting(base) == [Accumulator |-> base + 10] @@ Modifying(base)
Comparing(base) == [Immediate |-> base, ZeroPage |-> base + 4, Absolute |-> base + 12]
Single(mode, codes) == UNION {Rows(o, mode :> codes[o]) : o \in DOMAIN codes}

\* The first half of the table, ADC to JSR.
TableAdcToJsr ==
    UNION {Rows("ADC", Accumulating(96)), Rows("AND", Accumulating(32)), Rows("ASL", Shifting(0)),
           Single("Relative", [BCC |-> 144, BCS |-> 176, BEQ |-> 240, BMI |-> 48, BNE |-> 208,
                               BPL |-> 16, BVC |-> 80, BVS |-> 112]),
           Rows("BIT", [ZeroPage |-> 36, Absolute |-> 44]),
           Single("Implied", [BRK |-> 0, CLC |-> 24, CLD |-> 216, CLI |-> 88, CLV |-> 184,
                              SEC |-> 56, SED |-> 248, SEI |-> 120, DEX |-> 202, DEY |-> 136,
                              INX |-> 232, INY |-> 200]),
           Rows("CMP", Accumulating(192)), Rows("CPX", Comparing(224)), Rows("CPY", Comparing(192)),
           Rows("DEC", Modifying(192)), Rows("EOR", Accumulating(64)), Rows("INC", Modifying(224)),
           Rows("JMP", [Absolute |-> 76, Indirect |-> 108]), Rows("JSR", [JsrAbsolute |-> 32])}

\* The second half, LDA to TYA.
TableLdaToTya ==
    UNION {Rows("LDA", Accumulating(160)),
           Rows("LDX", [ZeroPageY |-> 182, AbsoluteY |-> 190] @@ Comparing(162)),
           Rows("LDY", [ZeroPageX |-> 180, AbsoluteX |-> 188] @@ Comparing(160)),
           Rows("LSR", Shifting(64)), Rows("ORA", Accumulating(0)), Rows("ROL", Shifting(32)),
           Rows("ROR", Shifting(96)), Rows("SBC", Accumulating(224)),
           Rows("STA", [m \in DOMAIN Accumulating(0) \ {"Immediate"} |-> Accumulating(128)[m]]),
           Rows("STX", [ZeroPage |-> 134, ZeroPageY |-> 150, Absolute |-> 142]),
           Rows("STY", [ZeroPage |-> 132, ZeroPageX |-> 148, Absolute |-> 140]),
           Single("Implied", [NOP |-> 234, PHA |-> 72, PHP |-> 8, PLA |-> 104, PLP |-> 40,
                              RTI |-> 64, RTS |-> 96, TAX |-> 170, TAY |-> 168, TSX |-> 186,
                              TXA |-> 138, TXS |-> 154, TYA |-> 152])}

\* Every other opcode jams the processor.
OPCODES ==
    LET rows == TableAdcToJsr \cup TableLdaToTya
    IN  [c \in 0 .. 255 |->
            LET r == {e \in rows : e.code = c}
            IN  IF r = {} THEN [op |-> "KIL", mode |-> "Implied"]
                ELSE LET e == CHOOSE e \in r : TRUE IN [op |-> e.op, mode |-> e.mode]]

(* --- Arithmetic --------------------------------------------------------- *)

CarryIn(s) == IF "C" \in s.p THEN 1 ELSE 0
SignOf(v) == (v \div 128) % 2

\* Mutant: the high digit is corrected only when it carried.
CorrectedLate(sum) == IF sum >= 256 THEN sum + 96 ELSE sum

\* The high decimal digit is corrected once it passes nine.
Corrected(sum) == IF sum >= 160 THEN sum + 96 ELSE sum

adc(s, v) ==
    LET cin == CarryIn(s)
        binsum == s.a + v + cin
        low == (s.a % 16) + (v % 16) + cin
        lo == IF low >= 10 THEN ((low + 6) % 16) + 16 ELSE low
        mid == 16 * (s.a \div 16) + 16 * (v \div 16) + lo
        fixed == Corrected(mid)
        Overflow(sum) == SignOf(s.a) # SignOf(sum) /\ SignOf(v) # SignOf(sum)
        decimal == SetTo(SetTo(SetTo(SetTo(s.p, "Z", Byte(binsum) = 0), "N", SignOf(mid) = 1),
                               "V", Overflow(mid)), "C", fixed >= 256)
        binary == set_zn(SetTo(SetTo(s.p, "C", binsum > 255), "V", Overflow(binsum)), Byte(binsum))
    IN  IF "D" \in s.p THEN [s EXCEPT !.a = Byte(fixed), !.p = decimal]
        ELSE [s EXCEPT !.a = Byte(binsum), !.p = binary]

sbc(s, v) ==
    LET cin == CarryIn(s)
        r == s.a - v - (1 - cin)
        result == Byte(r)
        low == (s.a % 16) - (v % 16) + cin - 1
        lo == IF low < 0 THEN ((low - 6) % 16) - 16 ELSE low
        mid == 16 * (s.a \div 16) - 16 * (v \div 16) + lo
        hi == IF mid < 0 THEN mid - 96 ELSE mid
        p == set_zn(SetTo(SetTo(s.p, "C", r >= 0), "V",
                          SignOf(s.a) # SignOf(v) /\ SignOf(s.a) # SignOf(result)), result)
    IN  [s EXCEPT !.a = IF "D" \in s.p THEN Byte(hi) ELSE result, !.p = p]

compare(s, r, v) == [s EXCEPT !.p = set_zn(SetTo(@, "C", r >= v), Byte(r - v))]

\* The transformed value of a read-modify-write operation, and its carry out.
Modified(op, v, carry) ==
    CASE op = "INC" -> Byte(v + 1)
      [] op = "DEC" -> Byte(v - 1)
      [] op = "ASL" -> Byte(2 * v)
      [] op = "LSR" -> v \div 2
      [] op = "ROL" -> Byte(2 * v) + carry
      [] op = "ROR" -> v \div 2 + 128 * carry
CarryOut(op, v) == IF op \in {"ASL", "ROL"} THEN SignOf(v) = 1 ELSE v % 2 = 1

FlagsOfModify(s, op, v) ==
    LET p == IF op \in {"INC", "DEC"} THEN s.p ELSE SetTo(s.p, "C", CarryOut(op, v))
    IN  set_zn(p, Modified(op, v, CarryIn(s)))

rmw(s, op, m) ==
    LET Written(r) ==
            [write(r.s, m, Modified(op, r.v, CarryIn(s))) EXCEPT !.p = FlagsOfModify(s, op, r.v)]
    IN  Written(read(s, m))

shift(s, op, mode, m) ==
    IF mode = "Accumulator"
    THEN [s EXCEPT !.a = Modified(op, s.a, CarryIn(s)), !.p = FlagsOfModify(s, op, s.a)]
    ELSE rmw(s, op, m)

(* --- Execution ---------------------------------------------------------- *)

WithReg(s, r, v) == [s EXCEPT ![r] = v]
WithResult(s, r, v) == [s EXCEPT ![r] = v, !.p = set_zn(@, v)]

\* Operations by their source and destination registers.
Loads == [LDA |-> "a", LDX |-> "x", LDY |-> "y"]
Stores == [STA |-> "a", STX |-> "x", STY |-> "y"]
Compares == [CMP |-> "a", CPX |-> "x", CPY |-> "y"]
Transfers == [TAX |-> <<"a", "x">>, TAY |-> <<"a", "y">>, TXA |-> <<"x", "a">>,
              TYA |-> <<"y", "a">>, TSX |-> <<"sp", "x">>]
Steps == [INX |-> <<"x", 1>>, INY |-> <<"y", 1>>, DEX |-> <<"x", -1>>, DEY |-> <<"y", -1>>]
FlagOps == [CLC |-> <<"C", FALSE>>, SEC |-> <<"C", TRUE>>, CLD |-> <<"D", FALSE>>,
            SED |-> <<"D", TRUE>>, CLI |-> <<"I", FALSE>>, SEI |-> <<"I", TRUE>>,
            CLV |-> <<"V", FALSE>>]
Branches == [BCC |-> <<"C", FALSE>>, BCS |-> <<"C", TRUE>>, BNE |-> <<"Z", FALSE>>,
             BEQ |-> <<"Z", TRUE>>, BPL |-> <<"N", FALSE>>, BMI |-> <<"N", TRUE>>,
             BVC |-> <<"V", FALSE>>, BVS |-> <<"V", TRUE>>]

\* JSR reads the high byte of its target after the pushes.
jsr(s) ==
    LET Pushed(lo) == Jump(Word(lo.v, read(PushPc(lo.s), lo.s.pc))) IN Pushed(fetch_byte(s))

rts(s) == [Jump(pull_u16(s)) EXCEPT !.pc = Address(@ + 1)]

brk(s) == service_interrupt([s EXCEPT !.pc = Address(@ + 1)], IRQ_VECTOR, TRUE)

rti(s) == Jump(pull_u16(pull_status(s)))

\* Operations on registers and flags alone.
ExecuteRegister(s, op) ==
    CASE op \in DOMAIN Transfers -> WithResult(s, Transfers[op][2], s[Transfers[op][1]])
      [] op = "TXS" -> WithReg(s, "sp", s.x)
      [] op \in DOMAIN Steps -> WithResult(s, Steps[op][1], Byte(s[Steps[op][1]] + Steps[op][2]))
      [] op \in DOMAIN FlagOps -> [s EXCEPT !.p = SetTo(@, FlagOps[op][1], FlagOps[op][2])]
      [] op = "NOP" -> s
      [] op = "KIL" -> [s EXCEPT !.halted = TRUE]

\* Operations that use the stack or change the flow of control.
ExecuteFlow(s, op, m) ==
    CASE op = "PHA" -> push(s, s.a)
      [] op = "PHP" -> push_status(s, TRUE)
      [] op = "PLA" -> LET Pulled(r) == WithResult(r.s, "a", r.v) IN Pulled(pull(s))
      [] op = "PLP" -> pull_status(s)
      [] op \in DOMAIN Branches ->
           IF (Branches[op][1] \in s.p) = Branches[op][2] THEN [s EXCEPT !.pc = m] ELSE s
      [] op = "JMP" -> [s EXCEPT !.pc = m]
      [] op = "JSR" -> jsr(s)
      [] op = "RTS" -> rts(s)
      [] op = "BRK" -> brk(s)
      [] op = "RTI" -> rti(s)

\* Operations that read an operand into the accumulator or the flags.
ExecuteOperand(s, op, v) ==
    CASE op \in DOMAIN Loads -> WithResult(s, Loads[op], v)
      [] op = "AND" -> WithResult(s, "a", s.a & v)
      [] op = "ORA" -> WithResult(s, "a", s.a | v)
      [] op = "EOR" -> WithResult(s, "a", s.a ^^ v)
      [] op = "BIT" -> [s EXCEPT !.p = SetTo(SetTo(SetTo(@, "Z", (s.a & v) = 0),
                                                   "V", (v \div 64) % 2 = 1), "N", v >= 128)]
      [] op = "ADC" -> adc(s, v)
      [] op = "SBC" -> sbc(s, v)
      [] op \in DOMAIN Compares -> compare(s, s[Compares[op]], v)

RegisterOps == DOMAIN Transfers \cup DOMAIN Steps \cup DOMAIN FlagOps \cup {"TXS", "NOP", "KIL"}
FlowOps == DOMAIN Branches \cup {"PHA", "PHP", "PLA", "PLP", "JMP", "JSR", "RTS", "BRK", "RTI"}

execute(s, info, m) ==
    CASE info.op \in RegisterOps -> ExecuteRegister(s, info.op)
      [] info.op \in FlowOps -> ExecuteFlow(s, info.op, m)
      [] info.op \in DOMAIN Stores -> write(s, m, s[Stores[info.op]])
      [] info.op \in {"INC", "DEC"} -> rmw(s, info.op, m)
      [] info.op \in {"ASL", "LSR", "ROL", "ROR"} -> shift(s, info.op, info.mode, m)
      [] OTHER -> LET With(r) == ExecuteOperand(r.s, info.op, r.v) IN With(read(s, m))

(* --- step() and the lines ------------------------------------------------ *)

TakesNmi(s) == ~s.halted /\ s.nmi_pending

TakesIrq(s) == ~s.halted /\ ~s.nmi_pending /\ s.irq_line /\ "I" \notin s.p

NmiStep(s) == service_interrupt([s EXCEPT !.nmi_pending = FALSE], NMI_VECTOR, FALSE)
IrqStep(s) == service_interrupt(s, IRQ_VECTOR, FALSE)

\* dispatch: fetch, resolve, execute.
InsnStep(s) ==
    LET Resolved(info, m) == execute(m.s, info, m.addr)
        Decoded(f, info) == Resolved(info, resolve(f.s, info.mode))
        Fetched(f) == Decoded(f, OPCODES[f.v])
    IN  Fetched(fetch_byte(s))

step(s) ==
    CASE s.halted -> s
      [] TakesNmi(s) -> NmiStep(s)
      [] TakesIrq(s) -> IrqStep(s)
      [] OTHER -> InsnStep(s)

reset(s) ==
    [Jump(read_u16(s, RESET_VECTOR)) EXCEPT
        !.sp = 253, !.p = @ \cup {"I", "U"}, !.halted = FALSE, !.nmi_pending = FALSE]

set_nmi(s, level) ==
    [s EXCEPT !.nmi_pending = @ \/ (s.prev_nmi /\ ~level), !.prev_nmi = level]

trigger_nmi(s) == [s EXCEPT !.nmi_pending = TRUE]

set_irq(s, level) == [s EXCEPT !.irq_line = level]
=============================================================================
