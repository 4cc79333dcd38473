------------------------------ MODULE System64 ------------------------------
(***************************************************************************)
(* The x86-64 core executing far transfers, segment loads, software        *)
(* interrupts and system calls while NMIs and interrupts arrive between    *)
(* instructions.  c.prog holds the operands the instructions may have.     *)
(***************************************************************************)
EXTENDS Events64

CONSTANTS Starts,   \* initial [c, s]
          MaxSteps  \* instructions and interrupts per behaviour

VARIABLES s,        \* the CPU
          last,     \* history: the transfer just made and where it must return to
          steps

vars == <<c, s, last, steps>>

NoTransfer == [kind |-> "none"]

(* The shape of the CPU state: its fields and its registers; the registers *)
(* captured by prepare_cold_write are there once cold is set.              *)
SegNames == {"CS", "SS"} \cup DataSegs
RegNames == {"seg", "rip", "rsp", "fl", "rcx", "r11", "kgs"}
CpuNames == {"r", "mem", "acc", "m64", "osize", "cold", "saved", "err", "v", "ev", "trap",
             "shutdown", "inhibit"}
IsRegs(r) == r = [x \in RegNames |-> r[x]] /\ r.seg = [i \in SegNames |-> r.seg[i]]
IsCpu(t) ==
    /\ t = [x \in CpuNames |-> t[x]]
    /\ IsRegs(t.r) /\ t.cold \in BOOLEAN
    /\ t.cold => IsRegs(t.saved)

(* A call gate's parameter count is a number; MOV Sreg names a segment,    *)
(* CS being no operand of it.                                              *)
IsTable(tab) == \A k \in DOMAIN tab : tab[k].kind = "callgate" => tab[k].params \in Nat
IsMachine(m) == IsTable(m.gdt) /\ IsTable(m.ldt) /\ m.prog.segs \subseteq SegNames \ {"CS"}

(* Cpu::new and the state setters leave no fault pending.                  *)
ASSUME StartAssumption == \A x \in Starts : IsMachine(x.c) /\ IsCpu(x.s) /\ Ok(x.s)

Init ==
    /\ \E x \in Starts : c = x.c /\ s = x.s
    /\ last = NoTransfer
    /\ steps = 0

(* Registers after an instruction that ends without a transfer.            *)
Past(r) == [r EXCEPT !.rip = @ + 1]

(* What an instruction that began in x and reached y must be undone to.    *)
Transfer(x, y, call) ==
    IF y.trap = "Exception" THEN [kind |-> "hosted", pre |-> x.r]
    ELSE IF y.ev # NoEvent
    THEN [kind |-> "event", ev |-> y.ev, exact |-> TRUE,
          pre |-> IF y.ev.class = "SoftInt" THEN Past(x.r) ELSE x.r, by |-> x.r]
    ELSE call

Ready == ~s.shutdown /\ s.trap = "none" /\ steps < MaxSteps

(* Between instructions: what exec_one resets before any use is dropped.   *)
Settled(y) == [y EXCEPT !.cold = FALSE, !.saved = NoRegs, !.v = <<>>]

(* The end of an instruction that came to t: the epilogue if it faulted.   *)
step_fast(t, call) ==
    /\ \E y \in {IF Ok(t) THEN t ELSE fault_epilogue(s, t)} :
         /\ s' = Settled(y)
         /\ last' = Transfer(s, y, call)
    /\ steps' = steps + 1
    /\ UNCHANGED c

(* An instruction Op under prefix p.                                       *)
Execute(p, Op(_), call) ==
    /\ Ready
    /\ p = "w" => mode64(s.r)
    /\ \E s1 \in {exec_one(s, p)} :
         \E t \in {IF Ok(s1) THEN Op(s1) ELSE s1} : step_fast(t, call)

JumpFar == \E x \in c.prog.far, p \in c.prog.prefixes :
    Execute(p, LAMBDA z : jump_far(z, x.sel, x.off % Width(z.osize)), NoTransfer)

(* The width of the frame a far call leaves, and the parameters below it.  *)
CallFar == \E x \in c.prog.far, p \in c.prog.prefixes :
    LET gate == protected_mode(s.r) /\ ~IsNull(x.sel) /\ Known(x.sel) /\ Desc(x.sel).kind = "callgate"
        n == IF gate THEN GateWidth(Desc(x.sel))
             ELSE scan_prefixes(mode64(s.r), s.r.seg["CS"].d.db, p)
        args == IF gate /\ ~c.long THEN Desc(x.sel).params * n ELSE 0
    IN  Execute(p, LAMBDA z : call_far(z, x.sel, x.off % Width(z.osize)),
                [kind |-> "call", n |-> n, args |-> args, pre |-> Past(s.r), by |-> s.r])

Retf == \E n \in c.prog.release, p \in c.prog.prefixes :
    Execute(p, LAMBDA z : retf(z, n), NoTransfer)
Iret == \E p \in c.prog.prefixes : Execute(p, iret, NoTransfer)

SoftInt == \E v \in c.prog.ints : Execute("", LAMBDA z : int_n(z, v), NoTransfer)
Int3 == Execute("", LAMBDA z : software_int(z, 3), NoTransfer)

Syscall == Execute("", syscall, [kind |-> "syscall", pre |-> Past(s.r), by |-> s.r])
Sysret == \E p \in c.prog.prefixes : Execute(p, sysret, [kind |-> "sysret"])
Swapgs == Execute("", swapgs, NoTransfer)

(* MOV Sreg: a load of SS holds interrupts off for one instruction.        *)
HoldOff(t, i) == IF Ok(t) /\ i = "SS" THEN [t EXCEPT !.inhibit = TRUE] ELSE t
MovSeg == \E i \in c.prog.segs, sel \in c.prog.sels :
    Execute("", LAMBDA z : HoldOff(load_seg(z, i, sel), i), NoTransfer)

(* MOV eSP, imm: the guest chooses where its stack is.                     *)
MovSp == \E v \in c.prog.sps :
    Execute(IF mode64(s.r) THEN "w" ELSE "",
            LAMBDA z : [z EXCEPT !.r.rsp = IF z.osize = 1 THEN (@ - (@ % W16)) + (v % W16)
                                           ELSE v % Width(z.osize)],
            NoTransfer)

InOut == \E port \in c.prog.ports : Execute("", LAMBDA z : io_check(z, port, 2), NoTransfer)

(* step_slow: an event at the boundary, unless the shadow holds it off.    *)
(* m64 is the last instruction's.                                          *)
Boundary(e) ==
    /\ Ready
    /\ ~s.inhibit
    /\ \E y \in {deliver([s EXCEPT !.ev = NoEvent], e, "External")} :
         /\ s' = [Settled(y) EXCEPT !.inhibit = FALSE]
         /\ last' = IF y.ev = NoEvent THEN NoTransfer
                    ELSE [kind |-> "event", ev |-> y.ev, pre |-> s.r, by |-> s.r,
                          exact |-> s.m64 = mode64(s.r)]
    /\ steps' = steps + 1
    /\ UNCHANGED c

Nmi == Boundary([vector |-> 2, code |-> <<>>])
Intr == "IF" \in s.r.fl /\ \E v \in c.prog.intr : Boundary([vector |-> v, code |-> <<>>])

Next == \/ JumpFar \/ CallFar \/ Retf \/ Iret \/ SoftInt \/ Int3 \/ Syscall \/ Sysret
        \/ Swapgs \/ MovSeg \/ MovSp \/ InOut \/ Nmi \/ Intr

Spec == Init /\ [][Next]_vars

-----------------------------------------------------------------------------
(* Properties.                                                             *)

EventWidth(ev) == IF ~c.pe THEN 1 ELSE GateWidth(c.idt[ev.vector])
TransferWidth == IF last.kind = "event" THEN EventWidth(last.ev)
                 ELSE IF last.kind = "call" THEN last.n ELSE 4
RetPrefixes == {p \in {"", "66", "w"} :
                  /\ p = "w" => mode64(s.r)
                  /\ scan_prefixes(mode64(s.r), s.r.seg["CS"].d.db, p) = TransferWidth}

(* The matching return, executed at once.                                  *)
Undone ==
    LET words == IF c.pe /\ last.kind = "event" THEN TransferWidth * Len(last.ev.code) ELSE 0
        x == adjust_sp(exec_one(s, CHOOSE p \in RetPrefixes : TRUE), words)
    IN  CASE last.kind = "event" -> iret(x)
          [] last.kind = "call" -> retf(x, last.args)
          [] last.kind = "syscall" -> sysret(x)

(* Transfers that have a matching return.  A 16-bit gate cannot return to  *)
(* V86 mode; an event whose boundary saw a stale m64 may lose the stack    *)
(* (see the README); SYSRET returns to the STAR code segment.              *)
HasReturn ==
    /\ ~s.shutdown /\ s.trap = "none" /\ last.kind \in {"event", "call", "syscall"}
    /\ last.kind = "event" => last.exact /\ ("VM" \in last.pre.fl => TransferWidth = 2)
    /\ last.kind = "call" => mode64(last.pre) = mode64(s.r) \/ TransferWidth = 4
    /\ last.kind = "syscall" => Sel(last.pre, "CS") = User(c.star.user + 16)
    /\ RetPrefixes # {}

StackWrap(r) == IF mode64(r) THEN W64 ELSE IF r.seg["SS"].d.db THEN W32 ELSE W16

(* The flags a return at this width and level can give back.               *)
Restorable ==
    Flags \ ((IF TransferWidth = 1 THEN {"RF", "AC"} ELSE {})
             \cup (IF c.pe /\ cpl(s.r) > Iopl(s.r.fl) THEN {"IF"} ELSE {})
             \cup (IF last.kind = "syscall" THEN {"RF"} ELSE {}))

SameContext(r, pre) ==
    LET args == IF last.kind = "call" THEN last.args ELSE 0
        w == IF TransferWidth = 1 THEN W16 ELSE StackWrap(pre)
    IN  /\ Sel(r, "CS") = Sel(pre, "CS") /\ r.seg["CS"].d.base = pre.seg["CS"].d.base
        /\ Sel(r, "SS") = Sel(pre, "SS")
        /\ r.rip % Width(TransferWidth) = pre.rip % Width(TransferWidth)
        /\ r.rsp % w = (pre.rsp + args) % w
        /\ r.fl \cap Restorable = pre.fl \cap Restorable
        /\ mode64(r) = mode64(pre) /\ cpl(r) = cpl(pre)
        /\ "VM" \in pre.fl => \A i \in DataSegs : Sel(r, i) = Sel(pre, i)

(* Whatever interrupted it, code resumes where it was: executed right      *)
(* after an event was delivered or a far call or SYSCALL was made, the     *)
(* matching IRET, RETF or SYSRET gives back CS:RIP, SS:RSP, the flags and  *)
(* in V86 mode the data selectors, of the instruction's start for a fault  *)
(* and of its end for INT n and calls.                                     *)
ReturnsExactly == HasReturn => \E t \in {Undone} : Ok(t) /\ SameContext(t.r, last.pre)

(* What a fault step may change, a host's or a delivered one.              *)
LeavesNoTrace ==
    /\ last'.kind = "hosted" => s'.r = s.r
    /\ last'.kind = "event" /\ s'.ev.class = "Fault" =>
         /\ <<s'.r.rcx, s'.r.r11, s'.r.kgs>> = <<s.r.rcx, s.r.r11, s.r.kgs>>
         /\ "VM" \notin s.r.fl => \A i \in DataSegs : s'.r.seg[i] = s.r.seg[i]

(* A fault leaves no trace of its instruction: what the frame does not     *)
(* hold (data segments, RCX, R11, KernelGSBase) is as it was before the    *)
(* instruction, and a host that takes faults sees every register so.       *)
FaultTransparent == [][LeavesNoTrace]_vars

(* Code of an inner level is entered only at a gate its caller may use or  *)
(* at LSTAR.  The longest frame, in words: 31 parameters and two far       *)
(* pointers of 32 bits each.                                               *)
MaxFrame == 70
OnTssStack(r) ==
    \E top \in {InnerSp(cpl(r))} \cup (IF c.long THEN Range(c.tss.ist) ELSE {}), n \in 0 .. MaxFrame :
        r.rsp % StackWrap(r) = (top - n) % StackWrap(r)
EntersByGate(gates, level, r) ==
    /\ \E g \in gates : /\ g.p /\ g.dpl >= level
                         /\ Sel(r, "CS") = Code(g.gsel) + Desc(g.gsel).dpl /\ r.rip = gate_off(g)
    /\ OnTssStack(r)
CallGates == {d \in Range(c.gdt) \cup Range(c.ldt) : d.kind = "callgate"}
EntersInward(r, level, x) ==
    CASE x.kind = "event" ->
           EntersByGate({c.idt[x.ev.vector]}, IF x.ev.class = "SoftInt" THEN level ELSE 0, r)
      [] x.kind = "call" -> EntersByGate(CallGates, level, r)
      [] x.kind = "syscall" -> r.rip = c.lstar /\ Sel(r, "CS") = Code(c.star.kernel)
      [] OTHER -> FALSE

(* What a step between levels may do.                                      *)
GuardsLevels ==
    LET old == cpl(s.r)
        new == cpl(s'.r)
    IN  /\ new < old => EntersInward(s'.r, old, last')
        /\ new > old /\ last'.kind # "sysret" => \A i \in DataSegs :
              s'.r.seg[i].d.p => Conforming(s'.r.seg[i].d) \/ s'.r.seg[i].d.dpl >= new
        /\ protected_mode(s'.r) =>
              IF s'.r.seg["SS"].d.p THEN s'.r.seg["SS"].d.dpl = new ELSE c.long /\ new # 3

(* A level is left only by the doors: inward through a gate open to the    *)
(* caller, onto the TSS's stack, or at LSTAR; outward by a return that     *)
(* leaves no data segment of the inner level loaded; and the stack segment *)
(* is of the current level throughout.                                     *)
PrivilegeGuarded == [][GuardsLevels]_vars

(* What the guard of the levels rests on.  Code segments do not conform    *)
(* (see the README); inner stacks are 32 bits wide, inner stack pointers   *)
(* numbers; long mode is protected and its TSS the 64-bit one.             *)
SegFields == {"kind", "p", "dpl", "conf", "l", "db"}
IsSegment(d) == SegFields \subseteq DOMAIN d /\ d.dpl \in 0 .. 3 /\ ~Conforming(d)
SoundTable(tab) ==
    \A k \in DOMAIN tab :
        /\ IsCodeData(tab[k]) => IsSegment(tab[k])
        /\ WritableData(tab[k]) /\ tab[k].dpl < 3 => tab[k].db
        /\ tab[k].kind = "callgate" => tab[k].params \in 0 .. 31
SoundMachine(m) ==
    /\ SoundTable(m.gdt) /\ SoundTable(m.ldt)
    /\ \A v \in DOMAIN m.idt : /\ m.idt[v].gsel \in Int /\ m.idt[v].dpl \in 0 .. 3
                               /\ m.idt[v].ist \in {0} \cup DOMAIN m.tss.ist
    /\ \A level \in 0 .. 2 : m.tss.sp[level] \in Int
    /\ \A n \in DOMAIN m.tss.ist : m.tss.ist[n] \in Int
    /\ m.long => m.pe /\ m.tss.wide

(* The stack segment is of the level of the code: null only in long mode,  *)
(* and not at level 3.                                                     *)
LevelsOk(m, t) ==
    /\ \A i \in SegNames : {"sel", "d"} \subseteq DOMAIN t.r.seg[i] /\ IsSegment(t.r.seg[i].d)
    /\ m.pe /\ "VM" \notin t.r.fl =>
          IF t.r.seg["SS"].d.p THEN t.r.seg["SS"].d.dpl = t.r.seg["CS"].d.dpl
          ELSE m.long /\ t.r.seg["CS"].d.dpl # 3
    /\ t.m64 => m.long
SoundStarts == \A x \in Starts : SoundMachine(x.c) /\ LevelsOk(x.c, x.s)

(* Between instructions no fault is pending.                               *)
TypeOK == IsMachine(c) /\ IsCpu(s) /\ Ok(s)
=============================================================================
