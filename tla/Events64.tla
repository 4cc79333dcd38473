------------------------------ MODULE Events64 ------------------------------
(***************************************************************************)
(* Delivery of interrupts and exceptions on the x86-64 core, with the      *)
(* serial and double-fault rules, the rewind of a faulting instruction,    *)
(* and the fast system calls (x86_64/protected.rs, mod.rs).                *)
(*                                                                         *)
(* An event is [vector, code], code empty or the error code; its class is  *)
(* "Fault", "SoftInt" or "External".                                       *)
(***************************************************************************)
EXTENDS Protected64

Exception(err) == [vector |-> err[1], code |-> IF HasCode(err[1]) THEN <<err[2]>> ELSE <<>>]
Ext(class) == IF class = "External" THEN 1 ELSE 0
NoEvent == [vector |-> 256, code |-> <<>>, class |-> "none"]

-----------------------------------------------------------------------------
(* Protected-mode delivery through the IDT.                                *)

(* The gate and the code segment it names.                                 *)
IntGate(s, e, class) ==
    LET x == Ext(class)
        idt == e.vector * 8 + 2 + x
        g == c.idt[e.vector]
        gd == Desc(g.gsel)
        s1 == Need(s, e.vector \in DOMAIN c.idt, Gp(idt))
        s2 == Need(s1, g.kind \in {"int", "trap"} /\ (c.long => g.wide), Gp(idt))
        s3 == Need(s2, class = "SoftInt" => g.dpl >= cpl(s.r), Gp(idt))
        s4 == Need(Need(s3, g.p, Np(idt)), ~IsNull(g.gsel), Gp(x))
        s5 == read_descriptor(s4, g.gsel)
        s6 == Need(s5, gd.kind = "code" /\ gd.dpl <= cpl(s.r), Gp(Code(g.gsel) + x))
        s7 == Need(s6, gd.p, Np(Code(g.gsel) + x))
        s8 == Need(s7, c.long => gd.l /\ ~gd.db, Gp(Code(g.gsel) + x))
    IN  Need(s8, IF c.long THEN canonical(gate_off(g)) ELSE gate_off(g) <= gd.limit, Gp(x))

(* TF, NT and RF go; an interrupt gate masks further interrupts too.       *)
HandlerFlags(fl, g) == (fl \ {"TF", "NT", "RF"}) \ (IF g.kind = "int" THEN {"IF"} ELSE {})

(* An IST stack wins, then TSS.RSPn on a change of level, then the current *)
(* stack; the frame is aligned to 16 bytes.                                *)
interrupt_long(s, e, class) ==
    LET g == c.idt[e.vector]
        gd == Desc(g.gsel)
        level == IF gd.conf THEN cpl(s.r) ELSE gd.dpl
        change == level < cpl(s.r)
        rsp == IF g.ist # 0 THEN c.tss.ist[g.ist] ELSE IF change THEN c.tss.sp[level] ELSE stack_ptr(s)
        Found(t) == IF g.ist # 0 THEN tss_ist(t, g.ist) ELSE IF change THEN tss_rsp(t, level) ELSE t
        Nulled(t) == IF change THEN set_null_ss(t, level) ELSE t
        Framed(t) ==
            push64_at(t, rsp - (rsp % 8),
                      <<Sel(s.r, "SS"), stack_ptr(s), Image(s.r.fl), Sel(s.r, "CS"), s.r.rip>> \o e.code)
        Gated(t) ==
            IF ~Ok(t) THEN t
            ELSE SetFlags(Enter(Framed(Nulled(Found(t))), g.gsel, gd, level, gate_off(g)),
                          HandlerFlags(s.r.fl, g))
    IN  Gated(IntGate(s, e, class))

push_int_frame(s, g, outer, code) ==
    PushAll(s, GateWidth(g), outer \o <<Image(s.r.fl), Sel(s.r, "CS"), s.r.rip>> \o code)

push_v86_frame(s, g, old, osp, code) ==
    PushAll(s, GateWidth(g),
            <<Sel(old, "GS"), Sel(old, "FS"), Sel(old, "DS"), Sel(old, "ES"), Sel(old, "SS"), osp,
              Image(old.fl), Sel(old, "CS"), old.rip>> \o code)

(* VM goes before the pushes: they land on the ring-0 stack.               *)
v86_interrupt(s, e, g, gd, class) ==
    LET Cleared(t) == SetFlags(tss_stack(prepare_cold_write(t), 0), HandlerFlags(s.r.fl, g) \ {"VM"})
        Nulled(t) == [t EXCEPT !.r.seg = [i \in DOMAIN @ |->
                        IF i \in DataSegs THEN [sel |-> 0, d |-> NullD] ELSE @[i]]]
        Pushed(t) ==
            IF Ok(t) THEN SetRip(commit_seg(Nulled(t), "CS", Code(g.gsel), gd), gate_off(g)) ELSE t
        Checked(t) ==
            IF ~Ok(t) THEN t
            ELSE Pushed(push_v86_frame(switch_stack(Cleared(t), c.tss.ss[0], InnerSp(0), 0),
                                       g, s.r, stack_ptr(s), e.code))
    IN  Checked(Need(s, gd.dpl = 0 /\ ~gd.conf, Gp(Code(g.gsel) + Ext(class))))

interrupt_legacy(s, e, class) ==
    LET g == c.idt[e.vector]
        gd == Desc(g.gsel)
        level == gd.dpl
        Inward(t) == push_int_frame(switch_stack(tss_stack(t, level), c.tss.ss[level], InnerSp(level), level),
                                    g, <<Sel(s.r, "SS"), stack_ptr(s)>>, e.code)
        Framed(t) ==
            IF Inner(gd, cpl(s.r)) THEN Enter(Inward(t), g.gsel, gd, level, gate_off(g))
            ELSE Enter(push_int_frame(t, g, <<>>, e.code), g.gsel, gd, cpl(s.r), gate_off(g))
        Gated(t) ==
            IF ~Ok(t) THEN t
            ELSE IF "VM" \in s.r.fl THEN v86_interrupt(t, e, g, gd, class)
            ELSE SetFlags(Framed(t), HandlerFlags(s.r.fl, g))
    IN  Gated(IntGate(s, e, class))

interrupt_protected(s, e, class) ==
    IF c.long THEN interrupt_long(s, e, class) ELSE interrupt_legacy(s, e, class)

(* The vector table gives CS:IP; three words are pushed, no error code.    *)
interrupt_real(s, vector, class) ==
    LET g == c.idt[vector]
        s1 == Need(prepare_cold_write(s), vector \in DOMAIN c.idt, Gp(vector * 8 + 2 + Ext(class)))
        Pushed(t) ==
            IF ~Ok(t) THEN t
            ELSE [t EXCEPT !.r.fl = @ \ {"IF", "TF"}, !.r.rip = g.goff,
                           !.r.seg["CS"] = RealSelector(@, g.gsel)]
    IN  Pushed(PushAll(s1, 1, <<Image(s.r.fl), Sel(s.r, "CS"), s.r.rip>>))

-----------------------------------------------------------------------------
(* raise: all of the delivery or, for the registers, none of it.  ev is    *)
(* the event delivered last, kept for the properties.                      *)

Attempted(s, e, class) ==
    IF c.pe THEN interrupt_protected(s, e, class) ELSE interrupt_real(s, e.vector, class)
Delivered(t, e, class) == [t EXCEPT !.ev = [vector |-> e.vector, code |-> e.code, class |-> class]]

RaiseKeepingStack(s, e, class) ==
    LET Ended(t) == IF Ok(t) THEN Delivered(t, e, class)
                    ELSE [t EXCEPT !.r = [s.r EXCEPT !.seg["SS"] = t.r.seg["SS"], !.rsp = t.r.rsp]]
    IN  Ended(Attempted(s, e, class))

raise(s, e, class) ==
    LET Ended(t) == IF Ok(t) THEN Delivered(t, e, class) ELSE [t EXCEPT !.r = s.r]
    IN  Ended(Attempted(s, e, class))

contributory(vector) == vector \in {0, 10, 11, 12, 13}
is_double_fault(vector, class, second) ==
    /\ class = "Fault"
    /\ IF second = 14 THEN vector = 14
       ELSE contributory(second) /\ (contributory(vector) \/ vector = 14)

(* A fault while delivering is delivered in turn, or becomes #DF; one      *)
(* while delivering #DF shuts the processor down.  A delivery in progress  *)
(* is [s, e, class, df, over]: df once #DF is due, over when that failed.  *)
Second(x, t) ==
    LET df == is_double_fault(x.e.vector, x.class, t.err[1])
    IN  [s |-> [t EXCEPT !.err = NoErr], class |-> "Fault", df |-> df, over |-> x.df,
         e |-> IF df THEN [vector |-> 8, code |-> <<0>>] ELSE Exception(t.err)]
Raised(x, t) == IF Ok(t) THEN [x EXCEPT !.s = t] ELSE Second(x, t)
Attempt(x) == IF x.over \/ x.s.ev # NoEvent THEN x ELSE Raised(x, raise(x.s, x.e, x.class))

deliver(s, e, class) ==
    LET g[k \in 0 .. 4] ==
          IF k = 0 THEN [s |-> s, e |-> e, class |-> class, df |-> FALSE, over |-> FALSE]
          ELSE Attempt(g[k - 1])
        Ended(t) == IF t.ev # NoEvent THEN t ELSE [t EXCEPT !.shutdown = TRUE]
    IN  Ended(g[4].s)

-----------------------------------------------------------------------------
(* Software interrupts and the fast system calls.                          *)

HostTrap(s, t) == IF Ok(s) THEN [s EXCEPT !.trap = t] ELSE s

software_int(s, vector) ==
    IF c.syscall_int = vector THEN HostTrap(s, "Syscall")
    ELSE raise(s, [vector |-> vector, code |-> <<>>], "SoftInt")

(* INT n is IOPL-sensitive in V86 mode; INT3 and ICEBP are not.            *)
int_n(s, vector) ==
    LET Allowed(t) == IF Ok(t) THEN software_int(t, vector) ELSE t
    IN  Allowed(Need(s, "VM" \in s.r.fl => Iopl(s.r.fl) = 3, Gp(0)))

User(sel) == Code(sel) + 3
Flat(sel, kind, dpl, l, db) == [sel |-> sel, d |-> Segment(kind, dpl, l, db)]

syscall(s) ==
    LET s1 == Need(s, s.m64 /\ c.sce, Ud)
        s2 == [s1 EXCEPT !.r.rcx = s.r.rip, !.r.r11 = Image(s.r.fl \ {"RF"})]
        sel == Code(c.star.kernel)
    IN  IF ~Ok(s1) THEN s1
        ELSE IF c.trap_syscall THEN HostTrap(s2, "Syscall")
        ELSE [prepare_cold_write(s2) EXCEPT
                !.r.seg["CS"] = Flat(sel, "code", 0, TRUE, FALSE),
                !.r.seg["SS"] = Flat(sel + 8, "data", 0, FALSE, TRUE),
                !.r.fl = @ \ (c.sfmask \cup {"RF"}), !.r.rip = c.lstar]

(* With REX.W to 64-bit code, without to compatibility code.               *)
sysret(s) ==
    LET base == c.star.user
        wide == s.osize = 4
        s2 == Need(Need(s, s.m64 /\ c.sce, Ud), cpl(s.r) = 0, Gp(0))
        s3 == Need(s2, wide => canonical(s.r.rcx), Gp(0))
        cs == IF wide THEN Flat(User(base + 16), "code", 3, TRUE, FALSE)
              ELSE Flat(User(base), "code", 3, FALSE, TRUE)
    IN  IF ~Ok(s3) THEN s3
        ELSE [prepare_cold_write(s3) EXCEPT
                !.r.seg["CS"] = cs, !.r.seg["SS"] = Flat(User(base + 8), "data", 3, FALSE, TRUE),
                !.r.fl = FromImage(s.r.r11) \ {"RF", "VM"},
                !.r.rip = IF wide THEN s.r.rcx ELSE s.r.rcx % W32]

swapgs(s) ==
    LET s2 == Need(Need(s, s.m64, Ud), cpl(s.r) = 0, Gp(0))
    IN  IF ~Ok(s2) THEN s2
        ELSE [prepare_cold_write(s2) EXCEPT !.r.seg["GS"].d.base = s.r.kgs,
                                            !.r.kgs = s.r.seg["GS"].d.base]

(* The TSS bitmap decides in V86 mode and when CPL > IOPL.                 *)
io_check(s, port, size) ==
    LET free == ~c.pe \/ ("VM" \notin s.r.fl /\ cpl(s.r) <= Iopl(s.r.fl))
        last == c.tss.iobase + ((port + size - 1) \div 8)
    IN  Need(s, free \/ (/\ c.tss.wide /\ c.tss.limit >= 103
                         /\ last <= c.tss.limit
                         /\ (port .. port + size - 1) \cap c.tss.denied = {}), Gp(0))

-----------------------------------------------------------------------------
(* One instruction: m64 and the sizes first; a fault rewinds it.           *)

fetch_check(s) ==
    Need(s, IF s.m64 THEN canonical(s.r.rip) ELSE s.r.rip <= s.r.seg["CS"].d.limit, Gp(0))

(* Operand size in words: REX.W ("w"), 66 ("66") or neither.               *)
scan_prefixes(m64, db, p) ==
    IF m64 THEN (CASE p = "w" -> 4 [] p = "66" -> 1 [] OTHER -> 2)
    ELSE IF db # (p = "66") THEN 2 ELSE 1

exec_one(s, p) ==
    LET m == mode64(s.r)
        s1 == [s EXCEPT !.m64 = m, !.cold = FALSE, !.inhibit = FALSE,
                        !.v = <<>>, !.ev = NoEvent,
                        !.osize = scan_prefixes(m, s.r.seg["CS"].d.db, p)]
    IN  SetRip(fetch_check(s1), s.r.rip + 1)

fault_epilogue(s, t) ==
    LET r == IF t.cold THEN [t.saved EXCEPT !.fl = t.r.fl] ELSE t.r
        back == [r EXCEPT !.rsp = s.r.rsp, !.rcx = s.r.rcx, !.r11 = s.r.r11, !.rip = s.r.rip]
        t1 == [t EXCEPT !.r = back, !.err = NoErr]
    IN  IF c.trap_faults THEN HostTrap(t1, "Exception")
        ELSE deliver(t1, Exception(t.err), "Fault")
=============================================================================
