---------------------------- MODULE Protected64 ----------------------------
(***************************************************************************)
(* Far transfers and the delivery of events on the x86-64 core, in real,   *)
(* virtual-8086, legacy protected, compatibility and 64-bit mode           *)
(* (x86_64/protected.rs; delivery and the fault rewind are in mod.rs).     *)
(***************************************************************************)
EXTENDS Segments64, SequencesExt

Sel(r, i) == r.seg[i].sel
DataSegs == {"ES", "DS", "FS", "GS"}
SetRip(s, v) == IF Ok(s) THEN [s EXCEPT !.r.rip = v] ELSE s
SetFlags(s, fl) == IF Ok(s) THEN [s EXCEPT !.r.fl = fl] ELSE s
Enter(s, sel, d, level, off) == SetRip(load_cs(s, sel, d, level), off)

-----------------------------------------------------------------------------
(* Checks on the target of a far transfer.                                 *)

(* L=1 takes D=0 and a canonical offset; other code its limit.             *)
check_code_target(s, d, sel, off) ==
    IF c.long /\ d.l
    THEN Need(Need(s, ~d.db, Gp(Code(sel))), canonical(off), Gp(0))
    ELSE Need(s, off <= d.limit, Gp(0))

check_code_reachable(s, sel, d) ==
    Need(s, IF d.conf THEN d.dpl <= cpl(s.r) ELSE Rpl(sel) <= cpl(s.r) /\ d.dpl = cpl(s.r),
         Gp(Code(sel)))

check_gate(s, sel, d) ==
    Need(Need(s, d.dpl >= cpl(s.r) /\ d.dpl >= Rpl(sel), Gp(Code(sel))), d.p, Np(Code(sel)))

check_gate_target(s, gsel) ==
    LET gd == Desc(gsel)
        s1 == Need(read_descriptor(s, gsel), ~IsNull(gsel), Gp(0))
        s2 == Need(s1, gd.kind = "code" /\ gd.dpl <= cpl(s.r), Gp(Code(gsel)))
        s3 == Need(s2, gd.p, Np(Code(gsel)))
    IN  Need(s3, c.long => gd.l /\ ~gd.db, Gp(Code(gsel)))

(* The selector reloads the base; limit and attributes stay.               *)
far_real(s, sel, off) ==
    LET s1 == prepare_cold_write(s)
        s2 == Need(s1, off <= s.r.seg["CS"].d.limit, Gp(0))
    IN  IF ~Ok(s) THEN s
        ELSE IF Ok(s2) THEN [s2 EXCEPT !.r.seg["CS"] = RealSelector(@, sel), !.r.rip = off]
        ELSE s2

(* A code segment a direct transfer may enter at off.                      *)
DirectTarget(s, sel, off) ==
    LET d == Desc(sel)
    IN  check_code_target(Need(check_code_reachable(s, sel, d), d.p, Np(Code(sel))), d, sel, off)

CallGate(d) == d.kind = "callgate" /\ (c.long => d.wide)

-----------------------------------------------------------------------------
(* Far JMP and CALL.                                                       *)

(* Through a call gate, without a change of level.                         *)
JumpGate(s, sel, d) ==
    LET gd == Desc(d.gsel)
        s1 == check_gate_target(check_gate(s, sel, d), d.gsel)
        s2 == Need(s1, gd.conf \/ gd.dpl = cpl(s.r), Gp(Code(d.gsel)))
        Entered(t) == IF Ok(t) THEN Enter(t, d.gsel, gd, cpl(s.r), gate_off(d)) ELSE t
    IN  Entered(check_code_target(s2, gd, d.gsel, gate_off(d)))

jump_far(s, sel, off) ==
    LET By(t, d) == CASE d.kind = "code" -> Enter(DirectTarget(t, sel, off), sel, d, cpl(s.r), off)
                      [] CallGate(d) -> JumpGate(t, sel, d)
                      [] OTHER -> Need(t, FALSE, Gp(Code(sel)))
        Found(t) == IF Ok(t) THEN By(t, Desc(sel)) ELSE t
    IN  IF ~protected_mode(s.r) THEN far_real(s, sel, off)
        ELSE Found(read_descriptor(Need(s, ~IsNull(sel), Gp(0)), sel))

Inner(gd, level) == ~gd.conf /\ gd.dpl < level
GateWidth(d) == IF c.long THEN 4 ELSE IF d.wide THEN 2 ELSE 1

(* The parameters on the outer stack, read before the switch.              *)
Params(s, d) == [i \in 1 .. d.params |-> stack_ptr(s) + (i - 1) * GateWidth(d)]
ReadParam(s, off, n, t) ==
    Need(Need(t, StackLegal(s, off, n, FALSE), Ss(0)),
         {StackAt(s, off) + k : k \in 0 .. n - 1} \cap c.bad = {}, <<14, 0>>)
ReadParams(s, d) ==
    LET g[i \in 0 .. d.params] ==
          IF i = 0 THEN s ELSE ReadParam(s, Params(s, d)[i], GateWidth(d), g[i - 1])
    IN  g[d.params]

push_gate_frame(s, d, ss, sp, args) ==
    PushAll(s, GateWidth(d), <<ss, sp>> \o Reverse(args) \o <<Sel(s.r, "CS"), s.r.rip>>)

call_gate_legacy(s, sel, d) ==
    LET gd == Desc(d.gsel)
        level == gd.dpl
        args == [i \in 1 .. d.params |-> Fetch(s, StackAt(s, Params(s, d)[i]), GateWidth(d))]
        Inward(t) == switch_stack(ReadParams(tss_stack(t, level), d), c.tss.ss[level], InnerSp(level), level)
        Checked(t) ==
            IF ~Ok(t) THEN t
            ELSE IF Inner(gd, cpl(s.r))
            THEN Enter(push_gate_frame(Inward(t), d, Sel(s.r, "SS"), stack_ptr(s), args),
                       d.gsel, gd, level, gate_off(d))
            ELSE Enter(PushAll(t, GateWidth(d), <<Sel(s.r, "CS"), s.r.rip>>),
                       d.gsel, gd, cpl(s.r), gate_off(d))
    IN  Checked(check_gate_target(check_gate(s, sel, d), d.gsel))

(* 64-bit frames, no parameters, a null SS on an inner transition.         *)
call_gate_long(s, sel, d) ==
    LET gd == Desc(d.gsel)
        Inward(t) == push64_at(set_null_ss(tss_rsp(t, gd.dpl), gd.dpl), c.tss.sp[gd.dpl],
                               <<Sel(s.r, "SS"), stack_ptr(s), Sel(s.r, "CS"), s.r.rip>>)
        Checked(t) ==
            IF ~Ok(t) THEN t
            ELSE IF Inner(gd, cpl(s.r)) THEN Enter(Inward(t), d.gsel, gd, gd.dpl, gate_off(d))
            ELSE Enter(PushAll(t, 4, <<Sel(s.r, "CS"), s.r.rip>>), d.gsel, gd, cpl(s.r), gate_off(d))
    IN  Checked(Need(check_gate_target(check_gate(s, sel, d), d.gsel), canonical(gate_off(d)), Gp(0)))

call_far(s, sel, off) ==
    LET here == <<Sel(s.r, "CS"), s.r.rip>>
        By(t, d) ==
            CASE d.kind = "code" ->
                   Enter(PushAll(DirectTarget(t, sel, off), s.osize, here), sel, d, cpl(s.r), off)
              [] CallGate(d) /\ c.long -> call_gate_long(t, sel, d)
              [] CallGate(d) /\ ~c.long -> call_gate_legacy(t, sel, d)
              [] OTHER -> Need(t, FALSE, Gp(Code(sel)))
        Found(t) == IF Ok(t) THEN By(t, Desc(sel)) ELSE t
    IN  IF ~protected_mode(s.r) THEN far_real(PushAll(s, s.osize, here), sel, off)
        ELSE Found(read_descriptor(Need(s, ~IsNull(sel), Gp(0)), sel))

-----------------------------------------------------------------------------
(* RETF and IRET.                                                          *)

load_outer_ss(s, ss, sp, rpl) ==
    LET d == Desc(ss)
        s1 == read_descriptor(Need(s, Rpl(ss) = rpl, Gp(Code(ss))), ss)
        s2 == Need(s1, WritableData(d) /\ d.dpl = rpl, Gp(Code(ss)))
        Null(t) == IF Ok(t) THEN [set_null_ss(t, rpl) EXCEPT !.r.rsp = sp] ELSE t
        Moved(t) == IF c.long /\ s.r.seg["CS"].d.l THEN [t EXCEPT !.r.rsp = sp] ELSE SetSp(t, d, sp)
        Loaded(t) == IF Ok(t) THEN Moved(commit_seg(t, "SS", ss, d)) ELSE t
    IN  IF ~Ok(s) THEN s
        ELSE IF IsNull(ss) THEN Null(Need(s, c.long /\ rpl # 3 /\ Rpl(ss) = rpl, Gp(0)))
        ELSE Loaded(Need(s2, d.p, Ss(Code(ss))))

ValidateDsEs(s, level) ==
    LET inner(x) == x.d.p /\ ~Conforming(x.d) /\ x.d.dpl < level
    IN  IF ~Ok(s) THEN s
        ELSE [prepare_cold_write(s) EXCEPT !.r.seg = [i \in DOMAIN @ |->
                IF i \in {"DS", "ES"} /\ inner(@[i]) THEN [sel |-> 0, d |-> NullD] ELSE @[i]]]

(* Data segments that are out of reach at the new level become null.       *)
validate_data_segs(s, level) ==
    LET inner(x) == x.d.p /\ ~Conforming(x.d) /\ x.d.dpl < level
    IN  IF ~Ok(s) THEN s
        ELSE [prepare_cold_write(s) EXCEPT !.r.seg = [i \in DOMAIN @ |->
                IF i \in DataSegs /\ inner(@[i]) THEN [sel |-> 0, d |-> NullD] ELSE @[i]]]

(* The code segment a return may go back to.                               *)
ReturnTarget(s, sel, ip) ==
    LET d == Desc(sel)
        s1 == Need(Need(s, ~IsNull(sel), Gp(0)), Rpl(sel) >= cpl(s.r), Gp(Code(sel)))
        s2 == Need(read_descriptor(s1, sel), d.kind = "code", Gp(Code(sel)))
        Fits(t) == IF Ok(t) THEN check_code_target(Need(t, d.p, Np(Code(sel))), d, sel, ip) ELSE t
    IN  Fits(Need(s2, IF d.conf THEN d.dpl <= Rpl(sel) ELSE d.dpl = Rpl(sel), Gp(Code(sel))))

retf(s, n) ==
    LET Outer(t, sel, ip) ==
            IF ~Ok(t) THEN t
            ELSE validate_data_segs(
                   adjust_sp(load_outer_ss(Enter(t, sel, Desc(sel), Rpl(sel), ip),
                                           t.v[2] % W16, t.v[1], Rpl(sel)), n), Rpl(sel))
        Checked(t, sel, ip) ==
            IF ~Ok(t) THEN t
            ELSE IF Rpl(sel) = cpl(s.r) THEN Enter(t, sel, Desc(sel), Rpl(sel), ip)
            ELSE Outer(PopAll(t, s.osize, 2), sel, ip)
        To(t, sel, ip) ==
            IF protected_mode(s.r) THEN Checked(adjust_sp(ReturnTarget(t, sel, ip), n), sel, ip)
            ELSE far_real(adjust_sp(t, n), sel, ip)
        Popped(t) == IF Ok(t) THEN To(t, t.v[2] % W16, t.v[1]) ELSE t
    IN  Popped(PopAll(s, s.osize, 2))

(* What POPF, and IRET outside protected mode, may write.                  *)
popf_mask(s) ==
    ({"IF", "TF", "NT", "IOPL"} \cup (IF s.osize > 1 THEN {"RF", "AC"} ELSE {}))
    \ (IF protected_mode(s.r)
       THEN (IF cpl(s.r) > 0 THEN {"IOPL"} ELSE {})
            \cup (IF cpl(s.r) > Iopl(s.r.fl) THEN {"IF"} ELSE {})
       ELSE IF "VM" \in s.r.fl THEN {"IOPL"} ELSE {})

iret_flag_mask(s, level) ==
    ({"IF", "TF", "NT", "IOPL", "AC"} \cup (IF s.osize > 1 THEN {"RF"} ELSE {}))
    \ ((IF level > 0 THEN {"IOPL"} ELSE {}) \cup (IF level > Iopl(s.r.fl) THEN {"IF"} ELSE {}))

iret_to_v86(s, ip, cs, fl) ==
    LET seg(x) == [sel |-> x % W16, d |-> V86Seg(x % W16)]
        Popped(t) ==
            IF ~Ok(t) THEN t
            ELSE [t EXCEPT !.r = [@ EXCEPT
                    !.fl = FromImage(fl), !.rip = ip % W16, !.rsp = t.v[1],
                    !.seg = [CS |-> seg(cs), SS |-> seg(t.v[2]), ES |-> seg(t.v[3]),
                             DS |-> seg(t.v[4]), FS |-> seg(t.v[5]), GS |-> seg(t.v[6])]]]
    IN  Popped(PopAll(prepare_cold_write(s), 2, 6))

IretReal(s) ==
    LET mask == IF c.pe THEN popf_mask(s) \ {"IOPL", "VM"} ELSE popf_mask(s)
        Popped(t) ==
            IF ~Ok(t) THEN t
            ELSE SetFlags(far_real(t, t.v[2] % W16, t.v[1]), LoadFlags(s.r.fl, t.v[3], mask))
    IN  Popped(PopAll(s, s.osize, 3))

(* 64-bit mode pops SS:RSP whatever the level; the flags are committed     *)
(* only when nothing can fault any more.                                   *)
IretProtected(s) ==
    LET level == cpl(s.r)
        k == IF s.m64 THEN 3 ELSE 0
        Outer(sel) == Rpl(sel) > level
        Stacked(t, ss, sp, sel) ==
            IF Outer(sel) \/ s.m64 THEN load_outer_ss(t, ss, sp, Rpl(sel)) ELSE t
        Loaded(t, sel) ==
            Stacked(load_cs(t, sel, Desc(sel), Rpl(sel)), t.v[k + 2] % W16, t.v[k + 1], sel)
        Leave(t, sel) == IF Outer(sel) THEN validate_data_segs(t, Rpl(sel)) ELSE t
        Flagged(t, fl) == SetFlags(t, LoadFlags(s.r.fl, fl, iret_flag_mask(s, level)))
        Finished(t, sel, ip, fl) ==
            IF Ok(t) THEN Leave(Flagged(SetRip(Loaded(t, sel), ip), fl), sel) ELSE t
        Checked(t, sel, ip, fl) ==
            IF ~Ok(t) THEN t
            ELSE Finished(IF Outer(sel) /\ ~s.m64 THEN PopAll(t, s.osize, 2) ELSE t, sel, ip, fl)
        To(t, sel, ip) == Checked(ReturnTarget(t, sel, ip), sel, ip, t.v[3])
        Popped(t) == IF Ok(t) THEN To(t, t.v[2] % W16, t.v[1]) ELSE t
    IN  Popped(PopAll(s, s.osize, IF s.m64 THEN 5 ELSE 3))

iret(s) ==
    LET ToV86(t) == ~c.long /\ s.osize = 2 /\ "VM" \in FromImage(t.v[3]) /\ cpl(s.r) = 0
        Popped(t) ==
            IF ~Ok(t) THEN t
            ELSE IF ToV86(t) THEN iret_to_v86(t, t.v[1], t.v[2], t.v[3]) ELSE IretProtected(s)
    IN  IF ~c.pe \/ ("VM" \in s.r.fl /\ Iopl(s.r.fl) = 3) THEN IretReal(s)
        ELSE IF "VM" \in s.r.fl \/ ("NT" \in s.r.fl /\ ~c.long) THEN Need(s, FALSE, Gp(0))
        ELSE Popped(PopAll(s, s.osize, 3))
=============================================================================
