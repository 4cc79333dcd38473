----------------------------- MODULE Segments64 -----------------------------
(***************************************************************************)
(* The x86-64 core's segment registers, stack and descriptor tables: what  *)
(* the far transfers and the delivery of events are built from             *)
(* (x86_64/protected.rs, mod.rs, registers.rs).                            *)
(*                                                                         *)
(* An operation maps a CPU state s to a CPU state; a fault leaves s.err =  *)
(* <<vector, error code>> and everything after it is skipped, as `?` does. *)
(* The core is scaled: a 16-bit word has B values, addresses count words,  *)
(* so 16, 32 and 64-bit operands are 1, 2 and 4 words.                     *)
(***************************************************************************)
EXTENDS Integers, Sequences, FiniteSets, FiniteSetsExt, TLC

CONSTANTS B,      \* values of a 16-bit word
          Canon   \* half the size of the canonical address range

ASSUME WordAssumption == B \in Nat \ {0, 1}

VARIABLES c       \* the machine: mode, tables, TSS, MSRs; it never changes

W16 == B
W32 == B * B
W64 == B * B * B * B
Width(n) == CASE n = 1 -> W16 [] n = 2 -> W32 [] n = 4 -> W64

NoErr == <<>>
NoRegs == [fl |-> {}]
Code(sel) == sel - (sel % 4)
Rpl(sel) == sel % 4
IsNull(sel) == Code(sel) = 0
Gp(e) == <<13, e>>
Np(e) == <<11, e>>
Ss(e) == <<12, e>>
Ts(e) == <<10, e>>
Ud == <<6, 0>>
HasCode(vector) == vector \in {8, 10, 11, 12, 13, 14}

Need(s, ok, e) == IF s.err # NoErr \/ ok THEN s ELSE [s EXCEPT !.err = e]
Ok(s) == s.err = NoErr

-----------------------------------------------------------------------------
(* Flags: a set of names, and their image in a pushed word.                *)

FlagBit == [IF |-> 1, TF |-> 2, NT |-> 4, IOPL |-> 8, RF |-> B, VM |-> 2 * B, AC |-> 4 * B]
Flags == DOMAIN FlagBit
Image(fl) == SumSet({FlagBit[x] : x \in fl})
FromImage(v) == {x \in Flags : (v \div FlagBit[x]) % 2 = 1}
LoadFlags(fl, v, mask) == (fl \ mask) \cup (FromImage(v) \cap mask)
Iopl(fl) == IF "IOPL" \in fl THEN 3 ELSE 0

-----------------------------------------------------------------------------
(* Descriptors.  Code and data: [kind, p, dpl, conf, rw, ed, db, l, base,  *)
(* limit]; gates: [kind, p, dpl, wide, gsel, goff, params, ist].           *)

Segment(kind, dpl, l, db) ==
    [kind |-> kind, p |-> TRUE, dpl |-> dpl, conf |-> FALSE, rw |-> TRUE, ed |-> FALSE,
     db |-> db, l |-> l, base |-> 0, limit |-> W32 - 1]
NullD == [Segment("null", 0, FALSE, FALSE) EXCEPT !.p = FALSE, !.rw = FALSE, !.limit = 0]
IsCodeData(d) == d.kind \in {"code", "data"}
WritableData(d) == d.kind = "data" /\ d.rw
Conforming(d) == d.kind = "code" /\ d.conf

Table(sel) == IF (sel \div 4) % 2 = 1 THEN c.ldt ELSE c.gdt
Desc(sel) == Table(sel)[sel \div 8]

(* read_descriptor finds it: within the table and, for a long-mode system  *)
(* descriptor, with an upper half whose type field is zero.                *)
Known(sel) ==
    /\ sel \div 8 \in DOMAIN Table(sel)
    /\ c.long /\ ~IsCodeData(Desc(sel)) =>
          /\ (sel \div 8) + 1 \in DOMAIN Table(sel)
          /\ Table(sel)[(sel \div 8) + 1].kind \in {"upper", "null"}

read_descriptor(s, sel) == Need(s, Known(sel), Gp(Code(sel)))

gate_off(d) == IF c.long THEN d.goff ELSE IF d.wide THEN d.goff % W32 ELSE d.goff % W16

-----------------------------------------------------------------------------
(* Modes.                                                                  *)

mode64(r) == c.long /\ r.seg["CS"].d.l
protected_mode(r) == c.pe /\ "VM" \notin r.fl
cpl(r) == IF "VM" \in r.fl THEN 3 ELSE IF protected_mode(r) THEN r.seg["CS"].d.dpl ELSE 0
canonical(a) == a < Canon \/ a >= W64 - Canon

(* The registers a fault later in the instruction rewinds are captured     *)
(* before the first write to a cold one.                                   *)
prepare_cold_write(s) == IF s.cold THEN s ELSE [s EXCEPT !.cold = TRUE, !.saved = s.r]

SetSeg(s, i, sel, d) ==
    IF Ok(s) THEN [prepare_cold_write(s) EXCEPT !.r.seg[i] = [sel |-> sel, d |-> d]] ELSE s

(* The accessed bit, then the cache.                                       *)
CommitUnsaved(s, i, sel, d) ==
    IF Ok(s) THEN [s EXCEPT !.r.seg[i] = [sel |-> sel, d |-> [d EXCEPT !.p = TRUE]],
                            !.acc = @ \cup {Code(sel)}]
    ELSE s

commit_seg(s, i, sel, d) ==
    IF Ok(s) THEN [prepare_cold_write(s) EXCEPT
                     !.r.seg[i] = [sel |-> sel, d |-> [d EXCEPT !.p = TRUE]],
                     !.acc = @ \cup {Code(sel)}]
    ELSE s

load_cs(s, sel, d, level) == commit_seg(s, "CS", Code(sel) + level, d)
set_null_ss(s, rpl) == SetSeg(s, "SS", rpl, NullD)
RealSelector(x, sel) == [x EXCEPT !.sel = sel, !.d.base = sel * 8]
V86Seg(sel) == [Segment("data", 3, FALSE, FALSE) EXCEPT !.base = sel * 8, !.limit = W16 - 1]

-----------------------------------------------------------------------------
(* Memory: the non-zero words; linear words in c.bad are not mapped.       *)

Word(s, a) == IF a \in DOMAIN s.mem THEN s.mem[a] ELSE 0
Fetch(s, a, n) == Word(s, a) + (IF n > 1 THEN B * Word(s, a + 1) ELSE 0)
                  + (IF n > 2 THEN W32 * (Word(s, a + 2) + B * Word(s, a + 3)) ELSE 0)

lin_write(s, a, n, v) ==
    LET w(i) == CASE i = 0 -> v % B [] i = 1 -> (v \div B) % B
                  [] i = 2 -> (v \div W32) % B [] i = 3 -> v \div (W32 * B)
        at == a .. a + n - 1
    IN  IF ~Ok(s) THEN s
        ELSE IF at \cap c.bad # {} THEN [s EXCEPT !.err = <<14, 2>>]
        ELSE [s EXCEPT !.mem = [x \in (DOMAIN @ \ at) \cup {y \in at : w(y - a) # 0} |->
                                  IF x \in at THEN w(x - a) ELSE @[x]]]

(* ea_check: present, of a fitting type, within the limit.                 *)
ea_check(d, off, n, write) ==
    /\ d.p
    /\ IF write THEN WritableData(d) ELSE ~(d.kind = "code" /\ ~d.rw)
    /\ IF d.ed THEN off > d.limit /\ off + n - 1 <= (IF d.db THEN W32 ELSE W16) - 1
       ELSE off + n - 1 <= d.limit

(* lin_addr for the stack segment: whether it is legal, and where it is.   *)
StackLegal(s, off, n, write) ==
    IF s.m64 THEN canonical(off) /\ canonical(off + n - 1)
    ELSE ea_check(s.r.seg["SS"].d, off % W32, n, write)
StackAt(s, off) == IF s.m64 THEN off ELSE (s.r.seg["SS"].d.base + off) % W32

-----------------------------------------------------------------------------
(* The stack.  The width of the pointer follows m64, which is set at each  *)
(* instruction's start, and SS.B.                                          *)

stack_wrap(s) == IF s.m64 THEN W64 ELSE IF s.r.seg["SS"].d.db THEN W32 ELSE W16
stack_ptr(s) == s.r.rsp % stack_wrap(s)

adjust_sp(s, delta) ==
    IF ~Ok(s) THEN s
    ELSE LET w == stack_wrap(s)
             keep == IF w = W16 THEN s.r.rsp - (s.r.rsp % W16) ELSE 0
         IN  [s EXCEPT !.r.rsp = keep + (((@ % w) + delta) % w)]

push(s, n, v) ==
    LET sp == (stack_ptr(s) - n) % stack_wrap(s)
        s1 == Need(s, StackLegal(s, sp, n, TRUE), Ss(0))
    IN  adjust_sp(lin_write(s1, StackAt(s, sp), n, v % Width(n)), -n)

(* The popped value is left in v.                                          *)
pop(s, n) ==
    LET sp == stack_ptr(s)
        s1 == Need(s, StackLegal(s, sp, n, FALSE), Ss(0))
        a == StackAt(s, sp)
    IN  IF ~Ok(s1) THEN s1
        ELSE IF (a .. a + n - 1) \cap c.bad # {} THEN [s1 EXCEPT !.err = <<14, 0>>]
        ELSE [adjust_sp(s1, n) EXCEPT !.v = Append(@, Fetch(s, a, n))]

PushAll(s, n, vs) ==
    LET g[i \in 0 .. Len(vs)] == IF i = 0 THEN s ELSE push(g[i - 1], n, vs[i])
    IN  g[Len(vs)]

(* Pops k values into v, first popped first.                               *)
PopAll(s, n, k) ==
    LET g[i \in 0 .. k] == IF i = 0 THEN [s EXCEPT !.v = <<>>] ELSE pop(g[i - 1], n)
    IN  g[k]

(* Long-mode delivery pushes at a flat 64-bit address of its own.          *)
FlatSlot(rsp, i) == (rsp - 4 * i) % W64
FlatWrite(s, a, v) == lin_write(Need(s, canonical(a) /\ canonical(a + 3), Ss(0)), a, 4, v)
push64_at(s, rsp, vs) ==
    LET g[i \in 0 .. Len(vs)] ==
          IF i = 0 THEN s ELSE FlatWrite(g[i - 1], FlatSlot(rsp, i), vs[i])
        Moved(t) == IF Ok(t) THEN [t EXCEPT !.r.rsp = FlatSlot(rsp, Len(vs))] ELSE t
    IN  Moved(g[Len(vs)])

-----------------------------------------------------------------------------
(* The TSS: byte offsets against its limit, #TS when outside.              *)

tss_stack(s, level) ==
    Need(s, (IF c.tss.wide THEN 4 + level * 8 + 5 ELSE 2 + level * 4 + 3) <= c.tss.limit,
         Ts(Code(c.tss.sel)))
tss_rsp(s, level) == Need(s, 4 + level * 8 + 7 <= c.tss.limit, Ts(Code(c.tss.sel)))
tss_ist(s, n) == Need(s, 36 + (n - 1) * 8 + 7 <= c.tss.limit, Ts(Code(c.tss.sel)))
InnerSp(level) == IF c.tss.wide THEN c.tss.sp[level] ELSE c.tss.sp[level] % W16

SetSp(s, d, sp) ==
    IF ~Ok(s) THEN s
    ELSE [s EXCEPT !.r.rsp = IF d.db THEN sp % W32 ELSE (@ - (@ % W16)) + (sp % W16)]

(* SS:eSP for an inner level (legacy).                                     *)
switch_stack(s, ss, sp, level) ==
    LET s1 == Need(Need(s, ~IsNull(ss), Ts(0)), Rpl(ss) = level, Ts(Code(ss)))
        s2 == Need(s1, Known(ss), Ts(Code(ss)))
        s3 == Need(s2, WritableData(Desc(ss)) /\ Desc(ss).dpl = level, Ts(Code(ss)))
        Loaded(t, d) == IF Ok(t) THEN SetSp(commit_seg(t, "SS", ss, d), d, sp) ELSE t
    IN  Loaded(Need(s3, Desc(ss).p, Ss(Code(ss))), Desc(ss))

-----------------------------------------------------------------------------
(* Segment register loads (MOV/POP Sreg and the far-pointer loads).        *)

load_ss(s, sel) ==
    LET level == cpl(s.r)
        d == Desc(sel)
        s1 == read_descriptor(Need(s, Rpl(sel) = level, Gp(Code(sel))), sel)
        s2 == Need(s1, WritableData(d) /\ d.dpl = level, Gp(Code(sel)))
        Loaded(t) == IF Ok(t) THEN commit_seg(t, "SS", sel, d) ELSE t
    IN  IF IsNull(sel)
        THEN IF mode64(s.r) /\ level # 3 /\ Rpl(sel) = level THEN SetSeg(s, "SS", sel, NullD)
             ELSE Need(s, FALSE, Gp(0))
        ELSE Loaded(Need(s2, d.p, Ss(Code(sel))))

load_seg_protected(s, i, sel) ==
    LET d == Desc(sel)
        s1 == Need(read_descriptor(s, sel), IsCodeData(d) /\ ~(d.kind = "code" /\ ~d.rw),
                   Gp(Code(sel)))
        s2 == Need(s1, Conforming(d) \/ (d.dpl >= cpl(s.r) /\ d.dpl >= Rpl(sel)), Gp(Code(sel)))
        Loaded(t) == IF Ok(t) THEN commit_seg(t, i, sel, d) ELSE t
    IN  IF i = "SS" THEN load_ss(s, sel)
        ELSE IF IsNull(sel)
        THEN SetSeg(s, i, sel, [NullD EXCEPT !.base =
                                  IF i \in {"FS", "GS"} THEN s.r.seg[i].d.base ELSE 0])
        ELSE Loaded(Need(s2, d.p, Np(Code(sel))))

load_seg(s, i, sel) ==
    IF ~c.pe THEN SetSeg(s, i, sel, [s.r.seg[i].d EXCEPT !.base = sel * 8])
    ELSE IF "VM" \in s.r.fl THEN SetSeg(s, i, sel, V86Seg(sel))
    ELSE load_seg_protected(s, i, sel)
=============================================================================
