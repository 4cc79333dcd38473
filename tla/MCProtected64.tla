--------------------------- MODULE MCProtected64 ---------------------------
(***************************************************************************)
(* Small machines for System64: a 64-bit kernel with 64-bit and            *)
(* compatibility user code, the same under a host, a legacy kernel with    *)
(* ring-3 and V86 tasks, and real mode.                                    *)
(***************************************************************************)
EXTENDS System64

Hi(n) == W64 - n
Idx(i) == 8 * i
Gate(kind, dpl, wide, gsel, goff) ==
    [kind |-> kind, p |-> TRUE, dpl |-> dpl, conf |-> FALSE, wide |-> wide, gsel |-> gsel,
     goff |-> goff, params |-> 0, ist |-> 0]
Upper == [NullD EXCEPT !.kind = "upper"]
Absent(d) == [d EXCEPT !.p = FALSE]
NoTable == [i \in {} |-> NullD]

(* Words of a frame of n-word slots at a.                                  *)
Frame(a, n, vs) ==
    [x \in a .. a + n * Len(vs) - 1 |->
       LET v == vs[((x - a) \div n) + 1]
           k == (x - a) % n
       IN  CASE k = 0 -> v % B [] k = 1 -> (v \div B) % B
             [] k = 2 -> (v \div W32) % B [] k = 3 -> v \div (W32 * B)]

-----------------------------------------------------------------------------
LongGdt == (0 :> NullD) @@ (1 :> Segment("code", 0, TRUE, FALSE)) @@ (2 :> Segment("data", 0, FALSE, TRUE))
    @@ (3 :> Segment("code", 3, FALSE, TRUE)) @@ (4 :> Segment("data", 3, FALSE, TRUE))
    @@ (5 :> Segment("code", 3, TRUE, FALSE))
    @@ (6 :> Gate("callgate", 3, TRUE, Idx(1), Hi(900))) @@ (7 :> Upper)
    @@ (8 :> Segment("code", 0, FALSE, TRUE))
    @@ (9 :> Gate("callgate", 3, TRUE, Idx(5), 700)) @@ (10 :> Upper)
    @@ (11 :> Absent(Segment("data", 3, FALSE, TRUE)))

LongIdt ==
    LET k(off) == Gate("int", 0, TRUE, Idx(1), Hi(off))
    IN  (2 :> [k(1002) EXCEPT !.ist = 1]) @@ (3 :> [k(1003) EXCEPT !.dpl = 3])
        @@ (6 :> k(1006)) @@ (8 :> [k(1008) EXCEPT !.ist = 2])
        @@ (11 :> k(1011)) @@ (12 :> k(1012)) @@ (13 :> k(1013))
        @@ (14 :> [k(1014) EXCEPT !.kind = "trap"]) @@ (32 :> k(1032))
        @@ (64 :> [Gate("trap", 3, TRUE, Idx(5), 640) EXCEPT !.dpl = 3])
        @@ (65 :> k(1065))

Prog == [far |-> {[sel |-> Idx(3) + 3, off |-> 5], [sel |-> Idx(6) + 3, off |-> 0],
                  [sel |-> Idx(8), off |-> 6], [sel |-> Idx(9) + 3, off |-> 0]},
         release |-> {0}, ints |-> {64, 65}, segs |-> {"DS", "SS"},
         sels |-> {0, Idx(4) + 3, Idx(11) + 3}, sps |-> {800, Hi(600), Hi(560)}, ports |-> {5},
         intr |-> {32}, prefixes |-> {"", "w"}]

Long == [pe |-> TRUE, long |-> TRUE, sce |-> TRUE, gdt |-> LongGdt, ldt |-> NoTable, idt |-> LongIdt,
         tss |-> [wide |-> TRUE, limit |-> 104, sel |-> Idx(12), iobase |-> 104, denied |-> {6},
                  sp |-> (0 :> Hi(300)) @@ (1 :> 0) @@ (2 :> 0), ss |-> (0 :> 0),
                  ist |-> <<Hi(200), Hi(100)>>],
         bad |-> 796 .. 797, star |-> [kernel |-> Idx(1), user |-> Idx(3)], lstar |-> Hi(800),
         sfmask |-> {"IF", "AC"}, trap_faults |-> FALSE, syscall_int |-> 256, trap_syscall |-> FALSE,
         prog |-> Prog]

(* Frames the kernel stack holds: IRETQ and RETFQ to user code, each with  *)
(* a good stack selector or with the absent one.                           *)
KernelMem == Frame(Hi(600), 4, <<650, Idx(5) + 3, Image({"AC"}), 780, Idx(11) + 3>>)
             @@ Frame(Hi(560), 4, <<651, Idx(3) + 3, 780, Idx(4) + 3, 780>>)

Seg(m, sel) == [sel |-> sel, d |-> m.gdt[sel \div 8]]
Cpu(m, cs, ss, ds, fl, rip, rsp, mem) ==
    [r |-> [seg |-> [CS |-> Seg(m, cs), SS |-> Seg(m, ss), DS |-> Seg(m, ds), ES |-> Seg(m, ds),
                     FS |-> Seg(m, ds), GS |-> Seg(m, ds)],
            rip |-> rip, rsp |-> rsp, fl |-> fl, rcx |-> 1, r11 |-> 0, kgs |-> 9],
     mem |-> mem, acc |-> {}, m64 |-> m.long /\ m.gdt[cs \div 8].l, osize |-> 2, cold |-> FALSE,
     saved |-> NoRegs, err |-> NoErr, v |-> <<>>, ev |-> NoEvent, trap |-> "none",
     shutdown |-> FALSE, inhibit |-> FALSE]

User64(m) == Cpu(m, Idx(5) + 3, Idx(4) + 3, Idx(4) + 3, {"IF", "AC", "RF"}, 20, 900, NoTable)
User32(m) == Cpu(m, Idx(3) + 3, Idx(4) + 3, Idx(4) + 3, {"IF", "NT"}, 30, 903, NoTable)
Kernel64(m) == Cpu(m, Idx(1), Idx(2), Idx(2), {"IF"}, Hi(2000), Hi(600), KernelMem)

(* The kernel's own stack page is absent: #PF on #GP, then #DF on its IST. *)
NoStack == [Long EXCEPT !.bad = Hi(320) .. Hi(290)]
Hosted == [Long EXCEPT !.trap_faults = TRUE, !.syscall_int = 64, !.trap_syscall = TRUE]

-----------------------------------------------------------------------------
LegacyGdt == (0 :> NullD) @@ (1 :> Segment("code", 0, FALSE, TRUE)) @@ (2 :> Segment("data", 0, FALSE, TRUE))
    @@ (3 :> Segment("code", 3, FALSE, TRUE)) @@ (4 :> Segment("data", 3, FALSE, TRUE))
    @@ (6 :> [Gate("callgate", 3, TRUE, Idx(1), 1600) EXCEPT !.params = 2])
    @@ (7 :> [Gate("callgate", 3, FALSE, Idx(1), 60) EXCEPT !.params = 1])
    @@ (9 :> Gate("callgate", 3, TRUE, Idx(3), 1690)) @@ (11 :> Absent(Segment("data", 3, FALSE, TRUE)))

LegacyIdt ==
    LET k(off) == Gate("int", 0, TRUE, Idx(1), off)
    IN  (2 :> k(1502)) @@ (3 :> [k(1503) EXCEPT !.dpl = 3]) @@ (6 :> k(1506)) @@ (8 :> k(1508))
        @@ (11 :> k(1511)) @@ (12 :> k(1512)) @@ (13 :> k(1513)) @@ (14 :> k(1514)) @@ (32 :> k(1532))
        @@ (64 :> Gate("trap", 3, TRUE, Idx(1), 1564)) @@ (65 :> k(1565))
        @@ (66 :> Gate("int", 3, FALSE, Idx(1), 67)) @@ (67 :> Gate("trap", 3, TRUE, Idx(3), 1567))

Legacy == [Long EXCEPT !.long = FALSE, !.gdt = LegacyGdt, !.idt = LegacyIdt, !.bad = 796 .. 797,
             !.tss = [@ EXCEPT !.sp = (0 :> 2000) @@ (1 :> 0) @@ (2 :> 0), !.ss = (0 :> Idx(2))],
             !.prog = [@ EXCEPT
                !.far = {[sel |-> Idx(3) + 3, off |-> 5], [sel |-> Idx(6) + 3, off |-> 0],
                         [sel |-> Idx(7) + 3, off |-> 0], [sel |-> Idx(9) + 3, off |-> 0]},
                !.release = {0, 4}, !.ints = {64, 65, 66, 67}, !.prefixes = {"", "66"},
                !.sps = {800, 1800, 1840}]]
Narrow == [Legacy EXCEPT !.tss.wide = FALSE, !.tss.sp = (0 :> 2000 + W32) @@ (1 :> 0) @@ (2 :> 0)]

(* IRETD frames to ring 3 (its stack selector absent) and to V86 mode.     *)
LegacyMem == Frame(1800, 2, <<650, Idx(3) + 3, Image({"AC"}), 780, Idx(11) + 3>>)
             @@ Frame(1840, 2, <<22, 3, Image({"VM", "IF", "IOPL"}), 90, 5, 6, 7, 8, 9>>)

RealSeg(x) == [sel |-> x, d |-> V86Seg(x)]
InSegs(x, seg) == [x EXCEPT !.r.seg = [i \in DOMAIN @ |-> seg[i]]]
V86Segs == [CS |-> RealSeg(3), SS |-> RealSeg(5), DS |-> RealSeg(7), ES |-> RealSeg(6),
            FS |-> RealSeg(8), GS |-> RealSeg(9)]
V86(m, fl) == InSegs(Cpu(m, Idx(3), Idx(4), 0, fl \cup {"VM"}, 33, 90, NoTable), V86Segs)

Real == [Legacy EXCEPT !.pe = FALSE,
           !.idt = [v \in {2, 3, 12, 13, 14, 32, 64} |-> Gate("int", 0, FALSE, 12, v)],
           !.prog = [@ EXCEPT !.far = {[sel |-> 4, off |-> 5], [sel |-> 5, off |-> W16 + 3]},
                              !.sps = {1, 70}, !.ints = {64, 65}]]
RealCpu(m) == InSegs(Cpu(m, Idx(1), Idx(2), 0, {"IF", "IOPL"}, 44, 60, NoTable), V86Segs)

MCStarts ==
    {[c |-> Long, s |-> User64(Long)], [c |-> Long, s |-> User32(Long)],
     [c |-> Long, s |-> Kernel64(Long)], [c |-> NoStack, s |-> User64(NoStack)],
     [c |-> Hosted, s |-> User64(Hosted)], [c |-> Hosted, s |-> Kernel64(Hosted)],
     [c |-> Legacy, s |-> User32(Legacy)],
     [c |-> Legacy, s |-> Cpu(Legacy, Idx(1), Idx(2), Idx(2), {"IF"}, 40, 1800, LegacyMem)],
     [c |-> Legacy, s |-> V86(Legacy, {"IF", "IOPL"})], [c |-> Legacy, s |-> V86(Legacy, {"IF"})],
     [c |-> Narrow, s |-> User32(Narrow)], [c |-> Real, s |-> RealCpu(Real)]}

(* Every start meets what the guard of the levels rests on.                *)
ASSUME MCStartsSound == SoundStarts
=============================================================================
