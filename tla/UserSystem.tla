----------------------------- MODULE UserSystem -----------------------------
(***************************************************************************)
(* A process under the user-mode runner (usermode/mod.rs), driven by the   *)
(* Python binding's step and run: the host loads an image, then advances   *)
(* the guest one instruction at a time, serving the system call it may     *)
(* have raised and polling for a CPU exception and for the latch of the    *)
(* address space, until the process has ended.                             *)
(*                                                                         *)
(* The guest's registers are arbitrary: a step executes at any address of  *)
(* PCs whatever opcode lies there, on any operands of Isa.  The core's     *)
(* decoded-code cache is code; its own stores are tracked by the core,     *)
(* those of the host are not.                                              *)
(***************************************************************************)
EXTENDS UserProcess

CONSTANTS Images,      \* [elf, argv, envp]: what the host may load
          Entry,       \* the entry point of every image
          PCs,         \* addresses the guest executes at
          Isa,         \* opcode -> set of [acc, out]: accesses and outcome
          Calls,       \* the system calls the guest makes
          Moods,       \* how host streams behave: "full", "short", "error"
          StdIn,       \* what the host's standard input delivers
          Sinks,       \* descriptors the host may capture
          MaxSteps     \* bound: instructions executed

VARIABLES img,      \* the image being loaded
          m,        \* the address space
          f,        \* the descriptors and standard input
          code,     \* decoded code: address -> opcode
          ended,    \* how the process ended; <<"run">> while it has not
          sp,       \* the stack pointer at entry
          seen      \* history: see Seen

vars == <<img, m, f, code, ended, sp, seen>>

(* History: instructions executed, first unmapped byte the last one        *)
(* touched, whether it ran a stale opcode, the last call with its return   *)
(* value, the pages the guest owns and the ranges mmap has chosen.         *)
Seen == [steps |-> 0, first |-> <<>>, stale |-> FALSE, call |-> <<"none">>, ret |-> 0,
         owned |-> {}, given |-> <<>>]

PagesOf(lo, hi) == (lo \div PAGE) .. ((hi - 1) \div PAGE)

Init == /\ img \in Images
        /\ m = new
        /\ f = [fds |-> fds_new, in |-> StdIn]
        /\ code = <<>>
        /\ ended = <<"new">>
        /\ sp = 0
        /\ seen = Seen

(* Usermode::load, for an image whose headers parse.                       *)
LoadImage ==
    \E l \in {load(img.elf)} :
    \E s \in {build_stack([l.m EXCEPT !.brk = l.brk, !.brk_base = l.brk], img.argv, img.envp,
                          Entry, l.phdr, Table(img.elf), Len(img.elf.phdrs))} :
        /\ m' = setup(s[1])
        /\ sp' = s[2]
        /\ ended' = <<"run">>
        /\ seen' = [seen EXCEPT !.owned =
              PagesOf(STACK_TOP - STACK_SIZE, STACK_TOP) \cup PagesOf(GDT_BASE, GDT_BASE + PAGE)
              \cup UNION {PagesOf(ph.vaddr, ph.vaddr + ph.memsz) :
                           ph \in {x \in {img.elf.phdrs[i] : i \in DOMAIN img.elf.phdrs} :
                                     x.load /\ x.memsz > 0}}]

Load ==
    /\ ended = <<"new">>
    /\ IF parse(img.elf) = "ok" /\ img.elf.machine = EM_386
       THEN LoadImage
       ELSE /\ ended' = <<"refused", IF parse(img.elf) = "ok" THEN "WrongMachine" ELSE parse(img.elf)>>
            /\ UNCHANGED <<m, sp, seen>>
    /\ UNCHANGED <<img, f, code>>

(* capture_fd: before the process runs.                                    *)
Capture ==
    /\ ended = <<"run">> /\ seen.steps = 0
    /\ \E fd \in Sinks : f' = install(f, fd, Stream("sink"))
    /\ UNCHANGED <<img, m, code, ended, sp, seen>>

-----------------------------------------------------------------------------
(* One instruction of the core (external): the fetch, then its accesses in *)
(* order.  An access is <<kind, address, value>>.                          *)

Width(k) == CASE k \in {"r8", "w8"} -> 1 [] k \in {"r16", "w16"} -> 2 [] OTHER -> 4
Writes(k) == k \in {"w8", "w16", "w32"}

Access(mem, a) ==
    CASE a[1] = "r8" -> read8(mem, a[2])[1]
      [] a[1] = "r16" -> read16(mem, a[2])[1]
      [] a[1] = "r32" -> read32(mem, a[2])[1]
      [] a[1] = "w8" -> write8(mem, a[2], a[3])
      [] a[1] = "w16" -> write16(mem, a[2], a[3])
      [] a[1] = "w32" -> write32(mem, a[2], a[3])

BytesOf(a) == {(a[2] + i) % SPACE : i \in 0 .. Width(a[1]) - 1}

(* [m, code, op] after the fetch at pc.                                    *)
Fetch(pc) ==
    IF pc \in DOMAIN code THEN [m |-> m, code |-> code, op |-> code[pc]]
    ELSE LET r == read8(m, pc) IN [m |-> r[1], code |-> (pc :> r[2]) @@ code, op |-> r[2]]

Perform(s, acc) ==
    LET g[i \in 0 .. Len(acc)] == IF i = 0 THEN s.m ELSE Access(g[i - 1], acc[i])
        dirty == UNION {BytesOf(acc[i]) : i \in {j \in DOMAIN acc : Writes(acc[j][1])}}
    IN  [s EXCEPT !.m = g[Len(acc)],
                  !.code = [x \in DOMAIN @ \ dirty |-> @[x]]]

-----------------------------------------------------------------------------
(* The reference for a memory access that must end the process: its bytes, *)
(* in the order the instruction touches them.                              *)

Touched(pc, acc) ==
    LET g[i \in 0 .. Len(acc)] ==
          IF i = 0 THEN <<<<pc, FALSE>>>>
          ELSE g[i - 1] \o [j \in 1 .. Width(acc[i][1]) |->
                              <<(acc[i][2] + j - 1) % SPACE, Writes(acc[i][1])>>]
    IN  g[Len(acc)]

FirstUnmapped(pc, acc) ==
    LET t == Touched(pc, acc)
        bad == {i \in DOMAIN t : ~is_mapped(m, t[i][1])}
    IN  IF bad = {} THEN <<>> ELSE t[Min(bad)]

Ran(pc, op, acc) ==
    [seen EXCEPT !.steps = @ + 1, !.first = FirstUnmapped(pc, acc),
                 !.stale = op # Byte(m, pc), !.call = <<"none">>]

(* What the guest owns after a call: the pages it was given and has not    *)
(* asked to unmap any byte of.                                             *)
Owned(c, v) ==
    CASE c[1] = "mmap2" /\ ~IsErr(v) -> seen.owned \cup PagesOf(v, v + c[3])
      [] c[1] = "brk" /\ v > m.brk -> seen.owned \cup PagesOf(m.brk, v)
      [] c[1] = "munmap" /\ c[3] > 0 -> seen.owned \ PagesOf(c[2], Min({c[2] + c[3], SPACE}))
      [] OTHER -> seen.owned

Given(c, v) ==
    IF c[1] = "mmap2" /\ ~c[5] /\ ~IsErr(v) THEN Append(seen.given, <<v, v + c[3]>>)
    ELSE seen.given

-----------------------------------------------------------------------------
(* Usermode::step_one.                                                     *)

Poll(s, out) ==
    /\ m' = take_segv(s.m)
    /\ ended' = IF out = "fault" THEN <<"fault">>
                ELSE IF s.m.segv # NoSegv THEN <<"segv", s.m.segv[1], s.m.segv[2]>>
                ELSE <<"run">>

ServeKeepingCode(pc, s, c, h) ==
    \E r \in {dispatch_inner(s.m, f, c, h)} :
        /\ f' = r.f
        /\ code' = s.code
        /\ seen' = [Ran(pc, s.op, <<>>) EXCEPT !.call = c, !.ret = r.v,
                      !.owned = Owned(c, r.v), !.given = Given(c, r.v)]
        /\ Poll([s EXCEPT !.m = r.m], "next")

(* A trapped call other than exit: serve it, return its value in EAX, drop *)
(* the decoded code, then poll.                                            *)
Serve(pc, s, c, h) ==
    \E r \in {dispatch_inner(s.m, f, c, h)} :
        /\ f' = r.f
        /\ code' = <<>>
        /\ seen' = [Ran(pc, s.op, <<>>) EXCEPT !.call = c, !.ret = r.v,
                      !.owned = Owned(c, r.v), !.given = Given(c, r.v)]
        /\ Poll([s EXCEPT !.m = r.m], "next")

(* take_syscall comes before the polls, and an exit returns at once.       *)
step_one(pc) ==
    \E s \in {Fetch(pc)} : \E ins \in Isa[s.op] :
        IF ins.out = "syscall"
        THEN \/ \E c \in Calls, h \in Moods : Serve(pc, s, c, h)
             \/ /\ ended' = <<"exit">> /\ m' = s.m /\ code' = s.code /\ f' = f
                /\ seen' = Ran(pc, s.op, <<>>)
        ELSE \E t \in {Perform(s, ins.acc)} :
                /\ Poll(t, ins.out)
                /\ code' = t.code
                /\ seen' = Ran(pc, s.op, ins.acc)
                /\ f' = f

Step ==
    /\ ended = <<"run">>                 \* afterwards the binding replays the outcome
    /\ seen.steps < MaxSteps
    /\ \E pc \in PCs : step_one(pc)
    /\ UNCHANGED <<img, sp>>

Next == Load \/ Capture \/ Step
Spec == Init /\ [][Next]_vars

-----------------------------------------------------------------------------
(* The process ends with the first instruction that touches unmapped       *)
(* memory, and the report names the first such byte and its direction; no  *)
(* instruction runs from memory that a call has unmapped or rewritten.     *)
(* (step_one's polls, the latch, the wide accessors at a chunk's end and   *)
(* the cache drop after each call.)                                        *)
SegvPrecise ==
    /\ ~seen.stale
    /\ ended[1] \in {"run", "exit"} => seen.first = <<>>
    /\ ended[1] = "segv" => <<ended[2], ended[3]>> = seen.first

(* What the guest was given it keeps: every page of the image, the stack,  *)
(* the heap and its mappings that it did not ask to unmap is mapped, though*)
(* memory comes and goes in chunks of many pages; and the ranges mmap      *)
(* chooses are apart from one another, from the heap and from the stack.   *)
(* (map, unmap, set_brk, mmap.)                                            *)
MemoryGiven ==
    /\ \A pg \in seen.owned : is_mapped(m, pg * PAGE)
    /\ \A i \in DOMAIN seen.given :
          LET r == seen.given[i]
          IN  /\ r[1] >= MMAP_BASE /\ (m.brk <= MMAP_BASE \/ m.brk = m.brk_base)
              /\ r[2] <= STACK_TOP - STACK_SIZE
              /\ \A j \in 1 .. i - 1 : PagesOf(r[1], r[2])
                     \cap PagesOf(seen.given[j][1], seen.given[j][2]) = {}

(* The bytes a vectored call names, in order.                              *)
Flat(mem, iov, cnt) ==
    LET g[i \in 0 .. cnt] ==
          IF i = 0 THEN <<>>
          ELSE g[i - 1] \o [j \in 1 .. read_u32(mem, iov + 8 * i - 4) |->
                              (read_u32(mem, iov + 8 * i - 8) + j - 1) % SPACE]
    IN  g[cnt]

Buffer(c) == IF c[1] \in {"read", "write"} THEN [j \in 1 .. c[4] |-> (c[3] + j - 1) % SPACE]
             ELSE Flat(m, c[3], c[4])

(* A transfer moves exactly the bytes it reports, in order and from the    *)
(* buffers the call names: a write that fails midway reports what already  *)
(* went out, one that reports an error put nothing out, and a read's bytes *)
(* are the next ones of the file.  (write_from_guest, sys_writev,          *)
(* sys_read, sys_readv.)                                                   *)
TransfersInOrder ==
    [][LET c == seen'.call
           v == seen'.ret
           d == f.fds[c[2] + 1]
           e == f'.fds[c[2] + 1]
           buf == Buffer(c)
       IN  seen'.steps # seen.steps =>
             /\ c[1] \in {"write", "writev"} /\ IsErr(v) => f' = f
             /\ c[1] \in {"write", "writev"} /\ ~IsErr(v) =>
                   /\ v <= Len(buf)
                   /\ e.bytes = d.bytes \o [i \in 1..v |-> Byte(m, buf[i])]
             /\ c[1] \in {"read", "readv"} /\ ~IsErr(v) /\ d.kind = "file" =>
                   /\ v <= Len(buf) /\ e.pos >= d.pos + v
                   /\ \A i \in 1..v : Byte(m', buf[i]) = d.bytes[d.pos + i]]_vars

(* At entry the stack reads back as the ABI says: argc, the argument and   *)
(* environment strings through their pointers, ESP on 16 bytes, AT_PHDR    *)
(* at a copy of the header table, AT_RANDOM at 16 bytes; nothing overlaps. *)
(* (build_stack, elf::load.)                                               *)
EntryImageExact ==
    ended = <<"run">> /\ seen.steps = 0 =>
        LET n == Len(img.argv)
            k == Len(img.envp)
            w(i) == read_u32(m, sp + 4 * i)
            aux(t) == {i \in 0..15 : w(n + k + 3 + 2 * i) = t}
            val(t) == w(n + k + 4 + 2 * Min(aux(t)))
        IN  /\ sp % 16 = 0 /\ w(0) = n /\ w(n + 1) = 0 /\ w(n + k + 2) = 0
            /\ \A i \in 1..n : read_cstr(m, w(i)) = img.argv[i]
            /\ \A i \in 1..k : read_cstr(m, w(n + 1 + i)) = img.envp[i]
            /\ aux(3) # {} => read_bytes(m, val(3), Len(Table(img.elf)))[1] = Table(img.elf)
            /\ Len(img.elf.phdrs) > 0 => aux(3) # {} /\ val(5) = Len(img.elf.phdrs)
            /\ val(25) >= sp + 4 * (n + k + 3 + 2 * (Min(aux(0)) + 1))
            /\ read_bytes(m, val(25), 16)[1] = rand_bytes(16)
            /\ m.brk_base % PAGE = 0 /\ m.brk = m.brk_base
=============================================================================
