---------------------------- MODULE LinuxSystem -----------------------------
(***************************************************************************)
(* A Linux process under emulation (os/mod.rs, os64/mod.rs): the host      *)
(* loads it and runs it in slices (Emulator::run_capped, and the Python    *)
(* binding's run in chunks of RUN_CHUNK); the guest's instructions go      *)
(* through the CPU's TLB and decoded-code cache; a system call or a fault  *)
(* is recorded as a host trap, which the run loop services and then drops  *)
(* the decoded code.                                                       *)
(*                                                                         *)
(* The guest program is arbitrary: any instruction of Insns, at any time.  *)
(***************************************************************************)
EXTENDS LinuxCalls

-----------------------------------------------------------------------------
(* Starting a process in the two paged Linux layers: the ELF loaders       *)
(* (os/loader.rs, os64/loader.rs), the initial stack (os/process.rs,       *)
(* os64/process.rs), the entry into ring 3 (os/arch/i386.rs, os64/arch.rs) *)
(* and Emulator::load; and the handling of a trapped CPU fault.            *)
(*                                                                         *)
(* Data abstraction: an image is its header's verdict, its type, entry,    *)
(* program headers and file contents; a machine word is one cell.          *)

CONSTANTS
    EXE_PIE_BASE,   \* ABI -> bias of an ET_DYN main image
    INTERP_BASE,    \* ABI -> bias of an ET_DYN interpreter
    USER_END,       \* end of the user half of the x86-64 address space
    INIT_STACK      \* bytes of stack mapped at the start

ASSUME StackAssumption ==
    \A abi \in Abis : STACK_TOP[abi] - INIT_STACK >= STACK_LIMIT[abi]

\* The cells [from, from + n) of an image's file.
FileCells(img, from, n) == SubSeq(img.file, from + 1, from + n)
InFile(img, from, n) == from + n <= Len(img.file)

\* One PT_LOAD: map memsz bytes, copy filesz bytes.  s = [ok, a, load_end, phdr].
\* x86-64 rejects filesz > memsz and a segment beyond USER_END beforehand;
\* i386 finds out when the copy meets an unmapped page.
load_segment(s, img, ph, bias) ==
    LET abi == s.a.abi
        vaddr == (ph.vaddr + bias) % Space[abi]
        malformed == abi = "x86_64" /\ (ph.filesz > ph.memsz \/ vaddr + ph.memsz > USER_END)
        holds == ph.offset <= img.phoff /\ img.phoff < ph.offset + ph.filesz
        Copied(w) ==
            IF ~w.ok THEN [s EXCEPT !.ok = FALSE]
            ELSE [s EXCEPT !.a = w.a,
                           !.load_end = MostOf(@, (vaddr + ph.memsz) % Space[abi]),
                           !.phdr = IF holds THEN vaddr + (img.phoff - ph.offset) ELSE @]
    IN  IF malformed \/ ~InFile(img, ph.offset, ph.filesz) THEN [s EXCEPT !.ok = FALSE]
        ELSE Copied(write_bytes(map(s.a, vaddr, ph.memsz, ph.prot, "Image"), vaddr,
                                FileCells(img, ph.offset, ph.filesz)))

\* Load an image: header checks, then the program headers in order; an error
\* ends the load.
load_elf(a, img, bias0) ==
    LET bias == IF img.type = "DYN" THEN bias0 ELSE 0
        start == [ok |-> img.header /\ img.type \in {"EXEC", "DYN"}, a |-> a, load_end |-> 0,
                  phdr |-> None, explicit |-> None, interp |-> FALSE, base |-> bias,
                  entry |-> (img.entry + bias) % Space[a.abi]]
        Header(s, ph) ==
            CASE ~s.ok -> s
              [] s.ok /\ ph.type = "LOAD" -> load_segment(s, img, ph, bias)
              [] s.ok /\ ph.type = "INTERP" ->
                    IF InFile(img, ph.offset, ph.filesz) THEN [s EXCEPT !.interp = TRUE]
                    ELSE [s EXCEPT !.ok = FALSE]
              [] s.ok /\ ph.type = "PHDR" -> [s EXCEPT !.explicit = (ph.vaddr + bias) % Space[a.abi]]
              [] s.ok /\ ph.type = "OTHER" -> s
        Located(s) == [s EXCEPT !.phdr = IF s.explicit # None THEN s.explicit
                                         ELSE IF @ # None THEN @ ELSE bias + img.phoff]
    IN  Located(FoldLeft(Header, start, img.phdrs))

-----------------------------------------------------------------------------
(* The initial stack: strings from the top down, then the pointer block.   *)

\* Push data below sp; whether the cells are mapped is not looked at.
push(s, data) ==
    LET sp == s.sp - Len(data)
    IN  [a |-> write_bytes(s.a, sp, data).a, sp |-> sp, ptrs |-> Append(s.ptrs, sp)]

\* Mutant: the pointer block is not moved down by the strings.
BuildStackFromTop(a, img, interp, argv, envp) ==
    LET words == <<Len(argv)>> \o [i \in 1 .. Len(argv) + Len(envp) + 6 |-> 0]
        base == STACK_TOP[a.abi] - Len(words) - (Len(words) % 2)
    IN  [a |-> write_bytes(a, base, words).a, esp |-> base]

\* The strings of argv, then envp, each with its NUL.
push_strings(a, argv, envp) ==
    FoldLeft(push, [a |-> a, sp |-> STACK_TOP[a.abi], ptrs |-> << >>],
             [i \in 1 .. Len(argv) + Len(envp) |->
                 Append(IF i <= Len(argv) THEN argv[i] ELSE envp[i - Len(argv)], 0)])

\* argc, argv[], 0, envp[], 0, auxv[]: the block's base is 16-byte aligned
\* (two cells here).  Of the auxiliary vector, the entries that depend on the
\* image, AT_RANDOM and AT_NULL.  interp is the interpreter's base, 0 if there
\* is none.
build_stack(a, img, interp, argv, envp) ==
    LET \* the pointers of the strings, the last of them to the random bytes
        Words(ptrs) ==
            LET n == Len(ptrs)
            IN  <<Len(argv)>> \o SubSeq(ptrs, 1, Len(argv)) \o <<0>>
                  \o SubSeq(ptrs, Len(argv) + 1, n - 1) \o <<0>>
                  \o <<img.phdr, interp, img.entry, ptrs[n], 0>>
        \* each word is written on its own, a failed write does not stop the rest
        Block(m, base, words) ==
            LET Word(b, i) == write_bytes(b, base + i - 1, <<words[i]>>).a
            IN  [a |-> FoldLeft(Word, m, [i \in 1 .. Len(words) |-> i]), esp |-> base]
        Below(s, words) == Block(s.a, ((s.sp - Len(words)) \div 2) * 2, words)
        Pushed(s) == Below(s, Words(s.ptrs))
    IN  Pushed(push(push_strings(a, argv, envp), <<1, 1>>))

\* i386: the GDT's page, present for ring 0, with the flat descriptors.
enter_user(a) ==
    IF a.abi = "x86_64" THEN a
    ELSE write_bytes(map_kernel(a, GDT_BASE, ENTRIES), GDT_BASE,
                     [i \in 1 .. ENTRIES |-> IF i \in 2 .. 5 THEN 1 ELSE 0]).a

\* The text of /proc/self/maps: one cell per region that is not the system's.
refresh_maps(p) ==
    LET shown == SelectSeq(p.a.vmas, LAMBDA v : v.kind # "System")
    IN  IF is64(p) THEN p ELSE [p EXCEPT !.v.maps = [i \in 1 .. Len(shown) |-> shown[i].start]]

\* The main image and, if it asks for one and there is a root, its interpreter.
load_images(abi, img, ld, rootfs) ==
    LET Joined(main, dyn) ==
            [ok |-> main.ok /\ (main.interp => rootfs /\ dyn.ok), main |-> main,
             a |-> IF main.interp THEN dyn.a ELSE main.a,
             base |-> IF main.interp THEN dyn.base ELSE 0,
             entry |-> IF main.interp THEN dyn.entry ELSE main.entry]
        With(main) == Joined(main, load_elf(main.a, ld, INTERP_BASE[abi]))
    IN  With(load_elf(NewSpace(abi), img, EXE_PIE_BASE[abi]))

\* Emulator::load: ok FALSE is the error the host gets instead of a process.
load_emulator(abi, img, ld, argv0, envp, host) ==
    LET argv == IF argv0 = << >> THEN << <<1>> >> ELSE argv0
        Process(a) ==
            [a |-> enter_user(a), v |-> NewVfs(host, << >>), running |-> TRUE, exit_code |-> 0,
             tls_next |-> TLS_MIN, base |-> [fs |-> 0, gs |-> 0], tlb |-> {}]
        Stacked(a) == map(a, STACK_TOP[abi] - INIT_STACK, INIT_STACK, {"R", "W"}, "Stack")
        Entered(im, st) ==
            [ok |-> im.ok, p |-> refresh_maps(Process(st.a)), esp |-> st.esp, entry |-> im.entry]
        Loaded(im) ==
            Entered(im, build_stack(Stacked(init_brk(im.a, im.main.load_end)), im.main, im.base, argv, envp))
    IN  Loaded(load_images(abi, img, ld, host.rootfs))

\* The signal a fatal vector stands for.
signal(vector) == CASE vector = 0 -> 8 [] vector = 6 -> 4 [] OTHER -> 11

\* Handle a trapped fault: grow the stack, or end the process by the signal.
handle_fault(p, vector, cr2) ==
    IF vector = 14 /\ is_stack_growth(p.a, cr2)
    THEN refresh_maps([p EXCEPT !.a = grow_stack(@, cr2)])
    ELSE [p EXCEPT !.running = FALSE, !.exit_code = 128 + signal(vector)]

-----------------------------------------------------------------------------
(* The process under the host.                                             *)

CONSTANTS
    Programs,       \* what may be loaded: [abi, img, ld, argv, envp, host, luck, insns, pages]
    Budgets,        \* instruction budgets the host gives to run
    RUN_CHUNK,      \* instructions per run_capped of the Python binding
    MaxTraps,       \* bound: traps taken
    MaxInsns        \* bound: instructions that touch memory

VARIABLES
    prog,    \* the program loaded, and its entry state
    p,       \* the process: Emulator without its CPU
    trap,    \* cpu.host_trap
    code,    \* decoded code: frame -> the contents it was decoded from
    ctl,     \* the host: pc, steps left in run_capped, budget left in run, last result
    seen     \* counters: instructions, traps raised, traps serviced

vars == <<prog, p, trap, code, ctl, seen>>

NoTrap == [kind |-> "None"]
Syscall(r) == [kind |-> "Syscall", r |-> r]
Exception(vector, cr2) == [kind |-> "Exception", vector |-> vector, cr2 |-> cr2]

Init ==
    /\ prog \in Programs
    /\ p = [running |-> FALSE]
    /\ trap = NoTrap
    /\ code = << >>
    /\ ctl = [pc |-> "Load", left |-> 0, budget |-> 0, ret |-> 0, esp |-> 0]
    /\ seen = [insns |-> 0, raised |-> 0, served |-> 0]

\* Emulator::load.
Load ==
    /\ ctl.pc = "Load"
    /\ \E e \in {load_emulator(prog.abi, prog.img, prog.ld, prog.argv, prog.envp, prog.host)} :
          IF e.ok
          THEN /\ p' = [e.p EXCEPT !.v.luck = prog.luck]
               /\ ctl' = [ctl EXCEPT !.pc = "Idle", !.esp = e.esp]
          ELSE p' = p /\ ctl' = [ctl EXCEPT !.pc = "LoadFailed"]
    /\ UNCHANGED <<prog, trap, code, seen>>

-----------------------------------------------------------------------------
(* The guest, one instruction per step.                                    *)

\* The TLB entry that answers an access, if one does; else the tables decide.
PageOf(lin) == page_down(lin)
Grants(e, writing) == Has(e, P) /\ Has(e, US) /\ (writing => Has(e, RW))
Hit(lin, writing) == {t \in p.tlb : t.page = PageOf(lin) /\ Grants(t.entry, writing)}

\* The entry an access uses, and the TLB after it; None is a page fault.
Translate(lin, writing) ==
    LET e == IF Hit(lin, writing) # {} THEN (CHOOSE t \in Hit(lin, writing) : TRUE).entry
             ELSE pte_entry(p.a, lin)
    IN  [ok |-> Grants(e, writing), phys |-> FrameOf(e) + (lin % PAGE_SIZE),
         tlb |-> {t \in p.tlb : t.page # PageOf(lin)} \cup {[page |-> PageOf(lin), entry |-> e]}]

Running == ctl.pc = "Run" /\ p.running /\ trap = NoTrap /\ ctl.left > 0
Count == ctl' = [ctl EXCEPT !.left = @ - 1]

Raise(t) == /\ seen.raised < MaxTraps
            /\ trap' = t
            /\ seen' = [seen EXCEPT !.raised = @ + 1]

\* A data access or an instruction fetch.  A store drops the decoded code of
\* its frame; a fetch decodes the frame if it is not cached.
Access(op, lin) ==
    /\ Running /\ Count
    /\ \E t \in {Translate(lin, op = "store")} :
          \/ /\ ~t.ok
             /\ Raise(Exception(14, lin))
             /\ UNCHANGED <<p, code>>
          \/ /\ t.ok /\ seen.insns < MaxInsns
             /\ seen' = [seen EXCEPT !.insns = @ + 1]
             /\ p' = [p EXCEPT !.tlb = t.tlb,
                               !.a.mem = IF op = "store" THEN store(@, t.phys, 9) ELSE @]
             /\ LET f == page_down(t.phys)
                IN  code' = CASE op = "store" -> [g \in DOMAIN code \ {f} |-> code[g]]
                              [] op = "fetch" -> code @@ (f :> p.a.mem[f])
                              [] op = "load" -> code
             /\ UNCHANGED trap
    /\ UNCHANGED prog

\* int 0x80 or SYSCALL; or an instruction that faults.
Trap(t) == Running /\ Count /\ Raise(t) /\ UNCHANGED <<prog, p, code>>

Guest ==
    \E i \in prog.insns :
        \/ i.op \in {"load", "store", "fetch"} /\ Access(i.op, i.lin)
        \/ i.op = "syscall" /\ Trap(Syscall(i.r))
        \/ i.op = "fault" /\ Trap(Exception(i.vector, 0))

-----------------------------------------------------------------------------
(* The host.                                                               *)

\* PyEmulator.run: a budget, spent in chunks of run_capped.
run(budget) ==
    /\ ctl.pc = "Idle"
    /\ ctl' = IF p.running THEN [ctl EXCEPT !.pc = "Chunk", !.budget = budget]
              ELSE [ctl EXCEPT !.ret = p.exit_code]
    /\ UNCHANGED <<prog, p, trap, code, seen>>

\* Mutant: a pending trap is forgotten when a chunk starts.
ChunkForgetting ==
    /\ ctl.pc = "Chunk" /\ ctl.budget > 0
    /\ ctl' = [ctl EXCEPT !.pc = "Run", !.left = LeastOf(ctl.budget, RUN_CHUNK),
                          !.budget = @ - LeastOf(@, RUN_CHUNK)]
    /\ trap' = NoTrap
    /\ UNCHANGED <<prog, p, code, seen>>

\* The next chunk enters run_capped; a trap that ended the last one is still there.
Chunk ==
    /\ ctl.pc = "Chunk" /\ ctl.budget > 0
    /\ ctl' = [ctl EXCEPT !.pc = "Run", !.left = LeastOf(ctl.budget, RUN_CHUNK),
                          !.budget = @ - LeastOf(@, RUN_CHUNK)]
    /\ UNCHANGED <<prog, p, trap, code, seen>>

\* The budget is spent: None, the process can be run again.
ChunkEnd ==
    /\ ctl.pc = "Chunk" /\ ctl.budget = 0
    /\ ctl' = [ctl EXCEPT !.pc = "Idle", !.ret = None]
    /\ UNCHANGED <<prog, p, trap, code, seen>>

\* The state after the service of the pending trap.
Served ==
    IF trap.kind = "Exception" THEN [p |-> handle_fault(p, trap.vector, trap.cr2), ret |-> 0]
    ELSE dispatch_syscall(p, trap.r)

\* Mutant: the decoded code survives the service.
ServeKeepingCode ==
    /\ ctl.pc = "Run" /\ p.running /\ trap # NoTrap /\ ctl.left > 0
    /\ \E s \in {Served} : p' = s.p /\ ctl' = [ctl EXCEPT !.ret = s.ret]
    /\ trap' = NoTrap /\ seen' = [seen EXCEPT !.served = @ + 1]
    /\ UNCHANGED <<prog, code>>

\* run_capped: take the trap, service it, drop the decoded code.  A panic of
\* the service ends the emulator.
Serve ==
    /\ ctl.pc = "Run" /\ p.running /\ trap # NoTrap /\ ctl.left > 0
    /\ \E s \in {Served} :
           /\ p' = s.p
           /\ ctl' = [ctl EXCEPT !.ret = s.ret, !.pc = IF s.ret = Panic THEN "Panicked" ELSE @]
    /\ trap' = NoTrap /\ code' = << >>
    /\ seen' = [seen EXCEPT !.served = @ + 1]
    /\ UNCHANGED prog

\* run_capped returns: the process is over, or the steps are used up (125).
RunReturn ==
    /\ ctl.pc = "Run"
    /\ \/ ~p.running /\ ctl' = [ctl EXCEPT !.pc = "Idle", !.ret = p.exit_code, !.left = 0, !.budget = 0]
       \/ p.running /\ ctl.left = 0 /\ ctl' = [ctl EXCEPT !.pc = "Chunk", !.ret = 125]
    /\ UNCHANGED <<prog, p, trap, code, seen>>

Next ==
    \/ Load
    \/ Guest
    \/ \E b \in Budgets : run(b)
    \/ Chunk
    \/ ChunkEnd
    \/ Serve
    \/ RunReturn

Spec == Init /\ [][Next]_vars
-----------------------------------------------------------------------------
(* Properties.                                                             *)
Loaded == ctl.pc \notin {"Load", "LoadFailed"}
Serving == seen'.served # seen.served
Call == IF trap.kind = "Syscall" THEN trap.r.nr ELSE "None"

\* The pages the tables map, of those the program could reach (prog.pages),
\* and what the guest sees at a page.
MappedPages(a) == {l \in prog.pages : resolve(a, l) # None}
FrameAt(a, l) == page_down(resolve(a, l))
View(a, l) == a.mem[FrameAt(a, l)]
PagesOfKind(a, kind) ==
    {l \in prog.pages : \E v \in Range(a.vmas) : v.kind = kind /\ v.start <= l /\ l < v.end}
PagesIn(a, lin, len) == {l \in prog.pages : page_down(lin) <= l /\ l < range_end(a.abi, lin, len)}

\* The cells a call may write in the guest's memory.
Output(r) ==
    LET buf == IF r.nr \in {"READ", "FSTAT", "STAT", "GETDENTS", "LLSEEK", "READLINK", "UNAME", "GETRANDOM",
                            "GETCWD", "CLOCK_GETTIME", "PRLIMIT64", "SET_THREAD_AREA"}
               THEN {r.buf .. r.buf + MostOf(r.len, 2)} ELSE {}
        iov == IF r.nr = "READV" THEN {e.base .. e.base + e.len : e \in Range(r.ents)} ELSE {}
        own == IF r.nr = "ARCH_PRCTL" THEN {r.addr .. r.addr + 1}
               ELSE IF r.nr = "SET_THREAD_AREA" THEN {GDT_BASE .. GDT_BASE + ENTRIES} ELSE {}
    IN  UNION (buf \cup iov \cup own)

\* The tables are a tree: every frame is the target of one entry at most, the
\* root of none, and all are allocated; so no two pages share a frame and no
\* page is a page table.
Entries(a, tables) ==
    {e \in {<<t, i>> : t \in tables, i \in 0 .. PAGE_SIZE - 1} : Has(load(a.mem, e[1] + e[2]), P)}
Target(a, e) == FrameOf(load(a.mem, e[1] + e[2]))
FramesDisjoint(a) ==
    LET tables[n \in 0 .. Levels[a.abi] - 1] ==
            IF n = 0 THEN {a.cr3} ELSE {Target(a, e) : e \in Entries(a, tables[n - 1])}
        entries == UNION {Entries(a, tables[n]) : n \in 0 .. Levels[a.abi] - 1}
        frames == {Target(a, e) : e \in entries}
    IN  /\ Cardinality(frames) = Cardinality(entries)
        /\ a.cr3 \notin frames
        /\ \A f \in frames : f < a.next_phys

\* The caches the host side must keep honest (invalidate_tlb in munmap and
\* mprotect, invalidate_icache after a service): a TLB entry never grants what
\* the tables refuse, and decoded code is the code in memory whenever the
\* guest can run.
CachesCoherent ==
    Loaded =>
        /\ \A t \in p.tlb :
                LET e == pte_entry(p.a, t.page)
                IN  /\ Has(e, P) /\ FrameOf(e) = FrameOf(t.entry)
                    /\ \A w \in BOOLEAN : Grants(t.entry, w) => Grants(e, w)
        /\ \A f \in DOMAIN code : code[f] = p.a.mem[f]

\* What the descriptor reads, and the cell a file mapping puts at offset n.
Source(v, fd) ==
    LET f == get(v, fd)
    IN  CASE f.kind = "File" -> v.host.files[f.path] [] f.kind = "Generated" -> f.data
          [] f.kind = "Std0" -> v.stdin [] OTHER -> << >>
FileCell(v, r, n) ==
    LET at == n + 1 + (IF get(v, r.fd).kind = "Std0" THEN 0 ELSE r.off)
        cells == Source(v, r.fd)
    IN  IF n >= 0 /\ n < r.len /\ at \in DOMAIN cells THEN {cells[at]} ELSE {}

\* What a load or a service does to the address space (alloc_frame, map_range,
\* mmap, mmap_fixed, set_brk, unmap, grow_stack): frames stay disjoint; a page
\* stays on its frame until munmap; its contents change only in the call's
\* output, a new page is zero, and a file mapping puts the file's bytes there.
\* The range mmap chooses holds no page of an earlier mapping, of the heap, of
\* the stack or of the GDT.  It may hold pages of a loaded image: mmap does not
\* look, and a PIE on i386 and the interpreter on x86-64 lie inside the arena;
\* those pages keep their frame and contents.  A grown stack has no gap.
MappingsExact == [][
    /\ ctl.pc = "Load" /\ ctl'.pc = "Idle" => FramesDisjoint(p'.a)
    /\ Serving /\ p'.a # p.a =>
        LET a == p.a
            b == p'.a
            r == trap.r
            before == MappedPages(a)
            after == MappedPages(b)
            fixed == "FIXED" \in r.flags /\ r.addr # 0
            gone == IF Call = "MUNMAP" THEN PagesIn(a, r.addr, r.len) ELSE {}
            given == IF Call = "MMAP" THEN PagesIn(a, ctl'.ret, r.len) ELSE {}
            fromFile == Call = "MMAP" /\ "ANONYMOUS" \notin r.flags /\ r.fd >= 0
            Old(l, i) == IF l \in before THEN View(a, l)[i] ELSE 0
        IN  /\ FramesDisjoint(b)
            /\ \A l \in before \ gone : resolve(b, l) = resolve(a, l)
            /\ \A l \in after, i \in 0 .. PAGE_SIZE - 1 :
                    \/ View(b, l)[i] = Old(l, i)
                    \/ l \in before /\ Call # "None" /\ l + i \in Output(r)
                    \/ fromFile /\ l \in given /\ View(b, l)[i] \in FileCell(p.v, r, l + i - ctl'.ret)
            /\ Call = "MMAP" /\ ctl'.ret > 0 /\ ~fixed =>
                    given \cap before \subseteq PagesOfKind(a, "Image")
            /\ gone \cap after = {}
            /\ trap.kind = "Exception" /\ p'.running =>
                    \A l \in prog.pages : trap.cr2 - PAGE_SIZE < l /\ l < a.vmas[StackVma(a)].start
                                            => Grants(pte_entry(b, l), TRUE)
    ]_vars

\* A transfer (transfer_read, transfer_write, sys_iov) moves the bytes it
\* reports and no others: a write puts exactly the first ret bytes of the
\* buffer in the file, an error means none; a read delivers the ret bytes at
\* the position, and the position passes them unless the buffer is not mapped.
Gather(a, r) ==
    LET Cells(e) == [i \in 1 .. e.len |-> IF resolve(a, e.base + i - 1) = None THEN None
                                          ELSE load(a.mem, resolve(a, e.base + i - 1))]
    IN  IF r.nr \in {"READ", "WRITE"} THEN Cells([base |-> r.buf, len |-> r.len])
        ELSE FlattenSeq([i \in 1 .. Len(r.ents) |-> Cells(r.ents[i])])
Sent(v, w, r) ==
    LET f == get(v, r.fd)
        at == IF "a" \in f.opts THEN Len(v.host.files[f.path]) ELSE f.pos
    IN  CASE f.kind \in {"Std1", "Std2"} -> SubSeq(w.out, Len(v.out) + 1, Len(w.out))
          [] f.kind = "File" -> SubSeq(w.host.files[f.path], at + 1, get(w, r.fd).pos)
          [] OTHER -> << >>
TransferExact == [][
    Serving /\ Call \in {"READ", "WRITE", "READV", "WRITEV"} =>
        LET r == trap.r
            kind == get(p.v, r.fd).kind
            n == MostOf(0, ctl'.ret)
            moved == SubSeq(Gather(p'.a, r), 1, n)
        IN  /\ Call \in {"WRITE", "WRITEV"} /\ kind \in {"File", "Std1", "Std2"} =>
                    Sent(p.v, p'.v, r) = SubSeq(Gather(p.a, r), 1, n)
            /\ Call \in {"READ", "READV"} /\ kind \in {"File", "Generated", "Std0"} /\ ctl'.ret # Panic =>
                    LET pos == get(p.v, r.fd).pos
                        used == IF kind = "Std0" THEN Len(p.v.stdin) - Len(p'.v.stdin)
                                ELSE get(p'.v, r.fd).pos - pos
                    IN  /\ moved = Slice(Source(p.v, r.fd), pos, n)
                        /\ used # n => used > n /\ None \in Range(Gather(p.a, r))
    ]_vars

\* Descriptors are independent: a call changes at most the one it names, or
\* the lowest free one it returns; stat64's probe and mmap's read of a file
\* leave no trace; contents of files change only through a write or a
\* truncating open of that file.
DescriptorsIsolated == [][
    Serving =>
        LET r == trap.r
            v == p.v
            w == p'.v
            all == 0 .. MostOf(Len(v.fds), Len(w.fds)) - 1
            free == {d \in 0 .. Len(v.fds) : ~is_open(v, d)}
            moves == Call \in {"READ", "WRITE", "READV", "WRITEV", "CLOSE", "LSEEK", "LLSEEK", "GETDENTS"}
            mine == IF moves THEN {r.fd} ELSE IF Call = "OPEN" /\ ctl'.ret >= 0 THEN {ctl'.ret} ELSE {}
        IN  /\ \A d \in all \ mine : get(w, d) = get(v, d)
            /\ Call = "OPEN" /\ ctl'.ret >= 0 => ctl'.ret = Min(free) /\ is_open(w, ctl'.ret)
            /\ \A f \in DOMAIN v.host.files :
                    w.host.files[f] # v.host.files[f] =>
                        \/ Call \in {"WRITE", "WRITEV"} /\ get(v, r.fd).path = f
                        \/ Call = "OPEN" /\ "TRUNC" \in r.flags /\ get(w, ctl'.ret).path = f
    ]_vars

\* A trap is serviced exactly once, whichever budget it falls across
\* (host_trap stays set when the trapping instruction was a run's last).
TrapsServedOnce ==
    Loaded => seen.raised = seen.served + (IF trap = NoTrap THEN 0 ELSE 1)

\* The entry stack (build_stack), read the way a C start-up reads it, gives
\* argv, envp and the auxiliary vector back, as long as it fits the mapping.
ReadWord(a, lin) == LET ph == resolve(a, lin) IN IF ph = None THEN None ELSE load(a.mem, ph)
StringAt(a, lin, s) == \A i \in 1 .. Len(s) + 1 : ReadWord(a, lin + i - 1) = Append(s, 0)[i]
StartStackExact == [][
    ctl.pc = "Load" /\ ctl'.pc = "Idle" /\ ctl'.esp >= STACK_TOP[prog.abi] - INIT_STACK =>
        LET a == p'.a
            esp == ctl'.esp
            argv == IF prog.argv = << >> THEN << <<1>> >> ELSE prog.argv
            W(i) == ReadWord(a, esp + i)
            e == Len(argv) + 2
            x == e + Len(prog.envp) + 1
        IN  /\ esp % 2 = 0 /\ W(0) = Len(argv)
            /\ \A i \in 1 .. Len(argv) : StringAt(a, W(i), argv[i])
            /\ W(e - 1) = 0
            /\ \A i \in 1 .. Len(prog.envp) : StringAt(a, W(e + i - 1), prog.envp[i])
            /\ W(x - 1) = 0
            /\ ReadWord(a, W(x)) = prog.img.file[prog.img.phoff + 1]
            /\ W(x + 4) = 0
    ]_vars
=============================================================================
