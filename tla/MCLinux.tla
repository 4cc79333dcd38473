------------------------------ MODULE MCLinux -------------------------------
(* Small instances of LinuxSystem: both ABIs, one scene of the guest's life each. *)
EXTENDS LinuxSystem

ByAbi(x, y) == [abi \in Abis |-> IF abi = "i386" THEN x ELSE y]

MCLevels == ByAbi(2, 4)
MCSpace == ByAbi(512, 65536)
MCMmapBase == ByAbi(128, 16000)
MCStackTop == ByAbi(448, 16376)
MCStackLimit == ByAbi(400, 16328)
MCPieBase == ByAbi(176, 10920)
MCInterpBase == ByAbi(464, 16200)
MCBudgets == {1, 4}

PagesBetween(s, e) == {n * 8 : n \in (s \div 8) .. (e \div 8)}
LowPages == PagesBetween(24, 80)
ArenaPages(abi) == PagesBetween(MCMmapBase[abi] - 8, MCMmapBase[abi] + 48)
StackPages(abi) == PagesBetween(MCStackLimit[abi] - 8, MCStackTop[abi])
ImagePages(abi) == PagesBetween(MCPieBase[abi] - 8, MCPieBase[abi] + 16)
                   \cup PagesBetween(MCInterpBase[abi] - 8, MCInterpBase[abi] + 8)
GdtPages(abi) == IF abi = "i386" THEN {488, 496, 504} ELSE {}

\* A request: every field, so that requests can be compared.
Req(nr) ==
    [nr |-> nr, fd |-> -1, buf |-> 0, len |-> 0, at |-> 32, path |-> [abs |-> TRUE, comps |-> << >>],
     flags |-> {}, iov |-> 0, ents |-> << >>, off |-> 0, whence |-> 0, addr |-> 0, prot |-> {"R", "W"},
     entry |-> -1, base |-> 0, code |-> "", status |-> 300, req |-> "", op |-> ""]
SC(r) == [op |-> "syscall", r |-> r]
Mem(op, lin) == [op |-> op, lin |-> lin]
Fault(v) == [op |-> "fault", vector |-> v]

-----------------------------------------------------------------------------
(* Images.  The file's first cells are the headers (phoff 2), then code.   *)
Seg(off, va, fs, ms, prot) == [type |-> "LOAD", offset |-> off, vaddr |-> va, filesz |-> fs, memsz |-> ms,
                               prot |-> prot]
Note(t, off, fs, va) == [type |-> t, offset |-> off, vaddr |-> va, filesz |-> fs, memsz |-> 0, prot |-> {}]
Cells == <<7, 7, 5, 7, 7, 7, 3, 3, 3, 3, 4, 4>>
Image(type, phdrs) == [header |-> TRUE, type |-> type, entry |-> 34, phoff |-> 2, phdrs |-> phdrs,
                       file |-> Cells]

\* Code page at 32, data from 41 to 55 sharing no page with it.
Static == Image("EXEC", <<Seg(0, 32, 8, 8, {"R", "X"}), Seg(8, 40, 4, 15, {"R", "W"}), Note("OTHER", 0, 0, 0)>>)
\* Segments that share a page, headers named by PT_PHDR.
Pie == Image("DYN", <<Note("PHDR", 2, 2, 2), Seg(0, 0, 6, 6, {"R"}), Seg(6, 6, 6, 8, {"R", "W"}),
                      Note("INTERP", 6, 2, 0)>>)
Linker == [Image("DYN", <<Seg(0, 0, 8, 8, {"R", "X"})>>) EXCEPT !.entry = 4]
Bad == <<[Static EXCEPT !.header = FALSE], [Static EXCEPT !.type = "REL"],
        Image("EXEC", <<Seg(8, 32, 8, 8, {"R"})>>),
        Image("EXEC", <<Seg(0, 32, 12, 4, {"R"})>>),
        Image("EXEC", <<Note("INTERP", 8, 8, 0)>>)>>

-----------------------------------------------------------------------------
(* The host: a file, a directory, a locked file, a link out of the root.   *)
MCHost ==
    [rootfs |-> TRUE,
     files |-> [f \in {<<"f">>, <<"d", "g">>, <<"k">>} |->
                  IF f = <<"f">> THEN <<1, 2, 3, 4, 5>> ELSE IF f = <<"k">> THEN << >> ELSE <<6>>],
     dirs |-> [d \in {<< >>, <<"d">>, <<"l">>} |->
                  IF d = << >> THEN <<"f", "d">> ELSE IF d = <<"d">> THEN <<"g">> ELSE << >>],
     links |-> {<<"l">>}, locked |-> {<<"k">>}, proc |-> <<8, 8>>, stdin |-> <<1, 2>>]
Abs(c) == [abs |-> TRUE, comps |-> c]
Rel(c) == [abs |-> FALSE, comps |-> c]
Open(path, flags) == SC([Req("OPEN") EXCEPT !.path = path, !.flags = flags])
Read(fd, buf, len) == SC([Req("READ") EXCEPT !.fd = fd, !.buf = buf, !.len = len])
Write(fd, buf, len) == SC([Req("WRITE") EXCEPT !.fd = fd, !.buf = buf, !.len = len])
Seek(fd, off, wh) == SC([Req("LSEEK") EXCEPT !.fd = fd, !.off = off, !.whence = wh])
Close(fd) == SC([Req("CLOSE") EXCEPT !.fd = fd])
Buf(nr, buf, len) == SC([Req(nr) EXCEPT !.buf = buf, !.len = len])
Vec(nr, fd) == SC([Req(nr) EXCEPT !.fd = fd, !.iov = 48, !.ents =
                    <<[base |-> 40, len |-> 3], [base |-> 0, len |-> 0], [base |-> 54, len |-> 4]>>])
Mmap(addr, len, flags, fd, off) ==
    SC([Req("MMAP") EXCEPT !.addr = addr, !.len = len, !.flags = flags, !.fd = fd, !.off = off])
Mem3(nr, addr, len) == SC([Req(nr) EXCEPT !.addr = addr, !.len = len, !.prot = {"R"}])

Base(abi, pages, insns) ==
    [abi |-> abi, img |-> Static, ld |-> Linker, argv |-> << >>, envp |-> << >>, host |-> MCHost,
     luck |-> << >>, insns |-> insns, pages |-> pages]

\* Mapping and unmapping under the guest's accesses.
Mapping(abi) ==
    LET m == MMAP_BASE[abi]
    IN  Base(abi, {32, 40} \cup ArenaPages(abi),
          {Mmap(0, 8, {"ANONYMOUS"}, -1, 0), Mmap(0, 12, {"ANONYMOUS"}, -1, 0),
           Mmap(m + 8, 8, {"ANONYMOUS", "FIXED"}, -1, 0), Mem3("MUNMAP", m, 8), Mem3("MPROTECT", m, 16),
           Mem("store", m + 1), Mem("fetch", m + 2), Mem("load", m + 9)})
\* An image inside the arena: the PIE on i386, the interpreter on x86-64.  The
\* cursor reaches it after a fixed mapping below it, or one long mapping.
Arena(abi) ==
    LET i == IF abi = "i386" THEN EXE_PIE_BASE[abi] ELSE INTERP_BASE[abi]
        reach == i - MMAP_BASE[abi]
    IN  [Base(abi, ImagePages(abi) \cup {i + 16, i + 24} \cup PagesBetween(MMAP_BASE[abi], MMAP_BASE[abi] + 8),
              {Mmap(i - 8, 8, {"ANONYMOUS", "FIXED"}, -1, 0), Mmap(0, reach, {"ANONYMOUS"}, -1, 0),
               Mmap(0, 12, {"ANONYMOUS"}, -1, 0), Open(Abs(<<"f">>), {}), Mmap(0, 4, {}, 3, 1),
               Mem3("MUNMAP", i, 8), Mem3("MPROTECT", i, 8),
               Mem("store", i + 9), Mem("load", i + 1), Mem("fetch", i + 2)})
         EXCEPT !.img = Pie]
Heap(abi) ==
    LET m == MMAP_BASE[abi]
        s == STACK_TOP[abi] - INIT_STACK
    IN  Base(abi, LowPages \cup StackPages(abi),
          {SC([Req("BRK") EXCEPT !.addr = a]) : a \in {0, 70, 58, m + 1}} \cup
          {Mem3("MUNMAP", 56, 16), Mem("store", 66), Mem("store", s - 9), Mem("load", s - 20),
           Mem("load", STACK_LIMIT[abi] - 1), Mmap(56, 8, {"ANONYMOUS", "FIXED"}, -1, 0), Fault(6), Fault(0)})

\* Descriptors and transfers; 56 is the first unmapped cell after the data.
Names32 == {Open(Abs(<<"f">>), {}), Open(Rel(<<".", "d", "..", "..", "f">>), {"RDWR", "APPEND"}),
            Open(Abs(<<"d">>), {}), Open(Abs(<<"proc", "self", "maps">>), {}), Open(Abs(<<"l", "x">>), {}),
            Open(Abs(<<"n">>), {"WRONLY", "CREAT", "TRUNC"}), Open(Abs(<<"dev", "zero">>), {})}
Names64 == {Open(Rel(<<"f">>), {}), Open(Rel(<<"k">>), {}), Open(Abs(<<"f">>), {}), Open(Rel(<<"f">>), {"RDWR"})}
Names(abi) == IF abi = "i386" THEN Names32 ELSE Names64
Transfers(abi, luck) ==
    [Base(abi, {40, 48, 56} \cup ArenaPages(abi),
          Names(abi) \cup
          {Read(3, 40, 4), Read(3, 53, 7), Read(0, 40, 4), Write(3, 40, 4), Write(1, 53, 7),
           Seek(3, 1, 0), Seek(3, 3, 2), Close(1), Close(3), Vec("WRITEV", 1),
           Mmap(0, 4, {}, 3, 1), Mem("fetch", 41)}
          \cup IF abi = "i386" THEN {} ELSE {Vec("READV", 3)})
     EXCEPT !.luck = luck,
            !.insns = IF luck = << >> THEN @
                      ELSE {i \in @ : /\ i.op = "syscall"
                                      /\ \/ i.r.nr \in {"READ", "WRITE", "READV", "WRITEV", "MMAP"}
                                         \/ /\ i.r.nr = "OPEN"
                                            /\ i.r.path.comps \notin {<<"d">>, <<"l", "x">>}}]
Lookups(abi) ==
    Base(abi, {32, 40, 48, 56} \cup GdtPages(abi),
         {Open(Abs(<<"d">>), {}), Open(Abs(<<"dev", "random">>), {}), Open(Abs(<<"dev", "full">>), {}),
          Open(Abs(<<"dev", "null">>), {}), Read(3, 40, 2), Write(3, 40, 2), Seek(3, 2, 1)} \cup
         {SC([Req("STAT") EXCEPT !.path = Abs(<<"f">>), !.buf = b]) : b \in {40, 56}} \cup
         {SC([Req("FSTAT") EXCEPT !.fd = f, !.buf = 40]) : f \in {0, 3, 4}} \cup
         {SC([Req("GETDENTS") EXCEPT !.fd = 3, !.buf = 48, !.len = 4]),
          SC([Req("LLSEEK") EXCEPT !.fd = 3, !.off = 1, !.buf = 56]),
          SC([Req("READLINK") EXCEPT !.path = Abs(<<"proc", "self", "exe">>), !.buf = 40, !.len = 1]),
          SC([Req("ACCESS") EXCEPT !.path = Abs(<<"d", "g">>)]),
          SC([Req("IOCTL") EXCEPT !.fd = 1, !.req = "TCGETS"]), SC([Req("IOCTL") EXCEPT !.fd = 3])})
Threads(abi) ==
    Base(abi, {40, 48, 56} \cup GdtPages(abi),
         {SC([Req("SET_THREAD_AREA") EXCEPT !.buf = b, !.entry = e, !.base = 3]) : b \in {40, 56}, e \in {-1, 6, 9}}
         \cup {SC([Req("ARCH_PRCTL") EXCEPT !.code = c, !.addr = 40]) : c \in {"SET_FS", "GET_FS", "SET_GS", "GET_GS", ""}}
         \cup {Buf(nr, 53, n) : nr \in {"UNAME", "GETRANDOM", "GETCWD", "CLOCK_GETTIME", "PRLIMIT64"}, n \in {1, 5}}
         \cup {SC([Req("FUTEX") EXCEPT !.op = o]) : o \in {"WAKE", "WAIT", ""}}
         \cup {SC(Req(nr)) : nr \in {"FCNTL", "GETPID", "SCHED_YIELD", "DUP", "EXIT"}}
         \cup {Mem("load", 496), Fault(13)})
\* Loads: a static image with arguments, a dynamic one, and malformed ones.
Loads(abi) ==
    LET b == Base(abi, LowPages \cup ImagePages(abi) \cup StackPages(abi) \cup GdtPages(abi),
                  {Mem("fetch", 34), Fault(6)})
        args == [b EXCEPT !.argv = <<<<1>>, <<2, 3>>>>]
        dyn == [b EXCEPT !.img = Pie]
    IN  <<args, [args EXCEPT !.envp = << <<4>> >>], [args EXCEPT !.envp = [i \in 1 .. 9 |-> <<5>>]],
          dyn, [dyn EXCEPT !.host.rootfs = FALSE], [dyn EXCEPT !.ld = Bad[3]]>>
        \o [i \in 1 .. Len(Bad) |-> [b EXCEPT !.img = Bad[i]]]

Scenes(abi) ==
    <<Mapping(abi), Arena(abi), Heap(abi), Lookups(abi), Threads(abi),
      Transfers(abi, << >>), Transfers(abi, <<2>>), Transfers(abi, <<3, HostError>>)>> \o Loads(abi)
MCPrograms == Range(Scenes("i386") \o Scenes("x86_64"))
=============================================================================
