----------------------------- MODULE LinuxCalls -----------------------------
(***************************************************************************)
(* The system calls of the two paged Linux layers (os/syscall, os64/       *)
(* syscall.rs, and the TLS descriptors of os/arch/i386.rs).  A call maps   *)
(* the process p = [a, v, running, exit_code, tls_next, base, tlb] and a   *)
(* request r, the number and arguments in the registers, to the process    *)
(* and the result.                                                         *)
(*                                                                         *)
(* Data abstraction: a path or an iovec array is in the request with its   *)
(* guest address, and only whether that memory can be read matters; a      *)
(* structure written to the guest is the few cells its properties need.    *)
(***************************************************************************)
EXTENDS LinuxMemory, LinuxFiles

CONSTANTS
    XFER_CHUNK,    \* bytes moved per host buffer
    UIO_MAXIOV,    \* longest iovec array of the x86-64 layer
    GDT_BASE,      \* address of the GDT's page
    TLS_MIN, TLS_COUNT  \* the TLS entries of the GDT

EFAULT == -14
ENOMEM == -12
ENOTDIR == -20
ENOTTY == -25
ERANGE == -34
ENOSYS == -38
EAGAIN == -11
ENTRIES == TLS_MIN + TLS_COUNT

is64(p) == p.a.abi = "x86_64"
Ret(p, ret) == [p |-> p, ret |-> ret]

g_write(p, lin, data) ==
    LET Done(w) == [ok |-> w.ok, p |-> [p EXCEPT !.a = w.a]] IN Done(write_bytes(p.a, lin, data))

\* Write a structure; EFAULT if a page of it is unmapped.
Fill(p, lin, data, ret) ==
    LET Done(w) == Ret(w.p, IF w.ok THEN ret ELSE EFAULT) IN Done(g_write(p, lin, data))

\* The filesystem's answer o = [v, ret] becomes the call's.
FromVfs(p, o) == Ret([p EXCEPT !.v = o.v], o.ret)
VfsRead(p, fd, n) == IF is64(p) THEN read64(p.v, fd, n) ELSE read(p.v, fd, n)
VfsWrite(p, fd, data) == IF is64(p) THEN write64(p.v, fd, data) ELSE write(p.v, fd, data)
VfsSeek(p, fd, off, wh) == IF is64(p) THEN lseek64(p.v, fd, off, wh) ELSE lseek(p.v, fd, off, wh)

-----------------------------------------------------------------------------
(* Transfers, a chunk at a time.                                           *)

\* Mutant: a fault in a later chunk is reported as EFAULT.
PartialAsError(p, total, e) == Ret(p, e)

\* An error after the first chunk returns what was moved before it.
Partial(p, total, e) == Ret(p, IF total > 0 /\ e # Panic THEN total ELSE e)

RECURSIVE ReadChunks(_, _, _, _, _)
ReadChunks(p, fd, lin, left, total) ==
    LET n == LeastOf(left, XFER_CHUNK)
        Written(k, w) ==
            IF ~w.ok THEN Partial(w.p, total, EFAULT)
            ELSE IF k < n THEN Ret(w.p, total + k)
            ELSE ReadChunks(w.p, fd, lin + k, left - k, total + k)
        Received(r) ==
            IF r.ret < 0 THEN Partial([p EXCEPT !.v = r.v], total, r.ret)
            ELSE IF r.ret = 0 THEN Ret([p EXCEPT !.v = r.v], total)
            ELSE Written(r.ret, g_write([p EXCEPT !.v = r.v], lin, r.data))
    IN  IF left = 0 THEN Ret(p, total) ELSE Received(VfsRead(p, fd, n))

transfer_read(p, fd, lin, len) == ReadChunks(p, fd, lin, len, 0)

RECURSIVE WriteChunks(_, _, _, _, _)
WriteChunks(p, fd, lin, left, total) ==
    LET n == LeastOf(left, XFER_CHUNK)
        Sent(q, k) ==
            IF k < 0 THEN Partial(q, total, k)
            ELSE IF k < n THEN Ret(q, total + k)
            ELSE WriteChunks(q, fd, lin + k, left - k, total + k)
        Accepted(w) == Sent([p EXCEPT !.v = w.v], w.ret)
        Read(g) == IF g.ok THEN Accepted(VfsWrite(p, fd, g.data)) ELSE Partial(p, total, EFAULT)
    IN  IF left = 0 THEN Ret(p, total) ELSE Read(read_bytes(p.a, lin, n))

transfer_write(p, fd, lin, len) == WriteChunks(p, fd, lin, len, 0)

\* Gather or scatter: entry i of the array is two cells at r.iov + 2i; an
\* empty entry is skipped, a short transfer ends the call.
RECURSIVE Iov(_, _, _, _, _)
Iov(p, r, i, total, writing) ==
    LET e == r.ents[i]
        Transferred(t) ==
            IF t.ret < 0 THEN Partial(t.p, total, t.ret)
            ELSE IF t.ret < e.len THEN Ret(t.p, total + t.ret)
            ELSE Iov(t.p, r, i + 1, total + t.ret, writing)
    IN  IF i > Len(r.ents) THEN Ret(p, total)
        ELSE IF Unmapped(p.a, r.iov + 2 * (i - 1), 2) # {} THEN Partial(p, total, EFAULT)
        ELSE IF e.len = 0 THEN Iov(p, r, i + 1, total, writing)
        ELSE Transferred(IF writing THEN transfer_write(p, r.fd, e.base, e.len)
                         ELSE transfer_read(p, r.fd, e.base, e.len))

sys_writev(p, r) == Iov(p, r, 1, 0, TRUE)

sys_iov(p, r, writing) ==
    IF Len(r.ents) > UIO_MAXIOV THEN Ret(p, EINVAL) ELSE Iov(p, r, 1, 0, writing)

-----------------------------------------------------------------------------
(* Files.  A path at address r.at of Len(comps) characters and its NUL.    *)
g_string(p, r) == read_cstr(p.a, r.at, Len(r.path.comps))

do_open(p, r) ==
    IF ~g_string(p, r) THEN Ret(p, EFAULT)
    ELSE FromVfs(p, IF is64(p) THEN open64(p.v, r.path, r.flags) ELSE open(p.v, r.path, r.flags))

sys_close(p, r) == FromVfs(p, close(p.v, r.fd))

sys_lseek(p, r) == FromVfs(p, VfsSeek(p, r.fd, r.off, r.whence))

\* The position moves even if the result cannot be stored.
sys_llseek(p, r) ==
    LET Told(s) == IF s.ret < 0 THEN s ELSE Fill(s.p, r.buf, <<s.ret, 0>>, 0) IN Told(sys_lseek(p, r))

sys_readlink(p, r) ==
    LET n == LeastOf(Len(p.v.host.proc), r.len)
    IN  IF ~g_string(p, r) THEN Ret(p, EFAULT)
        ELSE IF is64(p) \/ ~readlink(p.v, r.path) THEN Ret(p, ENOENT)
        ELSE Fill(p, r.buf, SubSeq(p.v.host.proc, 1, n), n)

sys_access(p, r) ==
    IF is64(p) THEN Ret(p, ENOENT) ELSE Ret(p, IF g_string(p, r) THEN access(p.v, r.path) ELSE EFAULT)

\* A stat buffer: the type (1 directory, 2 terminal, 3 file) and the size.
sys_fstat64(p, fd, buf) ==
    LET v == p.v
    IN  CASE is_dir_fd(v, fd) -> Fill(p, buf, <<1, 0>>, 0)
          [] is_tty(v, fd) -> Fill(p, buf, <<2, 0>>, 0)
          [] ~is_dir_fd(v, fd) /\ ~is_tty(v, fd) /\ file_len(v, fd) >= 0 ->
                Fill(p, buf, <<3, file_len(v, fd)>>, 0)
          [] OTHER -> Ret(p, EBADF)

\* x86-64: a Sink is a file of size 0; a path is not looked up, newfstatat
\* answers for the descriptor.
sys_fstat(p, fd, buf) ==
    LET v == p.v
    IN  CASE is_tty(v, fd) -> Fill(p, buf, <<2, 0>>, 0)
          [] ~is_tty(v, fd) /\ is_open(v, fd) -> Fill(p, buf, <<3, MostOf(0, file_len64(v, fd))>>, 0)
          [] OTHER -> Ret(p, EBADF)

\* Mutant: the probing descriptor is left open when the buffer faults.
StatLeaking(p, r) ==
    LET Answered(s, fd) == IF s.ret < 0 THEN s ELSE [s EXCEPT !.p.v = close(@, fd).v]
        Opened(o) == IF o.ret < 0 THEN Ret(p, o.ret)
                     ELSE Answered(sys_fstat64([p EXCEPT !.v = o.v], o.ret, r.buf), o.ret)
    IN  IF g_string(p, r) THEN Opened(open(p.v, r.path, {})) ELSE Ret(p, EFAULT)

\* stat64 opens the path, answers for that descriptor and closes it.
sys_stat64(p, r) ==
    LET Opened(o) == IF o.ret < 0 THEN Ret(p, o.ret)
                     ELSE [sys_fstat64([p EXCEPT !.v = o.v], o.ret, r.buf)
                              EXCEPT !.p.v = close(@, o.ret).v]
    IN  IF g_string(p, r) THEN Opened(open(p.v, r.path, {})) ELSE Ret(p, EFAULT)

\* The cursor passes the entries of the block before the block is written.
sys_getdents64(p, r) ==
    LET Listing(d) == IF d.size = 0 THEN Ret([p EXCEPT !.v = d.v], 0)
                      ELSE Fill([p EXCEPT !.v = d.v], r.buf, [i \in 1 .. d.size |-> 1], d.size)
    IN  IF is_dir_fd(p.v, r.fd) THEN Listing(next_dents(p.v, r.fd, r.len)) ELSE Ret(p, ENOTDIR)

sys_ioctl(p, r) ==
    IF is_tty(p.v, r.fd) /\ r.req \in {"TCGETS", "TIOCGWINSZ"} THEN Ret(p, 0)
    ELSE Ret(p, IF is_open(p.v, r.fd) THEN ENOTTY ELSE EBADF)

-----------------------------------------------------------------------------
(* Memory.                                                                 *)
sys_brk(p, r) == LET Set(b) == Ret([p EXCEPT !.a = b.a], b.ret) IN Set(set_brk(p.a, r.addr))

\* Mutant: the TLB keeps its entries.
MunmapStale(p, r) == Ret([p EXCEPT !.a = unmap(@, r.addr, r.len)], 0)

\* munmap and mprotect flush the TLB.
sys_munmap(p, r) == Ret([p EXCEPT !.a = unmap(@, r.addr, r.len), !.tlb = {}], 0)
sys_mprotect(p, r) == Ret([p EXCEPT !.a = protect(@, r.addr, r.len, r.prot), !.tlb = {}], 0)

\* Populate a file mapping: read at the offset, then restore the position.
\* The transfer's own result is ignored.
Populate(p, r, base) ==
    LET SeekTo(q, pos) == [q EXCEPT !.v = VfsSeek(q, r.fd, pos, 0).v]
        Back(t, saved) == Ret(IF saved < 0 THEN t.p ELSE SeekTo(t.p, saved),
                              IF t.ret = Panic THEN Panic ELSE base)
    IN  Back(transfer_read(SeekTo(p, r.off), r.fd, base, r.len), VfsSeek(p, r.fd, 0, 1).ret)

sys_mmap(p, r) ==
    LET prot == IF r.prot = {} THEN {"R"} ELSE r.prot
        fixed == "FIXED" \in r.flags /\ r.addr # 0
        Mapped(q, addr) ==
            IF "ANONYMOUS" \notin r.flags /\ r.fd >= 0 THEN Populate(q, r, addr) ELSE Ret(q, addr)
        Placed(m) == IF m.ret = 0 THEN Ret(p, ENOMEM) ELSE Mapped([p EXCEPT !.a = m.a], m.ret)
    IN  Placed(IF fixed THEN [a |-> mmap_fixed(p.a, r.addr, r.len, prot), ret |-> r.addr]
               ELSE mmap(p.a, r.len, prot))

-----------------------------------------------------------------------------
(* Thread area and the rest.                                               *)

\* A ring-3 data descriptor in the GDT: one cell, the base (plus 1, so that a
\* descriptor is never an empty entry).
write_tls(a, entry, base) == write_bytes(a, GDT_BASE + entry, <<base + 1>>).a

\* user_desc is two cells, the entry number (-1: allocate) and the base.  A
\* slot is taken before the result is stored.
sys_set_thread_area(p, r) ==
    LET entry == IF r.entry = -1 THEN p.tls_next ELSE r.entry
        taken == IF r.entry = -1 THEN [p EXCEPT !.tls_next = @ + 1] ELSE p
    IN  IF Unmapped(p.a, r.buf, 1) # {} THEN Ret(p, EFAULT)
        ELSE IF entry >= ENTRIES THEN Ret(p, EINVAL)
        ELSE Fill([taken EXCEPT !.a = write_tls(@, entry, r.base)], r.buf, <<entry>>, 0)

\* x86-64: the FS and GS bases.
sys_arch_prctl(p, r) ==
    CASE r.code = "SET_FS" -> Ret([p EXCEPT !.base.fs = r.addr], 0)
      [] r.code = "SET_GS" -> Ret([p EXCEPT !.base.gs = r.addr], 0)
      [] r.code = "GET_FS" -> Fill(p, r.addr, <<p.base.fs>>, 0)
      [] r.code = "GET_GS" -> Fill(p, r.addr, <<p.base.gs>>, 0)
      [] OTHER -> Ret(p, EINVAL)

sys_uname(p, r) == Fill(p, r.buf, <<1, 1>>, 0)

\* Chunked: chunks before an unmapped page stay written.
sys_getrandom(p, r) == Fill(p, r.buf, [i \in 1 .. r.len |-> 1], r.len)

\* The path is one cell per component, and the NUL.
sys_getcwd(p, r) ==
    LET cwd == [i \in 1 .. Len(p.v.cwd) + 1 |-> 1] \o <<0>>
    IN  IF Len(cwd) > r.len THEN Ret(p, ERANGE) ELSE Fill(p, r.buf, cwd, Len(cwd))

\* The result does not depend on whether the timespec could be written.
sys_clock_gettime(p, r) == Ret(g_write(p, r.buf, <<0, 0>>).p, 0)

sys_prlimit64(p, r) == IF r.buf = 0 THEN Ret(p, 0) ELSE Fill(p, r.buf, <<1, 1>>, 0)

sys_futex(r) == CASE r.op = "WAKE" -> 0 [] r.op = "WAIT" -> EAGAIN [] OTHER -> ENOSYS

sys_exit(p, r) == Ret([p EXCEPT !.running = FALSE, !.exit_code = r.status % 256], 0)

\* The dispatch of both layers; a call neither knows is ENOSYS.
Shared(p, r) ==
    CASE r.nr = "EXIT" -> sys_exit(p, r)
      [] r.nr = "READ" -> transfer_read(p, r.fd, r.buf, r.len)
      [] r.nr = "WRITE" -> transfer_write(p, r.fd, r.buf, r.len)
      [] r.nr = "OPEN" -> do_open(p, r)
      [] r.nr = "CLOSE" -> sys_close(p, r)
      [] r.nr = "LSEEK" -> sys_lseek(p, r)
      [] r.nr = "READLINK" -> sys_readlink(p, r)
      [] r.nr = "ACCESS" -> sys_access(p, r)
      [] r.nr = "BRK" -> sys_brk(p, r)
      [] r.nr = "MMAP" -> sys_mmap(p, r)
      [] r.nr = "MUNMAP" -> sys_munmap(p, r)
      [] r.nr = "MPROTECT" -> sys_mprotect(p, r)
      [] r.nr = "IOCTL" -> sys_ioctl(p, r)
      [] r.nr = "UNAME" -> sys_uname(p, r)
      [] r.nr = "GETRANDOM" -> sys_getrandom(p, r)
      [] r.nr = "GETCWD" -> sys_getcwd(p, r)
      [] r.nr = "CLOCK_GETTIME" -> sys_clock_gettime(p, r)
      [] r.nr \in {"FCNTL", "RT_SIGACTION", "GETUID"} -> Ret(p, 0)
      [] r.nr \in {"GETPID", "SET_TID_ADDRESS"} -> Ret(p, 1)
      [] OTHER -> Ret(p, ENOSYS)

Calls32 == {"WRITEV", "LLSEEK", "FSTAT", "STAT", "GETDENTS", "SET_THREAD_AREA"}
syscall32(p, r) ==
    CASE r.nr = "WRITEV" -> sys_writev(p, r)
      [] r.nr = "LLSEEK" -> sys_llseek(p, r)
      [] r.nr = "FSTAT" -> sys_fstat64(p, r.fd, r.buf)
      [] r.nr = "STAT" -> sys_stat64(p, r)
      [] r.nr = "GETDENTS" -> sys_getdents64(p, r)
      [] r.nr = "SET_THREAD_AREA" -> sys_set_thread_area(p, r)

Calls64 == {"READV", "WRITEV", "FSTAT", "ARCH_PRCTL", "PRLIMIT64", "FUTEX", "MADVISE", "SCHED_YIELD", "DUP"}
syscall64(p, r) ==
    CASE r.nr = "READV" -> sys_iov(p, r, FALSE)
      [] r.nr = "WRITEV" -> sys_iov(p, r, TRUE)
      [] r.nr = "FSTAT" -> sys_fstat(p, r.fd, r.buf)
      [] r.nr = "ARCH_PRCTL" -> sys_arch_prctl(p, r)
      [] r.nr = "PRLIMIT64" -> sys_prlimit64(p, r)
      [] r.nr = "FUTEX" -> Ret(p, sys_futex(r))
      [] r.nr \in {"MADVISE", "SCHED_YIELD"} -> Ret(p, 0)
      [] r.nr = "DUP" -> Ret(p, EBADF)

dispatch_syscall(p, r) ==
    IF is64(p) /\ r.nr \in Calls64 THEN syscall64(p, r)
    ELSE IF ~is64(p) /\ r.nr \in Calls32 THEN syscall32(p, r)
    ELSE Shared(p, r)
=============================================================================
