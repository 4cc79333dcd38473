---------------------------- MODULE UserProcess ----------------------------
(***************************************************************************)
(* The Linux i386 process of the user-mode runner: the descriptor table    *)
(* and the file calls (usermode/linux/fs.rs), the entry stack and the call *)
(* table (usermode/linux/mod.rs, abi.rs) and the x86-32 adapter            *)
(* (usermode/x86_32.rs).                                                   *)
(*                                                                         *)
(* f is the host side of the process: fds, a sequence of descriptors (slot *)
(* fd + 1), and in, the bytes the host's standard input has not delivered. *)
(* A descriptor is [kind, bytes, pos]; Closed marks an empty slot.  The    *)
(* descriptors of the two output streams keep what was written to them in  *)
(* bytes, as a Sink does.                                                  *)
(***************************************************************************)
EXTENDS UserMemory

CONSTANTS IO_CHUNK,        \* bytes of one host transfer
          MAX_IOV,         \* longest iovec
          HostFiles,       \* guest path -> contents, of the openable files
          Refused,         \* guest paths the host refuses (permission)
          Broken,          \* guest paths whose opening fails otherwise
          SLASH,           \* the byte '/'
          GDT_BASE,        \* guest address of the GDT page
          LIMIT_MAX,       \* largest descriptor limit (0xF_FFFF)
          RANDOM_MAX,      \* most bytes of one getrandom
          NOW              \* <<seconds, nanoseconds>> the host's clock shows

ENOENT == 2
ESRCH == 3
EIO == 5
EBADF == 9
EAGAIN == 11
ENOMEM == 12
EACCES == 13
EFAULT == 14
ENODEV == 19
EINVAL == 22
ENOTTY == 25
ESPIPE == 29
ENOSYS == 38
GUEST_ID == 1000
MINUS1 == SPACE - 1

(* -errno in EAX.                                                          *)
err(e) == SPACE - e
IsErr(v) == v >= SPACE \div 2

Closed == [kind |-> "none", bytes |-> <<>>, pos |-> 0]
Stream(kind) == [kind |-> kind, bytes |-> <<>>, pos |-> 0]
fds_new == <<Stream("stdin"), Stream("stdout"), Stream("stderr")>>

(* FdTable::get: <<>> or <<slot>>.                                         *)
IsOpen(f, fd) == fd < Len(f.fds) /\ f.fds[fd + 1].kind # "none"

(* Lowest free slot, or a new one: <<f', fd>>.                             *)
insert(f, d) ==
    LET free == {i \in DOMAIN f.fds : f.fds[i].kind = "none"}
    IN  IF free # {} THEN <<[f EXCEPT !.fds[Min(free)] = d], Min(free) - 1>>
        ELSE <<[f EXCEPT !.fds = Append(@, d)], Len(f.fds)>>

(* Replace whatever occupies fd, growing the table with empty slots.       *)
install(f, fd, d) ==
    [f EXCEPT !.fds = [i \in 1 .. Max({Len(@), fd + 1}) |->
                         IF i = fd + 1 THEN d ELSE IF i <= Len(@) THEN @[i] ELSE Closed]]

close(f, fd) == IF IsOpen(f, fd) THEN <<[f EXCEPT !.fds[fd + 1] = Closed], TRUE>> ELSE <<f, FALSE>>

(* Fd::write of the bytes s: <<f', TRUE, count>> or <<f, FALSE, errno>>.   *)
(* h says how a host stream takes it: all of it, all but one byte, or with *)
(* an error.                                                               *)
fd_write(f, fd, s, h) ==
    LET d == f.fds[fd + 1]
        n == IF d.kind # "sink" /\ h = "short" /\ s # <<>> THEN Len(s) - 1 ELSE Len(s)
    IN  IF d.kind = "stdin" THEN <<f, FALSE, EBADF>>
        ELSE IF d.kind = "file" \/ (d.kind # "sink" /\ h = "error") THEN <<f, FALSE, EIO>>
        ELSE <<[f EXCEPT !.fds[fd + 1].bytes = @ \o SubSeq(s, 1, n)], TRUE, n>>

(* Fd::read of up to n bytes: <<f', TRUE, bytes>> or <<f, FALSE, errno>>.  *)
fd_read(f, fd, n, h) ==
    LET d == f.fds[fd + 1]
        take(s) == SubSeq(s, 1, Min({n, Len(s)}))
        rest == SubSeq(d.bytes, d.pos + 1, Len(d.bytes))
    IN  IF d.kind \in {"stdout", "stderr"} THEN <<f, FALSE, EBADF>>
        ELSE IF d.kind = "sink" THEN <<f, TRUE, <<>>>>
        ELSE IF h = "error" THEN <<f, FALSE, EIO>>
        ELSE IF d.kind = "stdin"
        THEN <<[f EXCEPT !.in = SubSeq(@, Len(take(@)) + 1, Len(@))], TRUE, take(f.in)>>
        ELSE <<[f EXCEPT !.fds[fd + 1].pos = @ + Len(take(rest))], TRUE, take(rest)>>

-----------------------------------------------------------------------------
(* The file calls.  A call maps [m, f] and its arguments to                *)
(* [m, f, v]: the memory and the process after it and the value of EAX.    *)

Ret(m, f, v) == [m |-> m, f |-> f, v |-> v]

RECURSIVE WriteLoop(_, _, _, _, _, _, _)
(* write_from_guest from total on: stops at an error (reported only when   *)
(* nothing was written before it) and at a short write.                    *)
WriteLoop(m, f, fd, buf, count, total, h) ==
    LET n == Min({count - total, IO_CHUNK})
        r == read_bytes(m, (buf + total) % SPACE, n)
        w == fd_write(f, fd, r[1], h)
        failed(e) == Ret(m, f, IF total > 0 THEN total ELSE err(e))
    IN  IF total >= count THEN Ret(m, f, total)
        ELSE IF ~r[2] THEN failed(EFAULT)
        ELSE IF ~w[2] THEN failed(w[3])
        ELSE IF w[3] < n THEN Ret(m, w[1], total + w[3])
        ELSE WriteLoop(m, w[1], fd, buf, count, total + n, h)

WriteAllOrFault(m, f, fd, buf, count, h) ==
    LET r == WriteLoop(m, f, fd, buf, count, 0, h)
    IN  IF read_bytes(m, buf, count)[2] THEN r ELSE [r EXCEPT !.v = err(EFAULT)]

write_from_guest(m, f, fd, buf, count, h) == WriteLoop(m, f, fd, buf, count, 0, h)

sys_write(m, f, fd, buf, count, h) ==
    IF ~IsOpen(f, fd) THEN Ret(m, f, err(EBADF)) ELSE write_from_guest(m, f, fd, buf, count, h)

(* One host read, then the copy: the bytes of a failed copy are gone.      *)
sys_read(m, f, fd, buf, count, h) ==
    LET r == fd_read(f, fd, Min({count, IO_CHUNK}), h)
        c == write_bytes(m, buf, r[3])
    IN  IF ~IsOpen(f, fd) THEN Ret(m, f, err(EBADF))
        ELSE IF ~r[2] THEN Ret(m, r[1], err(r[3]))
        ELSE Ret(c[1], r[1], IF c[2] THEN Len(r[3]) ELSE err(EFAULT))

RECURSIVE WritevFrom(_, _, _, _, _, _, _, _)
WritevFrom(m, f, fd, iov, cnt, i, total, h) ==
    LET len == read_u32(m, (iov + i * 8 + 4) % SPACE)
        r == write_from_guest(m, f, fd, read_u32(m, (iov + i * 8) % SPACE), len, h)
    IN  IF i = cnt THEN Ret(m, f, total)
        ELSE IF IsErr(r.v) THEN Ret(m, r.f, IF total > 0 THEN total ELSE r.v)
        ELSE IF r.v < len THEN Ret(m, r.f, total + r.v)
        ELSE WritevFrom(m, r.f, fd, iov, cnt, i + 1, total + r.v, h)

sys_writev(m, f, fd, iov, cnt, h) ==
    IF cnt > MAX_IOV THEN Ret(m, f, err(EINVAL))
    ELSE IF ~IsOpen(f, fd) THEN Ret(m, f, err(EBADF))
    ELSE WritevFrom(m, f, fd, iov, cnt, 0, 0, h)

RECURSIVE ReadvFrom(_, _, _, _, _, _, _, _)
ReadvFrom(m, f, fd, iov, cnt, i, total, h) ==
    LET len == read_u32(m, (iov + i * 8 + 4) % SPACE)
        r == sys_read(m, f, fd, read_u32(m, (iov + i * 8) % SPACE), len, h)
    IN  IF i = cnt THEN Ret(m, f, total)
        ELSE IF IsErr(r.v) THEN Ret(r.m, r.f, IF total > 0 THEN total ELSE r.v)
        ELSE IF r.v < len THEN Ret(r.m, r.f, total + r.v)
        ELSE ReadvFrom(r.m, r.f, fd, iov, cnt, i + 1, total + r.v, h)

sys_readv(m, f, fd, iov, cnt, h) ==
    IF cnt > MAX_IOV THEN Ret(m, f, err(EINVAL))
    ELSE ReadvFrom(m, f, fd, iov, cnt, 0, 0, h)

(* flags: the access mode.  Read-only, relative paths.                     *)
sys_open(m, f, path, flags) ==
    LET s == read_cstr(m, path)
        o == insert(f, [kind |-> "file", bytes |-> HostFiles[s], pos |-> 0])
    IN  IF s = NoStr THEN Ret(m, f, err(EFAULT))
        ELSE IF flags % 4 # 0 THEN Ret(m, f, err(EACCES))
        ELSE IF s # <<>> /\ s[1] = SLASH THEN Ret(m, f, err(ENOENT))
        ELSE IF s \in DOMAIN HostFiles THEN Ret(m, o[1], o[2])
        ELSE Ret(m, f, err(CASE s \in Refused -> EACCES [] s \in Broken -> EIO [] OTHER -> ENOENT))

AT_FDCWD == SPACE - 100

sys_openat(m, f, dirfd, path, flags) ==
    IF dirfd # AT_FDCWD THEN Ret(m, f, err(ENOSYS)) ELSE sys_open(m, f, path, flags)

sys_close(m, f, fd) ==
    LET c == close(f, fd) IN Ret(m, c[1], IF c[2] THEN 0 ELSE err(EBADF))

(* offset is a signed dword for SEEK_CUR and SEEK_END.                     *)
sys_lseek(m, f, fd, offset, whence) ==
    LET d == f.fds[fd + 1]
        signed == IF IsErr(offset) THEN offset - SPACE ELSE offset
        to == CASE whence = 0 -> offset
                [] whence = 1 -> d.pos + signed
                [] whence = 2 -> Len(d.bytes) + signed
    IN  IF ~IsOpen(f, fd) THEN Ret(m, f, err(EBADF))
        ELSE IF d.kind # "file" THEN Ret(m, f, err(ESPIPE))
        ELSE IF whence > 2 THEN Ret(m, f, err(EINVAL))
        ELSE IF to < 0 THEN Ret(m, f, err(EINVAL))
        ELSE Ret(m, [f EXCEPT !.fds[fd + 1].pos = to], IF to < SPACE THEN to ELSE err(EINVAL))

(* The fields of stat64 that are filled in: kind, nlink, size and inode.   *)
StatBytes(d, fd) ==
    << IF d.kind = "file" THEN 8 ELSE 2, 1,
       IF d.kind = "file" THEN Len(d.bytes) ELSE 0, fd + 1 >>

sys_fstat64(m, f, fd, buf) ==
    LET w == write_bytes(m, buf, StatBytes(f.fds[fd + 1], fd))
    IN  IF ~IsOpen(f, fd) THEN Ret(m, f, err(EBADF))
        ELSE Ret(w[1], f, IF w[2] THEN 0 ELSE err(EFAULT))

-----------------------------------------------------------------------------
(* The remaining calls.                                                    *)

sys_mmap2(m, f, addr, len, anonymous, fixed, fd) ==
    LET r == mmap(m, addr, len, fixed)
    IN  IF ~anonymous \/ fd # MINUS1 THEN Ret(m, f, err(ENODEV))
        ELSE Ret(r[1], f, IF r[2] = NoMem THEN err(ENOMEM) ELSE r[2][1])

(* A result copied out whole: uname's six fields, getrandom's bytes (the   *)
(* values abstracted to one).                                              *)
CopyOut(m, f, buf, s, v) ==
    LET w == write_bytes(m, buf, s) IN Ret(w[1], f, IF w[2] THEN v ELSE err(EFAULT))

sys_uname(m, f, buf) == CopyOut(m, f, buf, [i \in 1..6 |-> i], 0)

rand_bytes(n) == [i \in 1..n |-> 7]

sys_getrandom(m, f, buf, count) ==
    LET n == Min({count, RANDOM_MAX}) IN CopyOut(m, f, buf, rand_bytes(n), n)

(* Results stored a dword at a time: unmapped destinations are ignored.    *)
Two(m, a, x, y) == write_u32(write_u32(m, a, x), (a + 4) % SPACE, y)

sys_time(m, f, tloc) ==
    Ret(IF tloc # 0 THEN write_u32(m, tloc, NOW[1]) ELSE m, f, NOW[1])

sys_gettimeofday(m, f, tv) ==
    Ret(IF tv # 0 THEN Two(m, tv, NOW[1], NOW[2] \div 1000) ELSE m, f, 0)

sys_clock_gettime(m, f, ts) == Ret(Two(m, ts, NOW[1], NOW[2]), f, 0)

sys_ugetrlimit(m, f, rlim) == Ret(Two(m, rlim, MINUS1, MINUS1), f, 0)

-----------------------------------------------------------------------------
(* The x86-32 adapter: the GDT in guest memory and its three TLS slots.    *)

TlsSlots == 6..8
Slot(e) == GDT_BASE + e * 8
Free(m, e) == read_bytes(m, Slot(e), 8)[1] = [i \in 1..8 |-> 0]

(* The descriptor: limit, base, access (accessed, writable, present),      *)
(* flags (granularity, 32-bit, usable) with the limit's top bits.  A       *)
(* user_desc flag is one bit of its fourth dword.                          *)
Bit(v, i) == (v \div 2^i) % 2
Descriptor(base, limit, flags) ==
    LET b == Le32(base)
        access == 1 + 2 * (1 - Bit(flags, 3)) + 8 * (1 - Bit(flags, 5))
        nibble == 8 * Bit(flags, 4) + 4 * Bit(flags, 0) + Bit(flags, 6)
    IN  <<limit % BYTE, limit \div BYTE, b[1], b[2], b[3], access, nibble, b[4]>>

(* The first TLS slot that is free, 0 when a descriptor cannot be read     *)
(* before one is found, 9 when none is free.                               *)
FreeSlot(m) ==
    LET stop == {e \in TlsSlots : ~read_bytes(m, Slot(e), 8)[2] \/ Free(m, e)}
    IN  IF stop = {} THEN 9
        ELSE IF ~read_bytes(m, Slot(Min(stop)), 8)[2] THEN 0 ELSE Min(stop)

set_thread_area(m, f, uinfo) ==
    LET raw == read_bytes(m, uinfo, 16)
        word(i) == UnLe(SubSeq(raw[1], 4 * i + 1, 4 * i + 4))
        e == IF word(0) = MINUS1 THEN FreeSlot(m) ELSE word(0)
        w == write_bytes(m, Slot(e), Descriptor(word(1), word(2), word(3)))
    IN  IF ~raw[2] \/ (word(0) = MINUS1 /\ e = 0) THEN Ret(m, f, err(EFAULT))
        ELSE IF word(0) = MINUS1 /\ e = 9 THEN Ret(m, f, err(ESRCH))
        ELSE IF e \notin TlsSlots \/ word(2) > LIMIT_MAX THEN Ret(m, f, err(EINVAL))
        ELSE IF ~w[2] THEN Ret(w[1], f, err(EFAULT))
        ELSE Ret(write_u32(w[1], uinfo, e), f, 0)

-----------------------------------------------------------------------------
(* dispatch: c is the call, <<name, argument...>>; exit is the caller's.   *)

dispatch_inner(m, f, c, h) ==
    CASE c[1] = "set_thread_area" -> set_thread_area(m, f, c[2])
      [] c[1] = "read" -> sys_read(m, f, c[2], c[3], c[4], h)
      [] c[1] = "write" -> sys_write(m, f, c[2], c[3], c[4], h)
      [] c[1] = "readv" -> sys_readv(m, f, c[2], c[3], c[4], h)
      [] c[1] = "writev" -> sys_writev(m, f, c[2], c[3], c[4], h)
      [] c[1] = "open" -> sys_open(m, f, c[2], c[3])
      [] c[1] = "openat" -> sys_openat(m, f, c[2], c[3], c[4])
      [] c[1] = "close" -> sys_close(m, f, c[2])
      [] c[1] = "lseek" -> sys_lseek(m, f, c[2], c[3], c[4])
      [] c[1] = "fstat64" -> sys_fstat64(m, f, c[2], c[3])
      [] c[1] = "ioctl" -> Ret(m, f, err(ENOTTY))
      [] c[1] = "brk" -> LET b == set_brk(m, c[2]) IN Ret(b[1], f, b[2])
      [] c[1] = "mmap2" -> sys_mmap2(m, f, c[2], c[3], c[4], c[5], c[6])
      [] c[1] = "munmap" -> Ret(unmap(m, c[2], c[3]), f, 0)
      [] c[1] \in {"mprotect", "madvise", "rt_sigaction", "rt_sigprocmask"} -> Ret(m, f, 0)
      [] c[1] \in {"getpid", "gettid", "getuid32", "set_tid_address"} -> Ret(m, f, GUEST_ID)
      [] c[1] = "uname" -> sys_uname(m, f, c[2])
      [] c[1] = "time" -> sys_time(m, f, c[2])
      [] c[1] = "gettimeofday" -> sys_gettimeofday(m, f, c[2])
      [] c[1] = "clock_gettime" -> sys_clock_gettime(m, f, c[2])
      [] c[1] = "getrandom" -> sys_getrandom(m, f, c[2], c[3])
      [] c[1] = "futex" -> Ret(m, f, CASE c[2] % 128 = 1 -> 0
                                       [] c[2] % 128 = 0 -> err(EAGAIN)
                                       [] OTHER -> err(ENOSYS))
      [] c[1] = "ugetrlimit" -> sys_ugetrlimit(m, f, c[2])
      [] OTHER -> Ret(m, f, err(ENOSYS))

-----------------------------------------------------------------------------
(* The entry stack.  st = [m, top, at]: at collects the addresses pushed.  *)

push(st, s) ==
    LET a == st.top - Len(s)
    IN  [m |-> write_bytes(st.m, a, s)[1], top |-> a, at |-> Append(st.at, a)]

PushNoNul(st, s) == push(st, s)

(* The NUL first: the stack grows down.                                    *)
push_cstr(st, s) == push([push(st, <<0>>) EXCEPT !.at = st.at], s)

PushAll(st, strs) ==
    LET g[i \in 0 .. Len(strs)] == IF i = 0 THEN st ELSE push_cstr(g[i - 1], strs[i])
    IN  g[Len(strs)]

(* The auxiliary vector, phdr <<>> or <<address of the header table>>.     *)
Auxv(phdr, phnum, entry, rand) ==
    (IF phdr # <<>> THEN <<3, phdr[1], 4, PHENT, 5, phnum>> ELSE <<>>)
    \o <<6, PAGE, 7, 0, 8, 0, 9, entry, 11, GUEST_ID, 12, GUEST_ID, 13, GUEST_ID,
         14, GUEST_ID, 16, 0, 17, 100, 23, 0, 25, rand, 0, 0>>

Words(ws) == [i \in 1 .. 4 * Len(ws) |-> Le32(ws[((i - 1) \div 4) + 1])[((i - 1) % 4) + 1]]

(* <<m', esp>>.                                                            *)
build_stack(m, argv, envp, entry, phdr, table, phnum) ==
    LET s0 == [m |-> map(m, STACK_TOP - STACK_SIZE, STACK_SIZE), top |-> STACK_TOP, at |-> <<>>]
        s1 == PushAll(PushAll(s0, argv), envp)
        s2 == push(s1, rand_bytes(16))
        rand == s2.top
        s3 == IF phdr # <<>> \/ table = <<>> THEN s2
              ELSE push([s2 EXCEPT !.top = @ - (@ % 4)], table)
        ptr == IF phdr # <<>> THEN phdr ELSE IF table = <<>> THEN <<>> ELSE <<s3.top>>
        ws == <<Len(argv)>> \o SubSeq(s1.at, 1, Len(argv)) \o <<0>>
              \o SubSeq(s1.at, Len(argv) + 1, Len(argv) + Len(envp)) \o <<0>>
              \o Auxv(ptr, phnum, entry, rand)
        esp == s3.top - 4 * Len(ws)
        sp == esp - (esp % 16)
    IN  <<write_bytes(s3.m, sp, Words(ws))[1], sp>>

(* The adapter's setup: the GDT page with the flat code (index 4) and data *)
(* (index 5) descriptors.                                                  *)
setup(m) ==
    LET g == map(m, GDT_BASE, PAGE)
        flat(access) == <<BYTE - 1, BYTE - 1, 0, 0, 0, access, 12, 0>>
    IN  write_bytes(write_bytes(g, Slot(4), flat(10))[1], Slot(5), flat(2))[1]
=============================================================================
