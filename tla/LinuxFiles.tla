----------------------------- MODULE LinuxFiles -----------------------------
(***************************************************************************)
(* The virtual filesystems of the Linux layers: the i386 one (os/fs) with  *)
(* a host directory as root, device and /proc overlays, and the read-only  *)
(* one of the x86-64 layer (os64/fs.rs).  Both keep a descriptor table     *)
(* whose lowest free slot is taken next.                                   *)
(*                                                                         *)
(* Data abstraction: a path is a sequence of components; /proc texts are   *)
(* given contents.  The host is external: a tree of files and directories, *)
(* and `luck`, the outcome of each host read or write to come: the most it *)
(* moves, or HostError.                                                    *)
(***************************************************************************)
EXTENDS Integers, Sequences, FiniteSets, SequencesExt

\* Errors are negative results.
EIO == -5
ENOENT == -2
EBADF == -9
EACCES == -13
EISDIR == -21
EINVAL == -22
ENOSPC == -28
ESPIPE == -29
HostError == -1000
Panic == -2000       \* the emulator itself stops

LeastOf(a, b) == IF a < b THEN a ELSE b
MostOf(a, b) == IF a < b THEN b ELSE a

\* A descriptor: kind, position, what it was opened on, and how.
Fd(kind) == [kind |-> kind, pos |-> 0, path |-> << >>, data |-> << >>, opts |-> {}]
Closed == Fd("Closed")
Std == {"Std0", "Std1", "Std2"}

NewVfs(host, maps) ==
    [fds |-> <<Fd("Std0"), Fd("Std1"), Fd("Std2")>>, cwd |-> << >>, host |-> host, maps |-> maps,
     stdin |-> host.stdin, out |-> << >>, luck |-> << >>]

-----------------------------------------------------------------------------
(* The descriptor table; descriptor fd is at fd + 1.                       *)
get(v, fd) == IF fd + 1 \in DOMAIN v.fds THEN v.fds[fd + 1] ELSE Closed
is_open(v, fd) == get(v, fd).kind # "Closed"

\* Mutant: a free slot anywhere makes the last slot the new descriptor's.
InstallOverLast(v, f) ==
    IF \E i \in DOMAIN v.fds : v.fds[i] = Closed
    THEN [v |-> [v EXCEPT !.fds[Len(v.fds)] = f], ret |-> Len(v.fds) - 1]
    ELSE [v |-> [v EXCEPT !.fds = Append(@, f)], ret |-> Len(v.fds)]

\* The lowest free slot, or a new one.
install(v, f) ==
    LET free == {i \in DOMAIN v.fds : v.fds[i] = Closed}
    IN  IF free # {} THEN [v |-> [v EXCEPT !.fds[Min(free)] = f], ret |-> Min(free) - 1]
        ELSE [v |-> [v EXCEPT !.fds = Append(@, f)], ret |-> Len(v.fds)]

close(v, fd) ==
    IF is_open(v, fd) THEN [v |-> [v EXCEPT !.fds[fd + 1] = Closed], ret |-> 0]
    ELSE [v |-> v, ret |-> EBADF]

-----------------------------------------------------------------------------
(* Paths.  path = [abs, comps].                                            *)
normalize(v, path) ==
    LET Collapse(parts, c) ==
            CASE c \in {"", "."} -> parts
              [] c = ".." -> IF parts = << >> THEN parts ELSE Front(parts)
              [] OTHER -> Append(parts, c)
    IN  FoldLeft(Collapse, << >>, (IF path.abs THEN << >> ELSE v.cwd) \o path.comps)

\* The host tree: what exists, and what is reached through a link out of the root.
Exists(h, p) == p \in DOMAIN h.files \cup DOMAIN h.dirs
Outside(h, p) == \E n \in 1 .. Len(p) : SubSeq(p, 1, n) \in h.links

\* Whether the guest path maps to a host path: the target, or for a file
\* still to be created its parent, must stay under the root.
host_path(v, p) ==
    LET h == v.host
        parent == IF p = << >> THEN << >> ELSE Front(p)
        resolved == IF Exists(h, p) THEN p ELSE IF Exists(h, parent) THEN parent ELSE << >>
    IN  h.rootfs /\ ~Outside(h, resolved)

Devices == [null |-> "Null", zero |-> "Zero", full |-> "Full", random |-> "Random", urandom |-> "Random"]
virt_dev(p) == Len(p) = 2 /\ p[1] = "dev" /\ p[2] \in DOMAIN Devices

\* The generated files, their contents taken when they are opened.
generated(v, p) == Len(p) = 3 /\ p[1] = "proc" /\ p[2] = "self" /\ p[3] \in {"cmdline", "maps", "exe"}
Contents(v, p) == IF p[3] = "maps" THEN v.maps ELSE v.host.proc

\* What std's OpenOptions makes of the flags (external): the accesses granted,
\* or {} for a combination it refuses.
StdOptions(flags) ==
    LET read == "WRONLY" \notin flags
        write == flags \cap {"WRONLY", "RDWR"} # {}
        append == "APPEND" \in flags
        refused == \/ ~write /\ ~append /\ flags \cap {"CREAT", "TRUNC"} # {}
                   \/ append /\ "TRUNC" \in flags
    IN  IF refused THEN {}
        ELSE (IF read THEN {"r"} ELSE {}) \cup (IF write \/ append THEN {"w"} ELSE {})
                 \cup (IF append THEN {"a"} ELSE {})

\* Open a host file: it must exist or be creatable, and may be truncated.
OpenHost(v, p, flags) ==
    LET h == v.host
        opts == StdOptions(flags)
        f == [Fd("File") EXCEPT !.path = p, !.opts = opts]
        made == IF p \notin DOMAIN h.files \/ "TRUNC" \in flags
                THEN [h EXCEPT !.files = [q \in DOMAIN @ \cup {p} |-> IF q = p THEN << >> ELSE @[q]]]
                ELSE h
    IN  CASE opts = {} -> [v |-> v, ret |-> EINVAL]
          [] opts # {} /\ p \in h.locked -> [v |-> v, ret |-> EACCES]
          [] opts # {} /\ p \notin h.locked /\ p \notin DOMAIN h.files
                /\ ("CREAT" \notin flags \/ (p # << >> => Front(p) \notin DOMAIN h.dirs)) ->
                [v |-> v, ret |-> ENOENT]
          [] OTHER -> install([v EXCEPT !.host = made], f)

\* open: a device, a generated file, a directory (its entries snapshotted,
\* after "." and ".."), or a host file.
open(v, path, flags) ==
    LET p == normalize(v, path)
    IN  IF virt_dev(p) THEN install(v, Fd(Devices[p[2]]))
        ELSE IF generated(v, p) THEN install(v, [Fd("Generated") EXCEPT !.data = Contents(v, p)])
        ELSE IF ~host_path(v, p) THEN [v |-> v, ret |-> ENOENT]
        ELSE IF p \in DOMAIN v.host.dirs
             THEN install(v, [Fd("Dir") EXCEPT !.path = p, !.data = <<".", "..">> \o v.host.dirs[p]])
        ELSE OpenHost(v, p, flags)

access(v, path) ==
    LET p == normalize(v, path)
    IN  IF virt_dev(p) \/ generated(v, p) \/ (host_path(v, p) /\ Exists(v.host, p)) THEN 0 ELSE ENOENT

\* The only link the guest sees is /proc/self/exe; the tree's links lead outside.
readlink(v, path) == normalize(v, path) = <<"proc", "self", "exe">>

-----------------------------------------------------------------------------
(* Host reads and writes (external): `luck` decides how much moves.        *)
Luck(v, n) == IF v.luck = << >> \/ n = 0 THEN n ELSE IF Head(v.luck) = HostError THEN EIO
              ELSE LeastOf(n, Head(v.luck))
Spend(v) == [v EXCEPT !.luck = IF @ = << >> THEN @ ELSE Tail(@)]

\* The next n elements of s from pos.
Slice(s, pos, n) == SubSeq(s, pos + 1, LeastOf(Len(s), pos + n))

\* s with data written at pos, zero-filled up to pos.
Patched(s, pos, data) ==
    [i \in 1 .. MostOf(Len(s), pos + Len(data)) |->
        IF i \in pos + 1 .. pos + Len(data) THEN data[i - pos] ELSE IF i <= Len(s) THEN s[i] ELSE 0]

Got(v, data) == [v |-> v, ret |-> Len(data), data |-> data]
Refused(v, e) == [v |-> v, ret |-> e, data |-> << >>]

ReadStdin(v, n) ==
    LET k == Luck(v, LeastOf(n, Len(v.stdin)))
    IN  IF k < 0 THEN Refused(Spend(v), k)
        ELSE Got([Spend(v) EXCEPT !.stdin = SubSeq(@, k + 1, Len(@))], Slice(v.stdin, 0, k))

ReadFile(v, fd, n) ==
    LET f == get(v, fd)
        k == Luck(v, Len(Slice(v.host.files[f.path], f.pos, n)))
    IN  IF "r" \notin f.opts THEN Refused(v, EIO)
        ELSE IF k < 0 THEN Refused(Spend(v), k)
        ELSE Got([Spend(v) EXCEPT !.fds[fd + 1].pos = @ + k], Slice(v.host.files[f.path], f.pos, k))

WriteFile(v, fd, data) ==
    LET f == get(v, fd)
        k == Luck(v, Len(data))
        at == IF "a" \in f.opts THEN Len(v.host.files[f.path]) ELSE f.pos
    IN  IF "w" \notin f.opts THEN [v |-> v, ret |-> EIO]
        ELSE IF k < 0 THEN [v |-> Spend(v), ret |-> k]
        ELSE [v |-> [Spend(v) EXCEPT !.host.files[f.path] = Patched(@, at, SubSeq(data, 1, k)),
                                     !.fds[fd + 1].pos = at + k],
              ret |-> k]

\* Devices: an endless source, each byte standing for the device's stream.
Endless(n, byte) == [i \in 1 .. n |-> byte]

\* A generated file, read from pos; a position past the end is out of the
\* slice's range and stops the emulator.
ReadGenerated(v, fd, n) ==
    LET f == get(v, fd)
        s == Slice(f.data, f.pos, n)
    IN  IF f.pos > Len(f.data) THEN Refused(v, Panic)
        ELSE Got([v EXCEPT !.fds[fd + 1].pos = @ + Len(s)], s)

read(v, fd, n) ==
    LET kind == get(v, fd).kind
    IN  CASE kind = "Std0" -> ReadStdin(v, n)
          [] kind \in {"Std1", "Std2", "Closed"} -> Refused(v, EBADF)
          [] kind = "File" -> ReadFile(v, fd, n)
          [] kind = "Dir" -> Refused(v, EISDIR)
          [] kind = "Null" -> Got(v, << >>)
          [] kind \in {"Zero", "Full"} -> Got(v, Endless(n, 0))
          [] kind = "Random" -> Got([v EXCEPT !.fds[fd + 1].pos = @ + n], Endless(n, 1))
          [] kind = "Generated" -> ReadGenerated(v, fd, n)

\* Standard output takes everything.
write(v, fd, data) ==
    LET kind == get(v, fd).kind
    IN  CASE kind \in {"Std1", "Std2"} -> [v |-> [v EXCEPT !.out = @ \o data], ret |-> Len(data)]
          [] kind = "File" -> WriteFile(v, fd, data)
          [] kind \in {"Null", "Zero", "Random"} -> [v |-> v, ret |-> Len(data)]
          [] kind = "Full" -> [v |-> v, ret |-> ENOSPC]
          [] kind \in {"Std0", "Generated", "Dir", "Closed"} -> [v |-> v, ret |-> EBADF]

\* Seek a host file (external): a negative target is an error.
SeekFile(v, fd, off, whence, error) ==
    LET f == get(v, fd)
        base == <<0, f.pos, Len(v.host.files[f.path])>>
    IN  IF whence \notin 0 .. 2 THEN [v |-> v, ret |-> EINVAL]
        ELSE IF base[whence + 1] + off < 0 THEN [v |-> v, ret |-> error]
        ELSE [v |-> [v EXCEPT !.fds[fd + 1].pos = base[whence + 1] + off], ret |-> base[whence + 1] + off]

\* A virtual file's position is clamped at 0 and may pass the end.
SeekVirtual(v, fd, off, whence) ==
    LET f == get(v, fd)
        base == <<0, f.pos, Len(f.data)>>
        np == MostOf(0, base[whence + 1] + off)
    IN  IF whence \notin 0 .. 2 THEN [v |-> v, ret |-> EINVAL]
        ELSE [v |-> [v EXCEPT !.fds[fd + 1].pos = np], ret |-> np]

lseek(v, fd, off, whence) ==
    LET kind == get(v, fd).kind
    IN  CASE kind = "File" -> SeekFile(v, fd, off, whence, EIO)
          [] kind \in {"Null", "Zero", "Full", "Random", "Generated"} -> SeekVirtual(v, fd, off, whence)
          [] kind \in Std \cup {"Dir"} -> [v |-> v, ret |-> ESPIPE]
          [] kind = "Closed" -> [v |-> v, ret |-> EBADF]

\* Size for fstat64, or -1.
file_len(v, fd) ==
    LET f == get(v, fd)
    IN  CASE f.kind = "File" -> Len(v.host.files[f.path])
          [] f.kind \in {"Null", "Zero", "Full", "Random", "Generated"} -> Len(f.data)
          [] OTHER -> -1

is_tty(v, fd) == get(v, fd).kind \in Std
is_dir_fd(v, fd) == get(v, fd).kind = "Dir"

\* A directory record: two cells, the second its length (names are one cell).
RecLen(name) == 2

\* The entries the next getdents64 takes into a buffer of cap bytes, an entry
\* counting its record's length, and the cursor after them.
next_dents(v, fd, cap) ==
    LET f == get(v, fd)
        Size(n) == FoldLeft(LAMBDA s, e : s + RecLen(e), 0, SubSeq(f.data, f.pos + 1, f.pos + n))
        fits == {n \in 0 .. Len(f.data) - f.pos : Size(n) <= cap}
    IN  [v |-> [v EXCEPT !.fds[fd + 1].pos = @ + Max(fits)],
         names |-> SubSeq(f.data, f.pos + 1, f.pos + Max(fits)), size |-> Size(Max(fits))]

-----------------------------------------------------------------------------
(* The x86-64 layer: host files only, relative, read-only; standard output *)
(* goes through the host's write, a Sink captures it.                      *)
open64(v, path, flags) ==
    LET p == path.comps
    IN  IF flags \cap {"WRONLY", "RDWR"} # {} THEN [v |-> v, ret |-> EACCES]
        ELSE IF path.abs \/ p \notin DOMAIN v.host.files THEN [v |-> v, ret |-> ENOENT]
        ELSE IF p \in v.host.locked THEN [v |-> v, ret |-> EACCES]
        ELSE install(v, [Fd("File") EXCEPT !.path = p, !.opts = {"r"}])

read64(v, fd, n) ==
    LET kind == get(v, fd).kind
    IN  CASE kind = "Std0" -> ReadStdin(v, n)
          [] kind \in {"Std1", "Std2", "Closed"} -> Refused(v, EBADF)
          [] kind = "File" -> ReadFile(v, fd, n)
          [] kind = "Sink" -> Got(v, << >>)

write64(v, fd, data) ==
    LET kind == get(v, fd).kind
        k == Luck(v, Len(data))
    IN  CASE kind \in {"Std0", "File", "Closed"} -> [v |-> v, ret |-> EBADF]
          [] kind \in {"Std1", "Std2"} /\ k < 0 -> [v |-> Spend(v), ret |-> k]
          [] kind \in {"Std1", "Std2"} /\ k >= 0 ->
                [v |-> [Spend(v) EXCEPT !.out = @ \o SubSeq(data, 1, k)], ret |-> k]
          [] kind = "Sink" -> [v |-> [v EXCEPT !.out = @ \o data], ret |-> Len(data)]

lseek64(v, fd, off, whence) ==
    IF get(v, fd).kind = "File" THEN SeekFile(v, fd, off, whence, EINVAL) ELSE [v |-> v, ret |-> ESPIPE]

file_len64(v, fd) == IF get(v, fd).kind = "File" THEN Len(v.host.files[get(v, fd).path]) ELSE -1
=============================================================================
