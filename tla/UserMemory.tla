----------------------------- MODULE UserMemory -----------------------------
(***************************************************************************)
(* The sparse guest address space of the user-mode runner                  *)
(* (usermode/addr_space.rs) and the ELF32 loader that fills it             *)
(* (usermode/elf.rs).                                                      *)
(*                                                                         *)
(* An address space is a record m: the mapped 64 KiB chunks, the non-zero  *)
(* bytes of the mapped chunks, the break, the mmap cursor and the latch of *)
(* the first access to unmapped memory (<<>> or <<addr, write>>).  The     *)
(* model is scaled: a byte has BYTE values, a dword BYTE^4 = SPACE, so a   *)
(* guest pointer still is four little-endian bytes of guest memory.        *)
(***************************************************************************)
EXTENDS Integers, Sequences, FiniteSets, FiniteSetsExt, TLC

CONSTANTS BYTE,         \* values of a byte (256)
          CHUNK,        \* CHUNK_SIZE
          PAGE,         \* PAGE_SIZE
          STACK_TOP,    \* exclusive top of the stack region
          STACK_SIZE,   \* reserved below it
          MMAP_BASE,    \* where anonymous mappings start
          CSTR_MAX,     \* longest string read_cstr accepts
          EHSIZE,       \* bytes of an ELF header
          PHENT,        \* bytes of a program header
          EM_386        \* the e_machine of the core

SPACE == BYTE * BYTE * BYTE * BYTE

NoSegv == <<>>

new == [mapped |-> {}, data |-> <<>>, brk |-> 0, brk_base |-> 0,
        mmap_next |-> MMAP_BASE, segv |-> NoSegv]

PageDown(v) == v - (v % PAGE)

(* align_up is None where rounding up leaves the 32 bits.                  *)
Overflows(v) == v + PAGE - 1 >= SPACE
align_up(v) == PageDown(v + PAGE - 1)

Byte(m, a) == IF a \in DOMAIN m.data THEN m.data[a] ELSE 0
is_mapped(m, a) == (a \div CHUNK) \in m.mapped

Le32(v) == << v % BYTE, (v \div BYTE) % BYTE, (v \div (BYTE * BYTE)) % BYTE,
              (v \div (BYTE * BYTE * BYTE)) % BYTE >>
UnLe(s) == s[1] + BYTE * s[2] + BYTE * BYTE * s[3] + BYTE * BYTE * BYTE * s[4]

(* The non-zero bytes after the bytes s are stored from a on.              *)
Stored(m, a, s) ==
    LET at == a .. a + Len(s) - 1
        nz == {x \in at : s[x - a + 1] # 0}
    IN  [m EXCEPT !.data = [x \in (DOMAIN @ \ at) \cup nz |->
                              IF x \in at THEN s[x - a + 1] ELSE @[x]]]

-----------------------------------------------------------------------------
(* The accesses of the CPU: infallible, the first unmapped one latched.    *)

note_segv(m, a, w) == IF m.segv = NoSegv THEN [m EXCEPT !.segv = <<a, w>>] ELSE m

take_segv(m) == [m EXCEPT !.segv = NoSegv]

(* Accessors return <<m', value>> (reads) or m' (writes).                  *)
read8(m, a) == IF is_mapped(m, a) THEN <<m, Byte(m, a)>> ELSE <<note_segv(m, a, FALSE), 0>>

read16(m, a) ==
    IF a % CHUNK <= CHUNK - 2
    THEN IF is_mapped(m, a) THEN <<m, Byte(m, a) + BYTE * Byte(m, a + 1)>>
                            ELSE <<note_segv(m, a, FALSE), 0>>
    ELSE LET lo == read8(m, a)
             hi == read8(lo[1], (a + 1) % SPACE)
         IN  <<hi[1], lo[2] + BYTE * hi[2]>>

read32(m, a) ==
    IF a % CHUNK <= CHUNK - 4
    THEN IF is_mapped(m, a) THEN <<m, UnLe([i \in 1..4 |-> Byte(m, a + i - 1)])>>
                            ELSE <<note_segv(m, a, FALSE), 0>>
    ELSE LET lo == read16(m, a)
             hi == read16(lo[1], (a + 2) % SPACE)
         IN  <<hi[1], lo[2] + BYTE * BYTE * hi[2]>>

write8(m, a, v) == IF is_mapped(m, a) THEN Stored(m, a, <<v>>) ELSE note_segv(m, a, TRUE)

write16(m, a, v) ==
    IF a % CHUNK <= CHUNK - 2
    THEN IF is_mapped(m, a) THEN Stored(m, a, <<v % BYTE, v \div BYTE>>)
                            ELSE note_segv(m, a, TRUE)
    ELSE write8(write8(m, a, v % BYTE), (a + 1) % SPACE, v \div BYTE)

write32(m, a, v) ==
    IF a % CHUNK <= CHUNK - 4
    THEN IF is_mapped(m, a) THEN Stored(m, a, Le32(v)) ELSE note_segv(m, a, TRUE)
    ELSE write16(write16(m, a, v % (BYTE * BYTE)), (a + 2) % SPACE, v \div (BYTE * BYTE))

-----------------------------------------------------------------------------
(* Mapping, in whole chunks.                                               *)

map(m, a, len) ==
    IF len = 0 THEN m
    ELSE [m EXCEPT !.mapped = @ \cup (a \div CHUNK) ..
                                (Min({a + len - 1, SPACE - 1}) \div CHUNK)]

UnmapTouched(m, a, len) ==
    LET gone == (a \div CHUNK) .. ((Min({a + len, SPACE}) \div CHUNK) - 1)
    IN  [m EXCEPT !.mapped = @ \ gone,
                  !.data = [x \in {y \in DOMAIN @ : (y \div CHUNK) \notin gone} |-> @[x]]]

(* Only the chunks that lie wholly in [a, a + len).                        *)
unmap(m, a, len) ==
    LET gone == ((a + CHUNK - 1) \div CHUNK) .. ((Min({a + len, SPACE}) \div CHUNK) - 1)
    IN  [m EXCEPT !.mapped = @ \ gone,
                  !.data = [x \in {y \in DOMAIN @ : (y \div CHUNK) \notin gone} |-> @[x]]]

(* brk(2): <<m', break>>.                                                  *)
set_brk(m, to) ==
    IF to < m.brk_base \/ to > MMAP_BASE THEN <<m, m.brk>>
    ELSE LET n == IF to > m.brk THEN map(m, m.brk, to - m.brk) ELSE m
         IN  <<[n EXCEPT !.brk = to], to>>

NoMem == <<>>

(* Anonymous mmap: <<m', <<base>>>> or <<m, NoMem>>.  A fixed mapping does *)
(* not move the cursor.                                                    *)
mmap(m, a, len, fixed) ==
    LET n == align_up(len)
        end == m.mmap_next + n
    IN  IF len = 0 \/ Overflows(len) THEN <<m, NoMem>>
        ELSE IF fixed
        THEN IF a % PAGE # 0 \/ a + n - 1 >= SPACE THEN <<m, NoMem>>
             ELSE <<map(m, a, n), <<a>>>>
        ELSE IF end > STACK_TOP - STACK_SIZE THEN <<m, NoMem>>
        ELSE <<[map(m, m.mmap_next, n) EXCEPT !.mmap_next = end], <<m.mmap_next>>>>

-----------------------------------------------------------------------------
(* Host-side copies: they stop at the first byte that is not there and     *)
(* never latch.                                                            *)

Reach(m, a, n) ==
    LET bad == {i \in 0 .. n - 1 : a + i >= SPACE \/ ~is_mapped(m, a + i)}
    IN  IF bad = {} THEN n ELSE Min(bad)

(* <<m', all written>>: on an error the bytes before it have been written. *)
write_bytes(m, a, s) ==
    LET n == Reach(m, a, Len(s)) IN <<Stored(m, a, SubSeq(s, 1, n)), n = Len(s)>>

(* <<bytes, all read>>: the bytes past an error stay zero.                 *)
read_bytes(m, a, n) ==
    LET k == Reach(m, a, n)
    IN  <<[i \in 1..n |-> IF i <= k THEN Byte(m, a + i - 1) ELSE 0], k = n>>

read_u32(m, a) == UnLe(read_bytes(m, a, 4)[1])
write_u32(m, a, v) == write_bytes(m, a, Le32(v))[1]

NoStr == <<-1>>

(* The string at a without its NUL, NoStr on unmapped memory or when it is *)
(* not terminated within the cap.                                          *)
read_cstr(m, a) ==
    LET k == Reach(m, a, CSTR_MAX)
        nul == {i \in 0 .. k - 1 : Byte(m, a + i) = 0}
    IN  IF nul = {} THEN NoStr ELSE [i \in 1..Min(nul) |-> Byte(m, a + i - 1)]

-----------------------------------------------------------------------------
(* The ELF32 loader.  An image is a record: its bytes and the header       *)
(* fields that parse reads from them.                                      *)

ParseSegment(e, ph) ==
    ph.load => /\ ph.offset + ph.filesz <= Len(e.bytes)
               /\ ph.filesz <= ph.memsz
               /\ ph.vaddr + ph.memsz <= SPACE

parse(e) ==
    IF Len(e.bytes) < 4 \/ ~e.magic THEN "NotElf"
    ELSE IF Len(e.bytes) < EHSIZE THEN "Truncated"
    ELSE IF e.class # 1 THEN "Not32Bit"
    ELSE IF e.data # 1 THEN "NotLittleEndian"
    ELSE IF e.type # 2 THEN "NotExec"
    ELSE IF e.phentsize # PHENT THEN "Truncated"
    ELSE IF e.phoff + Len(e.phdrs) * PHENT > Len(e.bytes) THEN "Truncated"
    ELSE IF \E i \in DOMAIN e.phdrs : ~ParseSegment(e, e.phdrs[i]) THEN "Truncated"
    ELSE IF \A i \in DOMAIN e.phdrs : ~e.phdrs[i].load THEN "NoLoadSegments"
    ELSE "ok"

Table(e) == SubSeq(e.bytes, e.phoff + 1, e.phoff + Len(e.phdrs) * PHENT)

(* One PT_LOAD segment; st = [m, end, phdr], phdr <<>> or <<vaddr>>.  The  *)
(* end of a segment that ends the address space wraps to 0.                *)
load_segment(e, ph, st) ==
    LET base == PageDown(ph.vaddr)
        m1 == map(st.m, base, (ph.vaddr - base) + ph.memsz)
    IN  [m |-> write_bytes(m1, ph.vaddr,
                           SubSeq(e.bytes, ph.offset + 1, ph.offset + ph.filesz))[1],
         end |-> Max({st.end, (ph.vaddr + ph.memsz) % SPACE}),
         phdr |-> IF /\ ph.offset <= e.phoff
                     /\ e.phoff + Len(e.phdrs) * PHENT <= ph.offset + ph.filesz
                  THEN <<ph.vaddr + (e.phoff - ph.offset)>> ELSE st.phdr]

(* [m, brk, phdr] after all segments, in table order.                      *)
load(e) ==
    LET f[i \in 0 .. Len(e.phdrs)] ==
            IF i = 0 THEN [m |-> new, end |-> 0, phdr |-> <<>>]
            ELSE IF e.phdrs[i].load THEN load_segment(e, e.phdrs[i], f[i - 1]) ELSE f[i - 1]
        last == f[Len(e.phdrs)]
    IN  [m |-> last.m, phdr |-> last.phdr,
         brk |-> IF Overflows(last.end) THEN SPACE - PAGE ELSE align_up(last.end)]
=============================================================================
