---------------------------- MODULE LinuxMemory -----------------------------
(***************************************************************************)
(* The guest process address space of the two paged Linux layers           *)
(* (os/memory.rs, os64/memory.rs): a bump allocator of physical frames, a  *)
(* tree of page tables built in those frames, the list of mapped regions,  *)
(* and host-side access to guest memory.  The layers differ in the depth   *)
(* of the tree (2 or 4), the width of an address and the process layout,   *)
(* which are functions of the ABI here.                                    *)
(*                                                                         *)
(* Data abstraction: a cell is a byte, and also holds one table entry, so  *)
(* a table has as many entries as a page has bytes.  An entry is the       *)
(* frame's address plus the bits P, RW, US below it, as in the code.       *)
(***************************************************************************)
EXTENDS Integers, Sequences, FiniteSets, SequencesExt, TLC

CONSTANTS
    PAGE_SIZE,     \* bytes per page = entries per table
    Levels,        \* ABI -> depth of the tree (2; 4)
    Space,         \* ABI -> size of the address type (2^32; 2^64)
    MMAP_BASE,     \* ABI -> base of the mmap arena
    STACK_TOP,     \* ABI -> exclusive top of the stack
    STACK_LIMIT    \* ABI -> lowest address the stack grows to

Abis == {"i386", "x86_64"}

ASSUME LayoutAssumption ==
    /\ PAGE_SIZE \in Nat /\ PAGE_SIZE >= 8
    /\ \A abi \in Abis : /\ MMAP_BASE[abi] < STACK_LIMIT[abi]
                         /\ STACK_LIMIT[abi] < STACK_TOP[abi]
                         /\ STACK_TOP[abi] < Space[abi]
                         /\ Space[abi] >= PAGE_SIZE ^ (Levels[abi] + 1)

None == -1

\* Round up, saturating at the last page of the address type; round down.
page_up(abi, addr) ==
    LET up == ((addr + PAGE_SIZE - 1) \div PAGE_SIZE) * PAGE_SIZE
    IN  IF up >= Space[abi] THEN Space[abi] - PAGE_SIZE ELSE up
page_down(addr) == addr - (addr % PAGE_SIZE)

\* Page-rounded exclusive end of [start, start + len), saturating.
range_end(abi, start, len) == page_up(abi, start + len)

\* The pages a loop from s below e visits, in order.
PageSeq(s, e) == [i \in 1 .. (IF e <= s THEN 0 ELSE (e - s) \div PAGE_SIZE) |-> s + (i - 1) * PAGE_SIZE]

-----------------------------------------------------------------------------
(* Physical memory: frame address -> cells; a frame never written reads 0. *)
ZeroFrame == [i \in 0 .. PAGE_SIZE - 1 |-> 0]

load(mem, addr) ==
    IF page_down(addr) \in DOMAIN mem THEN mem[page_down(addr)][addr % PAGE_SIZE] ELSE 0

store(mem, addr, v) ==
    LET f == page_down(addr)
    IN  IF f \in DOMAIN mem THEN [mem EXCEPT ![f][addr % PAGE_SIZE] = v]
        ELSE mem @@ (f :> [ZeroFrame EXCEPT ![addr % PAGE_SIZE] = v])

\* Table entries: the bits, and the frame above them.
P == 1
RW == 2
US == 4
Has(e, bit) == (e \div bit) % 2 = 1
FrameOf(e) == page_down(e)

\* The address space of a new process: the root table alone.
NewSpace(abi) ==
    [abi |-> abi, mem |-> PAGE_SIZE :> ZeroFrame, cr3 |-> PAGE_SIZE, next_phys |-> 2 * PAGE_SIZE,
     vmas |-> << >>, brk |-> 0, brk_base |-> 0, mmap_top |-> MMAP_BASE[abi]]

\* Allocate the frame a.next_phys, zeroed.
alloc_frame(a) ==
    [a EXCEPT !.mem = @ @@ (a.next_phys :> ZeroFrame), !.next_phys = @ + PAGE_SIZE]

-----------------------------------------------------------------------------
(* The page tables.                                                        *)

\* The table indices of lin, from the root; bits above the tree are ignored.
indices(a, lin) ==
    LET page == lin \div PAGE_SIZE
    IN  [l \in 1 .. Levels[a.abi] |-> (page \div (PAGE_SIZE ^ (Levels[a.abi] - l))) % PAGE_SIZE]

\* The table reached after following n levels, as a set: none or one.
Walk(a, lin, n) ==
    LET ix == indices(a, lin)
        reach[k \in 0 .. n] ==
            IF k = 0 THEN {a.cr3}
            ELSE {FrameOf(e) : e \in {x \in {load(a.mem, t + ix[k]) : t \in reach[k - 1]} : Has(x, P)}}
    IN  reach[n]

Only(set, default) == IF set = {} THEN default ELSE CHOOSE x \in set : TRUE

resolve(a, lin) == Only({t + (lin % PAGE_SIZE) : t \in Walk(a, lin, Levels[a.abi])}, None)

\* The leaf entry of lin, 0 if a level above it is absent.
pte_entry(a, lin) ==
    Only({load(a.mem, t + indices(a, lin)[Levels[a.abi]]) : t \in Walk(a, lin, Levels[a.abi] - 1)}, 0)

\* Install a leaf entry, allocating missing tables on the way; table entries
\* are permissive, the leaf decides.
set_pte(a, lin, phys, prot, user) ==
    LET Descend(s, ix) ==
            LET addr == s.t + ix
                e == load(s.a.mem, addr)
                new == alloc_frame(s.a)
            IN  IF Has(e, P) THEN [s EXCEPT !.t = FrameOf(e)]
                ELSE [a |-> [new EXCEPT !.mem = store(@, addr, s.a.next_phys + P + RW + US)],
                      t |-> s.a.next_phys]
        ixs == indices(a, lin)
        leaf == FoldLeft(Descend, [a |-> a, t |-> a.cr3], Front(ixs))
        flags == P + (IF user THEN US ELSE 0) + (IF "W" \in prot THEN RW ELSE 0)
    IN  [leaf.a EXCEPT !.mem = store(@, leaf.t + Last(ixs), page_down(phys) + flags)]

\* One page of map_range: a mapped page keeps its frame and its write
\* permission; an unmapped one gets the next frame.
MapPage(a, lin, prot, user) ==
    LET p == resolve(a, lin)
        widened == IF Has(pte_entry(a, lin), RW) THEN prot \cup {"W"} ELSE prot
    IN  IF p = None THEN set_pte(alloc_frame(a), lin, a.next_phys, prot, user)
        ELSE set_pte(a, lin, page_down(p), widened, user)

map_range(a, start, len, prot, user) ==
    FoldLeft(LAMBDA s, lin : MapPage(s, lin, prot, user), a,
             PageSeq(page_down(start), range_end(a.abi, start, len)))

Vma(a, start, len, prot, kind) ==
    [start |-> page_down(start), end |-> range_end(a.abi, start, len), prot |-> prot, kind |-> kind]

map(a, start, len, prot, kind) ==
    [map_range(a, start, len, prot, TRUE) EXCEPT !.vmas = Append(@, Vma(a, start, len, prot, kind))]

\* The page of the GDT: present, but not to ring 3.
map_kernel(a, start, len) ==
    [map_range(a, start, len, {"R", "W"}, FALSE)
        EXCEPT !.vmas = Append(@, Vma(a, start, len, {"R", "W"}, "System"))]

-----------------------------------------------------------------------------
(* Host-side access, page by page, at kernel privilege.  write_bytes stops *)
(* at an unmapped page, what precedes it stays written.                    *)
At(a, lin) == lin % Space[a.abi]
Unmapped(a, lin, n) == {i \in 1 .. n : resolve(a, At(a, lin + i - 1)) = None}

write_bytes(a, lin, data) ==
    LET bad == Unmapped(a, lin, Len(data))
        n == IF bad = {} THEN Len(data) ELSE Min(bad) - 1
        Put(m, i) == store(m, resolve(a, At(a, lin + i - 1)), data[i])
    IN  [ok |-> bad = {}, a |-> [a EXCEPT !.mem = FoldLeft(Put, @, [i \in 1 .. n |-> i])]]

\* The bytes, or << >> with ok FALSE at an unmapped page.
read_bytes(a, lin, n) ==
    LET ok == Unmapped(a, lin, n) = {}
    IN  [ok |-> ok,
         data |-> IF ok THEN [i \in 1 .. n |-> load(a.mem, resolve(a, At(a, lin + i - 1)))] ELSE << >>]

\* A NUL-terminated string of n characters can be read: it and its NUL are mapped.
read_cstr(a, lin, n) == Unmapped(a, lin, n + 1) = {}

-----------------------------------------------------------------------------
(* mmap, mprotect, munmap, brk and the stack.                              *)

\* Bump allocation; the result is 0 when the arena would reach the stack.
mmap(a, len, prot) ==
    LET size == page_up(a.abi, len)
        s == map(a, a.mmap_top, size, prot, "Mapping")
    IN  IF a.mmap_top + size > STACK_LIMIT[a.abi] THEN [a |-> a, ret |-> 0]
        ELSE [a |-> [s EXCEPT !.mmap_top = @ + size], ret |-> a.mmap_top]

\* Mutant: the cursor is not moved past a fixed mapping.
MmapFixedInArena(a, addr, len, prot) == map(a, addr, len, prot, "Mapping")

mmap_fixed(a, addr, len, prot) ==
    LET end == range_end(a.abi, addr, len)
    IN  [map(a, addr, len, prot, "Mapping") EXCEPT !.mmap_top = IF end > @ THEN end ELSE @]

protect(a, start, len, prot) ==
    LET Page(s, lin) ==
            LET p == resolve(s, lin)
            IN  IF p = None THEN s ELSE set_pte(s, lin, page_down(p), prot, TRUE)
    IN  FoldLeft(Page, a, PageSeq(page_down(start), range_end(a.abi, start, len)))

\* Clear the leaf entries; drop the regions that lie inside the range.
unmap(a, start, len) ==
    LET s == page_down(start)
        e == range_end(a.abi, start, len)
        Clear(m, lin) ==
            Only({store(m, t + Last(indices(a, lin)), 0) :
                      t \in Walk([a EXCEPT !.mem = m], lin, Levels[a.abi] - 1)}, m)
    IN  [a EXCEPT !.mem = FoldLeft(Clear, @, PageSeq(s, e)),
                  !.vmas = SelectSeq(@, LAMBDA v : ~(v.start >= s /\ v.end <= e))]

init_brk(a, addr) ==
    [a EXCEPT !.brk = page_up(a.abi, addr), !.brk_base = page_up(a.abi, addr)]

\* A break below the heap or above the arena's base is refused; shrinking
\* moves the break and keeps the pages.
set_brk(a, new) ==
    LET old == page_up(a.abi, a.brk)
        want == page_up(a.abi, new)
        s == IF want > old THEN map(a, old, want - old, {"R", "W"}, "Heap") ELSE a
    IN  IF new < a.brk_base \/ new > MMAP_BASE[a.abi] THEN [a |-> a, ret |-> a.brk]
        ELSE [a |-> [s EXCEPT !.brk = new], ret |-> new]

\* The stack's region, by its place in the list (0: none).
StackVma(a) ==
    LET k == {i \in DOMAIN a.vmas : a.vmas[i].kind = "Stack"} IN IF k = {} THEN 0 ELSE Min(k)

\* The fault at lin is the stack growing: below it, above the limit.
is_stack_growth(a, lin) ==
    /\ StackVma(a) # 0
    /\ STACK_LIMIT[a.abi] <= lin /\ lin < a.vmas[StackVma(a)].start

\* Mutant: only the page that faulted is mapped.
GrowOnePage(a, lin) ==
    [map_range(a, page_down(lin), PAGE_SIZE, {"R", "W"}, TRUE)
        EXCEPT !.vmas[StackVma(a)].start = page_down(lin)]

\* Map from the faulting page up to the old bottom; the region follows.
grow_stack(a, lin) ==
    LET old == a.vmas[StackVma(a)].start
        bottom == page_down(lin)
    IN  [map_range(a, bottom, old - bottom, {"R", "W"}, TRUE) EXCEPT !.vmas[StackVma(a)].start = bottom]
=============================================================================
