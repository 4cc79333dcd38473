------------------------------ MODULE Paging386 -----------------------------
(***************************************************************************)
(* 386 paging (x86_32/paging.rs): the two-level walk with its accessed and *)
(* dirty write-backs, the direct-mapped TLB in front of it, and the lin_*  *)
(* accessors that split an access at a page boundary.  The page tables are *)
(* ordinary memory: the guest may store into them, map them and execute    *)
(* from them.                                                              *)
(*                                                                         *)
(* Data abstraction: a memory cell is the unit an access of width 1 moves  *)
(* and also holds one table entry, a frame number and five bits.  A page   *)
(* has PageCells cells, so a linear page number is a pair of table indices *)
(* and there are as many physical as linear pages.                         *)
(***************************************************************************)
EXTENDS Integers, Sequences

CONSTANTS
    PageCells,   \* cells per page = entries per table (1024)
    TLB_SIZE,    \* direct-mapped TLB entries
    Widths,      \* widths of an access, in cells
    InitMem,     \* memory contents at power on
    Directories, \* pages CR3 is loaded with
    StoreWord,   \* words the guest and the host store
    MaxStores    \* bound of the model on the number of stores

NPages == PageCells * PageCells
Pages == 0 .. NPages - 1
Offset == 0 .. PageCells - 1
LinSize == NPages * PageCells
Lin == 0 .. LinSize - 1
Cell == Pages \X Offset
Bit == {"P", "RW", "US", "A", "D"}
Word == [frame : Pages, bits : SUBSET Bit]

ASSUME PagingAssumption ==
    /\ PageCells \in Nat \ {0}
    /\ TLB_SIZE \in Nat \ {0}
    /\ Widths \subseteq 1 .. PageCells
    /\ InitMem \subseteq [Cell -> Word]
    /\ Directories \subseteq Pages
    /\ StoreWord \subseteq Word
    /\ MaxStores \in Nat

VARIABLES
    mem,      \* physical memory: cell -> word
    tlb,      \* slot -> entry; the entry EmptyTag matches no page
    cr3,      \* the directory's page
    pg,       \* CR0.PG
    edited,   \* cached pages whose tables changed since their TLB fill
    stores    \* stores so far, for the bound

vars == <<mem, tlb, cr3, pg, edited, stores>>

-----------------------------------------------------------------------------
Page(lin) == lin \div PageCells
Off(lin) == lin % PageCells
Dir(page) == page \div PageCells
Tbl(page) == page % PageCells
Slot(page) == page % TLB_SIZE

SlotIndex == 0 .. TLB_SIZE - 1
EMPTY == NPages
EmptyEntry == [tag |-> EMPTY, phys |-> 0, user |-> FALSE, writable |-> FALSE, dirty |-> FALSE]
EmptyTlb == [s \in SlotIndex |-> EmptyEntry]

\* The cells a walk of `page` reads, and what they permit together.
PdeCell(c, page) == <<c, Dir(page)>>
PteCell(m, c, page) == <<m[PdeCell(c, page)].frame, Tbl(page)>>
Both(m, c, page) == m[PdeCell(c, page)].bits \cap m[PteCell(m, c, page)].bits

\* An access: user is user_access(), CPL 3 without supervisor_override (the
\* sys_* accessors and inner-stack pushes are supervisor accesses).
Read == [lin : Lin, width : Widths, write : {FALSE}, user : BOOLEAN]
Write == [lin : Lin, width : Widths, write : {TRUE}, user : BOOLEAN, word : StoreWord]
Access == Read \cup Write

\* The outcome of a translation: done, or the #PF (error code and CR2) it raises.
Done == [ok |-> TRUE]
PF(lin, present, a) ==
    [ok |-> FALSE, cr2 |-> lin, present |-> present, write |-> a.write, user |-> a.user]

-----------------------------------------------------------------------------
\* The MMU inside one access: memory, TLB, pages stamped and walked so far,
\* the frames translated, and the outcome.
MMU == [mem |-> mem, tlb |-> tlb, stamped |-> {}, walked |-> {},
        frames |-> << >>, outcome |-> Done]

\* User accesses need U/S, user writes also R/W, in both levels.
Denied(both, a) == a.user /\ ("US" \notin both \/ (a.write /\ "RW" \notin both))

\* The write-backs a walk owes: the PDE's accessed bit; the PTE's accessed
\* bit, with the dirty bit on a write.
PdeDue(m, page) == "A" \notin m[PdeCell(cr3, page)].bits
PteDue(m, page, a) ==
    ~({"A"} \cup (IF a.write THEN {"D"} ELSE {}) \subseteq m[PteCell(m, cr3, page)].bits)

\* Mutant: the PDE's write-back is not stamped.
StampPteOnly(m, page, a) ==
    IF PteDue(m, page, a) THEN {PteCell(m, cr3, page)[1]} ELSE {}

\* The pages of the entries written back, which are stamped.
StampWalk(m, page, a) ==
    (IF PdeDue(m, page) THEN {PdeCell(cr3, page)[1]} ELSE {})
        \cup (IF PteDue(m, page, a) THEN {PteCell(m, cr3, page)[1]} ELSE {})

\* Memory after the write-backs: the PDE first, then the PTE as it was read
\* before either, with the new bits.
WriteBack(m, page, a) ==
    LET pde == PdeCell(cr3, page)
        pte == PteCell(m, cr3, page)
        newBits == m[pte].bits \cup {"A"} \cup (IF a.write THEN {"D"} ELSE {})
        mem1 == IF PdeDue(m, page) THEN [m EXCEPT ![pde].bits = @ \cup {"A"}] ELSE m
    IN  IF PteDue(m, page, a) THEN [mem1 EXCEPT ![pte].bits = newBits] ELSE mem1

\* The TLB entry a walk over memory m installs.
TlbFill(m, page, a) ==
    LET pte == m[PteCell(m, cr3, page)]
        both == Both(m, cr3, page)
    IN  [tag |-> page, phys |-> pte.frame, user |-> "US" \in both,
         writable |-> "RW" \in both, dirty |-> a.write \/ "D" \in pte.bits]

\* walk: a fault comes before any write; then write-backs and TLB fill.
walk(s, lin, a) ==
    LET page == Page(lin)
        both == Both(s.mem, cr3, page)
    IN  IF "P" \notin both THEN [s EXCEPT !.outcome = PF(lin, FALSE, a)]
        ELSE IF Denied(both, a) THEN [s EXCEPT !.outcome = PF(lin, TRUE, a)]
        ELSE [s EXCEPT
                !.mem = WriteBack(s.mem, page, a),
                !.stamped = @ \cup StampWalk(s.mem, page, a),
                !.walked = @ \cup {page},
                !.frames = Append(@, s.mem[PteCell(s.mem, cr3, page)].frame),
                !.tlb[Slot(page)] = TlbFill(s.mem, page, a)]

\* Mutant: a write hits although the dirty bit is not known to be set.
HitClean(t, page, a) ==
    LET e == t[Slot(page)] IN
    e.tag = page /\ (~a.user \/ (e.user /\ (a.write => e.writable)))

\* The hit test of translate: a write also needs the dirty bit known set.
TlbHit(t, page, a) ==
    LET e == t[Slot(page)] IN
    /\ e.tag = page
    /\ ~a.user \/ (e.user /\ (a.write => e.writable))
    /\ a.write => e.dirty

translate(s, lin, a) ==
    IF TlbHit(s.tlb, Page(lin), a)
    THEN [s EXCEPT !.frames = Append(@, s.tlb[Slot(Page(lin))].phys)]
    ELSE walk(s, lin, a)

\* Mutant: the probe ignores the page's user bit.
PeekAnyone(page, user) == tlb[Slot(page)].tag = page

\* peek: the TLB probe of icache_phys, a read at the given privilege.
peek(page, user) ==
    LET e == tlb[Slot(page)] IN e.tag = page /\ (~user \/ e.user)

-----------------------------------------------------------------------------
LinAdd(lin, i) == (lin + i) % LinSize
FirstPage(a) == Page(a.lin)
LastPage(a) == Page(LinAdd(a.lin, a.width - 1))
Crosses(a) == FirstPage(a) # LastPage(a)

\* Both pages are translated before a byte moves; the second not at all when
\* the first faults.  Without paging the address is physical.
Translated(a) ==
    IF ~pg THEN [MMU EXCEPT !.frames = <<FirstPage(a), LastPage(a)>>]
    ELSE LET s1 == translate(MMU, a.lin, a) IN
         IF Crosses(a) /\ s1.outcome.ok
         THEN translate(s1, LastPage(a) * PageCells, a) ELSE s1

\* Where the i-th cell of the access is, in the frames translated.
PhysCell(a, frames, i) ==
    LET lin == LinAdd(a.lin, i) IN
    <<IF Page(lin) = FirstPage(a) THEN frames[1] ELSE frames[2], Off(lin)>>

StoredCells(a, frames) == {PhysCell(a, frames, i) : i \in 0 .. a.width - 1}

\* Mutant: the bytes in the first page land before the second is translated.
StoreEagerly(a) ==
    LET s == Translated(a)
        cells == {PhysCell(a, s.frames, i) :
                    i \in {j \in 0 .. a.width - 1 :
                             s.outcome.ok \/ Page(LinAdd(a.lin, j)) = FirstPage(a)}}
    IN  IF ~a.write \/ s.frames = << >> THEN s
        ELSE [s EXCEPT
                !.stamped = @ \cup {c[1] : c \in cells},
                !.mem = [c \in Cell |-> IF c \in cells THEN a.word ELSE @[c]]]

\* lin_read8/16/32 and lin_write8/16/32: translate, stamp, then move the data.
Outcome(a) ==
    LET s == Translated(a)
        cells == StoredCells(a, s.frames)
    IN  IF ~s.outcome.ok \/ ~a.write THEN s
        ELSE [s EXCEPT
                !.stamped = @ \cup {c[1] : c \in cells},
                !.mem = [c \in Cell |-> IF c \in cells THEN a.word ELSE @[c]]]

-----------------------------------------------------------------------------
\* The tables still say of `page` what they said: the same cells, frames and
\* permissions, and no accessed or dirty bit taken back.
PathKept(m, c, m2, c2, page) ==
    /\ PdeCell(c, page) = PdeCell(c2, page)
    /\ PteCell(m, c, page) = PteCell(m2, c2, page)
    /\ \A cell \in {PdeCell(c, page), PteCell(m, c, page)} :
         /\ m[cell].frame = m2[cell].frame
         /\ m[cell].bits \subseteq m2[cell].bits
         /\ m2[cell].bits \ m[cell].bits \subseteq {"A", "D"}

Cached(t) == {page \in Pages : t[Slot(page)].tag = page}

Init ==
    /\ mem \in InitMem
    /\ tlb = EmptyTlb
    /\ cr3 = 0
    /\ pg = FALSE
    /\ edited = {}
    /\ stores = 0

\* One access by the CPU, or by a host through read_linear* / write_linear*.
DoAccess(a) ==
    LET o == Outcome(a)
        before == Translated(a).mem
    IN  /\ a.write => stores < MaxStores
        /\ mem' = o.mem
        /\ tlb' = o.tlb
        /\ edited' = {page \in Cached(tlb') :
                        \/ page \in edited \ o.walked
                        \/ ~PathKept(before, cr3, mem', cr3, page)}
        /\ stores' = IF a.write THEN stores + 1 ELSE stores
        /\ UNCHANGED <<cr3, pg>>

\* Mutant: the entries survive.
FlushNothing == UNCHANGED tlb /\ edited' = {}

\* Tlb::flush: every tag is emptied.
flush ==
    /\ tlb' = [s \in SlotIndex |-> [tlb[s] EXCEPT !.tag = EMPTY]]
    /\ edited' = {}

\* MOV CR3; MOV CR0 and LMSW.
MovCr3(page) == cr3' = page /\ flush /\ UNCHANGED <<mem, pg, stores>>
MovCr0(on) == pg' = on /\ flush /\ UNCHANGED <<mem, cr3, stores>>

\* A host layer writes the CR0 and CR3 fields, or table entries, directly ...
HostChange(m2, c2, on) ==
    /\ mem' = m2
    /\ cr3' = c2
    /\ pg' = on
    /\ edited' = edited \cup {page \in Cached(tlb) : ~PathKept(mem, cr3, m2, c2, page)}
    /\ UNCHANGED tlb

HostSetCr(page, on) == HostChange(mem, page, on) /\ UNCHANGED stores

HostPoke(cell, word) ==
    /\ stores < MaxStores
    /\ HostChange([mem EXCEPT ![cell] = word], cr3, pg)
    /\ stores' = stores + 1

\* ... and then calls invalidate_tlb.
InvalidateTlb == flush /\ UNCHANGED <<mem, cr3, pg, stores>>

Reset ==
    /\ cr3' = 0
    /\ pg' = FALSE
    /\ flush
    /\ UNCHANGED <<mem, stores>>

Next ==
    \/ \E a \in Access : DoAccess(a)
    \/ \E page \in Directories : MovCr3(page)
    \/ \E on \in BOOLEAN : MovCr0(on)
    \/ \E page \in Directories, on \in BOOLEAN : HostSetCr(page, on)
    \/ \E cell \in Cell, word \in StoreWord : HostPoke(cell, word)
    \/ InvalidateTlb
    \/ Reset

Spec == Init /\ [][Next]_vars

-----------------------------------------------------------------------------
\* A cached translation says what the tables say, until someone edits them:
\* frame and combined permissions, both accessed bits already set, and a
\* dirty entry only over a dirty PTE.  The A/D write-backs of other walks,
\* also into tables that map themselves, never disturb it, and the probe of
\* the instruction cache reaches no page the tables deny to user code.
TlbCoherent ==
    \A page \in Cached(tlb) \ edited :
        LET e == tlb[Slot(page)]
            pde == mem[PdeCell(cr3, page)]
            pte == mem[PteCell(mem, cr3, page)]
        IN  /\ e.phys = pte.frame
            /\ {"P", "A"} \subseteq pde.bits \cap pte.bits
            /\ e.user = ("US" \in pde.bits \cap pte.bits)
            /\ e.writable = ("RW" \in pde.bits \cap pte.bits)
            /\ e.dirty => "D" \in pte.bits
            /\ peek(page, TRUE) => "US" \in pde.bits \cap pte.bits

\* What an access does by the tables alone, without TLB: the pages it reaches
\* before the first one that refuses, A/D bits set in those, and data only
\* when no page refuses.
Refuses(page, a) ==
    LET both == Both(mem, cr3, page) IN
    \/ "P" \notin both
    \/ a.user /\ ~({"US"} \cup (IF a.write THEN {"RW"} ELSE {}) \subseteq both)

PagesOf(a) == {FirstPage(a), LastPage(a)}

Reached(a) ==
    {page \in PagesOf(a) : ~Refuses(page, a) /\ ~Refuses(FirstPage(a), a)}

Touched(a) ==
    LET pdes == {PdeCell(cr3, page) : page \in Reached(a)}
        ptes == {PteCell(mem, cr3, page) : page \in Reached(a)}
    IN  [c \in Cell |->
           [mem[c] EXCEPT !.bits = @ \cup (IF c \in pdes \cup ptes THEN {"A"} ELSE {})
                                     \cup (IF a.write /\ c \in ptes THEN {"D"} ELSE {})]]

Frame(page) == mem[PteCell(mem, cr3, page)].frame

\* The TLB is invisible: an access to pages whose tables nobody edited since
\* they were cached does exactly what a full walk of the tables would do, in
\* its outcome, its A/D write-backs and its data, split across pages or not.
AccessIsWalk ==
    pg => \A a \in Access :
        PagesOf(a) \cap edited = {} =>
            LET o == Outcome(a)
                touched == Touched(a)
                cells == StoredCells(a, <<Frame(FirstPage(a)), Frame(LastPage(a))>>)
            IN
            IF PagesOf(a) = Reached(a)
            THEN /\ o.outcome.ok
                 /\ o.mem = [c \in Cell |-> IF a.write /\ c \in cells THEN a.word
                                            ELSE touched[c]]
            ELSE /\ ~o.outcome.ok
                 /\ o.mem = touched
                 /\ Page(o.outcome.cr2) = IF Refuses(FirstPage(a), a)
                                          THEN FirstPage(a) ELSE LastPage(a)
                 /\ o.outcome.present = ("P" \in Both(mem, cr3, Page(o.outcome.cr2)))

\* A faulting access, also one that faults on its second page and also over
\* stale TLB entries, leaves every word as it was but for A/D bits set.
FaultKeepsData ==
    \A a \in Access :
        LET o == Outcome(a) IN
        ~o.outcome.ok =>
            \A c \in Cell :
                /\ o.mem[c].frame = mem[c].frame
                /\ mem[c].bits \subseteq o.mem[c].bits
                /\ o.mem[c].bits \ mem[c].bits \subseteq {"A", "D"}

\* Whatever an access changes in memory, A/D write-backs included, the write
\* stamp of its page moves: decoded code in that page dies.
ChangesAreStamped ==
    \A a \in Access :
        LET o == Outcome(a) IN
        \A c \in Cell : o.mem[c] # mem[c] => c[1] \in o.stamped

-----------------------------------------------------------------------------
Entry == [tag : Pages \cup {EMPTY}, phys : Pages, user : BOOLEAN, writable : BOOLEAN,
          dirty : BOOLEAN]

TypeOK ==
    /\ mem \in [Cell -> Word]
    /\ tlb \in [SlotIndex -> Entry]
    /\ cr3 \in Pages
    /\ pg \in BOOLEAN
    /\ edited \subseteq Pages
    /\ stores \in 0 .. MaxStores

\* Inductive: the other three properties are about one access in any such state.
IInv == TypeOK /\ TlbCoherent

=============================================================================
