-------------------------- MODULE Paging386_proofs --------------------------
(***************************************************************************)
(* Proofs for Paging386: for every page size, TLB size and set of tables   *)
(* the TLB is invisible.  Its entries agree with tables nobody edited, an  *)
(* access does what a walk of the tables alone would do, a faulting access *)
(* moves no data, and every page an access changes is stamped.             *)
(***************************************************************************)
EXTENDS Paging386, TLAPS

(* Division and modulus by an arbitrary positive divisor.                  *)

\* Division with remainder.
LEMMA DivMod ==
  ASSUME NEW x \in Int, NEW n \in Nat \ {0}
  PROVE /\ x % n \in 0 .. n - 1
        /\ x \div n \in Int
        /\ x = n * (x \div n) + (x % n)
  OBVIOUS

\* Multiplication by a positive number is monotonic, by at least one n.
LEMMA MulLe ==
  ASSUME NEW n \in Nat \ {0}, NEW a \in Int, NEW b \in Int, a < b
  PROVE n * a + n <= n * b
<1>1. b - a - 1 \in Nat
  OBVIOUS
<1>2. n * (b - a - 1) \in Nat
  BY <1>1
<1>3. n * (b - a - 1) = n * b - n * a - n
  OBVIOUS
<1> QED
  BY <1>2, <1>3

\* Quotient and remainder are unique.
LEMMA DivModUnique ==
  ASSUME NEW n \in Nat \ {0}, NEW q \in Int, NEW r \in 0 .. n - 1
  PROVE (n * q + r) % n = r /\ (n * q + r) \div n = q
<1> DEFINE x == n * q + r
<1> DEFINE q2 == x \div n
<1> DEFINE r2 == x % n
<1>0. x \in Int OBVIOUS
<1>1. q2 \in Int /\ r2 \in 0 .. n - 1 /\ x = n * q2 + r2
  BY <1>0, DivMod
<1> HIDE DEF q2, r2
<1>2. ~(q2 < q)
  <2> SUFFICES ASSUME q2 < q PROVE FALSE OBVIOUS
  <2>1. n * q2 + n <= n * q BY <1>1, MulLe
  <2>2. n * q2 \in Int /\ n * q \in Int BY <1>1
  <2> QED BY <2>1, <2>2, <1>1
<1>3. ~(q < q2)
  <2> SUFFICES ASSUME q < q2 PROVE FALSE OBVIOUS
  <2>1. n * q + n <= n * q2 BY <1>1, MulLe
  <2>2. n * q2 \in Int /\ n * q \in Int BY <1>1
  <2> QED BY <2>1, <2>2, <1>1
<1>4. q = q2 BY <1>1, <1>2, <1>3
<1>5. r = r2
  <2>2. n * q2 \in Int BY <1>1
  <2> QED BY <2>2, <1>1, <1>4
<1> QED BY <1>4, <1>5 DEF q2, r2

-----------------------------------------------------------------------------
(* Pages, cells and slots.                                                 *)

\* A number below a * n has a quotient below a and a remainder below n.
LEMMA DivRange ==
  ASSUME NEW a \in Nat \ {0}, NEW n \in Nat \ {0}, NEW x \in 0 .. a * n - 1
  PROVE  x \div n \in 0 .. a - 1 /\ x % n \in 0 .. n - 1
<1> DEFINE q == x \div n
           r == x % n
<1>1. a * n \in Int
  OBVIOUS
<1>2. x \in Int /\ 0 <= x /\ x < a * n
  BY <1>1
<1>3. q \in Int /\ r \in 0 .. n - 1 /\ x = n * q + r
  BY <1>2, DivMod
<1> HIDE DEF q, r
<1>4. n * q \in Int /\ n * a \in Int /\ n * a = a * n /\ n * 0 = 0
  BY <1>3
<1>5. ~(q < 0)
  <2> SUFFICES ASSUME q < 0 PROVE FALSE
    OBVIOUS
  <2>1. n * q + n <= n * 0
    BY <1>3, MulLe
  <2> QED
    BY <2>1, <1>2, <1>3, <1>4
<1>6. ~(a <= q)
  <2> SUFFICES ASSUME a <= q PROVE FALSE
    OBVIOUS
  <2>1. CASE a = q
    BY <2>1, <1>2, <1>3, <1>4
  <2>2. CASE a < q
    <3>1. n * a + n <= n * q
      BY <2>2, <1>3, MulLe
    <3> QED
      BY <3>1, <1>2, <1>3, <1>4
  <2> QED
    BY <2>1, <2>2, <1>3
<1> QED
  BY <1>3, <1>5, <1>6 DEF q, r

LEMMA NPagesPositive == NPages \in Nat \ {0} /\ LinSize \in Nat \ {0} /\ 0 \in Pages /\ EMPTY \notin Pages
<1>1. \A x, y \in Nat \ {0} : x * y \in Nat \ {0}
  OBVIOUS
<1>2. NPages \in Nat \ {0}
  BY <1>1, PagingAssumption DEF NPages
<1>3. LinSize \in Nat \ {0}
  BY <1>1, <1>2, PagingAssumption DEF LinSize
<1> QED
  BY <1>2, <1>3 DEF Pages, EMPTY

\* A linear address has a page and an offset in it; a linear page has a
\* directory and a table index, and a slot.
LEMMA PageFacts ==
  /\ \A lin \in Lin : Page(lin) \in Pages /\ Off(lin) \in Offset
  /\ \A page \in Pages : Dir(page) \in Offset /\ Tbl(page) \in Offset /\ Slot(page) \in SlotIndex
<1>1. NPages \in Nat \ {0} /\ PageCells \in Nat \ {0} /\ TLB_SIZE \in Nat \ {0}
  BY NPagesPositive, PagingAssumption
<1>2. ASSUME NEW lin \in Lin
      PROVE  Page(lin) \in Pages /\ Off(lin) \in Offset
  BY <1>1, DivRange DEF Lin, LinSize, Page, Off, Pages, Offset
<1>3. ASSUME NEW page \in Pages
      PROVE  Dir(page) \in Offset /\ Tbl(page) \in Offset /\ Slot(page) \in SlotIndex
  <2>1. Dir(page) \in Offset /\ Tbl(page) \in Offset
    BY <1>1, DivRange DEF Pages, NPages, Dir, Tbl, Offset
  <2>2. page \in Int
    BY DEF Pages
  <2>3. Slot(page) \in SlotIndex
    BY <1>1, <2>2, DivMod DEF Slot, SlotIndex
  <2> QED
    BY <2>1, <2>3
<1> QED
  BY <1>2, <1>3

\* The address of a page's first cell is in that page.
LEMMA PageStart ==
  ASSUME NEW page \in Pages
  PROVE  page * PageCells \in Lin /\ Page(page * PageCells) = page
<1>1. PageCells \in Nat \ {0} /\ page \in Nat /\ page < NPages /\ NPages \in Nat
  BY NPagesPositive, PagingAssumption DEF Pages
<1>2. 0 \in 0 .. PageCells - 1 /\ PageCells * page + 0 = page * PageCells
  BY <1>1
<1>3. (PageCells * page + 0) \div PageCells = page
  BY <1>1, <1>2, DivModUnique
<1>4. PageCells * page + PageCells <= PageCells * NPages
  BY <1>1, MulLe
<1>5. PageCells * NPages = NPages * PageCells /\ page * PageCells \in Nat /\ NPages * PageCells \in Nat
  BY <1>1
<1> QED
  BY <1>1, <1>2, <1>3, <1>4, <1>5 DEF Page, Lin, LinSize

\* The page of the i-th cell of an access: the first one, or the next one once
\* the offset runs over.
LEMMA SpanFacts ==
  ASSUME NEW lin \in Lin, NEW i \in 0 .. PageCells - 1
  PROVE  /\ LinAdd(lin, i) \in Lin
         /\ Off(lin) + i < PageCells => Page(LinAdd(lin, i)) = Page(lin)
         /\ Off(lin) + i >= PageCells => Page(LinAdd(lin, i)) = (Page(lin) + 1) % NPages
<1>1. /\ PageCells \in Nat \ {0} /\ NPages \in Nat \ {0} /\ LinSize \in Nat \ {0}
      /\ Page(lin) \in Pages /\ Off(lin) \in Offset /\ lin \in Nat
  BY NPagesPositive, PageFacts, PagingAssumption DEF Lin
<1>2. lin = PageCells * Page(lin) + Off(lin)
  BY <1>1, DivMod DEF Page, Off
<1>3. LinAdd(lin, i) \in Lin
  <2>1. lin + i \in Int
    BY <1>1
  <2> QED
    BY <1>1, <2>1, DivMod DEF LinAdd, Lin
<1>4. /\ Page(lin) \in Nat /\ Page(lin) < NPages /\ Off(lin) \in 0 .. PageCells - 1
      /\ LinSize = PageCells * NPages
  BY <1>1 DEF Pages, Offset, LinSize
<1>5. ASSUME NEW q \in 0 .. NPages - 1, NEW r \in 0 .. PageCells - 1
      PROVE  /\ (PageCells * q + r) % LinSize = PageCells * q + r
             /\ (PageCells * q + r) \div PageCells = q
  <2>1. PageCells * q + PageCells <= PageCells * NPages
    BY <1>1, MulLe
  <2>2. PageCells * q \in Nat /\ PageCells * NPages \in Nat
    BY <1>1
  <2>3. PageCells * q + r \in 0 .. LinSize - 1
    BY <1>1, <1>4, <2>1, <2>2
  <2>4. LinSize * 0 + (PageCells * q + r) = PageCells * q + r
    BY <1>1, <2>2
  <2>5. (LinSize * 0 + (PageCells * q + r)) % LinSize = PageCells * q + r
    BY SMTT(60), <1>1, <2>3, DivModUnique
  <2> QED
    BY <1>1, <2>4, <2>5, DivModUnique
<1>6. CASE Off(lin) + i < PageCells
  <2>1. Off(lin) + i \in 0 .. PageCells - 1 /\ Page(lin) \in 0 .. NPages - 1
    BY <1>1, <1>4, <1>6
  <2>2. PageCells * Page(lin) \in Int
    BY <1>4, <1>1
  <2>3. lin + i = PageCells * Page(lin) + (Off(lin) + i)
    BY <1>2, <1>4, <2>2
  <2>4. LinAdd(lin, i) \div PageCells = Page(lin)
    BY <1>5, <2>1, <2>3 DEF LinAdd
  <2> QED
    BY <1>3, <1>1, <1>6, <2>1, <2>4 DEF Page
<1>7. CASE Off(lin) + i >= PageCells
  <2>1. Off(lin) + i - PageCells \in 0 .. PageCells - 1
    BY <1>1, <1>4, <1>7
  <2>2. PageCells * Page(lin) \in Int /\ PageCells * (Page(lin) + 1) = PageCells * Page(lin) + PageCells
    BY <1>4, <1>1
  <2>3. lin + i = PageCells * (Page(lin) + 1) + (Off(lin) + i - PageCells)
    <3>1. Off(lin) \in Int /\ i \in Int /\ PageCells \in Int
      BY <1>1, <1>4
    <3> QED
      BY <1>2, <2>2, <3>1
  <2>4. CASE Page(lin) + 1 < NPages
    <3>1. Page(lin) + 1 \in 0 .. NPages - 1 /\ NPages * 0 + (Page(lin) + 1) = Page(lin) + 1
      BY <1>1, <1>4, <2>4
    <3>2. (NPages * 0 + (Page(lin) + 1)) % NPages = Page(lin) + 1
      BY <1>1, <3>1, DivModUnique
    <3>3. LinAdd(lin, i) \div PageCells = Page(lin) + 1
      BY <1>5, <2>1, <2>3, <3>1 DEF LinAdd
    <3> QED
      BY <1>3, <1>1, <1>4, <1>7, <3>1, <3>2, <3>3 DEF Page
  <2>5. CASE Page(lin) + 1 = NPages
    <3>1. NPages * 1 + 0 = Page(lin) + 1 /\ 0 \in 0 .. NPages - 1
      BY <1>1, <1>4, <2>5
    <3>2. (Page(lin) + 1) % NPages = 0
      BY <1>1, <3>1, DivModUnique
    <3>3. lin + i = LinSize * 1 + (Off(lin) + i - PageCells)
      BY <1>1, <1>4, <2>1, <2>3, <2>5
    <3>4. PageCells * 0 + (Off(lin) + i - PageCells) = Off(lin) + i - PageCells
      BY <1>1, <2>1
    <3>5. PageCells * 0 + PageCells <= PageCells * NPages
      BY <1>1, MulLe
    <3>6. PageCells <= LinSize
      BY <1>1, <1>4, <3>5
    <3>7. Off(lin) + i - PageCells \in 0 .. LinSize - 1
      BY <1>1, <2>1, <3>6
    <3>8. LinAdd(lin, i) = Off(lin) + i - PageCells
      <4> DEFINE z == Off(lin) + i - PageCells
      <4>1. \A q \in Int : (LinSize * q + z) % LinSize = z
        BY <1>1, <3>7, DivModUnique
      <4> QED
        BY <3>3, <4>1 DEF LinAdd
    <3>9. LinAdd(lin, i) \div PageCells = 0
      BY <1>1, <2>1, <3>4, <3>8, DivModUnique
    <3> QED
      BY <1>1, <1>3, <1>4, <1>7, <3>2, <3>9 DEF Page
  <2> QED
    BY <1>1, <1>4, <2>4, <2>5
<1> QED
  BY <1>1, <1>3, <1>4, <1>6, <1>7

\* An access that does not cross ends in the page it starts in with every cell.
LEMMA NoCrossFacts ==
  ASSUME NEW a \in Access
  PROVE  /\ FirstPage(a) \in Pages /\ LastPage(a) \in Pages
         /\ \A i \in 0 .. a.width - 1 :
              /\ LinAdd(a.lin, i) \in Lin
              /\ Page(LinAdd(a.lin, i)) \in {FirstPage(a), LastPage(a)}
<1>1. /\ a.lin \in Lin /\ a.width \in Widths
      /\ PageCells \in Nat \ {0} /\ a.width \in 1 .. PageCells /\ a.width \in Nat
  <2>1. a.lin \in Lin /\ a.width \in Widths
    BY DEF Access, Read, Write
  <2>2. PageCells \in Nat \ {0} /\ a.width \in 1 .. PageCells
    BY <2>1, PagingAssumption
  <2> QED
    BY <2>1, <2>2
<1>2. Page(a.lin) \in Pages /\ Off(a.lin) \in 0 .. PageCells - 1
  BY <1>1, PageFacts DEF Offset
<1>3. LinAdd(a.lin, a.width - 1) \in Lin
  BY <1>1, SpanFacts
<1>4. FirstPage(a) \in Pages /\ LastPage(a) \in Pages
  BY <1>2, <1>3, PageFacts DEF FirstPage, LastPage
<1>5. ASSUME NEW i \in 0 .. a.width - 1
      PROVE  LinAdd(a.lin, i) \in Lin /\ Page(LinAdd(a.lin, i)) \in {FirstPage(a), LastPage(a)}
  <2>1. i \in 0 .. PageCells - 1 /\ i \in Nat
    BY <1>1
  <2>2. LinAdd(a.lin, i) \in Lin
    BY <1>1, <2>1, SpanFacts
  <2>3. CASE Off(a.lin) + i < PageCells
    BY <1>1, <2>1, <2>2, <2>3, SpanFacts DEF FirstPage
  <2>4. CASE Off(a.lin) + i >= PageCells
    <3>1. a.width - 1 \in 0 .. PageCells - 1 /\ Off(a.lin) + (a.width - 1) >= PageCells
      BY <1>1, <1>2, <2>1, <2>4
    <3>2. Page(LinAdd(a.lin, i)) = (Page(a.lin) + 1) % NPages
      BY <1>1, <2>1, <2>4, SpanFacts
    <3>3. Page(LinAdd(a.lin, a.width - 1)) = (Page(a.lin) + 1) % NPages
      BY <1>1, <3>1, SpanFacts
    <3> QED
      BY <2>2, <3>2, <3>3 DEF LastPage
  <2> QED
    BY <1>1, <1>2, <2>1, <2>3, <2>4
<1> QED
  BY <1>4, <1>5

-----------------------------------------------------------------------------
(* Tables, and what accessed and dirty bits do to them.                    *)

\* m2 is m with more accessed and dirty bits.
ADOnly(m, m2) ==
  \A c \in Cell :
    /\ m[c].frame = m2[c].frame
    /\ m[c].bits \subseteq m2[c].bits
    /\ m2[c].bits \ m[c].bits \subseteq {"A", "D"}

\* The TLB entry e says of `page` what the tables of directory c say in memory m.
Agrees(e, m, c, page) ==
  LET pde == m[PdeCell(c, page)]
      pte == m[PteCell(m, c, page)]
  IN  /\ e.phys = pte.frame
      /\ {"P", "A"} \subseteq pde.bits \cap pte.bits
      /\ e.user = ("US" \in pde.bits \cap pte.bits)
      /\ e.writable = ("RW" \in pde.bits \cap pte.bits)
      /\ e.dirty => "D" \in pte.bits

\* m with the accessed bits of page's two entries set, and the PTE's dirty bit if w.
Marked(m, page, w) ==
  [c \in Cell |->
     [m[c] EXCEPT !.bits = @ \cup (IF c \in {PdeCell(cr3, page), PteCell(m, cr3, page)}
                                  THEN {"A"} ELSE {})
                           \cup (IF w /\ c = PteCell(m, cr3, page) THEN {"D"} ELSE {})]]

\* The cells of a walk are cells.
LEMMA CellFacts ==
  ASSUME NEW m \in [Cell -> Word], NEW c \in Pages, NEW page \in Pages
  PROVE  /\ PdeCell(c, page) \in Cell /\ PteCell(m, c, page) \in Cell
         /\ m[PdeCell(c, page)] \in Word /\ m[PteCell(m, c, page)] \in Word
<1>1. PdeCell(c, page) \in Cell
  BY PageFacts DEF PdeCell, Cell
<1>2. PteCell(m, c, page) \in Cell
  BY <1>1, PageFacts DEF PteCell, Cell, Word
<1> QED
  BY <1>1, <1>2

\* A path whose cells, frames and permissions are kept keeps an entry's agreement.
LEMMA PathAgrees ==
  ASSUME NEW m \in [Cell -> Word], NEW m2 \in [Cell -> Word], NEW c \in Pages, NEW c2 \in Pages,
         NEW page \in Pages, NEW e, PathKept(m, c, m2, c2, page), Agrees(e, m, c, page)
  PROVE  Agrees(e, m2, c2, page)
<1> DEFINE pde == PdeCell(c, page)
           pte == PteCell(m, c, page)
<1>1. /\ PdeCell(c2, page) = pde /\ PteCell(m2, c2, page) = pte
      /\ \A cell \in {pde, pte} :
           /\ m[cell].frame = m2[cell].frame
           /\ m[cell].bits \subseteq m2[cell].bits
           /\ m2[cell].bits \ m[cell].bits \subseteq {"A", "D"}
  BY DEF PathKept
<1>2. /\ e.phys = m[pte].frame
      /\ {"P", "A"} \subseteq m[pde].bits \cap m[pte].bits
      /\ e.user = ("US" \in m[pde].bits \cap m[pte].bits)
      /\ e.writable = ("RW" \in m[pde].bits \cap m[pte].bits)
      /\ e.dirty => "D" \in m[pte].bits
  BY DEF Agrees
<1> HIDE DEF pde, pte
<1>3. \A b \in {"US", "RW"} :
        b \in m[pde].bits \cap m[pte].bits <=> b \in m2[pde].bits \cap m2[pte].bits
  BY <1>1
<1>4. /\ e.phys = m2[pte].frame
      /\ {"P", "A"} \subseteq m2[pde].bits \cap m2[pte].bits
      /\ e.user = ("US" \in m2[pde].bits \cap m2[pte].bits)
      /\ e.writable = ("RW" \in m2[pde].bits \cap m2[pte].bits)
      /\ e.dirty => "D" \in m2[pte].bits
  BY <1>1, <1>2, <1>3
<1> QED
  BY <1>1, <1>4 DEF Agrees

\* Accessed and dirty bits move no table and change no permission.
LEMMA ADFacts ==
  ASSUME NEW m \in [Cell -> Word], NEW m2 \in [Cell -> Word], NEW c \in Pages,
         NEW page \in Pages, ADOnly(m, m2)
  PROVE  /\ PathKept(m, c, m2, c, page)
         /\ PteCell(m2, c, page) = PteCell(m, c, page)
         /\ m2[PteCell(m, c, page)].frame = m[PteCell(m, c, page)].frame
         /\ \A b \in {"P", "US", "RW"} : b \in Both(m2, c, page) <=> b \in Both(m, c, page)
<1>1. PdeCell(c, page) \in Cell /\ PteCell(m, c, page) \in Cell
  BY CellFacts
<1>2. PteCell(m2, c, page) = PteCell(m, c, page)
  BY <1>1 DEF PteCell, ADOnly
<1>3. PathKept(m, c, m2, c, page)
  BY <1>1, <1>2 DEF PathKept, ADOnly
<1>4. \A b \in {"P", "US", "RW"} : b \in Both(m2, c, page) <=> b \in Both(m, c, page)
  BY <1>1, <1>2 DEF Both, ADOnly
<1> QED
  BY <1>1, <1>2, <1>3, <1>4 DEF ADOnly

LEMMA ADTransitive ==
  ASSUME NEW m1, NEW m2, NEW m3, ADOnly(m1, m2), ADOnly(m2, m3)
  PROVE  ADOnly(m1, m3)
  BY DEF ADOnly

\* A word with more bits.
LEMMA WordFacts ==
  ASSUME NEW w \in Word, NEW bits \in SUBSET Bit
  PROVE  LET x == [w EXCEPT !.bits = bits]
         IN  x \in Word /\ x.frame = w.frame /\ x.bits = bits
  BY DEF Word

LEMMA WordEqual ==
  ASSUME NEW v \in Word, NEW w \in Word, v.frame = w.frame, v.bits = w.bits
  PROVE  v = w
  BY DEF Word

\* Marking a page's entries sets accessed and dirty bits only.
LEMMA MarkedFacts ==
  ASSUME NEW m \in [Cell -> Word], NEW page \in Pages, NEW w \in BOOLEAN
  PROVE  Marked(m, page, w) \in [Cell -> Word] /\ ADOnly(m, Marked(m, page, w))
<1> DEFINE set(c) == (IF c \in {PdeCell(cr3, page), PteCell(m, cr3, page)} THEN {"A"} ELSE {})
                       \cup (IF w /\ c = PteCell(m, cr3, page) THEN {"D"} ELSE {})
<1>1. ASSUME NEW c \in Cell
      PROVE  /\ Marked(m, page, w)[c] = [m[c] EXCEPT !.bits = @ \cup set(c)]
             /\ m[c] \in Word /\ set(c) \subseteq {"A", "D"}
  BY DEF Marked
<1> HIDE DEF set
<1>2. ASSUME NEW c \in Cell
      PROVE  /\ Marked(m, page, w)[c] \in Word
             /\ Marked(m, page, w)[c].frame = m[c].frame
             /\ Marked(m, page, w)[c].bits = m[c].bits \cup set(c)
             /\ set(c) \subseteq {"A", "D"}
  <2>1. m[c].bits \cup set(c) \in SUBSET Bit
    BY <1>1 DEF Word, Bit
  <2>2. Marked(m, page, w)[c] = [m[c] EXCEPT !.bits = m[c].bits \cup set(c)]
    BY <1>1
  <2> QED
    BY <1>1, <2>1, <2>2, WordFacts
<1>3. Marked(m, page, w) \in [Cell -> Word]
  BY <1>2 DEF Marked
<1>4. ADOnly(m, Marked(m, page, w))
  BY <1>2 DEF ADOnly
<1> QED
  BY <1>3, <1>4

\* The write-backs of a walk, skipped where nothing is due, mark its entries, and
\* each page they change is stamped (walk).
LEMMA WriteBackFacts ==
  ASSUME NEW m \in [Cell -> Word], NEW page \in Pages, NEW a \in Access, cr3 \in Pages
  PROVE  /\ WriteBack(m, page, a) = Marked(m, page, a.write)
         /\ \A c \in Cell : WriteBack(m, page, a)[c] # m[c] => c[1] \in StampWalk(m, page, a)
<1> DEFINE pde == PdeCell(cr3, page)
           pte == PteCell(m, cr3, page)
           d == IF a.write THEN {"D"} ELSE {}
           mem1 == IF PdeDue(m, page) THEN [m EXCEPT ![pde].bits = @ \cup {"A"}] ELSE m
           mem2 == WriteBack(m, page, a)
<1>1. pde \in Cell /\ pte \in Cell /\ m[pde] \in Word /\ m[pte] \in Word
  BY CellFacts
<1>2. a.write \in BOOLEAN
  BY DEF Access, Read, Write
<1>3. mem2 = IF PteDue(m, page, a)
             THEN [mem1 EXCEPT ![pte].bits = m[pte].bits \cup {"A"} \cup d] ELSE mem1
  BY DEF WriteBack
<1>4. PdeDue(m, page) <=> "A" \notin m[pde].bits
  BY DEF PdeDue
<1>5. PteDue(m, page, a) <=> ~({"A"} \cup d \subseteq m[pte].bits)
  BY DEF PteDue
<1>6. StampWalk(m, page, a) = (IF PdeDue(m, page) THEN {pde[1]} ELSE {})
                                \cup (IF PteDue(m, page, a) THEN {pte[1]} ELSE {})
  BY DEF StampWalk
<1> HIDE DEF pde, pte, mem2, d
<1>7. /\ mem1 \in [Cell -> Word]
      /\ \A c \in Cell :
           /\ mem1[c].frame = m[c].frame
           /\ mem1[c].bits = m[c].bits \cup (IF c = pde THEN {"A"} ELSE {})
           /\ c # pde \/ ~PdeDue(m, page) => mem1[c] = m[c]
  BY <1>1, <1>4 DEF Word, Bit
<1> HIDE DEF mem1
<1>8. d \subseteq {"A", "D"} /\ d = (IF a.write THEN {"D"} ELSE {})
  BY DEF d
<1>9. /\ mem2 \in [Cell -> Word]
      /\ \A c \in Cell :
           /\ mem2[c].frame = m[c].frame
           /\ mem2[c].bits = m[c].bits \cup (IF c \in {pde, pte} THEN {"A"} ELSE {})
                                       \cup (IF c = pte THEN d ELSE {})
           /\ c # pte \/ ~PteDue(m, page, a) => mem2[c] = mem1[c]
  BY <1>1, <1>3, <1>5, <1>7, <1>8 DEF Word, Bit
<1>10. mem2 = Marked(m, page, a.write)
  <2>1. Marked(m, page, a.write) = [c \in Cell |->
          [m[c] EXCEPT !.bits = @ \cup (IF c \in {pde, pte} THEN {"A"} ELSE {})
                                  \cup (IF a.write /\ c = pte THEN {"D"} ELSE {})]]
    BY DEF Marked, pde, pte
  <2>2. ASSUME NEW c \in Cell
        PROVE  mem2[c] = Marked(m, page, a.write)[c]
    <3> DEFINE bits == m[c].bits \cup (IF c \in {pde, pte} THEN {"A"} ELSE {})
                                 \cup (IF a.write /\ c = pte THEN {"D"} ELSE {})
    <3>1. Marked(m, page, a.write)[c] = [m[c] EXCEPT !.bits = bits]
      BY <2>1
    <3>2. m[c] \in Word /\ mem2[c] \in Word
      BY <1>9
    <3>3. (IF a.write /\ c = pte THEN {"D"} ELSE {}) = (IF c = pte THEN d ELSE {})
      BY <1>2, <1>8
    <3>4. mem2[c].frame = m[c].frame /\ mem2[c].bits = bits
      <4>1. /\ mem2[c].frame = m[c].frame
            /\ mem2[c].bits = m[c].bits \cup (IF c \in {pde, pte} THEN {"A"} ELSE {})
                                        \cup (IF c = pte THEN d ELSE {})
        BY <1>9
      <4> QED
        BY <3>3, <4>1, Zenon
    <3>5. bits \in SUBSET Bit
      BY <3>2 DEF Word, Bit
    <3> HIDE DEF bits
    <3>6. /\ Marked(m, page, a.write)[c] \in Word
          /\ Marked(m, page, a.write)[c].frame = m[c].frame
          /\ Marked(m, page, a.write)[c].bits = bits
      BY <3>1, <3>2, <3>5, WordFacts
    <3> QED
      BY <3>2, <3>4, <3>6, WordEqual
  <2> QED
    BY <1>9, <2>1, <2>2
<1>11. \A c \in Cell : mem2[c] # m[c] => c[1] \in StampWalk(m, page, a)
  <2> SUFFICES ASSUME NEW c \in Cell, mem2[c] # m[c]
               PROVE  c[1] \in StampWalk(m, page, a)
    OBVIOUS
  <2>1. (c = pte /\ PteDue(m, page, a)) \/ (c = pde /\ PdeDue(m, page))
    <3>1. (c # pte \/ ~PteDue(m, page, a)) => mem2[c] = mem1[c]
      BY <1>9
    <3>2. (c # pde \/ ~PdeDue(m, page)) => mem1[c] = m[c]
      BY <1>7
    <3> QED
      BY <3>1, <3>2, Zenon
  <2> QED
    BY <1>6, <2>1
<1> QED
  BY <1>10, <1>11 DEF mem2

-----------------------------------------------------------------------------
(* One translation.                                                        *)

Reported == {Done} \cup [ok : {FALSE}, cr2 : Lin, present : BOOLEAN, write : BOOLEAN, user : BOOLEAN]
MmuState == [mem : [Cell -> Word], tlb : [SlotIndex -> Entry], stamped : SUBSET Pages,
             walked : SUBSET Pages, frames : Seq(Pages), outcome : Reported]

\* The tables in memory m refuse the access (Refuses, over the MMU's memory).
RefusesIn(m, page, a) ==
  LET both == Both(m, cr3, page) IN
  \/ "P" \notin both
  \/ a.user /\ ~({"US"} \cup (IF a.write THEN {"RW"} ELSE {}) \subseteq both)

\* The three ways translate(s, lin, a) ends: a hit, a fault, a walk.
Hits(s, t, page, a) ==
  /\ TlbHit(s.tlb, page, a)
  /\ t.mem = s.mem /\ t.tlb = s.tlb /\ t.stamped = s.stamped /\ t.walked = s.walked
  /\ t.frames = Append(s.frames, s.tlb[Slot(page)].phys)
  /\ t.outcome = s.outcome

Faults(s, t, lin, a) ==
  /\ RefusesIn(s.mem, Page(lin), a)
  /\ t.mem = s.mem /\ t.tlb = s.tlb /\ t.stamped = s.stamped /\ t.walked = s.walked
  /\ t.frames = s.frames
  /\ t.outcome = PF(lin, "P" \in Both(s.mem, cr3, Page(lin)), a)

Walks(s, t, page, a) ==
  /\ ~RefusesIn(s.mem, page, a)
  /\ t.mem = Marked(s.mem, page, a.write)
  /\ t.tlb = [s.tlb EXCEPT ![Slot(page)] = TlbFill(s.mem, page, a)]
  /\ t.stamped = s.stamped \cup StampWalk(s.mem, page, a)
  /\ t.walked = s.walked \cup {page}
  /\ t.frames = Append(s.frames, s.mem[PteCell(s.mem, cr3, page)].frame)
  /\ t.outcome = s.outcome

LEMMA AccessFacts ==
  ASSUME NEW a \in Access
  PROVE  /\ a.lin \in Lin /\ a.width \in Widths /\ a.write \in BOOLEAN /\ a.user \in BOOLEAN
         /\ a.write => a.word \in Word
<1>1. CASE a \in Read
  BY <1>1 DEF Read
<1>2. CASE a \in Write
  <2>1. a.lin \in Lin /\ a.width \in Widths /\ a.write \in BOOLEAN /\ a.user \in BOOLEAN
        /\ a.word \in StoreWord
    BY <1>2 DEF Write
  <2> QED
    BY <2>1, PagingAssumption
<1> QED
  BY <1>1, <1>2 DEF Access

\* Denied is what remains of a refusal when both entries are present.
LEMMA DeniedFacts ==
  ASSUME NEW m, NEW page, NEW a \in Access
  PROVE  RefusesIn(m, page, a)
           <=> "P" \notin Both(m, cr3, page) \/ Denied(Both(m, cr3, page), a)
  BY AccessFacts DEF RefusesIn, Denied

LEMMA FillFacts ==
  ASSUME NEW m \in [Cell -> Word], NEW page \in Pages, NEW a \in Access, cr3 \in Pages
  PROVE  /\ TlbFill(m, page, a) \in Entry
         /\ TlbFill(m, page, a).tag = page
         /\ TlbFill(m, page, a).phys = m[PteCell(m, cr3, page)].frame
         /\ TlbFill(m, page, a).user = ("US" \in Both(m, cr3, page))
         /\ TlbFill(m, page, a).writable = ("RW" \in Both(m, cr3, page))
         /\ TlbFill(m, page, a).dirty = (a.write \/ "D" \in m[PteCell(m, cr3, page)].bits)
<1>1. m[PteCell(m, cr3, page)].frame \in Pages
  BY CellFacts DEF Word
<1> QED
  BY <1>1, AccessFacts DEF TlbFill, Entry

\* translate leaves an MMU state, in one of the three ways.
LEMMA TranslateFacts ==
  ASSUME NEW s \in MmuState, NEW lin \in Lin, NEW a \in Access, cr3 \in Pages,
         NEW t, t = translate(s, lin, a)
  PROVE  /\ t \in MmuState
         /\ \/ Hits(s, t, Page(lin), a)
            \/ Faults(s, t, lin, a)
            \/ Walks(s, t, Page(lin), a)
<1> DEFINE page == Page(lin)
<1>1. page \in Pages /\ Slot(page) \in SlotIndex
  BY PageFacts
<1>2. s.mem \in [Cell -> Word] /\ s.tlb \in [SlotIndex -> Entry] /\ s.frames \in Seq(Pages)
      /\ s.stamped \in SUBSET Pages /\ s.walked \in SUBSET Pages
  BY DEF MmuState
<1>3. s.mem[PteCell(s.mem, cr3, page)].frame \in Pages
  BY <1>1, <1>2, CellFacts DEF Word
<1> HIDE DEF page
<1>4. CASE TlbHit(s.tlb, page, a)
  <2>1. t = [s EXCEPT !.frames = Append(s.frames, s.tlb[Slot(page)].phys)]
    BY <1>4 DEF translate, page
  <2>2. s.tlb[Slot(page)].phys \in Pages
    BY <1>1, <1>2 DEF Entry
  <2>3. Append(s.frames, s.tlb[Slot(page)].phys) \in Seq(Pages)
    BY <1>2, <2>2
  <2> QED
    BY <1>4, <2>1, <2>3 DEF MmuState, Hits, page
<1>5. CASE ~TlbHit(s.tlb, page, a) /\ RefusesIn(s.mem, page, a)
  <2> DEFINE pf == PF(lin, "P" \in Both(s.mem, cr3, page), a)
  <2>1. t = walk(s, lin, a)
    BY <1>5 DEF translate, page
  <2>2. t = [s EXCEPT !.outcome = pf]
    <3>1. CASE "P" \notin Both(s.mem, cr3, page)
      <4>1. t = [s EXCEPT !.outcome = PF(lin, FALSE, a)]
        BY <2>1, <3>1 DEF walk, page
      <4>2. ("P" \in Both(s.mem, cr3, page)) = FALSE
        BY <3>1
      <4> QED
        BY <4>1, <4>2
    <3>2. CASE "P" \in Both(s.mem, cr3, page)
      <4>1. Denied(Both(s.mem, cr3, page), a)
        BY <1>5, <3>2, DeniedFacts
      <4>2. t = [s EXCEPT !.outcome = PF(lin, TRUE, a)]
        BY <2>1, <3>2, <4>1 DEF walk, page
      <4> QED
        BY <3>2, <4>2 DEF PF
    <3> QED
      BY <3>1, <3>2
  <2>3. pf \in Reported
    BY AccessFacts DEF PF, Reported
  <2> HIDE DEF pf
  <2>4. /\ t \in MmuState
        /\ t.mem = s.mem /\ t.tlb = s.tlb /\ t.stamped = s.stamped /\ t.walked = s.walked
        /\ t.frames = s.frames /\ t.outcome = pf
    BY <2>2, <2>3 DEF MmuState
  <2> QED
    BY <1>5, <2>4 DEF Faults, pf, page
<1>6. CASE ~TlbHit(s.tlb, page, a) /\ ~RefusesIn(s.mem, page, a)
  <2> DEFINE m2 == WriteBack(s.mem, page, a)
             st2 == s.stamped \cup StampWalk(s.mem, page, a)
             w2 == s.walked \cup {page}
             f2 == Append(s.frames, s.mem[PteCell(s.mem, cr3, page)].frame)
             t2 == [s.tlb EXCEPT ![Slot(page)] = TlbFill(s.mem, page, a)]
  <2>1. t = walk(s, lin, a) /\ "P" \in Both(s.mem, cr3, page) /\ ~Denied(Both(s.mem, cr3, page), a)
    BY <1>6, DeniedFacts DEF translate, page
  <2>2. t = [s EXCEPT !.mem = m2, !.stamped = st2, !.walked = w2, !.frames = f2,
                      !.tlb[Slot(page)] = TlbFill(s.mem, page, a)]
    BY <2>1 DEF walk, page
  <2>3. m2 = Marked(s.mem, page, a.write) /\ m2 \in [Cell -> Word]
    BY <1>1, <1>2, AccessFacts, WriteBackFacts, MarkedFacts
  <2>4. w2 \in SUBSET Pages /\ f2 \in Seq(Pages)
    BY <1>1, <1>2, <1>3
  <2>5. st2 \in SUBSET Pages
    <3>1. PdeCell(cr3, page) \in Cell /\ PteCell(s.mem, cr3, page) \in Cell
      BY <1>1, <1>2, CellFacts
    <3>2. PdeCell(cr3, page)[1] \in Pages /\ PteCell(s.mem, cr3, page)[1] \in Pages
      BY <3>1 DEF Cell
    <3> QED
      BY <1>2, <3>2 DEF StampWalk
  <2>6. t2 \in [SlotIndex -> Entry]
    BY <1>1, <1>2, FillFacts
  <2>7. t = [s EXCEPT !.mem = m2, !.stamped = st2, !.walked = w2, !.frames = f2, !.tlb = t2]
    BY <2>2
  <2> HIDE DEF m2, st2, w2, f2, t2
  <2>8. /\ t \in MmuState
        /\ t.mem = m2 /\ t.stamped = st2 /\ t.walked = w2 /\ t.frames = f2 /\ t.tlb = t2
        /\ t.outcome = s.outcome
    BY <2>3, <2>4, <2>5, <2>6, <2>7 DEF MmuState
  <2> QED
    BY <1>6, <2>3, <2>8 DEF Walks, m2, st2, w2, f2, t2, page
<1> QED
  BY <1>4, <1>5, <1>6

-----------------------------------------------------------------------------
(* The MMU inside an access.                                               *)

\* What the translations of one access keep: only accessed and dirty bits are
\* written, their pages are stamped, and every cached page that was not edited,
\* or was walked just now, agrees with the tables.
MmuInv(s) ==
  /\ s \in MmuState
  /\ ADOnly(mem, s.mem)
  /\ \A c \in Cell : s.mem[c] # mem[c] => c[1] \in s.stamped
  /\ \A page \in Cached(s.tlb) :
       page \notin edited \/ page \in s.walked => Agrees(s.tlb[Slot(page)], s.mem, cr3, page)

\* TlbCoherent, said with Agrees: the probe adds nothing to it.
LEMMA CoherentFacts ==
  TlbCoherent <=> \A page \in Cached(tlb) \ edited : Agrees(tlb[Slot(page)], mem, cr3, page)
<1>1. ASSUME NEW page \in Cached(tlb), Agrees(tlb[Slot(page)], mem, cr3, page), peek(page, TRUE)
      PROVE  "US" \in mem[PdeCell(cr3, page)].bits \cap mem[PteCell(mem, cr3, page)].bits
  BY <1>1 DEF Agrees, peek
<1> QED
  BY <1>1 DEF TlbCoherent, Agrees

LEMMA MmuStart ==
  ASSUME IInv
  PROVE  MmuInv(MMU)
<1>1. MMU \in MmuState
  BY DEF IInv, TypeOK, MMU, MmuState, Reported
<1>2. /\ MMU.mem = mem /\ MMU.tlb = tlb /\ MMU.walked = {}
  BY DEF MMU
<1> QED
  BY <1>1, <1>2, CoherentFacts DEF MmuInv, ADOnly, IInv

LEMMA MmuStep ==
  ASSUME TypeOK, NEW s, MmuInv(s), NEW lin \in Lin, NEW a \in Access
  PROVE  MmuInv(translate(s, lin, a))
<1> DEFINE t == translate(s, lin, a)
           p == Page(lin)
<1>1. s \in MmuState /\ cr3 \in Pages /\ p \in Pages /\ a.write \in BOOLEAN
      /\ s.mem \in [Cell -> Word] /\ s.tlb \in [SlotIndex -> Entry] /\ mem \in [Cell -> Word]
  BY PageFacts, AccessFacts DEF MmuInv, MmuState, TypeOK
<1>2. t \in MmuState /\ (Hits(s, t, p, a) \/ Faults(s, t, lin, a) \/ Walks(s, t, p, a))
  BY <1>1, TranslateFacts
<1> HIDE DEF t, p
<1>3. CASE Hits(s, t, p, a) \/ Faults(s, t, lin, a)
  <2>1. t.mem = s.mem /\ t.tlb = s.tlb /\ t.stamped = s.stamped /\ t.walked = s.walked
    BY <1>3 DEF Hits, Faults
  <2> QED
    BY <1>2, <2>1 DEF MmuInv, t
<1>4. CASE Walks(s, t, p, a)
  <2>1. /\ t.mem = WriteBack(s.mem, p, a) /\ t.mem = Marked(s.mem, p, a.write)
        /\ t.tlb = [s.tlb EXCEPT ![Slot(p)] = TlbFill(s.mem, p, a)]
        /\ t.stamped = s.stamped \cup StampWalk(s.mem, p, a)
        /\ t.walked = s.walked \cup {p}
        /\ ~RefusesIn(s.mem, p, a)
    BY <1>1, <1>4, WriteBackFacts DEF Walks
  <2>2. t.mem \in [Cell -> Word] /\ ADOnly(s.mem, t.mem)
    BY <1>1, <2>1, MarkedFacts
  <2>3. ADOnly(mem, t.mem)
    BY <2>2, ADTransitive DEF MmuInv
  <2>4. ASSUME NEW c \in Cell, t.mem[c] # mem[c]
        PROVE  c[1] \in t.stamped
    <3>1. CASE s.mem[c] # mem[c]
      BY <2>1, <3>1 DEF MmuInv
    <3>2. CASE s.mem[c] = mem[c]
      <4>1. WriteBack(s.mem, p, a)[c] # s.mem[c]
        BY <2>1, <2>4, <3>2
      <4>2. c[1] \in StampWalk(s.mem, p, a)
        BY <1>1, <4>1, WriteBackFacts
      <4> QED
        BY <2>1, <4>2
    <3> QED
      BY <3>1, <3>2
  <2>5. Agrees(TlbFill(s.mem, p, a), t.mem, cr3, p)
    <3> DEFINE e == TlbFill(s.mem, p, a)
               pde == PdeCell(cr3, p)
               pte == PteCell(s.mem, cr3, p)
    <3>1. /\ e.phys = s.mem[pte].frame
          /\ e.user = ("US" \in Both(s.mem, cr3, p))
          /\ e.writable = ("RW" \in Both(s.mem, cr3, p))
          /\ e.dirty = (a.write \/ "D" \in s.mem[pte].bits)
      BY <1>1, FillFacts
    <3>2. /\ PteCell(t.mem, cr3, p) = pte /\ t.mem[pte].frame = s.mem[pte].frame
          /\ \A b \in {"P", "US", "RW"} : b \in Both(t.mem, cr3, p) <=> b \in Both(s.mem, cr3, p)
      BY <1>1, <2>2, ADFacts
    <3>3. "P" \in Both(s.mem, cr3, p)
      BY <2>1 DEF RefusesIn
    <3>4. pde \in Cell /\ pte \in Cell /\ s.mem[pde] \in Word /\ s.mem[pte] \in Word
      BY <1>1, CellFacts
    <3>5. /\ t.mem[pde] = [s.mem[pde] EXCEPT !.bits = @ \cup (IF pde \in {pde, pte} THEN {"A"} ELSE {})
                                                 \cup (IF a.write /\ pde = pte THEN {"D"} ELSE {})]
          /\ t.mem[pte] = [s.mem[pte] EXCEPT !.bits = @ \cup (IF pte \in {pde, pte} THEN {"A"} ELSE {})
                                                 \cup (IF a.write /\ pte = pte THEN {"D"} ELSE {})]
      BY <2>1, <3>4 DEF Marked
    <3> HIDE DEF e, pde, pte
    <3>6. "A" \in t.mem[pde].bits
      BY <3>4, <3>5 DEF Word
    <3>7. "A" \in t.mem[pte].bits /\ (a.write => "D" \in t.mem[pte].bits)
          /\ ("D" \in s.mem[pte].bits => "D" \in t.mem[pte].bits)
      BY <3>4, <3>5 DEF Word
    <3>8. Both(t.mem, cr3, p) = t.mem[pde].bits \cap t.mem[pte].bits
      BY <3>2 DEF Both, pde, pte
    <3>9. /\ e.phys = t.mem[pte].frame
          /\ {"P", "A"} \subseteq t.mem[pde].bits \cap t.mem[pte].bits
          /\ e.user = ("US" \in t.mem[pde].bits \cap t.mem[pte].bits)
          /\ e.writable = ("RW" \in t.mem[pde].bits \cap t.mem[pte].bits)
          /\ e.dirty => "D" \in t.mem[pte].bits
      <4>1. e.phys = t.mem[pte].frame /\ (e.dirty => "D" \in t.mem[pte].bits)
        BY <3>1, <3>2, <3>7
      <4>2. {"P", "A"} \subseteq t.mem[pde].bits \cap t.mem[pte].bits
        BY <3>2, <3>3, <3>6, <3>7, <3>8
      <4>3. ("US" \in Both(s.mem, cr3, p)) = ("US" \in Both(t.mem, cr3, p))
            /\ ("RW" \in Both(s.mem, cr3, p)) = ("RW" \in Both(t.mem, cr3, p))
        BY <3>2
      <4> QED
        BY <3>1, <3>8, <4>1, <4>2, <4>3, Zenon
    <3> QED
      BY <3>2, <3>9 DEF Agrees, e, pde, pte
  <2>6. ASSUME NEW page \in Cached(t.tlb), page \notin edited \/ page \in t.walked
        PROVE  Agrees(t.tlb[Slot(page)], t.mem, cr3, page)
    <3>1. page \in Pages /\ Slot(page) \in SlotIndex /\ Slot(p) \in SlotIndex
          /\ t.tlb[Slot(page)].tag = page
      BY <1>1, PageFacts DEF Cached
    <3>2. CASE page = p
      <4>1. t.tlb[Slot(page)] = TlbFill(s.mem, p, a)
        BY <1>1, <2>1, <3>1, <3>2
      <4> QED
        BY <2>5, <3>2, <4>1
    <3>3. CASE page # p
      <4>1. Slot(page) # Slot(p)
        <5> SUFFICES ASSUME Slot(page) = Slot(p) PROVE FALSE
          OBVIOUS
        <5>1. t.tlb[Slot(page)] = TlbFill(s.mem, p, a)
          BY <1>1, <2>1, <3>1
        <5>2. TlbFill(s.mem, p, a).tag = p
          BY <1>1, FillFacts
        <5> QED
          BY <3>1, <3>3, <5>1, <5>2
      <4>2. t.tlb[Slot(page)] = s.tlb[Slot(page)]
        BY <1>1, <2>1, <3>1, <4>1
      <4>3. page \in Cached(s.tlb) /\ (page \notin edited \/ page \in s.walked)
        BY <2>1, <2>6, <3>1, <3>3, <4>2 DEF Cached
      <4>4. Agrees(s.tlb[Slot(page)], s.mem, cr3, page)
        BY <4>3 DEF MmuInv
      <4>5. PathKept(s.mem, cr3, t.mem, cr3, page)
        BY <1>1, <2>2, <3>1, ADFacts
      <4> QED
        BY <1>1, <2>2, <3>1, <4>2, <4>4, <4>5, PathAgrees
    <3> QED
      BY <3>2, <3>3
  <2> QED
    BY <1>2, <2>3, <2>4, <2>6 DEF MmuInv, t
<1> QED
  BY <1>2, <1>3, <1>4 DEF t

\* Both translations of an access, the second one skipped or not.
LEMMA TranslatedInv ==
  ASSUME IInv, NEW a \in Access
  PROVE  MmuInv(Translated(a))
<1>1. TypeOK /\ a.lin \in Lin /\ LastPage(a) \in Pages /\ FirstPage(a) \in Pages
  BY AccessFacts, NoCrossFacts DEF IInv
<1>2. LastPage(a) * PageCells \in Lin
  BY <1>1, PageStart
<1>3. MmuInv(MMU)
  BY MmuStart
<1>4. CASE ~pg
  <2>1. Translated(a) = [MMU EXCEPT !.frames = <<FirstPage(a), LastPage(a)>>]
    BY <1>4 DEF Translated
  <2>2. <<FirstPage(a), LastPage(a)>> \in Seq(Pages)
    BY <1>1
  <2>3. MMU \in MmuState
    BY <1>3 DEF MmuInv
  <2>4. /\ Translated(a) \in MmuState
        /\ Translated(a).mem = MMU.mem /\ Translated(a).tlb = MMU.tlb
        /\ Translated(a).stamped = MMU.stamped /\ Translated(a).walked = MMU.walked
    BY <2>1, <2>2, <2>3 DEF MmuState
  <2> QED
    BY <1>3, <2>4 DEF MmuInv
<1>5. CASE pg
  <2>1. MmuInv(translate(MMU, a.lin, a))
    BY <1>1, <1>3, MmuStep
  <2>2. MmuInv(translate(translate(MMU, a.lin, a), LastPage(a) * PageCells, a))
    BY <1>1, <1>2, <2>1, MmuStep
  <2> QED
    BY <1>5, <2>1, <2>2 DEF Translated
<1> QED
  BY <1>4, <1>5

-----------------------------------------------------------------------------
(* The data of an access.                                                  *)

\* What Outcome adds to the translations: nothing unless it is a write that was
\* let through; then the word, in stamped pages.
LEMMA OutcomeFacts ==
  ASSUME IInv, NEW a \in Access
  PROVE  LET s == Translated(a)
             o == Outcome(a)
         IN  /\ MmuInv(s) /\ s.mem \in [Cell -> Word] /\ o.mem \in [Cell -> Word]
             /\ ~s.outcome.ok \/ ~a.write => o = s
             /\ s.outcome.ok /\ a.write =>
                  /\ o.stamped = s.stamped \cup {c[1] : c \in StoredCells(a, s.frames)}
                  /\ o.mem = [c \in Cell |-> IF c \in StoredCells(a, s.frames) THEN a.word ELSE s.mem[c]]
             /\ o.tlb = s.tlb /\ o.walked = s.walked /\ o.outcome = s.outcome
<1> DEFINE s == Translated(a)
           o == Outcome(a)
<1> DEFINE cells == StoredCells(a, s.frames)
<1>1. MmuInv(s) /\ s \in MmuState /\ s.mem \in [Cell -> Word]
  BY TranslatedInv DEF MmuInv, MmuState
<1>4. o = IF ~s.outcome.ok \/ ~a.write THEN s
          ELSE [s EXCEPT
                 !.stamped = s.stamped \cup {c[1] : c \in cells},
                 !.mem = [c \in Cell |-> IF c \in cells THEN a.word ELSE s.mem[c]]]
  BY DEF Outcome
<1> HIDE DEF s, o
<1>2. CASE ~s.outcome.ok \/ ~a.write
  <2>1. o = s
    BY <1>2, <1>4
  <2> QED
    BY <1>1, <1>2, <2>1 DEF s, o
<1>3. CASE s.outcome.ok /\ a.write
  <2> DEFINE st2 == s.stamped \cup {c[1] : c \in cells}
             m2 == [c \in Cell |-> IF c \in cells THEN a.word ELSE s.mem[c]]
  <2>1. o = [s EXCEPT !.stamped = st2, !.mem = m2]
    BY <1>3, <1>4
  <2>2. m2 \in [Cell -> Word]
    BY <1>1, <1>3, AccessFacts
  <2> HIDE DEF st2, m2
  <2>3. o.stamped = st2 /\ o.mem = m2 /\ o.tlb = s.tlb /\ o.walked = s.walked /\ o.outcome = s.outcome
    BY <1>1, <2>1 DEF MmuState
  <2> QED
    BY <1>1, <1>3, <2>2, <2>3 DEF st2, m2, s, o
<1> QED
  BY <1>2, <1>3 DEF s, o

-----------------------------------------------------------------------------
(* The invariant.                                                          *)

LEMMA FlushInv ==
  ASSUME TypeOK, flush
  PROVE  tlb' \in [SlotIndex -> Entry] /\ edited' \subseteq Pages /\ Cached(tlb') = {}
<1>1. ASSUME NEW slot \in SlotIndex
      PROVE  [tlb[slot] EXCEPT !.tag = EMPTY] \in Entry
             /\ [tlb[slot] EXCEPT !.tag = EMPTY].tag = EMPTY
  BY DEF TypeOK, Entry
<1>2. tlb' \in [SlotIndex -> Entry] /\ \A slot \in SlotIndex : tlb'[slot].tag = EMPTY
  BY <1>1 DEF flush
<1>3. Cached(tlb') = {}
  BY <1>2, PageFacts, NPagesPositive DEF Cached
<1> QED
  BY <1>2, <1>3 DEF flush

LEMMA InitInv == Init => IInv
<1> SUFFICES ASSUME Init PROVE IInv
  OBVIOUS
<1>1. EmptyEntry \in Entry /\ EmptyEntry.tag = EMPTY
  BY NPagesPositive DEF EmptyEntry, Entry
<1>2. tlb \in [SlotIndex -> Entry] /\ \A slot \in SlotIndex : tlb[slot].tag = EMPTY
  BY <1>1 DEF Init, EmptyTlb
<1>3. mem \in [Cell -> Word] /\ cr3 \in Pages /\ stores \in 0 .. MaxStores
  BY NPagesPositive, PagingAssumption DEF Init
<1>4. TypeOK
  BY <1>2, <1>3 DEF Init, TypeOK
<1>5. Cached(tlb) = {}
  BY <1>2, PageFacts, NPagesPositive DEF Cached
<1> QED
  BY <1>4, <1>5, CoherentFacts DEF IInv

\* The primed form of CoherentFacts.
LEMMA CoherentFactsPrime ==
  TlbCoherent' <=> \A page \in Cached(tlb') \ edited' : Agrees(tlb'[Slot(page)], mem', cr3', page)
<1>1. ASSUME NEW page \in Cached(tlb'), Agrees(tlb'[Slot(page)], mem', cr3', page), peek(page, TRUE)'
      PROVE  "US" \in mem'[PdeCell(cr3', page)].bits \cap mem'[PteCell(mem', cr3', page)].bits
  BY <1>1 DEF Agrees, peek
<1> QED
  BY <1>1 DEF TlbCoherent, Agrees

LEMMA AccessInv ==
  ASSUME IInv, NEW a \in Access, DoAccess(a)
  PROVE  IInv'
<1> DEFINE s == Translated(a)
           o == Outcome(a)
<1>1. /\ mem' = o.mem /\ tlb' = o.tlb /\ cr3' = cr3 /\ pg' = pg
      /\ edited' = {page \in Cached(tlb') :
                      page \in edited \ o.walked \/ ~PathKept(s.mem, cr3, mem', cr3, page)}
      /\ stores' = (IF a.write THEN stores + 1 ELSE stores)
      /\ a.write => stores < MaxStores
  BY DEF DoAccess
<1>2. /\ MmuInv(s) /\ s.mem \in [Cell -> Word] /\ o.mem \in [Cell -> Word]
      /\ o.tlb = s.tlb /\ o.walked = s.walked
  BY OutcomeFacts
<1>3. s.tlb \in [SlotIndex -> Entry]
  BY <1>2 DEF MmuInv, MmuState
<1> HIDE DEF s, o
<1>4. stores' \in 0 .. MaxStores
  BY <1>1, PagingAssumption DEF IInv, TypeOK
<1>5. edited' \subseteq Pages
  BY <1>1 DEF Cached
<1>6. TypeOK'
  BY <1>1, <1>2, <1>3, <1>4, <1>5 DEF IInv, TypeOK
<1>7. ASSUME NEW page \in Cached(tlb') \ edited'
      PROVE  Agrees(tlb'[Slot(page)], mem', cr3', page)
  <2>1. page \in Pages /\ page \in Cached(s.tlb)
    BY <1>1, <1>2 DEF Cached
  <2>2. (page \notin edited \/ page \in s.walked) /\ PathKept(s.mem, cr3, mem', cr3, page)
    BY <1>1, <1>2, <1>7
  <2>3. Agrees(s.tlb[Slot(page)], s.mem, cr3, page)
    BY <1>2, <2>1, <2>2 DEF MmuInv
  <2>4. Agrees(s.tlb[Slot(page)], mem', cr3, page)
    BY <1>1, <1>2, <2>1, <2>2, <2>3, PathAgrees DEF IInv, TypeOK
  <2> QED
    BY <1>1, <1>2, <2>4
<1> QED
  BY <1>6, <1>7, CoherentFactsPrime DEF IInv

\* A host change of the tables or of CR3 disagrees only with entries it edits.
LEMMA HostInv ==
  ASSUME IInv, NEW m2 \in [Cell -> Word], NEW c2 \in Pages, NEW on \in BOOLEAN,
         HostChange(m2, c2, on), stores' \in 0 .. MaxStores
  PROVE  IInv'
<1>1. /\ mem' = m2 /\ cr3' = c2 /\ pg' = on /\ tlb' = tlb
      /\ edited' = edited \cup {page \in Cached(tlb) : ~PathKept(mem, cr3, m2, c2, page)}
  BY DEF HostChange
<1>2. TypeOK'
  BY <1>1 DEF IInv, TypeOK, Cached
<1>3. ASSUME NEW page \in Cached(tlb') \ edited'
      PROVE  Agrees(tlb'[Slot(page)], mem', cr3', page)
  <2>1. page \in Pages /\ page \in Cached(tlb) \ edited /\ PathKept(mem, cr3, m2, c2, page)
    BY <1>1, <1>3 DEF Cached
  <2>2. Agrees(tlb[Slot(page)], mem, cr3, page)
    BY <2>1, CoherentFacts DEF IInv
  <2> QED
    BY <1>1, <2>1, <2>2, PathAgrees DEF IInv, TypeOK
<1> QED
  BY <1>2, <1>3, CoherentFactsPrime DEF IInv

LEMMA StepInv == IInv /\ [Next]_vars => IInv'
<1> SUFFICES ASSUME IInv, [Next]_vars PROVE IInv'
  OBVIOUS
<1>1. TypeOK
  BY DEF IInv
<1>2. ASSUME flush, mem' = mem, cr3' \in Pages, pg' \in BOOLEAN, stores' = stores
      PROVE  IInv'
  <2>1. TypeOK' /\ Cached(tlb') = {}
    BY <1>1, <1>2, FlushInv DEF TypeOK
  <2> QED
    BY <2>1, CoherentFactsPrime DEF IInv
<1>3. CASE \E a \in Access : DoAccess(a)
  BY <1>3, AccessInv
<1>4. CASE \E page \in Directories : MovCr3(page)
  BY <1>1, <1>2, <1>4, PagingAssumption DEF MovCr3, TypeOK
<1>5. CASE \E on \in BOOLEAN : MovCr0(on)
  BY <1>1, <1>2, <1>5 DEF MovCr0, TypeOK
<1>6. CASE \E page \in Directories, on \in BOOLEAN : HostSetCr(page, on)
  BY <1>1, <1>6, HostInv, PagingAssumption DEF HostSetCr, TypeOK
<1>7. ASSUME NEW cell \in Cell, NEW word \in StoreWord, HostPoke(cell, word)
      PROVE  IInv'
  <2>1. word \in Word
    BY PagingAssumption
  <2>2. [mem EXCEPT ![cell] = word] \in [Cell -> Word]
    BY <1>1, <2>1 DEF TypeOK
  <2>3. stores' \in 0 .. MaxStores
    BY <1>1, <1>7, PagingAssumption DEF HostPoke, TypeOK
  <2> QED
    BY <1>1, <1>7, <2>2, <2>3, HostInv DEF HostPoke, TypeOK
<1>8. CASE InvalidateTlb \/ Reset
  BY <1>1, <1>2, <1>8, NPagesPositive DEF InvalidateTlb, Reset, TypeOK
<1>9. CASE UNCHANGED vars
  <2>1. TypeOK'
    BY <1>1, <1>9 DEF vars, TypeOK
  <2>2. TlbCoherent'
    BY <1>9, CoherentFacts, CoherentFactsPrime DEF vars, IInv
  <2> QED
    BY <2>1, <2>2 DEF IInv
<1> QED
  BY <1>3, <1>4, <1>5, <1>6, <1>7, <1>8, <1>9 DEF Next

\* Types and coherence hold in every reachable state.
THEOREM Invariance == Spec => []IInv
<1> QED
  BY InitInv, StepInv, PTL DEF Spec

\* A cached translation says what the tables say until someone edits them: the
\* accessed and dirty write-backs of walks, also of walks through tables that
\* map themselves, never disturb one (walk, translate, flush).
THEOREM Coherent == Spec => []TlbCoherent
<1> QED
  BY Invariance, PTL DEF IInv

\* A faulting access leaves every word as it was but for accessed and dirty bits
\* set, whatever the TLB held (Outcome of lin_read and lin_write).
THEOREM FaultHarmless == Spec => []FaultKeepsData
<1>1. IInv => FaultKeepsData
  <2> SUFFICES ASSUME IInv, NEW a \in Access, ~Outcome(a).outcome.ok
               PROVE  ADOnly(mem, Outcome(a).mem)
    BY DEF FaultKeepsData, ADOnly
  <2>1. Outcome(a) = Translated(a) /\ MmuInv(Translated(a))
    BY OutcomeFacts
  <2> QED
    BY <2>1 DEF MmuInv
<1> QED
  BY <1>1, Invariance, PTL

\* Every page an access changes is stamped, so code decoded from it dies (walk,
\* lin_write).
THEOREM ChangesStamped == Spec => []ChangesAreStamped
<1>1. IInv => ChangesAreStamped
  <2> SUFFICES ASSUME IInv, NEW a \in Access, NEW c \in Cell, Outcome(a).mem[c] # mem[c]
               PROVE  c[1] \in Outcome(a).stamped
    BY DEF ChangesAreStamped
  <2> DEFINE s == Translated(a)
             o == Outcome(a)
  <2>1. MmuInv(s)
    BY OutcomeFacts
  <2>2. CASE ~s.outcome.ok \/ ~a.write
    <3>1. o = s
      BY <2>2, OutcomeFacts
    <3> QED
      BY <2>1, <3>1 DEF MmuInv
  <2>3. CASE s.outcome.ok /\ a.write
    <3>1. /\ o.stamped = s.stamped \cup {d[1] : d \in StoredCells(a, s.frames)}
          /\ o.mem = [d \in Cell |-> IF d \in StoredCells(a, s.frames) THEN a.word ELSE s.mem[d]]
      BY <2>3, OutcomeFacts
    <3>2. CASE c \in StoredCells(a, s.frames)
      BY <3>1, <3>2
    <3>3. CASE c \notin StoredCells(a, s.frames)
      <4>1. s.mem[c] # mem[c]
        BY <3>1, <3>3
      <4> QED
        BY <2>1, <3>1, <4>1 DEF MmuInv
    <3> QED
      BY <3>2, <3>3
  <2> QED
    BY <2>2, <2>3
<1> QED
  BY <1>1, Invariance, PTL

-----------------------------------------------------------------------------
(* The TLB is invisible.                                                   *)

\* Memories with the same frames and bits are the same.
LEMMA MemEqual ==
  ASSUME NEW m \in [Cell -> Word], NEW m2 \in [Cell -> Word],
         \A c \in Cell : m[c].frame = m2[c].frame /\ m[c].bits = m2[c].bits
  PROVE  m = m2
<1>1. \A c \in Cell : m[c] = m2[c]
  BY WordEqual
<1> QED
  BY <1>1

\* The bits a walk of `page` sets in cell c of m.
MarkOf(m, page, w, c) ==
  (IF c \in {PdeCell(cr3, page), PteCell(m, cr3, page)} THEN {"A"} ELSE {})
    \cup (IF w /\ c = PteCell(m, cr3, page) THEN {"D"} ELSE {})

LEMMA MarkedBits ==
  ASSUME NEW m \in [Cell -> Word], NEW page \in Pages, NEW w \in BOOLEAN, NEW c \in Cell
  PROVE  /\ Marked(m, page, w)[c].frame = m[c].frame
         /\ Marked(m, page, w)[c].bits = m[c].bits \cup MarkOf(m, page, w, c)
<1>1. Marked(m, page, w)[c] = [m[c] EXCEPT !.bits = m[c].bits \cup MarkOf(m, page, w, c)]
  BY DEF Marked, MarkOf
<1>2. MarkOf(m, page, w, c) \subseteq Bit
  BY DEF MarkOf, Bit
<1>3. m[c] \in Word /\ m[c].bits \cup MarkOf(m, page, w, c) \in SUBSET Bit
  BY <1>2 DEF Word
<1> QED
  BY <1>1, <1>3, WordFacts

\* The reference's write-backs, one cell at a time.
LEMMA TouchedBits ==
  ASSUME TypeOK, NEW a \in Access
  PROVE  /\ Touched(a) \in [Cell -> Word]
         /\ \A c \in Cell :
              /\ Touched(a)[c].frame = mem[c].frame
              /\ Touched(a)[c].bits =
                   mem[c].bits \cup UNION {MarkOf(mem, page, a.write, c) : page \in Reached(a)}
<1> DEFINE marks(c) == UNION {MarkOf(mem, page, a.write, c) : page \in Reached(a)}
           pdes == {PdeCell(cr3, page) : page \in Reached(a)}
           ptes == {PteCell(mem, cr3, page) : page \in Reached(a)}
           set(c) == (IF c \in pdes \cup ptes THEN {"A"} ELSE {})
                       \cup (IF a.write /\ c \in ptes THEN {"D"} ELSE {})
<1>1. Touched(a) = [c \in Cell |->
        [mem[c] EXCEPT !.bits = @ \cup (IF c \in pdes \cup ptes THEN {"A"} ELSE {})
                                  \cup (IF a.write /\ c \in ptes THEN {"D"} ELSE {})]]
  BY DEF Touched
<1>2. ASSUME NEW c \in Cell
      PROVE  set(c) = marks(c) /\ marks(c) \subseteq Bit
  <2>1. "A" \in set(c) <=> "A" \in marks(c)
    BY DEF MarkOf
  <2>2. "D" \in set(c) <=> "D" \in marks(c)
    BY DEF MarkOf
  <2>3. set(c) \subseteq {"A", "D"}
    OBVIOUS
  <2>4. marks(c) \subseteq {"A", "D"}
    BY DEF MarkOf
  <2> HIDE DEF set, marks
  <2> QED
    BY <2>1, <2>2, <2>3, <2>4 DEF Bit
<1>3. ASSUME NEW c \in Cell
      PROVE  /\ Touched(a)[c] \in Word
             /\ Touched(a)[c].frame = mem[c].frame
             /\ Touched(a)[c].bits = mem[c].bits \cup marks(c)
  <2>1. Touched(a)[c] = [mem[c] EXCEPT !.bits =
          mem[c].bits \cup (IF c \in pdes \cup ptes THEN {"A"} ELSE {})
                      \cup (IF a.write /\ c \in ptes THEN {"D"} ELSE {})]
    BY <1>1
  <2>2. mem[c].bits \cup (IF c \in pdes \cup ptes THEN {"A"} ELSE {})
                    \cup (IF a.write /\ c \in ptes THEN {"D"} ELSE {}) = mem[c].bits \cup set(c)
    OBVIOUS
  <2>3. Touched(a)[c] = [mem[c] EXCEPT !.bits = mem[c].bits \cup marks(c)]
    BY <1>2, <2>1, <2>2
  <2> HIDE DEF marks
  <2>4. mem[c] \in Word /\ mem[c].bits \cup marks(c) \in SUBSET Bit
    BY <1>2 DEF TypeOK, Word
  <2> QED
    BY <2>3, <2>4, WordFacts
<1> HIDE DEF marks
<1>4. Touched(a) \in [Cell -> Word]
  BY <1>1, <1>3
<1> QED
  BY <1>3, <1>4 DEF marks

\* The reference's write-backs as walks' write-backs: of no page, one, or two.
LEMMA TouchedFacts ==
  ASSUME TypeOK, NEW a \in Access
  PROVE  /\ Reached(a) = {} => Touched(a) = mem
         /\ \A p \in Pages : Reached(a) = {p} => Touched(a) = Marked(mem, p, a.write)
         /\ \A p, q \in Pages :
              Reached(a) = {p, q} => Touched(a) = Marked(Marked(mem, p, a.write), q, a.write)
<1>1. mem \in [Cell -> Word] /\ a.write \in BOOLEAN /\ cr3 \in Pages
  BY AccessFacts DEF TypeOK
<1>2. ASSUME Reached(a) = {}
      PROVE  Touched(a) = mem
  <2>1. ASSUME NEW c \in Cell
        PROVE  Touched(a)[c].frame = mem[c].frame /\ Touched(a)[c].bits = mem[c].bits
    <3>1. mem[c].bits \cup UNION {MarkOf(mem, page, a.write, c) : page \in {}} = mem[c].bits
      OBVIOUS
    <3> QED
      BY <1>2, <3>1, TouchedBits
  <2> QED
    BY <1>1, <2>1, TouchedBits, MemEqual
<1>3. ASSUME NEW p \in Pages, Reached(a) = {p}
      PROVE  Touched(a) = Marked(mem, p, a.write)
  <2>1. ASSUME NEW c \in Cell
        PROVE  /\ Touched(a)[c].frame = Marked(mem, p, a.write)[c].frame
               /\ Touched(a)[c].bits = Marked(mem, p, a.write)[c].bits
    <3>1. Touched(a)[c].frame = mem[c].frame
          /\ Touched(a)[c].bits = mem[c].bits \cup MarkOf(mem, p, a.write, c)
      <4>1. UNION {MarkOf(mem, page, a.write, c) : page \in {p}} = MarkOf(mem, p, a.write, c)
        OBVIOUS
      <4> QED
        BY <1>3, <4>1, TouchedBits
    <3> QED
      BY <1>1, <3>1, MarkedBits
  <2>2. Marked(mem, p, a.write) \in [Cell -> Word]
    BY <1>1, MarkedFacts
  <2> QED
    BY <2>1, <2>2, TouchedBits, MemEqual
<1>4. ASSUME NEW p \in Pages, NEW q \in Pages, Reached(a) = {p, q}
      PROVE  Touched(a) = Marked(Marked(mem, p, a.write), q, a.write)
  <2> DEFINE m1 == Marked(mem, p, a.write)
             m2 == Marked(m1, q, a.write)
  <2>1. m1 \in [Cell -> Word] /\ ADOnly(mem, m1)
    BY <1>1, MarkedFacts
  <2>2. ASSUME NEW c \in Cell
        PROVE  m1[c].frame = mem[c].frame /\ m1[c].bits = mem[c].bits \cup MarkOf(mem, p, a.write, c)
    BY <1>1, MarkedBits
  <2> HIDE DEF m1
  <2>3. m2 \in [Cell -> Word]
    BY <1>1, <2>1, MarkedFacts
  <2>4. PteCell(m1, cr3, q) = PteCell(mem, cr3, q)
    BY <1>1, <2>1, ADFacts
  <2>5. ASSUME NEW c \in Cell
        PROVE  m2[c].frame = m1[c].frame /\ m2[c].bits = m1[c].bits \cup MarkOf(mem, q, a.write, c)
    <3>1. MarkOf(m1, q, a.write, c) = MarkOf(mem, q, a.write, c)
      BY <2>4 DEF MarkOf
    <3> QED
      BY <1>1, <2>1, <3>1, MarkedBits
  <2> HIDE DEF m2
  <2>6. ASSUME NEW c \in Cell
        PROVE  Touched(a)[c].frame = m2[c].frame /\ Touched(a)[c].bits = m2[c].bits
    <3>1. UNION {MarkOf(mem, page, a.write, c) : page \in {p, q}}
            = MarkOf(mem, p, a.write, c) \cup MarkOf(mem, q, a.write, c)
      OBVIOUS
    <3>2. Touched(a)[c].frame = mem[c].frame
          /\ Touched(a)[c].bits =
               mem[c].bits \cup (MarkOf(mem, p, a.write, c) \cup MarkOf(mem, q, a.write, c))
      BY <1>4, <3>1, TouchedBits
    <3> QED
      BY <2>2, <2>5, <3>2
  <2> QED
    BY <2>3, <2>6, TouchedBits, MemEqual DEF m1, m2
<1> QED
  BY <1>2, <1>3, <1>4

\* Marking what is marked already changes nothing.
LEMMA MarkedAlready ==
  ASSUME NEW m \in [Cell -> Word], NEW page \in Pages, NEW w \in BOOLEAN, cr3 \in Pages,
         "A" \in m[PdeCell(cr3, page)].bits, "A" \in m[PteCell(m, cr3, page)].bits,
         w => "D" \in m[PteCell(m, cr3, page)].bits
  PROVE  Marked(m, page, w) = m
<1>1. ASSUME NEW c \in Cell
      PROVE  Marked(m, page, w)[c].frame = m[c].frame /\ Marked(m, page, w)[c].bits = m[c].bits
  <2>1. MarkOf(m, page, w, c) \subseteq m[c].bits
    BY DEF MarkOf
  <2>2. m[c].bits \cup MarkOf(m, page, w, c) = m[c].bits
    BY <2>1
  <2>3. /\ Marked(m, page, w)[c].frame = m[c].frame
        /\ Marked(m, page, w)[c].bits = m[c].bits \cup MarkOf(m, page, w, c)
    BY MarkedBits
  <2> QED
    BY <2>2, <2>3, Zenon
<1> QED
  BY <1>1, MarkedFacts, MemEqual

\* A translation of a page nobody edited does what a walk would, hit or miss.
LEMMA TranslateIsWalk ==
  ASSUME TypeOK, NEW s, MmuInv(s), NEW lin \in Lin, NEW a \in Access, Page(lin) \notin edited
  PROVE  LET t == translate(s, lin, a)
             page == Page(lin)
         IN  IF RefusesIn(s.mem, page, a)
             THEN /\ t.mem = s.mem
                  /\ t.outcome = PF(lin, "P" \in Both(s.mem, cr3, page), a)
             ELSE /\ t.mem = Marked(s.mem, page, a.write)
                  /\ t.frames = Append(s.frames, s.mem[PteCell(s.mem, cr3, page)].frame)
                  /\ t.outcome = s.outcome
<1> DEFINE t == translate(s, lin, a)
           page == Page(lin)
           pde == s.mem[PdeCell(cr3, page)]
           pte == s.mem[PteCell(s.mem, cr3, page)]
<1>1. s \in MmuState /\ s.mem \in [Cell -> Word] /\ cr3 \in Pages /\ page \in Pages
      /\ a.write \in BOOLEAN
  BY PageFacts, AccessFacts DEF MmuInv, MmuState, TypeOK
<1>2. Hits(s, t, page, a) \/ Faults(s, t, lin, a) \/ Walks(s, t, page, a)
  BY <1>1, TranslateFacts
<1> HIDE DEF t
<1>3. CASE Hits(s, t, page, a)
  <2> DEFINE e == s.tlb[Slot(page)]
  <2>1. /\ e.tag = page /\ (a.user => e.user /\ (a.write => e.writable)) /\ (a.write => e.dirty)
        /\ t.mem = s.mem /\ t.frames = Append(s.frames, e.phys) /\ t.outcome = s.outcome
    BY <1>3 DEF Hits, TlbHit
  <2>2. page \in Cached(s.tlb)
    BY <1>1, <2>1 DEF Cached
  <2>3. Agrees(e, s.mem, cr3, page)
    BY <2>2 DEF MmuInv
  <2>4. /\ e.phys = pte.frame
        /\ {"P", "A"} \subseteq pde.bits \cap pte.bits
        /\ e.user => "US" \in pde.bits \cap pte.bits
        /\ e.writable => "RW" \in pde.bits \cap pte.bits
        /\ e.dirty => "D" \in pte.bits
    BY <2>3 DEF Agrees
  <2>5. Both(s.mem, cr3, page) = pde.bits \cap pte.bits
    BY DEF Both
  <2>6. ~RefusesIn(s.mem, page, a)
    BY <2>1, <2>4, <2>5 DEF RefusesIn
  <2>7. Marked(s.mem, page, a.write) = s.mem
    BY <1>1, <2>1, <2>4, MarkedAlready
  <2> QED
    BY <2>1, <2>4, <2>6, <2>7 DEF t
<1>4. CASE Faults(s, t, lin, a)
  BY <1>4 DEF Faults, t
<1>5. CASE Walks(s, t, page, a)
  BY <1>5 DEF Walks, t
<1> QED
  BY <1>2, <1>3, <1>4, <1>5

\* A refusal is one by the tables as they were before the access.
LEMMA RefusalFacts ==
  ASSUME NEW m \in [Cell -> Word], NEW page \in Pages, NEW a \in Access, TypeOK, ADOnly(mem, m)
  PROVE  /\ RefusesIn(m, page, a) <=> Refuses(page, a)
         /\ ("P" \in Both(m, cr3, page)) = ("P" \in Both(mem, cr3, page))
         /\ m[PteCell(m, cr3, page)].frame = Frame(page)
<1>1. /\ \A b \in {"P", "US", "RW"} : b \in Both(m, cr3, page) <=> b \in Both(mem, cr3, page)
      /\ PteCell(m, cr3, page) = PteCell(mem, cr3, page)
      /\ m[PteCell(mem, cr3, page)].frame = mem[PteCell(mem, cr3, page)].frame
  BY ADFacts DEF TypeOK
<1>2. RefusesIn(m, page, a) <=> Refuses(page, a)
  BY <1>1 DEF RefusesIn, Refuses
<1>3. ("P" \in Both(m, cr3, page)) = ("P" \in Both(mem, cr3, page))
  BY <1>1
<1> QED
  BY <1>1, <1>2, <1>3 DEF Frame

\* The cells a write stores into, in the frames of the pages it touches.
LEMMA CellsFacts ==
  ASSUME NEW a \in Access, NEW frames, NEW f1, NEW f2, frames[1] = f1, Crosses(a) => frames[2] = f2
  PROVE  StoredCells(a, frames) = StoredCells(a, <<f1, f2>>)
<1>1. ASSUME NEW i \in 0 .. a.width - 1
      PROVE  PhysCell(a, frames, i) = PhysCell(a, <<f1, f2>>, i)
  BY NoCrossFacts DEF PhysCell, Crosses
<1> QED
  BY <1>1 DEF StoredCells

\* AccessIsWalk of one access.
LEMMA OneAccess ==
  ASSUME IInv, pg, NEW a \in Access, PagesOf(a) \cap edited = {}
  PROVE  LET s == Translated(a)
             frames == <<Frame(FirstPage(a)), Frame(LastPage(a))>>
         IN  /\ s.mem = Touched(a)
             /\ IF PagesOf(a) = Reached(a)
                THEN /\ s.outcome.ok
                     /\ StoredCells(a, s.frames) = StoredCells(a, frames)
                ELSE /\ ~s.outcome.ok
                     /\ Page(s.outcome.cr2) = IF Refuses(FirstPage(a), a)
                                              THEN FirstPage(a) ELSE LastPage(a)
                     /\ s.outcome.present = ("P" \in Both(mem, cr3, Page(s.outcome.cr2)))
<1> DEFINE first == FirstPage(a)
           last == LastPage(a)
           w == a.write
           s1 == translate(MMU, a.lin, a)
           lin2 == last * PageCells
           s2 == translate(s1, lin2, a)
           s == Translated(a)
<1>1. /\ TypeOK /\ a.lin \in Lin /\ first \in Pages /\ last \in Pages /\ w \in BOOLEAN
      /\ lin2 \in Lin /\ Page(lin2) = last /\ Page(a.lin) = first
      /\ first \notin edited /\ last \notin edited
      /\ mem \in [Cell -> Word] /\ cr3 \in Pages
  BY AccessFacts, NoCrossFacts, PageStart DEF IInv, PagesOf, FirstPage, TypeOK
<1>2. s = IF Crosses(a) /\ s1.outcome.ok THEN s2 ELSE s1
  BY DEF Translated
<1>3. MmuInv(MMU) /\ MMU.mem = mem /\ MMU.frames = << >> /\ MMU.outcome = Done /\ ADOnly(mem, mem)
  BY MmuStart DEF MMU, ADOnly
<1>4. MmuInv(s1)
  BY <1>1, <1>3, MmuStep
<1>5. Crosses(a) <=> first # last
  BY DEF Crosses
<1>6. IF Refuses(first, a)
      THEN s1.mem = mem /\ s1.outcome = PF(a.lin, "P" \in Both(mem, cr3, first), a)
      ELSE s1.mem = Marked(mem, first, w) /\ s1.frames = Append(<< >>, Frame(first)) /\ s1.outcome = Done
  <2>1. IF RefusesIn(MMU.mem, first, a)
        THEN s1.mem = MMU.mem /\ s1.outcome = PF(a.lin, "P" \in Both(MMU.mem, cr3, first), a)
        ELSE /\ s1.mem = Marked(MMU.mem, first, w)
             /\ s1.frames = Append(MMU.frames, MMU.mem[PteCell(MMU.mem, cr3, first)].frame)
             /\ s1.outcome = MMU.outcome
    BY <1>1, <1>3, TranslateIsWalk
  <2> HIDE DEF s1
  <2> QED
    BY <1>3, <2>1 DEF RefusesIn, Refuses, Frame
<1>7. IF RefusesIn(s1.mem, last, a)
      THEN s2.mem = s1.mem /\ s2.outcome = PF(lin2, "P" \in Both(s1.mem, cr3, last), a)
      ELSE /\ s2.mem = Marked(s1.mem, last, w)
           /\ s2.frames = Append(s1.frames, s1.mem[PteCell(s1.mem, cr3, last)].frame)
           /\ s2.outcome = s1.outcome
  <2> HIDE DEF s1, lin2
  <2> QED
    BY <1>1, <1>4, TranslateIsWalk
<1>8. /\ RefusesIn(s1.mem, last, a) <=> Refuses(last, a)
      /\ ("P" \in Both(s1.mem, cr3, last)) = ("P" \in Both(mem, cr3, last))
      /\ s1.mem[PteCell(s1.mem, cr3, last)].frame = Frame(last)
  <2>1. s1.mem \in [Cell -> Word] /\ ADOnly(mem, s1.mem)
    BY <1>4 DEF MmuInv, MmuState
  <2> HIDE DEF s1
  <2> QED
    BY <1>1, <2>1, RefusalFacts
<1>9. PagesOf(a) = {first, last}
      /\ Reached(a) = {page \in {first, last} : ~Refuses(page, a) /\ ~Refuses(first, a)}
  BY DEF PagesOf, Reached
<1>10. /\ Done.ok
       /\ \A lin, present : LET f == PF(lin, present, a) IN ~f.ok /\ f.cr2 = lin /\ f.present = present
  BY DEF Done, PF
<1> DEFINE frames == <<Frame(first), Frame(last)>>
           Goal == /\ s.mem = Touched(a)
                   /\ IF PagesOf(a) = Reached(a)
                      THEN s.outcome.ok /\ StoredCells(a, s.frames) = StoredCells(a, frames)
                      ELSE /\ ~s.outcome.ok
                           /\ Page(s.outcome.cr2) = IF Refuses(first, a) THEN first ELSE last
                           /\ s.outcome.present = ("P" \in Both(mem, cr3, Page(s.outcome.cr2)))
<1> SUFFICES Goal
  OBVIOUS
<1> HIDE DEF first, last, w, s1, s2, lin2, s, frames
<1>11. CASE Refuses(first, a)
  <2>1. Reached(a) = {} /\ PagesOf(a) # Reached(a)
    BY <1>9, <1>11
  <2>2. Touched(a) = mem
    BY <1>1, <2>1, TouchedFacts
  <2>3. s = s1 /\ s.mem = mem /\ s.outcome = PF(a.lin, "P" \in Both(mem, cr3, first), a)
    BY <1>2, <1>6, <1>10, <1>11
  <2> QED
    BY <1>1, <1>10, <1>11, <2>1, <2>2, <2>3
<1>12. CASE ~Refuses(first, a) /\ first = last
  <2>1. Reached(a) = {first} /\ PagesOf(a) = Reached(a)
    BY <1>9, <1>12
  <2>2. Touched(a) = Marked(mem, first, w)
    BY <1>1, <2>1, TouchedFacts DEF w
  <2>3. s = s1 /\ s.mem = Marked(mem, first, w) /\ s.outcome.ok /\ s.frames = Append(<< >>, Frame(first))
    BY <1>2, <1>5, <1>6, <1>10, <1>12
  <2>4. s.frames[1] = Frame(first) /\ ~Crosses(a)
    BY <1>5, <1>12, <2>3
  <2>5. StoredCells(a, s.frames) = StoredCells(a, frames)
    BY <2>4, CellsFacts DEF frames
  <2> QED
    BY <2>1, <2>2, <2>3, <2>5
<1>13. CASE ~Refuses(first, a) /\ first # last /\ Refuses(last, a)
  <2>1. Reached(a) = {first} /\ PagesOf(a) # Reached(a)
    BY <1>9, <1>13
  <2>2. Touched(a) = Marked(mem, first, w)
    BY <1>1, <2>1, TouchedFacts DEF w
  <2>3. s = s2 /\ s.mem = Marked(mem, first, w)
        /\ s.outcome = PF(lin2, "P" \in Both(s1.mem, cr3, last), a)
    BY <1>2, <1>5, <1>6, <1>7, <1>8, <1>10, <1>13
  <2>4. ~s.outcome.ok /\ s.outcome.cr2 = lin2 /\ s.outcome.present = ("P" \in Both(mem, cr3, last))
    BY <1>8, <1>10, <2>3
  <2> QED
    BY <1>1, <1>13, <2>1, <2>2, <2>3, <2>4
<1>14. CASE ~Refuses(first, a) /\ first # last /\ ~Refuses(last, a)
  <2>1. Reached(a) = {first, last} /\ PagesOf(a) = Reached(a)
    BY <1>9, <1>14
  <2>2. Touched(a) = Marked(Marked(mem, first, w), last, w)
    BY <1>1, <2>1, TouchedFacts DEF w
  <2>3. s = s2 /\ s.mem = Marked(Marked(mem, first, w), last, w) /\ s.outcome.ok
        /\ s.frames = Append(Append(<< >>, Frame(first)), Frame(last))
    BY <1>2, <1>5, <1>6, <1>7, <1>8, <1>10, <1>14
  <2>4. s.frames[1] = Frame(first) /\ s.frames[2] = Frame(last)
    BY <2>3
  <2>5. StoredCells(a, s.frames) = StoredCells(a, frames)
    BY <2>4, CellsFacts DEF frames
  <2> QED
    BY <2>1, <2>2, <2>3, <2>5
<1> QED
  BY <1>11, <1>12, <1>13, <1>14

\* The TLB is invisible: an access to pages nobody edited since they were cached
\* is the walk of the tables, in outcome, accessed and dirty bits and data.
THEOREM TlbInvisible == Spec => []AccessIsWalk
<1>1. IInv => AccessIsWalk
  <2> SUFFICES ASSUME IInv, pg, NEW a \in Access, PagesOf(a) \cap edited = {}
               PROVE  LET o == Outcome(a)
                          touched == Touched(a)
                          cells == StoredCells(a, <<Frame(FirstPage(a)), Frame(LastPage(a))>>)
                      IN
                      IF PagesOf(a) = Reached(a)
                      THEN /\ o.outcome.ok
                           /\ o.mem = [c \in Cell |-> IF a.write /\ c \in cells THEN a.word
                                                      ELSE touched[c]]
                      ELSE /\ ~o.outcome.ok
                           /\ o.mem = touched
                           /\ Page(o.outcome.cr2) = IF Refuses(FirstPage(a), a)
                                                    THEN FirstPage(a) ELSE LastPage(a)
                           /\ o.outcome.present = ("P" \in Both(mem, cr3, Page(o.outcome.cr2)))
    BY DEF AccessIsWalk
  <2> DEFINE s == Translated(a)
             o == Outcome(a)
             cells == StoredCells(a, <<Frame(FirstPage(a)), Frame(LastPage(a))>>)
  <2>1. /\ s.mem = Touched(a)
        /\ IF PagesOf(a) = Reached(a)
           THEN s.outcome.ok /\ StoredCells(a, s.frames) = cells
           ELSE /\ ~s.outcome.ok
                /\ Page(s.outcome.cr2) = IF Refuses(FirstPage(a), a) THEN FirstPage(a) ELSE LastPage(a)
                /\ s.outcome.present = ("P" \in Both(mem, cr3, Page(s.outcome.cr2)))
    BY OneAccess
  <2>2. /\ ~s.outcome.ok \/ ~a.write => o = s
        /\ s.outcome.ok /\ a.write =>
             o.mem = [c \in Cell |-> IF c \in StoredCells(a, s.frames) THEN a.word ELSE s.mem[c]]
        /\ o.outcome = s.outcome
        /\ s.mem \in [Cell -> Word]
    BY OutcomeFacts
  <2> HIDE DEF s, o, cells
  <2>3. CASE PagesOf(a) = Reached(a)
    <3>1. CASE a.write
      BY <2>1, <2>2, <2>3, <3>1 DEF o, cells
    <3>2. CASE ~a.write
      <4>1. o.mem = Touched(a)
        BY <2>1, <2>2, <2>3, <3>2
      <4>2. o.mem = [c \in Cell |-> Touched(a)[c]]
        BY <2>1, <2>2, <4>1
      <4> QED
        BY <2>1, <2>2, <2>3, <3>2, <4>2 DEF o, cells
    <3> QED
      BY <3>1, <3>2
  <2>4. CASE PagesOf(a) # Reached(a)
    BY <2>1, <2>2, <2>4 DEF o
  <2> QED
    BY <2>3, <2>4
<1> QED
  BY <1>1, Invariance, PTL

=============================================================================
