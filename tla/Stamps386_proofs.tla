-------------------------- MODULE Stamps386_proofs --------------------------
(***************************************************************************)
(* Lemmas about the validity clocks that the decoded-instruction cache and *)
(* the JIT share: where the bytes of an instruction are, which stamp slots *)
(* a store touches, and that what was decoded from a page whose slot no    *)
(* store touched is still what the bytes decode to.                        *)
(***************************************************************************)
EXTENDS Stamps386, TLAPS

(* Division and modulus by an arbitrary positive divisor.                  *)

\* Division with remainder.
LEMMA DivMod ==
  ASSUME NEW x \in Int, NEW n \in Nat \ {0}
  PROVE /\ x % n \in 0 .. n - 1
        /\ x \div n \in Int
        /\ x = n * (x \div n) + (x % n)
  OBVIOUS

\* Multiplication by a positive number is monotonic, by at least one n.
LEMMA MulLe ==
  ASSUME NEW n \in Nat \ {0}, NEW a \in Int, NEW b \in Int, a < b
  PROVE n * a + n <= n * b
<1>1. b - a - 1 \in Nat
  OBVIOUS
<1>2. n * (b - a - 1) \in Nat
  BY <1>1
<1>3. n * (b - a - 1) = n * b - n * a - n
  OBVIOUS
<1> QED
  BY <1>2, <1>3

\* Quotient and remainder are unique.
LEMMA DivModUnique ==
  ASSUME NEW n \in Nat \ {0}, NEW q \in Int, NEW r \in 0 .. n - 1
  PROVE (n * q + r) % n = r /\ (n * q + r) \div n = q
<1> DEFINE x == n * q + r
<1> DEFINE q2 == x \div n
<1> DEFINE r2 == x % n
<1>0. x \in Int OBVIOUS
<1>1. q2 \in Int /\ r2 \in 0 .. n - 1 /\ x = n * q2 + r2
  BY <1>0, DivMod
<1> HIDE DEF q2, r2
<1>2. ~(q2 < q)
  <2> SUFFICES ASSUME q2 < q PROVE FALSE OBVIOUS
  <2>1. n * q2 + n <= n * q BY <1>1, MulLe
  <2>2. n * q2 \in Int /\ n * q \in Int BY <1>1
  <2> QED BY <2>1, <2>2, <1>1
<1>3. ~(q < q2)
  <2> SUFFICES ASSUME q < q2 PROVE FALSE OBVIOUS
  <2>1. n * q + n <= n * q2 BY <1>1, MulLe
  <2>2. n * q2 \in Int /\ n * q \in Int BY <1>1
  <2> QED BY <2>1, <2>2, <1>1
<1>4. q = q2 BY <1>1, <1>2, <1>3
<1>5. r = r2
  <2>2. n * q2 \in Int BY <1>1
  <2> QED BY <2>2, <1>1, <1>4
<1> QED BY <1>4, <1>5 DEF q2, r2

\* A wrapped operand may be wrapped before or after an addition.
LEMMA ModAdd ==
  ASSUME NEW n \in Nat \ {0}, NEW x \in Int, NEW y \in Int
  PROVE ((x % n) + y) % n = (x + y) % n
<1> DEFINE q == x \div n
<1> DEFINE r == x % n
<1> DEFINE z == r + y
<1> DEFINE p == z \div n
<1> DEFINE s == z % n
<1>1. q \in Int /\ r \in 0 .. n - 1 /\ x = n * q + r BY DivMod
<1>2. z \in Int BY <1>1
<1>3. p \in Int /\ s \in 0 .. n - 1 /\ z = n * p + s BY <1>2, DivMod
<1> HIDE DEF q, r, p, s
<1>4. x + y = n * (q + p) + s
  <2>1. n * (q + p) = n * q + n * p BY <1>1, <1>3
  <2> QED BY <2>1, <1>1, <1>3 DEF z
<1>5. (x + y) % n = s
  <2>1. q + p \in Int BY <1>1, <1>3
  <2>2. (n * (q + p) + s) % n = s BY <2>1, <1>3, DivModUnique
  <2> QED BY <2>2, <1>4
<1> QED BY <1>5 DEF s, z, r

-----------------------------------------------------------------------------
(* Stamps.                                                                 *)

USE DEF StampIndex

\* The derived sizes are positive numbers.
LEMMA Sizes ==
  /\ PhysSize \in Nat \ {0}
  /\ RamSize \in Nat \ {0}
  /\ PageSize <= PhysSize
<1>1. PageSize * PhysPages \in Nat /\ PageSize * RamPages \in Nat
  BY SizeAssumption
<1>2. PageSize * 0 + PageSize <= PageSize * PhysPages
  BY SizeAssumption, MulLe
<1>3. PageSize * 0 + PageSize <= PageSize * RamPages
  BY SizeAssumption, MulLe
<1> QED
  BY <1>1, <1>2, <1>3, SizeAssumption DEF PhysSize, RamSize

\* wrapping_add stays inside the address space.
LEMMA WrapType ==
  ASSUME NEW x \in Int
  PROVE  Wrap(x) \in Phys
  BY Sizes, DivMod DEF Wrap, Phys

\* The bus reaches a byte of RAM.
LEMMA RamType ==
  ASSUME NEW x \in Phys
  PROVE  RamIndex(x) \in RamAddr
<1>1. x \in Int
  BY Sizes DEF Phys
<1> QED
  BY <1>1, Sizes, DivMod DEF RamIndex, RamAddr

\* Stamp slots are in bounds.
LEMMA StampSlotType ==
  ASSUME NEW x \in Phys
  PROVE  StampSlot(x) \in StampIndex
<1>1. x \in Int
  BY Sizes DEF Phys
<1>2. x \div PageSize \in Int
  BY <1>1, SizeAssumption, DivMod
<1> QED
  BY <1>2, StampAssumption, DivMod DEF StampSlot, Page

\* The page and offset of an address, and where it goes when it wraps.
LEMMA PageOfAddr ==
  ASSUME NEW p \in Nat, NEW r \in 0 .. PageSize - 1, p <= PhysPages
  PROVE  /\ p < PhysPages =>
              Wrap(PageSize * p + r) = PageSize * p + r
         /\ p = PhysPages => Wrap(PageSize * p + r) = r
         /\ Page(PageSize * p + r) = p
         /\ Page(r) = 0
<1>1. Page(PageSize * p + r) = p
  BY SizeAssumption, DivModUnique DEF Page
<1>2. Page(r) = 0
  <2>1. (PageSize * 0 + r) \div PageSize = 0
    BY SizeAssumption, DivModUnique
  <2>2. PageSize * 0 + r = r
    BY SizeAssumption
  <2> QED
    BY <2>1, <2>2 DEF Page
<1>3. ASSUME p < PhysPages
      PROVE  Wrap(PageSize * p + r) = PageSize * p + r
  <2>1. PageSize * p + PageSize <= PhysSize
    BY <1>3, SizeAssumption, MulLe DEF PhysSize
  <2>2. PageSize * p \in Nat
    BY SizeAssumption
  <2>3. PageSize * p + r \in 0 .. PhysSize - 1
    BY <2>1, <2>2, SizeAssumption, Sizes
  <2>4. (PhysSize * 0 + (PageSize * p + r)) % PhysSize = PageSize * p + r
    BY <2>3, Sizes, DivModUnique
  <2>5. PhysSize * 0 + (PageSize * p + r) = PageSize * p + r
    BY <2>3, Sizes
  <2> QED
    BY <2>4, <2>5 DEF Wrap
<1>4. ASSUME p = PhysPages
      PROVE  Wrap(PageSize * p + r) = r
  <2>1. r \in 0 .. PhysSize - 1
    BY SizeAssumption, Sizes
  <2>2. (PhysSize * 1 + r) % PhysSize = r
    BY <2>1, Sizes, DivModUnique
  <2>3. PhysSize * 1 + r = PageSize * p + r
    BY <1>4, <2>1, Sizes DEF PhysSize
  <2> QED
    BY <2>2, <2>3 DEF Wrap
<1> QED
  BY <1>1, <1>2, <1>3, <1>4

\* An address in terms of its page and its offset in the page.
LEMMA AddrSplit ==
  ASSUME NEW a \in Phys
  PROVE  /\ Page(a) \in 0 .. PhysPages - 1
         /\ a % PageSize \in 0 .. PageSize - 1
         /\ a = PageSize * Page(a) + (a % PageSize)
<1>1. a \in Int /\ 0 <= a /\ a < PhysSize
  BY Sizes DEF Phys
<1>2. /\ Page(a) \in Int
      /\ a % PageSize \in 0 .. PageSize - 1
      /\ a = PageSize * Page(a) + (a % PageSize)
  BY <1>1, SizeAssumption, DivMod DEF Page
<1>3. ~(Page(a) < 0)
  <2> SUFFICES ASSUME Page(a) < 0 PROVE FALSE
    OBVIOUS
  <2>1. PageSize * Page(a) + PageSize <= PageSize * 0
    BY <1>2, SizeAssumption, MulLe
  <2>2. PageSize * Page(a) \in Int
    BY <1>2, SizeAssumption
  <2> QED
    BY <1>1, <1>2, <2>1, <2>2, SizeAssumption
<1>4. ~(PhysPages <= Page(a))
  <2> SUFFICES ASSUME PhysPages <= Page(a) PROVE FALSE
    OBVIOUS
  <2>1. PageSize * (PhysPages - 1) + PageSize <= PageSize * Page(a)
    BY <1>2, SizeAssumption, MulLe
  <2>2. PageSize * (PhysPages - 1) + PageSize = PhysSize
    BY SizeAssumption DEF PhysSize
  <2>3. PageSize * Page(a) \in Int
    BY <1>2, SizeAssumption
  <2> QED
    BY <1>1, <1>2, <2>1, <2>2, <2>3, SizeAssumption, Sizes
<1> QED
  BY <1>2, <1>3, <1>4, SizeAssumption

\* A page-local offset stays in its page.
LEMMA PageLocal ==
  ASSUME NEW a \in Phys, NEW i \in Nat, (a % PageSize) + i < PageSize
  PROVE  Page(Wrap(a + i)) = Page(a)
<1> DEFINE p == Page(a)
<1> DEFINE r == a % PageSize
<1>1. p \in 0 .. PhysPages - 1 /\ r \in 0 .. PageSize - 1 /\ a = PageSize * p + r
  BY AddrSplit
<1> HIDE DEF p, r
<1>2. r + i \in 0 .. PageSize - 1
  BY <1>1, SizeAssumption DEF r
<1>3. p \in Nat /\ p < PhysPages
  BY <1>1, SizeAssumption
<1>4. /\ Wrap(PageSize * p + (r + i)) = PageSize * p + (r + i)
      /\ Page(PageSize * p + (r + i)) = p
  BY <1>2, <1>3, PageOfAddr, SizeAssumption
<1>5. PageSize * p \in Int
  BY <1>3, SizeAssumption
<1>6. a + i = PageSize * p + (r + i)
  BY <1>1, <1>5
<1> QED
  BY <1>4, <1>6 DEF p

\* Every byte of a store lies in the page of its first or of its last byte.
LEMMA SpanPages ==
  ASSUME NEW a \in Phys, NEW w \in 1 .. PageSize, NEW i \in 0 .. w - 1
  PROVE  \/ Page(Wrap(a + i)) = Page(a)
         \/ Page(Wrap(a + i)) = Page(Wrap(a + w - 1))
<1> DEFINE p == Page(a)
<1> DEFINE r == a % PageSize
<1>1. p \in 0 .. PhysPages - 1 /\ r \in 0 .. PageSize - 1 /\ a = PageSize * p + r
  BY AddrSplit
<1> HIDE DEF p, r
<1>2. CASE r + i < PageSize
  BY <1>2, PageLocal, SizeAssumption DEF r
<1>3. CASE r + i >= PageSize
  <2> DEFINE j == w - 1
  <2>1. /\ r + i - PageSize \in 0 .. PageSize - 1
        /\ r + j - PageSize \in 0 .. PageSize - 1
    BY <1>1, <1>3, SizeAssumption
  <2>2. p + 1 \in Nat /\ p + 1 <= PhysPages
    BY <1>1, SizeAssumption
  <2>3. PageSize * (p + 1) = PageSize * p + PageSize /\ PageSize * p \in Int
    BY <1>1, SizeAssumption
  <2>4. /\ a + i = PageSize * (p + 1) + (r + i - PageSize)
        /\ a + w - 1 = PageSize * (p + 1) + (r + j - PageSize)
    BY <1>1, <2>3, SizeAssumption
  <2>5. CASE p + 1 < PhysPages
    <3>1. /\ Wrap(a + i) = a + i
          /\ Page(a + i) = p + 1
      BY <2>1, <2>2, <2>4, <2>5, PageOfAddr
    <3>2. /\ Wrap(a + w - 1) = a + w - 1
          /\ Page(a + w - 1) = p + 1
      BY <2>1, <2>2, <2>4, <2>5, PageOfAddr
    <3> QED
      BY <3>1, <3>2
  <2>6. CASE p + 1 = PhysPages
    <3>1. /\ Wrap(a + i) = r + i - PageSize
          /\ Page(r + i - PageSize) = 0
      BY <2>1, <2>2, <2>4, <2>6, PageOfAddr
    <3>2. /\ Wrap(a + w - 1) = r + j - PageSize
          /\ Page(r + j - PageSize) = 0
      BY <2>1, <2>2, <2>4, <2>6, PageOfAddr
    <3> QED
      BY <3>1, <3>2
  <2> QED
    BY <2>2, <2>5, <2>6, SizeAssumption
<1> QED
  BY <1>1, <1>2, <1>3, SizeAssumption

\* Wrapping an operand first changes nothing.
LEMMA WrapAdd ==
  ASSUME NEW x \in Int, NEW y \in Int
  PROVE  Wrap(Wrap(x) + y) = Wrap(x + y)
<1>1. PhysSize \in Nat \ {0}
  BY Sizes
<1> QED
  BY <1>1, ModAdd, Zenon DEF Wrap

\* An address in the address space does not wrap.
LEMMA WrapSmall ==
  ASSUME NEW x \in Phys
  PROVE  Wrap(x) = x
<1>1. x \in 0 .. PhysSize - 1
  BY DEF Phys
<1>2. (PhysSize * 0 + x) % PhysSize = x
  BY <1>1, Sizes, DivModUnique
<1>3. PhysSize * 0 + x = x
  BY <1>1, Sizes
<1> QED
  BY <1>2, <1>3 DEF Wrap

\* Where the bytes of an entry's instruction are.
LEMMA KeyByte ==
  ASSUME NEW phys \in Phys, NEW i \in Nat, NEW c
  PROVE  CodeAddr([base |-> phys, limit |-> 0, ctx |-> c], Wrap(0 + i)) = Wrap(phys + i)
<1>1. phys \in Int /\ i \in Int
  BY Sizes DEF Phys
<1>2. Wrap(Wrap(i) + phys) = Wrap(i + phys)
  BY <1>1, WrapAdd, Zenon
<1>3. Wrap(i) \in Int
  BY <1>1, WrapType, Sizes DEF Phys
<1>4. Wrap(i) + phys = phys + Wrap(i) /\ i + phys = phys + i /\ 0 + i = i
  BY <1>1, <1>3
<1> QED
  BY <1>2, <1>4 DEF CodeAddr

\* The bytes a physically keyed entry stands for are the bytes at CS:EIP.
LEMMA SameByte ==
  ASSUME NEW c, c.base \in Phys, NEW off \in Phys, NEW i \in Nat
  PROVE  CodeAddr(c, Wrap(off + i)) = Wrap(CodeAddr(c, off) + i)
<1> DEFINE b == c.base
<1>1. off \in Int /\ b \in Int /\ i \in Int
  BY Sizes, SegmentAssumption DEF Phys
<1> HIDE DEF b
<1>2. off + i \in Int /\ b + off \in Int
  BY <1>1
<1>3. Wrap(Wrap(off + i) + b) = Wrap((off + i) + b)
  BY <1>1, <1>2, WrapAdd, Zenon
<1>4. Wrap(Wrap(b + off) + i) = Wrap((b + off) + i)
  BY <1>1, <1>2, WrapAdd, Zenon
<1>5. Wrap(off + i) \in Int
  BY <1>2, WrapType, Sizes DEF Phys
<1>6. (off + i) + b = (b + off) + i /\ Wrap(off + i) + b = b + Wrap(off + i)
  BY <1>1, <1>5
<1> QED
  BY <1>3, <1>4, <1>6 DEF CodeAddr, b

\* A store leaves alone every byte whose stamp slot is that of neither end.
LEMMA StoreElsewhere ==
  ASSUME StampsCoverRam,
         NEW m \in [RamAddr -> Byte],
         NEW st \in Store,
         NEW x \in Phys,
         StampSlot(x) # StampSlot(st.addr),
         StampSlot(x) # StampSlot(Wrap(st.addr + st.width - 1))
  PROVE  StoreBytes(m, st)[RamIndex(x)] = m[RamIndex(x)]
<1>1. st.addr \in Phys /\ st.width \in Widths /\ st.width \in 1 .. PageSize
  BY SegmentAssumption DEF Store
<1>2. ASSUME NEW i \in 0 .. st.width - 1, RamIndex(x) = RamIndex(Wrap(st.addr + i))
      PROVE  FALSE
  <2>1. Wrap(st.addr + i) \in Phys
    <3>1. st.addr + i \in Int
      BY <1>1, SizeAssumption, Sizes DEF Phys
    <3> QED
      BY <3>1, WrapType
  <2>2. StampSlot(x) = StampSlot(Wrap(st.addr + i))
    BY <1>2, <2>1 DEF StampsCoverRam
  <2>3. \/ Page(Wrap(st.addr + i)) = Page(st.addr)
        \/ Page(Wrap(st.addr + i)) = Page(Wrap(st.addr + st.width - 1))
    BY <1>1, SpanPages
  <2> QED
    BY <2>2, <2>3 DEF StampSlot
<1>3. RamIndex(x) \in RamAddr
  BY RamType
<1> QED
  BY <1>2, <1>3 DEF StoreBytes

\* Memory keeps its type.
LEMMA StoreType ==
  ASSUME NEW m \in [RamAddr -> Byte], NEW st \in Store
  PROVE  StoreBytes(m, st) \in [RamAddr -> Byte]
  BY DEF StoreBytes, Store

\* The decode context an entry's key stands for.
KeySeg(phys, c) == [base |-> phys, limit |-> 0, ctx |-> c]

\* A fetched byte is a byte.
LEMMA CodeByteType ==
  ASSUME NEW m \in [RamAddr -> Byte], NEW c, c.base \in Phys,
         NEW off \in Phys, NEW i \in Nat
  PROVE  CodeByte(m, c, off, i) \in Byte
<1>1. off + i \in Int
  BY Sizes DEF Phys
<1>2. Wrap(off + i) \in Phys
  BY <1>1, WrapType
<1>3. c.base + Wrap(off + i) \in Int
  BY <1>2, Sizes DEF Phys
<1>4. CodeAddr(c, Wrap(off + i)) \in Phys
  BY <1>3, WrapType DEF CodeAddr
<1> QED
  BY <1>4, RamType DEF CodeByte

\* Decoding yields decode products of at least one byte.
LEMMA DecodeType ==
  ASSUME NEW m \in [RamAddr -> Byte], NEW c, c.base \in Phys, c.ctx \in Ctx,
         NEW off \in Phys
  PROVE  /\ LengthAt(m, c, off) \in 1 .. MaxInsnLen
         /\ Decode(m, c, off) \in DecodedInsn
         /\ Decode(m, c, off).len = LengthAt(m, c, off)
<1> DEFINE n == LengthAt(m, c, off)
<1>1. CodeByte(m, c, off, 0) \in Byte
  BY CodeByteType
<1>2. n \in 1 .. MaxInsnLen
  BY <1>1, CodeAssumption DEF LengthAt
<1>3. Decode(m, c, off) =
        [ctx |-> c.ctx, len |-> n, bytes |-> [i \in 0 .. n - 1 |-> CodeByte(m, c, off, i)]]
  BY DEF Decode
<1> HIDE DEF n
<1>4. [i \in 0 .. n - 1 |-> CodeByte(m, c, off, i)] \in [0 .. n - 1 -> Byte]
  <2>1. ASSUME NEW i \in 0 .. n - 1 PROVE CodeByte(m, c, off, i) \in Byte
    <3>1. i \in Nat
      BY <1>2, CodeAssumption
    <3> QED
      BY <3>1, CodeByteType
  <2> QED
    BY <2>1
<1>5. Decode(m, c, off) \in [ctx : Ctx, len : {n}, bytes : [0 .. n - 1 -> Byte]]
  BY <1>3, <1>4
<1> QED
  BY <1>2, <1>3, <1>5 DEF DecodedInsn, n

\* A key names the instruction at CS:EIP.
LEMMA KeyDecode ==
  ASSUME NEW m, NEW c, c.base \in Phys, NEW off \in Phys
  PROVE  Decode(m, KeySeg(CodeAddr(c, off), c.ctx), 0) = Decode(m, c, off)
<1> DEFINE k == KeySeg(CodeAddr(c, off), c.ctx)
<1>0. CodeAddr(c, off) \in Phys
  <2>1. c.base + off \in Int
    BY Sizes, SegmentAssumption DEF Phys
  <2> QED
    BY <2>1, WrapType DEF CodeAddr
<1>1. ASSUME NEW i \in Nat
      PROVE  CodeByte(m, k, 0, i) = CodeByte(m, c, off, i)
  <2>1. CodeAddr(k, Wrap(0 + i)) = Wrap(CodeAddr(c, off) + i)
    BY <1>0, KeyByte DEF KeySeg
  <2>2. CodeAddr(c, Wrap(off + i)) = Wrap(CodeAddr(c, off) + i)
    BY SameByte
  <2> QED
    BY <2>1, <2>2 DEF CodeByte
<1>2. k.ctx = c.ctx
  BY DEF KeySeg
<1>3. LengthAt(m, k, 0) = LengthAt(m, c, off)
  BY <1>1, <1>2 DEF LengthAt
<1> HIDE DEF k
<1>4. [i \in 0 .. LengthAt(m, k, 0) - 1 |-> CodeByte(m, k, 0, i)]
      = [i \in 0 .. LengthAt(m, c, off) - 1 |-> CodeByte(m, c, off, i)]
  BY <1>1, <1>3
<1> QED
  BY <1>2, <1>3, <1>4 DEF Decode, k

\* Decode products depend on nothing but the instruction's own bytes.
LEMMA DecodeSame ==
  ASSUME NEW m \in [RamAddr -> Byte], NEW m2,
         NEW c, c.base \in Phys, c.ctx \in Ctx, NEW off \in Phys,
         \A i \in 0 .. LengthAt(m, c, off) - 1 :
             CodeByte(m2, c, off, i) = CodeByte(m, c, off, i)
  PROVE  Decode(m2, c, off) = Decode(m, c, off)
<1>1. LengthAt(m, c, off) \in 1 .. MaxInsnLen
  BY DecodeType
<1>2. LengthAt(m2, c, off) = LengthAt(m, c, off)
  <2>1. 0 \in 0 .. LengthAt(m, c, off) - 1
    BY <1>1, CodeAssumption
  <2> QED
    BY <2>1 DEF LengthAt
<1>3. [i \in 0 .. LengthAt(m2, c, off) - 1 |-> CodeByte(m2, c, off, i)]
      = [i \in 0 .. LengthAt(m, c, off) - 1 |-> CodeByte(m, c, off, i)]
  BY <1>2
<1> QED
  BY <1>2, <1>3 DEF Decode

\* The same, for the instruction a physically keyed entry stands for.
LEMMA DecodeStable ==
  ASSUME NEW m \in [RamAddr -> Byte], NEW m2,
         NEW phys \in Phys, NEW c \in Ctx,
         NEW n, n = LengthAt(m, KeySeg(phys, c), 0),
         \A i \in 0 .. n - 1 :
             m2[RamIndex(Wrap(phys + i))] = m[RamIndex(Wrap(phys + i))]
  PROVE  Decode(m2, KeySeg(phys, c), 0) = Decode(m, KeySeg(phys, c), 0)
<1> DEFINE k == KeySeg(phys, c)
<1>1. k.base \in Phys /\ k.ctx \in Ctx
  BY DEF KeySeg
<1>2. 0 \in Phys
  BY Sizes DEF Phys
<1>3. n \in 1 .. MaxInsnLen
  BY <1>1, <1>2, DecodeType
<1>4. ASSUME NEW i \in 0 .. n - 1
      PROVE  CodeByte(m2, k, 0, i) = CodeByte(m, k, 0, i)
  <2>1. i \in Nat
    BY <1>3, CodeAssumption
  <2>2. CodeAddr(k, Wrap(0 + i)) = Wrap(phys + i)
    BY <2>1, KeyByte DEF KeySeg
  <2> QED
    BY <2>2 DEF CodeByte
<1> QED
  BY <1>1, <1>2, <1>4, DecodeSame

-----------------------------------------------------------------------------
\* Both ends of a store are physical addresses.
LEMMA StoreEnds ==
  ASSUME NEW st \in Store
  PROVE  /\ st.addr \in Phys
         /\ Wrap(st.addr + st.width - 1) \in Phys
<1>1. st.addr \in Phys /\ st.width \in 1 .. PageSize
  BY SegmentAssumption DEF Store
<1>2. st.addr + st.width - 1 \in Int
  BY <1>1, SizeAssumption, Sizes DEF Phys
<1> QED
  BY <1>1, <1>2, WrapType

\* A store advances the clock, stamps the slots of both ends with a time
\* later than any before it, and leaves the other slots alone.
LEMMA SpanStamps ==
  ASSUME NEW first \in Phys, NEW last \in Phys,
         stamps \in [StampIndex -> Nat], clock \in Nat,
         \A s \in StampIndex : stamps[s] <= clock,
         stamp_write_span(first, last)
  PROVE  /\ clock' \in Nat /\ clock' > clock
         /\ stamps' \in [StampIndex -> Nat]
         /\ \A s \in StampIndex :
               /\ stamps' [s] <= clock'
               /\ s \in {StampSlot(first), StampSlot(last)} => stamps' [s] > clock
               /\ s \notin {StampSlot(first), StampSlot(last)} => stamps' [s] = stamps[s]
<1> DEFINE f == StampSlot(first)
<1> DEFINE l == StampSlot(last)
<1>1. f \in StampIndex /\ l \in StampIndex
  BY StampSlotType
<1>2. \/ /\ clock' = clock + 1 /\ f = l
         /\ stamps' = [stamps EXCEPT ![f] = clock + 1]
      \/ /\ clock' = clock + 2
         /\ stamps' = [stamps EXCEPT ![f] = clock + 1, ![l] = clock + 2]
  BY DEF stamp_write_span, StampSlot
<1> HIDE DEF f, l
<1>3. clock' \in Nat /\ clock' > clock /\ clock' >= clock + 1
  BY <1>2
<1>4. stamps' \in [StampIndex -> Nat]
  BY <1>1, <1>2
<1>5. ASSUME NEW s \in StampIndex
      PROVE  /\ stamps' [s] <= clock'
             /\ s \in {f, l} => stamps' [s] > clock
             /\ s \notin {f, l} => stamps' [s] = stamps[s]
  <2>1. stamps[s] \in Nat /\ stamps[s] <= clock
    OBVIOUS
  <2>2. CASE s \notin {f, l}
    <3>1. stamps' [s] = stamps[s]
      BY <1>1, <1>2, <2>2
    <3> QED
      BY <2>1, <2>2, <3>1, <1>3
  <2>3. CASE s \in {f, l}
    <3>1. \/ stamps' [s] = clock + 1
          \/ stamps' [s] = clock + 2 /\ clock' = clock + 2
      BY <1>1, <1>2, <2>3
    <3> QED
      BY <2>3, <3>1, <1>3
  <2> QED
    BY <2>2, <2>3
<1> QED
  BY <1>3, <1>4, <1>5 DEF f, l


\* When RAM is as large as the address space no two addresses share a byte, so
\* the hypothesis of the theorems holds whatever the number of stamp slots.
LEMMA FlatRamCovered ==
  ASSUME PhysPages <= RamPages
  PROVE  StampsCoverRam
<1>1. PhysSize <= RamSize
  <2>1. CASE PhysPages = RamPages
    BY <2>1, Sizes DEF PhysSize, RamSize
  <2>2. CASE PhysPages < RamPages
    <3>1. PageSize * PhysPages + PageSize <= PageSize * RamPages
      BY <2>2, SizeAssumption, MulLe
    <3> QED BY <3>1, SizeAssumption, Sizes DEF PhysSize, RamSize
  <2> QED BY <2>1, <2>2, SizeAssumption
<1>2. ASSUME NEW a \in Phys PROVE RamIndex(a) = a
  <2>1. a \in 0 .. RamSize - 1
    BY <1>1, Sizes DEF Phys
  <2>2. (RamSize * 0 + a) % RamSize = a
    BY <2>1, Sizes, DivModUnique
  <2>3. RamSize * 0 + a = a
    BY <2>1, Sizes
  <2> QED BY <2>2, <2>3 DEF RamIndex
<1> QED BY <1>2 DEF StampsCoverRam

=============================================================================
