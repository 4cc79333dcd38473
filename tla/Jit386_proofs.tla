--------------------------- MODULE Jit386_proofs ---------------------------
(***************************************************************************)
(* The JIT never executes a stale block, and run() with the JIT implements *)
(* run() of the interpreter, for every size of memory, block table and     *)
(* stamp table in which aliases of a RAM byte share a stamp; the second    *)
(* result also needs code segments that span the address space.            *)
(***************************************************************************)
EXTENDS Jit386, Stamps386_proofs, SequenceTheorems

\* The head of the loop: its physical address, key and slots exist.
LEMMA HeadType ==
  ASSUME TypeOK
  PROVE  /\ cs.base \in Phys /\ cs.ctx \in Ctx
         /\ phys \in Phys
         /\ key \in Key
         /\ TableSlot \in TableIndex
         /\ HotSlot \in HotIndex
<1>1. cs.base \in Phys /\ cs.ctx \in Ctx
  BY SegmentAssumption DEF TypeOK
<1>2. cs.base + eip \in Int
  BY <1>1, Sizes DEF TypeOK, Phys
<1>3. phys \in Phys
  BY <1>2, WrapType DEF phys, CodeAddr
<1>4. phys \in Int
  BY <1>3, Sizes DEF Phys
<1>5. TableSlot \in TableIndex /\ HotSlot \in HotIndex
  BY <1>4, JitAssumption, DivMod DEF TableSlot, TableIndex, HotSlot, HotIndex
<1> QED
  BY <1>1, <1>3, <1>5 DEF key, Key

\* The address space is a period of wrapping_add.
LEMMA WrapPeriod ==
  ASSUME NEW x \in Int
  PROVE  Wrap(x + PhysSize) = Wrap(x)
<1>1. PhysSize \in Int /\ PhysSize \in Nat \ {0}
  BY Sizes
<1>2. Wrap(PhysSize) = 0
  <2>1. (PhysSize * 1 + 0) % PhysSize = 0
    BY <1>1, DivModUnique
  <2>2. PhysSize * 1 + 0 = PhysSize
    BY <1>1
  <2> QED
    BY <2>1, <2>2 DEF Wrap
<1>3. Wrap(Wrap(PhysSize) + x) = Wrap(PhysSize + x)
  BY <1>1, WrapAdd, Zenon
<1>4. PhysSize + x = x + PhysSize /\ 0 + x = x
  BY <1>1
<1> QED
  BY <1>2, <1>3, <1>4

\* The segment base a block was translated under, from its two addresses.
BlockBase(p, start) == Wrap(p - start + PhysSize)

\* It is the base of the segment that reaches p at start.
LEMMA BaseBack ==
  ASSUME NEW base \in Phys, NEW start \in Phys
  PROVE  BlockBase(Wrap(base + start), start) = base
<1>1. base \in Int /\ start \in Int /\ PhysSize \in Int
  BY Sizes DEF Phys
<1> DEFINE x == base + start
<1> DEFINE y == PhysSize - start
<1>2. x \in Int /\ y \in Int /\ x + y = base + PhysSize /\ Wrap(x) \in Int
  BY <1>1, WrapType, Sizes DEF Phys
<1> HIDE DEF x, y
<1>3. Wrap(Wrap(x) + y) = Wrap(base + PhysSize)
  BY <1>2, WrapAdd, Zenon
<1>4. Wrap(x) + y = Wrap(x) - start + PhysSize
  BY <1>1, <1>2 DEF y
<1>5. Wrap(base + PhysSize) = base
  BY <1>1, WrapPeriod, WrapSmall
<1> QED
  BY <1>3, <1>4, <1>5 DEF BlockBase, x

\* Where the bytes of an instruction of a block are: as far behind the block's
\* physical address as its EIP is behind the block's.
LEMMA ByteAt ==
  ASSUME NEW p \in Phys, NEW start \in Phys, NEW e \in Phys, NEW j \in Nat,
         NEW c, c.base = BlockBase(p, start)
  PROVE  CodeAddr(c, Wrap(e + j)) = Wrap(p + (Wrap(e - start) + j))
<1>1. p \in Int /\ start \in Int /\ e \in Int /\ j \in Int /\ PhysSize \in Int
  BY Sizes DEF Phys
<1> DEFINE x == p - start
<1> DEFINE y == e - start
<1> DEFINE z == e + j
<1>2. x \in Int /\ y \in Int /\ z \in Int /\ x + z \in Int
  BY <1>1
<1>3. Wrap(x) \in Int /\ Wrap(y) \in Int /\ Wrap(z) \in Int
  BY <1>2, WrapType, Sizes DEF Phys
<1>4. c.base = Wrap(x)
  BY <1>1, <1>2, WrapPeriod DEF BlockBase
<1> HIDE DEF x, y, z
<1>5. Wrap(Wrap(x) + Wrap(z)) = Wrap(x + Wrap(z))
  BY <1>2, <1>3, WrapAdd, Zenon
<1>6. Wrap(Wrap(z) + x) = Wrap(z + x)
  BY <1>2, <1>3, WrapAdd, Zenon
<1>7. p + j \in Int
  BY <1>1
<1>8. Wrap(Wrap(y) + (p + j)) = Wrap(y + (p + j))
  BY <1>2, <1>3, <1>7, WrapAdd, Zenon
<1>9. /\ y + (p + j) = z + x
      /\ Wrap(z) + x = x + Wrap(z)
      /\ Wrap(y) + (p + j) = p + (Wrap(y) + j)
  <2>1. y + (p + j) = z + x
    BY <1>1 DEF x, y, z
  <2> QED
    BY <2>1, <1>1, <1>2, <1>3
<1>10. Wrap(Wrap(x) + Wrap(z)) = Wrap(p + (Wrap(y) + j))
  BY <1>5, <1>6, <1>8, <1>9, Zenon
<1> QED
  BY <1>4, <1>10, Zenon DEF CodeAddr, y, z

-----------------------------------------------------------------------------
\* The segment a block was translated under.
BlockSeg(b, c) == [base |-> BlockBase(b.phys, b.start_eip), limit |-> 0, ctx |-> c]

\* What FreshBlock says of one instruction.
LEMMA FreshInsn ==
  ASSUME NEW m, NEW b, NEW c
  PROVE  FreshBlock(m, b, c) <=>
           \A i \in 1 .. Len(b.insns) :
              /\ b.insns[i].d = Decode(m, BlockSeg(b, c), b.insns[i].eip)
              /\ b.insns[i].eip = (IF i = 1 THEN b.start_eip
                                   ELSE EndOf(b.insns[i - 1].d, b.insns[i - 1].eip))
  BY DEF FreshBlock, BlockSeg, BlockBase

\* The members of a block.
LEMMA BlockType ==
  ASSUME NEW b \in BlockMeta
  PROVE  /\ b.phys \in Phys /\ b.start_eip \in Phys /\ b.version \in Nat
         /\ Len(b.insns) \in Nat
         /\ \A i \in 1 .. Len(b.insns) :
               /\ b.insns[i] \in BlockInsn
               /\ b.insns[i].eip \in Phys
               /\ b.insns[i].d \in DecodedInsn
<1>1. b.insns \in Seq(BlockInsn)
  BY DEF BlockMeta
<1>2. ASSUME NEW i \in 1 .. Len(b.insns) PROVE b.insns[i] \in BlockInsn
  BY <1>1, ElementOfSeq
<1> QED
  BY <1>1, <1>2 DEF BlockMeta, BlockInsn

\* The base of a block's segment is an address.
LEMMA BlockSegType ==
  ASSUME NEW b \in BlockMeta, NEW c \in Ctx
  PROVE  /\ BlockSeg(b, c).base = BlockBase(b.phys, b.start_eip)
         /\ BlockSeg(b, c).base \in Phys
         /\ BlockSeg(b, c).ctx = c
<1>1. b.phys - b.start_eip + PhysSize \in Int
  BY BlockType, Sizes DEF Phys
<1> QED
  BY <1>1, WrapType DEF BlockSeg, BlockBase

\* A store that stamps neither end on the block's slot leaves the block fresh:
\* every byte of its instructions lies in its page.
LEMMA BlockSurvives ==
  ASSUME StampsCoverRam,
         NEW m \in [RamAddr -> Byte], NEW st \in Store,
         NEW b \in BlockMeta, NEW c \in Ctx,
         BlockShape(b), FreshBlock(m, b, c),
         StampSlot(b.phys) \notin {StampSlot(st.addr),
                                  StampSlot(Wrap(st.addr + st.width - 1))}
  PROVE  FreshBlock(StoreBytes(m, st), b, c)
<1> DEFINE m2 == StoreBytes(m, st)
<1> DEFINE seg == BlockSeg(b, c)
<1>1. /\ seg.base = BlockBase(b.phys, b.start_eip)
      /\ seg.base \in Phys /\ seg.ctx \in Ctx
  BY BlockSegType
<1> HIDE DEF seg, m2
<1>2. ASSUME NEW k \in 1 .. Len(b.insns)
      PROVE  Decode(m2, seg, b.insns[k].eip) = Decode(m, seg, b.insns[k].eip)
  <2> DEFINE e == b.insns[k].eip
  <2> DEFINE n == LengthAt(m, seg, e)
  <2> DEFINE o == Wrap(e - b.start_eip)
  <2> DEFINE r == b.phys % PageSize
  <2>1. e \in Phys /\ b.phys \in Phys /\ b.start_eip \in Phys
    BY BlockType
  <2>2. o \in Nat
    <3>1. e - b.start_eip \in Int
      BY <2>1, Sizes DEF Phys
    <3> QED
      BY <3>1, WrapType, Sizes DEF Phys
  <2>3. r \in 0 .. PageSize - 1
    BY <2>1, AddrSplit
  <2>4. n \in 1 .. MaxInsnLen /\ n \in Nat /\ b.insns[k].d.len = n
    <3>1. b.insns[k].d = Decode(m, seg, e)
      BY FreshInsn DEF seg
    <3> QED
      BY <3>1, <1>1, <2>1, DecodeType, CodeAssumption
  <2>5. r + o + n <= PageSize
    BY <2>4 DEF BlockShape
  <2> HIDE DEF n, o, r, e
  <2>6. ASSUME NEW j \in 0 .. n - 1
        PROVE  CodeByte(m2, seg, e, j) = CodeByte(m, seg, e, j)
    <3>1. j \in Nat /\ o + j \in Nat
      BY <2>2, <2>4
    <3>2. CodeAddr(seg, Wrap(e + j)) = Wrap(b.phys + (o + j))
      BY <1>1, <2>1, <3>1, ByteAt DEF o
    <3>3. r + (o + j) < PageSize
      BY <2>2, <2>3, <2>4, <2>5, SizeAssumption
    <3>4. StampSlot(Wrap(b.phys + (o + j))) = StampSlot(b.phys)
      BY <2>1, <3>1, <3>3, PageLocal DEF StampSlot, r
    <3>5. Wrap(b.phys + (o + j)) \in Phys
      <4>1. b.phys + (o + j) \in Int
        BY <2>1, <3>1, Sizes DEF Phys
      <4> QED
        BY <4>1, WrapType
    <3>6. m2[RamIndex(Wrap(b.phys + (o + j)))] = m[RamIndex(Wrap(b.phys + (o + j)))]
      BY <3>4, <3>5, StoreElsewhere DEF m2
    <3> QED
      BY <3>2, <3>6 DEF CodeByte
  <2> QED
    BY <1>1, <2>1, <2>6, DecodeSame DEF n, e
<1> QED
  BY <1>2, FreshInsn DEF seg, m2

-----------------------------------------------------------------------------
\* A function on 1 .. n is a sequence of length n.
LEMMA FunctionSeq ==
  ASSUME NEW S, NEW n \in Nat, NEW f \in [1 .. n -> S]
  PROVE  f \in Seq(S) /\ Len(f) = n /\ DOMAIN f = 1 .. n
<1>1. f \in Seq(S)
  BY SeqDef
<1>2. DOMAIN f = 1 .. n /\ DOMAIN f = 1 .. Len(f) /\ Len(f) \in Nat
  BY <1>1, LenProperties
<1>3. Len(f) = n
  BY <1>2
<1> QED
  BY <1>1, <1>2, <1>3

\* The instructions of a plan.
LEMMA PlanInsn ==
  ASSUME TypeOK, NEW offs \in jit_plan
  PROVE  /\ Len(offs) \in Nat /\ Len(offs) >= 1 /\ DOMAIN offs = 1 .. Len(offs)
         /\ InPlan(offs)
         /\ \A i \in 1 .. Len(offs) :
               /\ offs[i] \in Nat /\ offs[i] < PlanRoom
               /\ PlanEip(offs[i]) \in Phys
               /\ Planned(offs[i]) \in DecodedInsn
               /\ Planned(offs[i]).len \in Nat \ {0}
         /\ PlanRoom = PageSize - (phys % PageSize) /\ phys % PageSize \in 0 .. PageSize - 1
<1>1. phys % PageSize \in 0 .. PageSize - 1
  BY HeadType, AddrSplit
<1>2. PICK n \in 1 .. MAX_BLOCK_INSNS : offs \in [1 .. n -> 0 .. PlanRoom - 1]
  BY DEF jit_plan
<1>3. n \in Nat /\ n >= 1
  BY <1>2, JitAssumption
<1>4. Len(offs) = n /\ DOMAIN offs = 1 .. n
  BY <1>2, <1>3, FunctionSeq
<1>5. PlanRoom \in Nat
  BY <1>1, SizeAssumption DEF PlanRoom
<1>6. ASSUME NEW i \in 1 .. n
      PROVE  /\ offs[i] \in Nat /\ offs[i] < PlanRoom
             /\ PlanEip(offs[i]) \in Phys
             /\ Planned(offs[i]) \in DecodedInsn
             /\ Planned(offs[i]).len \in Nat \ {0}
  <2>1. offs[i] \in 0 .. PlanRoom - 1
    BY <1>2
  <2>2. eip + offs[i] \in Int
    BY <2>1, <1>5, Sizes DEF TypeOK, Phys
  <2>3. PlanEip(offs[i]) \in Phys
    BY <2>2, WrapType DEF PlanEip
  <2> QED
    BY SMTT(60), <2>1, <1>5, <2>3, TypeOK, HeadType, DecodeType, CodeAssumption DEF Planned, TypeOK
<1> QED
  BY <1>1, <1>3, <1>4, <1>6 DEF jit_plan, PlanRoom

\* Offsets in a page do not wrap.
LEMMA OffsetSmall ==
  ASSUME NEW o \in 0 .. PageSize - 1
  PROVE  o \in Phys /\ Wrap(o) = o
<1>1. o \in Phys
  BY Sizes, SizeAssumption DEF Phys
<1> QED
  BY <1>1, WrapSmall

\* The block translated now is a block, and it stays in its page.
LEMMA NewBlockShape ==
  ASSUME TypeOK, NEW offs \in jit_plan
  PROVE  /\ NewBlock(offs) \in BlockMeta
         /\ Len(NewBlock(offs).insns) = Len(offs)
         /\ NewBlock(offs).phys = phys /\ NewBlock(offs).start_eip = eip
         /\ NewBlock(offs).version = clock
         /\ \A i \in 1 .. Len(offs) :
               /\ NewBlock(offs).insns[i].d = Planned(offs[i])
               /\ NewBlock(offs).insns[i].eip = PlanEip(offs[i])
         /\ BlockShape(NewBlock(offs))
<1> DEFINE b == NewBlock(offs)
<1> DEFINE n == Len(offs)
<1> DEFINE f == [i \in 1 .. n |-> [d |-> Planned(offs[i]), eip |-> PlanEip(offs[i])]]
<1>1. /\ n \in Nat /\ n >= 1 /\ DOMAIN offs = 1 .. n
      /\ InPlan(offs)
  BY PlanInsn
<1>2. b = [phys |-> phys, version |-> clock, start_eip |-> eip, insns |-> f]
  BY <1>1 DEF NewBlock
<1>3. f \in [1 .. n -> BlockInsn]
  BY PlanInsn DEF BlockInsn
<1> HIDE DEF n
<1>4. f \in Seq(BlockInsn) /\ Len(f) = n
  BY <1>1, <1>3, FunctionSeq
<1>5. ASSUME NEW i \in 1 .. n
      PROVE  f[i].d = Planned(offs[i]) /\ f[i].eip = PlanEip(offs[i])
  <2>1. f[i] = [d |-> Planned(offs[i]), eip |-> PlanEip(offs[i])]
    OBVIOUS
  <2> QED
    BY <2>1
<1> HIDE DEF f
<1>6. b \in BlockMeta
  BY <1>2, <1>4, HeadType DEF BlockMeta, TypeOK
<1>7. b.phys = phys /\ b.start_eip = eip /\ b.version = clock /\ b.insns = f
  BY <1>2
<1>8. ASSUME NEW i \in 1 .. n
      PROVE  /\ (phys % PageSize) + Wrap(f[i].eip - eip) + f[i].d.len <= PageSize
             /\ KindOf(f[i].d) # "other"
             /\ i # n => KindOf(f[i].d) = "body"
  <2> DEFINE o == offs[i]
  <2>1. /\ o \in Nat /\ o < PlanRoom /\ PlanRoom = PageSize - (phys % PageSize)
        /\ phys % PageSize \in 0 .. PageSize - 1
        /\ Planned(o).len \in Nat
    BY PlanInsn DEF n
  <2>2. /\ KindOf(Planned(o)) # "other"
        /\ o + Planned(o).len <= PlanRoom
        /\ i # n => KindOf(Planned(o)) = "body"
    BY <1>1 DEF InPlan, n
  <2>3. f[i].d = Planned(o) /\ f[i].eip = PlanEip(o)
    BY <1>5
  <2> HIDE DEF o
  <2>4. Wrap(PlanEip(o) - eip) = o
    <3>1. eip \in Int /\ eip + o \in Int /\ 0 - eip \in Int /\ Wrap(eip + o) \in Int
      BY <2>1, WrapType, Sizes DEF TypeOK, Phys
    <3>2. Wrap(Wrap(eip + o) + (0 - eip)) = Wrap((eip + o) + (0 - eip))
      BY <3>1, WrapAdd, Zenon
    <3>3. (eip + o) + (0 - eip) = o /\ Wrap(eip + o) + (0 - eip) = Wrap(eip + o) - eip
      BY <2>1, <3>1
    <3>4. Wrap(o) = o
      BY <2>1, OffsetSmall, SizeAssumption
    <3> QED
      BY <3>2, <3>3, <3>4 DEF PlanEip
  <2> QED
    BY <2>1, <2>2, <2>3, <2>4, SizeAssumption
<1>9. BlockShape(b)
  BY <1>1, <1>4, <1>7, <1>8 DEF BlockShape
<1> QED
  BY <1>4, <1>5, <1>6, <1>7, <1>9 DEF n

\* Decode products depend on the segment's base and context only.
LEMMA DecodeBase ==
  ASSUME NEW m, NEW c1, NEW c2, NEW off, c1.base = c2.base, c1.ctx = c2.ctx
  PROVE  Decode(m, c1, off) = Decode(m, c2, off)
<1>1. \A i : CodeByte(m, c1, off, i) = CodeByte(m, c2, off, i)
  BY DEF CodeByte, CodeAddr
<1>2. LengthAt(m, c1, off) = LengthAt(m, c2, off)
  BY <1>1 DEF LengthAt
<1> QED
  BY <1>1, <1>2 DEF Decode

\* A block entered at its own address and EIP is decoded as CS:EIP is.
LEMMA BlockSegIsCs ==
  ASSUME TypeOK, NEW b, b.phys = phys, b.start_eip = eip, NEW m, NEW off
  PROVE  Decode(m, BlockSeg(b, cs.ctx), off) = Decode(m, cs, off)
<1>1. cs.base \in Phys /\ eip \in Phys
  BY HeadType DEF TypeOK
<1>2. BlockBase(phys, eip) = cs.base
  BY <1>1, BaseBack DEF phys, CodeAddr
<1> QED
  BY <1>2, DecodeBase DEF BlockSeg

\* The block translated now is what its bytes decode to.
LEMMA NewBlockFresh ==
  ASSUME TypeOK, NEW offs \in jit_plan
  PROVE  FreshBlock(ram, NewBlock(offs), cs.ctx)
<1> DEFINE b == NewBlock(offs)
<1> DEFINE n == Len(offs)
<1>1. /\ n \in Nat /\ n >= 1 /\ DOMAIN offs = 1 .. n
      /\ InPlan(offs)
  BY PlanInsn
<1>2. /\ Len(b.insns) = n
      /\ b.phys = phys /\ b.start_eip = eip
      /\ \A i \in 1 .. n : /\ b.insns[i].d = Planned(offs[i])
                           /\ b.insns[i].eip = PlanEip(offs[i])
  BY NewBlockShape
<1> HIDE DEF b, n
<1>3. ASSUME NEW i \in 1 .. n
      PROVE  b.insns[i].d = Decode(ram, BlockSeg(b, cs.ctx), b.insns[i].eip)
  BY <1>2, BlockSegIsCs DEF Planned
<1>4. b.insns[1].eip = b.start_eip
  <2>1. PlanEip(0) = eip
    <3>1. eip + 0 = eip
      BY Sizes DEF TypeOK, Phys
    <3> QED
      BY <3>1, WrapSmall DEF PlanEip, TypeOK
  <2>2. 1 \in 1 .. n
    BY <1>1
  <2> QED
    BY <1>1, <1>2, <2>1, <2>2 DEF InPlan
<1>5. ASSUME NEW i \in 1 .. n, i # 1
      PROVE  b.insns[i].eip = EndOf(b.insns[i - 1].d, b.insns[i - 1].eip)
  <2> DEFINE o == offs[i - 1]
  <2> DEFINE l == Planned(o).len
  <2>1. i - 1 \in 1 .. n /\ i - 1 # n
    BY <1>1, <1>5
  <2>2. offs[i] = o + l
    <3>1. offs[(i - 1) + 1] = o + l
      BY <1>1, <2>1 DEF InPlan, n
    <3>2. (i - 1) + 1 = i
      BY <1>1
    <3> QED
      BY <3>1, <3>2
  <2>3. o \in Nat /\ l \in Nat
    BY <2>1, PlanInsn DEF n
  <2>4. b.insns[i - 1].d.len = l /\ b.insns[i - 1].eip = PlanEip(o)
        /\ b.insns[i].eip = PlanEip(offs[i])
    BY <1>2, <2>1
  <2> HIDE DEF o, l
  <2>5. eip + o \in Int /\ l \in Int /\ (eip + o) + l = eip + (o + l)
    BY <2>3, Sizes DEF TypeOK, Phys
  <2>6. Wrap(Wrap(eip + o) + l) = Wrap(eip + (o + l))
    BY <2>5, WrapAdd, Zenon
  <2> QED
    BY <2>2, <2>4, <2>6 DEF EndOf, PlanEip
<1> QED
  BY <1>2, <1>3, <1>4, <1>5, FreshInsn DEF b

-----------------------------------------------------------------------------
\* The members of a slot.
LEMMA SlotFacts ==
  ASSUME NEW t \in Slot
  PROVE  /\ t.version \in Nat /\ t.idx \in Nat
         /\ t.idx # COLD => t.idx >= 1 /\ t.key \in Key
  BY DEF Slot, EmptySlot, COLD

\* Where an instruction ends and jumps to are addresses.
LEMMA InsnType ==
  ASSUME NEW d \in DecodedInsn, NEW e \in Phys
  PROVE  /\ d.len \in Nat \ {0}
         /\ EndOf(d, e) \in Phys
         /\ TargetOf(d, e) \in Phys
<1>1. PICK n \in 1 .. MaxInsnLen : d \in [ctx : Ctx, len : {n}, bytes : [0 .. n - 1 -> Byte]]
  BY DEF DecodedInsn
<1>2. n \in Nat /\ n >= 1 /\ n - 1 \in 0 .. n - 1
  BY CodeAssumption
<1>3. d.len = n /\ d.bytes[n - 1] \in Byte
  BY <1>1, <1>2
<1>4. e \in Int
  BY Sizes DEF Phys
<1>5. EndOf(d, e) \in Phys
  BY <1>2, <1>3, <1>4, WrapType DEF EndOf
<1>6. Rel[d.bytes[d.len - 1]] \in Phys
  BY <1>3, KindAssumption
<1>7. EndOf(d, e) + Rel[d.bytes[d.len - 1]] \in Int
  BY <1>5, <1>6, Sizes DEF Phys
<1> QED
  BY <1>2, <1>3, <1>5, <1>7, WrapType DEF TargetOf

\* What step_fast leaves behind.
LEMMA StepFastType ==
  ASSUME TypeOK, UnitInv, StepFast
  PROVE  /\ UNCHANGED <<ram, cs, pending, stamps, clock, inval, cur, pos, r8, rcx, hostDirty>>
         /\ eip' \in Phys /\ executing' \in BOOLEAN
         /\ executed' \in DecodedInsn \cup {GP, Event}
         /\ left' \in Nat /\ (executing' => left' > 0)
         /\ ~hostDirty
<1> DEFINE d == Decode(ram, cs, eip)
<1>1. d \in DecodedInsn /\ eip \in Phys /\ left \in Nat /\ executing \in BOOLEAN
  BY HeadType, DecodeType DEF TypeOK
<1>2. EndOf(d, eip) \in Phys /\ TargetOf(d, eip) \in Phys
  BY <1>1, InsnType
<1>3. UNCHANGED <<stamps, clock, inval, cur, pos, r8, rcx, hostDirty>>
  BY DEF StepFast, stampVars, blockVars
<1>4. CASE Simple
  <2>1. eip' \in {EndOf(d, eip), TargetOf(d, eip)}
    BY <1>4 DEF Simple, Reaches
  <2>2. /\ UNCHANGED <<ram, cs, executing, pending>> /\ ~executing /\ left > 0
        /\ executed' = d /\ left' = left - 1
    BY <1>4 DEF Simple, AtUnit
  <2> HIDE DEF d
  <2> QED
    BY <2>1, <2>2, <1>1, <1>2, <1>3 DEF UnitInv, AtHost
<1>5. CASE Open
  <2>1. executed' \in {d, GP}
    BY <1>5 DEF Open, OpenAt
  <2>2. /\ UNCHANGED <<ram, cs, eip, left, pending>> /\ ~executing /\ left > 0
        /\ executing' = TRUE
    BY <1>5 DEF Open, AtUnit
  <2> HIDE DEF d
  <2> QED
    BY <2>1, <2>2, <1>1, <1>3 DEF UnitInv, AtHost
<1> QED
  BY <1>4, <1>5 DEF StepFast

\* What the invariant asks of a list of blocks and a table.
CacheFits(bs, tb) ==
    /\ bs \in Seq(BlockMeta) /\ tb \in [TableIndex -> Slot]
    /\ \A k \in 1 .. Len(bs) : BlockShape(bs[k])
    /\ \A s \in TableIndex :
          /\ tb[s].version <= clock
          /\ tb[s].idx # COLD =>
                /\ tb[s].idx <= Len(bs)
                /\ bs[tb[s].idx].version = tb[s].version
                /\ bs[tb[s].idx].phys = tb[s].key.phys
                /\ ~hostDirty /\ LiveAt(tb[s].version, tb[s].key.phys) =>
                      FreshBlock(ram, bs[tb[s].idx], tb[s].key.ctx)

\* The cache of an invariant state fits.
LEMMA CacheNow ==
  ASSUME IInv
  PROVE  CacheFits(blocks, table)
  BY DEF IInv, TypeOK, ClockInv, BlocksInv, NoStaleBlock, PrologueAgrees, TableFresh, CacheFits

\* A step outside blocks that leaves memory and clocks alone, and a cache that
\* fits, keeps the invariant.
LEMMA OutsideStep ==
  ASSUME IInv, CacheFits(blocks', table'),
         UNCHANGED <<ram, stamps, clock, inval, hostDirty>>,
         cur' = 0, pos' \in Nat, r8' \in Nat, rcx' \in Nat, hot' \in [HotIndex -> Nat],
         cs' \in CodeSegment, eip' \in Phys, executing' \in BOOLEAN, pending' \in BOOLEAN,
         executed' \in DecodedInsn \cup {GP, Event},
         left' \in Nat, executing' => left' > 0,
         hostDirty => ~executing' /\ left' <= 0
  PROVE  IInv'
<1>1. TypeOK'
  <2>1. /\ ram' \in [RamAddr -> Byte] /\ hostDirty' \in BOOLEAN
        /\ stamps' \in [StampIndex -> Nat] /\ clock' \in Nat /\ inval' \in Nat
    BY DEF IInv, TypeOK
  <2>2. blocks' \in Seq(BlockMeta) /\ table' \in [TableIndex -> Slot]
    BY DEF CacheFits
  <2>3. cur' \in 0 .. Len(blocks')
    BY <2>2, LenProperties
  <2> QED
    BY <2>1, <2>2, <2>3, Zenon DEF TypeOK
<1>2. ClockInv'
  BY DEF IInv, ClockInv, CacheFits
<1>3. UnitInv'
  BY DEF UnitInv, AtHost
<1>4. BlocksInv' /\ CodeInv'
  BY DEF BlocksInv, CacheFits, CodeInv
<1>5. NoStaleBlock'
  <2>1. \A v, p : LiveAt(v, p)' = LiveAt(v, p)
    BY DEF LiveAt
  <2>2. PrologueAgrees'
    BY DEF PrologueAgrees, CacheFits
  <2>3. ~hostDirty' => TableFresh'
    BY <2>1 DEF TableFresh, CacheFits, LiveAt
  <2> QED
    BY <2>2, <2>3 DEF NoStaleBlock
<1> QED
  BY <1>1, <1>2, <1>3, <1>4, <1>5 DEF IInv

\* An empty cache fits.
LEMMA EmptyFits ==
  TypeOK => CacheFits(<<>>, EmptyTable)
<1>1. EmptySlot \in Slot /\ EmptySlot.idx = COLD /\ EmptySlot.version = 0
  BY DEF EmptySlot, Slot, COLD
<1>2. <<>> \in Seq(BlockMeta) /\ Len(<<>>) = 0
  BY EmptySeq
<1>3. EmptyTable \in [TableIndex -> Slot] /\ \A s \in TableIndex : EmptyTable[s] = EmptySlot
  BY <1>1 DEF EmptyTable
<1> HIDE DEF EmptyTable
<1>4. TypeOK => clock \in Nat
  BY DEF TypeOK
<1> QED
  BY <1>1, <1>2, <1>3, <1>4 DEF CacheFits

\* What is left after a possible flush fits.
LEMMA KeptFits ==
  ASSUME IInv
  PROVE  CacheFits(Kept, KeptTable)
<1>1. CASE Full
  BY <1>1, EmptyFits DEF IInv, Kept, KeptTable
<1>2. CASE ~Full
  BY <1>2, CacheNow DEF Kept, KeptTable
<1> QED
  BY <1>1, <1>2

\* So does a table with a slot marked cold.
LEMMA ColdFits ==
  ASSUME IInv, NEW bs, NEW tb, CacheFits(bs, tb)
  PROVE  CacheFits(bs, [tb EXCEPT ![TableSlot] = ColdSlot])
<1> DEFINE t2 == [tb EXCEPT ![TableSlot] = ColdSlot]
<1>1. clock \in Nat /\ key \in Key /\ TableSlot \in TableIndex
  BY HeadType DEF IInv, TypeOK
<1>2. ColdSlot \in Slot /\ ColdSlot.idx = COLD /\ ColdSlot.version = clock
  BY <1>1 DEF ColdSlot, Slot, COLD
<1>3. tb \in [TableIndex -> Slot]
  BY DEF CacheFits
<1>4. t2 \in [TableIndex -> Slot]
  BY <1>1, <1>2, <1>3
<1>5. ASSUME NEW s \in TableIndex PROVE t2[s] = tb[s] \/ t2[s] = ColdSlot
  BY <1>3
<1> HIDE DEF t2
<1>6. CacheFits(bs, t2)
  <2>1. ASSUME NEW s \in TableIndex
        PROVE  /\ t2[s].version <= clock
               /\ t2[s].idx # COLD => t2[s] = tb[s]
    BY <1>1, <1>2, <1>5 DEF CacheFits
  <2> QED
    BY <1>4, <2>1 DEF CacheFits
<1> QED
  BY <1>6 DEF t2

\* And the cache with a new block, for which NewSlot names it.
LEMMA NewFits ==
  ASSUME IInv, NEW offs \in jit_plan
  PROVE  CacheFits(Append(Kept, NewBlock(offs)), [KeptTable EXCEPT ![TableSlot] = NewSlot])
<1> DEFINE bs == Kept
<1> DEFINE tb == KeptTable
<1> DEFINE new == NewBlock(offs)
<1> DEFINE b2 == Append(bs, new)
<1> DEFINE t2 == [tb EXCEPT ![TableSlot] = NewSlot]
<1>1. /\ clock \in Nat /\ key \in Key /\ TableSlot \in TableIndex
      /\ key.phys = phys /\ key.ctx = cs.ctx
  BY HeadType DEF IInv, TypeOK, key
<1>2. /\ new \in BlockMeta /\ BlockShape(new)
      /\ new.phys = phys /\ new.version = clock
      /\ FreshBlock(ram, new, cs.ctx)
  BY NewBlockShape, NewBlockFresh DEF IInv
<1>3. CacheFits(bs, tb)
  BY KeptFits
<1> HIDE DEF bs, tb, new
<1>4. bs \in Seq(BlockMeta) /\ tb \in [TableIndex -> Slot]
  BY <1>3 DEF CacheFits
<1>5. /\ b2 \in Seq(BlockMeta)
      /\ Len(bs) \in Nat /\ Len(b2) = Len(bs) + 1
      /\ \A k \in 1 .. Len(bs) : b2[k] = bs[k]
      /\ b2[Len(bs) + 1] = new
  BY <1>2, <1>4
<1>6. /\ NewSlot \in Slot
      /\ NewSlot.key = key /\ NewSlot.version = clock
      /\ NewSlot.idx = Len(bs) + 1 /\ NewSlot.idx # COLD
  BY <1>1, <1>5 DEF NewSlot, Slot, COLD, bs
<1>7. t2 \in [TableIndex -> Slot] /\ t2[TableSlot] = NewSlot
  BY <1>1, <1>4, <1>6
<1>8. ASSUME NEW s \in TableIndex PROVE t2[s] = tb[s] \/ t2[s] = NewSlot
  BY <1>4
<1>9. ASSUME NEW k \in 1 .. Len(b2) PROVE BlockShape(b2[k])
  <2>1. CASE k = Len(bs) + 1
    BY <2>1, <1>2, <1>5
  <2>2. CASE k # Len(bs) + 1
    <3>1. k \in 1 .. Len(bs)
      BY <2>2, <1>5
    <3> QED
      BY <3>1, <1>3, <1>5 DEF CacheFits
  <2> QED
    BY <2>1, <2>2
<1> HIDE DEF b2, t2
<1>10. ASSUME NEW s \in TableIndex
       PROVE  /\ t2[s].version <= clock
              /\ t2[s].idx # COLD =>
                    /\ t2[s].idx <= Len(b2)
                    /\ b2[t2[s].idx].version = t2[s].version
                    /\ b2[t2[s].idx].phys = t2[s].key.phys
                    /\ ~hostDirty /\ LiveAt(t2[s].version, t2[s].key.phys) =>
                          FreshBlock(ram, b2[t2[s].idx], t2[s].key.ctx)
  <2>1. CASE t2[s] = NewSlot
    BY <2>1, <1>1, <1>2, <1>5, <1>6
  <2>2. CASE t2[s] = tb[s]
    <3>1. tb[s].version <= clock
      BY <1>3 DEF CacheFits
    <3>2. ASSUME tb[s].idx # COLD
          PROVE  tb[s].idx \in 1 .. Len(bs) /\ b2[tb[s].idx] = bs[tb[s].idx]
      <4>1. tb[s].idx \in Nat /\ tb[s].idx <= Len(bs)
        BY <1>3, <1>4, <3>2, SlotFacts DEF CacheFits
      <4>2. tb[s].idx \in 1 .. Len(bs)
        BY <4>1, <3>2, <1>5 DEF COLD
      <4> QED
        BY <4>2, <1>5
    <3> QED
      BY <2>2, <3>1, <3>2, <1>3, <1>5 DEF CacheFits
  <2> QED
    BY <2>1, <2>2, <1>8
<1> QED
  BY <1>5, <1>7, <1>9, <1>10 DEF CacheFits, b2, t2, bs, tb, new

-----------------------------------------------------------------------------
\* A store of the guest kills every slot whose block it could make stale.
LEMMA WriteStep ==
  ASSUME StampsCoverRam, IInv, NEW st \in Stores, JitWrite(st)
  PROVE  IInv'
<1> DEFINE first == st.addr
<1> DEFINE last == Wrap(st.addr + st.width - 1)
<1>1. st \in Store
  BY KindAssumption
<1>2. /\ executing /\ ram' = StoreBytes(ram, st)
      /\ stamp_write_span(first, last)
      /\ UNCHANGED <<cs, eip, executing, executed, left, pending, inval,
                     blocks, table, hot, cur, pos, r8, rcx, hostDirty>>
  BY DEF JitWrite, cacheVars, blockVars
<1>3. first \in Phys /\ last \in Phys
  BY <1>1, StoreEnds
<1> HIDE DEF first, last
<1>4. /\ ram \in [RamAddr -> Byte] /\ clock \in Nat /\ inval \in 1 .. clock
      /\ stamps \in [StampIndex -> Nat]
      /\ \A s \in StampIndex : stamps[s] <= clock
  BY DEF IInv, TypeOK, ClockInv
<1>5. /\ clock' \in Nat /\ clock' > clock
      /\ stamps' \in [StampIndex -> Nat]
      /\ \A s \in StampIndex :
            /\ stamps' [s] <= clock'
            /\ s \in {StampSlot(first), StampSlot(last)} => stamps' [s] > clock
            /\ s \notin {StampSlot(first), StampSlot(last)} => stamps' [s] = stamps[s]
  BY <1>2, <1>3, <1>4, SpanStamps
<1>6. cur = 0
  BY <1>2 DEF IInv, UnitInv
<1>7. TypeOK'
  <2>1. ram' \in [RamAddr -> Byte]
    BY <1>1, <1>2, <1>4, StoreType
  <2> QED
    BY <1>2, <1>5, <2>1 DEF IInv, TypeOK
<1>8. ClockInv'
  <2>1. \A s \in TableIndex : table[s].version \in Nat /\ table[s].version <= clock
    BY SlotFacts DEF IInv, TypeOK, ClockInv
  <2> QED
    BY <1>2, <1>4, <1>5, <2>1 DEF ClockInv
<1>9. UnitInv' /\ BlocksInv' /\ CodeInv'
  BY <1>2, <1>6 DEF IInv, UnitInv, AtHost, BlocksInv, CodeInv
<1>10. PrologueAgrees'
  BY <1>2 DEF IInv, NoStaleBlock, PrologueAgrees
<1>11. ASSUME ~hostDirty, NEW s \in TableIndex, table[s].idx # COLD,
              LiveAt(table[s].version, table[s].key.phys)'
       PROVE  FreshBlock(ram', blocks[table[s].idx], table[s].key.ctx)
  <2> DEFINE t == table[s]
  <2> DEFINE b == blocks[t.idx]
  <2>1. /\ t.idx \in 1 .. Len(blocks) /\ b \in BlockMeta /\ BlockShape(b)
        /\ b.phys = t.key.phys
    <3>1. t.idx \in Nat /\ t.idx <= Len(blocks) /\ b.phys = t.key.phys
      BY <1>11, SlotFacts DEF IInv, TypeOK, NoStaleBlock, PrologueAgrees
    <3>2. blocks \in Seq(BlockMeta) /\ Len(blocks) \in Nat
      BY DEF IInv, TypeOK
    <3>3. t.idx \in 1 .. Len(blocks)
      BY <1>11, <3>1, <3>2 DEF COLD
    <3>4. b \in BlockMeta
      BY <3>2, <3>3, ElementOfSeq
    <3> QED
      BY <3>1, <3>3, <3>4 DEF IInv, BlocksInv
  <2>2. t.version \in Nat /\ t.version <= clock /\ b.phys \in Phys
    BY <2>1, SlotFacts, BlockType DEF IInv, TypeOK, ClockInv
  <2>3. t.key.ctx \in Ctx
    <3>1. t.key \in Key
      BY <1>11, SlotFacts DEF IInv, TypeOK
    <3> QED
      BY <3>1 DEF Key
  <2>4. StampSlot(b.phys) \in StampIndex
    BY <2>2, StampSlotType
  <2>5. t.version >= stamps' [StampSlot(b.phys)] /\ t.version >= inval
    BY <1>2, <1>11, <2>1 DEF LiveAt
  <2>6. StampSlot(b.phys) \notin {StampSlot(first), StampSlot(last)}
    BY <1>4, <1>5, <2>2, <2>4, <2>5
  <2>7. LiveAt(t.version, t.key.phys)
    BY <1>5, <2>1, <2>4, <2>5, <2>6 DEF LiveAt
  <2>8. FreshBlock(ram, b, t.key.ctx)
    BY <1>11, <2>7 DEF IInv, NoStaleBlock, TableFresh
  <2> HIDE DEF b, t
  <2>9. FreshBlock(StoreBytes(ram, st), b, t.key.ctx)
    BY <1>1, <1>4, <2>1, <2>3, <2>6, <2>8, BlockSurvives DEF first, last
  <2> QED
    BY <1>2, <2>9 DEF b, t
<1>12. NoStaleBlock'
  BY <1>2, <1>6, <1>10, <1>11 DEF NoStaleBlock, TableFresh
<1> QED
  BY <1>7, <1>8, <1>9, <1>12 DEF IInv

-----------------------------------------------------------------------------
\* What the invariant says of the block being executed and its instruction.
LEMMA InBlockFacts ==
  ASSUME IInv, cur # 0
  PROVE  /\ cur \in 1 .. Len(blocks) /\ AtUnit /\ ~pending
         /\ Block \in BlockMeta /\ BlockShape(Block) /\ FreshBlock(ram, Block, cs.ctx)
         /\ Block.start_eip = eip /\ Block.phys = phys
         /\ Len(Block.insns) \in Nat /\ Len(Block.insns) >= 1
         /\ pos \in 1 .. Len(Block.insns)
         /\ Insn.eip \in Phys /\ Insn.d \in DecodedInsn
         /\ Insn.d = Decode(ram, cs, Insn.eip)
         /\ KindOf(Insn.d) # "other"
         /\ ~AtLast => /\ KindOf(Insn.d) = "body"
                       /\ Block.insns[pos + 1].eip = EndOf(Insn.d, Insn.eip)
         /\ Block.insns[1].eip = eip
         /\ rcx \in Nat /\ rcx >= 1 /\ r8 \in Nat /\ left \in Nat
         /\ r8 + rcx * Len(Block.insns) <= left
         /\ r8 + Len(Block.insns) <= left
<1> DEFINE n == Len(Block.insns)
<1>1. /\ cur \in 1 .. Len(blocks) /\ AtUnit /\ ~pending
      /\ Block.start_eip = eip /\ Block.phys = phys
      /\ pos \in 1 .. n
      /\ rcx \in Nat /\ rcx >= 1 /\ r8 \in Nat /\ left \in Nat
      /\ r8 + rcx * n <= left
  <2>1. cur \in 0 .. Len(blocks) /\ Len(blocks) \in Nat
    BY DEF IInv, TypeOK
  <2> QED
    BY <2>1 DEF IInv, TypeOK, CodeInv
<1>2. Block \in BlockMeta /\ BlockShape(Block)
  BY <1>1, ElementOfSeq DEF IInv, TypeOK, BlocksInv, Block
<1>3. n \in Nat /\ n >= 1
  BY <1>2, BlockType DEF BlockShape
<1>4. FreshBlock(ram, Block, cs.ctx)
  BY DEF IInv, NoStaleBlock
<1>5. Insn.eip \in Phys /\ Insn.d \in DecodedInsn
  BY <1>1, <1>2, BlockType DEF Insn
<1>6. Insn.d = Decode(ram, cs, Insn.eip)
  <2>1. Insn.d = Decode(ram, BlockSeg(Block, cs.ctx), Insn.eip)
    BY <1>1, <1>4, FreshInsn DEF Insn
  <2> QED
    BY <1>1, <2>1, BlockSegIsCs DEF IInv
<1>7. /\ KindOf(Insn.d) # "other"
      /\ ~AtLast => KindOf(Insn.d) = "body"
  BY <1>1, <1>2 DEF BlockShape, Insn, AtLast
<1>8. ASSUME ~AtLast
      PROVE  Block.insns[pos + 1].eip = EndOf(Insn.d, Insn.eip)
  <2>1. pos + 1 \in 1 .. n /\ pos + 1 # 1 /\ (pos + 1) - 1 = pos
    BY <1>1, <1>3, <1>8 DEF AtLast
  <2> QED
    BY <1>4, <2>1, FreshInsn DEF Insn
<1>9. Block.insns[1].eip = eip
  <2>1. 1 \in 1 .. n
    BY <1>3
  <2> QED
    BY <1>1, <1>4, <2>1, FreshInsn
<1> HIDE DEF n
<1>10. r8 + n <= left
  <2>1. n * (rcx - 1) \in Nat
    BY <1>1, <1>3
  <2>2. n * (rcx - 1) = rcx * n - n
    BY <1>1, <1>3
  <2> QED
    BY <1>1, <1>3, <2>1, <2>2
<1> QED
  BY <1>1, <1>2, <1>3, <1>4, <1>5, <1>6, <1>7, <1>8, <1>9, <1>10 DEF n

\* A step into or inside a block keeps the invariant when the block is the one
\* at CS:EIP and the budget covers its iterations.
LEMMA InsideStep ==
  ASSUME IInv,
         UNCHANGED <<ram, cs, eip, executing, left, pending, stamps, clock, inval,
                     blocks, table, hot, hostDirty>>,
         AtUnit, ~pending,
         executed' \in DecodedInsn \cup {GP, Event},
         NEW k \in 1 .. Len(blocks), cur' = k,
         blocks[k].start_eip = eip, blocks[k].phys = phys,
         FreshBlock(ram, blocks[k], cs.ctx),
         pos' \in 1 .. Len(blocks[k].insns),
         r8' \in Nat, rcx' \in Nat, rcx' >= 1,
         r8' + rcx' * Len(blocks[k].insns) <= left
  PROVE  IInv'
<1>1. blocks \in Seq(BlockMeta) /\ Len(blocks) \in Nat
  BY DEF IInv, TypeOK
<1>2. Len(blocks[k].insns) \in Nat
  BY <1>1, ElementOfSeq, BlockType
<1>3. TypeOK'
  <2>1. pos' \in Nat /\ cur' \in 0 .. Len(blocks')
    BY <1>1, <1>2
  <2> QED
    BY <2>1, Zenon DEF IInv, TypeOK
<1>4. Block' = blocks[k] /\ phys' = phys
  BY DEF Block, phys, CodeAddr
<1>5. CodeInv'
  BY <1>4 DEF CodeInv, AtUnit
<1>6. ClockInv' /\ UnitInv' /\ BlocksInv'
  BY DEF IInv, ClockInv, UnitInv, BlocksInv, AtHost, AtUnit
<1>7. NoStaleBlock'
  <2>1. \A v, p : LiveAt(v, p)' = LiveAt(v, p)
    BY DEF LiveAt
  <2>2. PrologueAgrees'
    BY DEF IInv, NoStaleBlock, PrologueAgrees
  <2>3. ~hostDirty' => TableFresh'
    BY DEF IInv, NoStaleBlock, TableFresh, LiveAt
  <2> QED
    BY <1>4, <2>2, <2>3 DEF NoStaleBlock
<1> QED
  BY <1>3, <1>5, <1>6, <1>7 DEF IInv

-----------------------------------------------------------------------------
\* A block is entered fresh, at its own EIP.
LEMMA EnterFacts ==
  ASSUME IInv, Enter
  PROVE  LET k == table[TableSlot].idx
             n == Len(blocks[k].insns)
         IN  /\ AtUnit /\ ~pending
             /\ k \in 1 .. Len(blocks)
             /\ blocks[k].start_eip = eip /\ blocks[k].phys = phys
             /\ FreshBlock(ram, blocks[k], cs.ctx)
             /\ blocks[k].insns[1].eip = eip
             /\ n \in Nat /\ n >= 1 /\ n <= left
             /\ cur' = k /\ pos' = 1 /\ r8' = 0 /\ rcx' = left \div n
             /\ UNCHANGED <<ram, cs, eip, executing, executed, left, pending, stamps, clock,
                            inval, blocks, table, hot, hostDirty>>
<1> DEFINE t == table[TableSlot]
<1> DEFINE k == t.idx
<1> DEFINE n == Len(blocks[k].insns)
<1>1. /\ AtUnit /\ ~pending
      /\ t.key = key /\ LiveAt(t.version, phys) /\ t.idx # COLD
      /\ blocks[k].start_eip = eip /\ n <= left
      /\ cur' = k /\ pos' = 1 /\ r8' = 0 /\ rcx' = left \div n
      /\ UNCHANGED <<ram, cs, eip, executing, executed, left, pending, stamps, clock, inval,
                     blocks, table, hot, hostDirty>>
  BY DEF Enter, AtHead, Enterable, jit_lookup, Iterations, vars, stampVars, cacheVars
<1>2. t \in Slot /\ TableSlot \in TableIndex
  BY HeadType DEF IInv, TypeOK
<1>3. k \in 1 .. Len(blocks)
  <2>1. k \in Nat /\ k >= 1
    BY <1>1, <1>2, SlotFacts
  <2>2. k <= Len(blocks)
    BY <1>1, <1>2 DEF IInv, NoStaleBlock, PrologueAgrees
  <2>3. Len(blocks) \in Nat
    BY DEF IInv, TypeOK
  <2> QED
    BY <2>1, <2>2, <2>3
<1>4. key.phys = phys /\ key.ctx = cs.ctx
  BY DEF key
<1>5. blocks[k].phys = phys
  BY <1>1, <1>2, <1>4 DEF IInv, NoStaleBlock, PrologueAgrees
<1>6. ~hostDirty
  BY <1>1 DEF IInv, UnitInv, AtHost, AtUnit, TypeOK
<1>7. FreshBlock(ram, blocks[k], cs.ctx)
  BY <1>1, <1>2, <1>4, <1>6 DEF IInv, NoStaleBlock, TableFresh
<1>8. n \in Nat /\ n >= 1
  <2>1. blocks[k] \in BlockMeta /\ BlockShape(blocks[k])
    BY <1>3, ElementOfSeq DEF IInv, TypeOK, BlocksInv
  <2> QED
    BY <2>1, BlockType DEF BlockShape
<1>9. blocks[k].insns[1].eip = eip
  <2>1. 1 \in 1 .. n
    BY <1>8
  <2> QED
    BY <1>1, <1>7, <2>1, FreshInsn
<1> QED
  BY <1>1, <1>3, <1>5, <1>7, <1>8, <1>9

\* Entering a block: the budget covers at least one iteration.
LEMMA EnterStep ==
  ASSUME IInv, Enter
  PROVE  IInv'
<1> DEFINE k == table[TableSlot].idx
<1> DEFINE n == Len(blocks[k].insns)
<1>1. /\ AtUnit /\ ~pending
      /\ k \in 1 .. Len(blocks)
      /\ blocks[k].start_eip = eip /\ blocks[k].phys = phys
      /\ FreshBlock(ram, blocks[k], cs.ctx)
      /\ n \in Nat /\ n >= 1 /\ n <= left
      /\ cur' = k /\ pos' = 1 /\ r8' = 0 /\ rcx' = left \div n
      /\ UNCHANGED <<ram, cs, eip, executing, executed, left, pending, stamps, clock,
                     inval, blocks, table, hot, hostDirty>>
  BY EnterFacts
<1>2. left \in Nat /\ executed \in DecodedInsn \cup {GP, Event}
  BY DEF IInv, TypeOK
<1> HIDE DEF n
<1>3. /\ left \div n \in Int /\ left % n \in 0 .. n - 1
       /\ left = n * (left \div n) + (left % n)
  <2>1. left \in Nat /\ n \in Nat /\ n >= 1
    BY <1>1, <1>2
  <2> HIDE DEF k
  <2>2. left \in Int /\ n \in Nat \ {0}
    BY ONLY <2>1
  <2> QED
    BY ONLY <2>2, DivMod
<1>4. left \div n >= 1
  <2> DEFINE q == left \div n
  <2> SUFFICES ASSUME q < 1 PROVE FALSE
    BY <1>3
  <2>1. q \in Int
    BY <1>3
  <2> HIDE DEF q
  <2>2. n * q + n <= n * 1 /\ n * q \in Int
    BY <1>1, <2>1, MulLe
  <2> QED
    BY <1>1, <1>2, <1>3, <2>2 DEF q
<1>5. 0 + (left \div n) * n <= left
  <2> DEFINE q == left \div n
  <2>1. q \in Int /\ left = n * q + (left % n)
    BY <1>3
  <2> HIDE DEF q
  <2>2. n * q \in Int /\ n * q = q * n
    BY <1>1, <2>1
  <2> QED
    BY <1>1, <1>2, <1>3, <2>1, <2>2 DEF q
<1>6. pos' \in 1 .. n
  BY <1>1
<1>7. r8' \in Nat /\ rcx' \in Nat /\ rcx' >= 1 /\ r8' + rcx' * n <= left
  BY <1>1, <1>3, <1>4, <1>5
<1>8. executed' \in DecodedInsn \cup {GP, Event}
  BY <1>1, <1>2
<1> HIDE DEF k
<1> QED
  BY <1>1, <1>6, <1>7, <1>8, InsideStep DEF n

\* The steps inside a block.
LEMMA InCodeStep ==
  ASSUME IInv, InCode
  PROVE  IInv'
<1> DEFINE n == Len(Block.insns)
<1>1. cur # 0 /\ executed' = Insn.d
  BY DEF InCode, BlockBody, BlockFall, BlockTaken, emit_backedge, InBlock
<1>2. /\ cur \in 1 .. Len(blocks) /\ AtUnit /\ ~pending
      /\ FreshBlock(ram, Block, cs.ctx)
      /\ Block.start_eip = eip /\ Block.phys = phys
      /\ n \in Nat /\ n >= 1 /\ pos \in 1 .. n
      /\ Insn.eip \in Phys /\ Insn.d \in DecodedInsn
      /\ rcx \in Nat /\ rcx >= 1 /\ r8 \in Nat /\ left \in Nat
      /\ r8 + rcx * n <= left /\ r8 + n <= left
  BY <1>1, InBlockFacts
<1>3. executed' \in DecodedInsn \cup {GP, Event}
  BY <1>1, <1>2
<1>4. CASE BlockBody
  <2>1. /\ pos # n /\ pos' = pos + 1 /\ cur' = cur /\ r8' = r8 /\ rcx' = rcx
        /\ UNCHANGED <<ram, cs, eip, executing, left, pending, stamps, clock, inval,
                       blocks, table, hot, hostDirty>>
    BY <1>4 DEF BlockBody, AtLast, stampVars, cacheVars
  <2>2. pos' \in 1 .. n /\ r8' + rcx' * n <= left
    BY <1>2, <2>1
  <2> QED
    BY <1>2, <1>3, <2>1, <2>2, InsideStep DEF Block
<1>5. CASE emit_backedge
  <2>1. /\ rcx # 1 /\ pos' = 1 /\ cur' = cur /\ r8' = r8 + n /\ rcx' = rcx - 1
        /\ UNCHANGED <<ram, cs, eip, executing, left, pending, stamps, clock, inval,
                       blocks, table, hot, hostDirty>>
    BY <1>5 DEF emit_backedge, stampVars, cacheVars
  <2> HIDE DEF n
  <2>2. (rcx - 1) * n = rcx * n - n /\ rcx * n \in Int
    BY <1>2
  <2>3. /\ pos' \in 1 .. n /\ r8' \in Nat /\ rcx' \in Nat /\ rcx' >= 1
        /\ r8' + rcx' * n <= left
    BY <1>2, <2>1, <2>2
  <2> QED
    BY <1>2, <1>3, <2>1, <2>3, InsideStep DEF Block, n
<1>6. ASSUME NEW next \in Phys, emit_exit(next, r8 + n)
      PROVE  IInv'
  <2>1. /\ eip' = next /\ left' = left - (r8 + n)
        /\ cur' = 0 /\ pos' = 0 /\ r8' = 0 /\ rcx' = 0
        /\ UNCHANGED <<ram, cs, executing, pending, stamps, clock, inval,
                       blocks, table, hot, hostDirty>>
    BY <1>6 DEF emit_exit, stampVars, cacheVars
  <2>2. left' \in Nat
    BY <1>2, <2>1
  <2>3. ~executing /\ ~hostDirty
    BY <1>2 DEF AtUnit, IInv, UnitInv, AtHost
  <2>4. /\ cs \in CodeSegment /\ executing \in BOOLEAN /\ pending \in BOOLEAN
        /\ hot \in [HotIndex -> Nat]
    BY DEF IInv, TypeOK
  <2>5. CacheFits(blocks', table')
    BY <2>1, CacheNow
  <2> QED
    BY <1>3, <2>1, <2>2, <2>3, <2>4, <2>5, OutsideStep
<1>7. EndOf(Insn.d, Insn.eip) \in Phys /\ TargetOf(Insn.d, Insn.eip) \in Phys
  BY <1>2, InsnType
<1>8. CASE BlockFall
  BY <1>6, <1>7, <1>8 DEF BlockFall
<1>9. CASE BlockTaken
  BY <1>6, <1>7, <1>9 DEF BlockTaken
<1> QED
  BY <1>4, <1>5, <1>8, <1>9 DEF InCode

\* The interpreter's steps, with whatever the dispatcher did to the cache.
LEMMA InterpretStep ==
  ASSUME IInv, AtHead, StepFast, CacheFits(blocks', table'), hot' \in [HotIndex -> Nat]
  PROVE  IInv'
<1>1. /\ UNCHANGED <<ram, cs, pending, stamps, clock, inval, cur, pos, r8, rcx, hostDirty>>
      /\ eip' \in Phys /\ executing' \in BOOLEAN
      /\ executed' \in DecodedInsn \cup {GP, Event}
      /\ left' \in Nat /\ (executing' => left' > 0)
      /\ ~hostDirty
  BY StepFastType DEF IInv
<1>2. cur' = 0 /\ pos' \in Nat /\ r8' \in Nat /\ rcx' \in Nat
      /\ cs' \in CodeSegment /\ pending' \in BOOLEAN
  BY <1>1 DEF AtHead, IInv, TypeOK
<1> QED
  BY <1>1, <1>2, OutsideStep

\* Counters are numbers.
LEMMA HotType ==
  ASSUME TypeOK
  PROVE  /\ Warmed \in Nat
         /\ KeptHot \in [HotIndex -> Nat]
         /\ [hot EXCEPT ![HotSlot] = Warmed] \in [HotIndex -> Nat]
         /\ EmptyHot \in [HotIndex -> Nat]
<1>1. hot \in [HotIndex -> Nat] /\ HotSlot \in HotIndex /\ HOT_THRESHOLD \in Nat
  BY HeadType, JitAssumption DEF TypeOK
<1>2. Warmed \in Nat
  BY <1>1 DEF Warmed
<1>3. EmptyHot \in [HotIndex -> Nat]
  BY DEF EmptyHot
<1> QED
  BY <1>1, <1>2, <1>3 DEF KeptHot

\* The head of run_jit's loop keeps the invariant.
LEMMA DispatchStep ==
  ASSUME IInv, Dispatch
  PROVE  IInv'
<1>1. TypeOK /\ hot \in [HotIndex -> Nat]
  BY DEF IInv, TypeOK
<1>2. CASE RunBoundary
  <2>1. /\ UNCHANGED <<ram, cs, eip, pending, stamps, clock, inval,
                       blocks, table, hot, cur, pos, r8, rcx, hostDirty>>
        /\ AtUnit /\ cur = 0
        /\ \/ executing' = TRUE /\ executed' = Event /\ left' = left
           \/ left' = 0 /\ UNCHANGED <<executing, executed>>
    BY <1>2 DEF RunBoundary, AtHead, Boundary, stampVars, cacheVars, blockVars
  <2>2. CacheFits(blocks', table')
    BY <2>1, CacheNow
  <2>3. /\ left' \in Nat /\ executing' \in BOOLEAN /\ (executing' => left' > 0)
        /\ executed' \in DecodedInsn \cup {GP, Event}
        /\ ~hostDirty
    <3>1. /\ left \in Nat /\ executing \in BOOLEAN /\ executed \in DecodedInsn \cup {GP, Event}
          /\ ~executing /\ left > 0 /\ ~hostDirty
      BY <2>1 DEF AtUnit, IInv, TypeOK, UnitInv, AtHost
    <3>2. CASE executing' = TRUE /\ executed' = Event /\ left' = left
      BY <3>1, <3>2
    <3>3. CASE left' = 0 /\ UNCHANGED <<executing, executed>>
      BY <3>1, <3>3
    <3> QED
      BY <2>1, <3>2, <3>3
  <2>4. /\ cs' \in CodeSegment /\ eip' \in Phys /\ pending' \in BOOLEAN
        /\ cur' = 0 /\ pos' \in Nat /\ r8' \in Nat /\ rcx' \in Nat
        /\ hot' \in [HotIndex -> Nat]
    BY <2>1 DEF IInv, TypeOK
  <2> QED
    BY <2>1, <2>2, <2>3, <2>4, OutsideStep
<1>3. CASE Step16 \/ Step32
  BY <1>1, <1>3, CacheNow, InterpretStep DEF Step16, Step32, cacheVars
<1>4. CASE Warm
  BY <1>1, <1>4, HotType, CacheNow, InterpretStep DEF Warm, Missed
<1>5. CASE TranslateNothing
  BY <1>1, <1>5, HotType, KeptFits, ColdFits, InterpretStep DEF TranslateNothing, Missed
<1>6. CASE CommitFails
  BY <1>1, <1>6, HotType, EmptyFits, ColdFits, InterpretStep DEF CommitFails, Missed
<1>7. CASE Translate
  <2>1. /\ UNCHANGED <<ram, cs, eip, executing, executed, left, pending, stamps, clock,
                       inval, cur, pos, r8, rcx, hostDirty>>
        /\ AtUnit /\ cur = 0 /\ hot' = KeptHot
    BY <1>7 DEF Translate, Missed, AtHead, vars, stampVars, blockVars
  <2>2. CacheFits(blocks', table')
    BY <1>7, NewFits DEF Translate
  <2>3. /\ left' \in Nat /\ executing' \in BOOLEAN /\ ~executing /\ ~hostDirty
        /\ executed' \in DecodedInsn \cup {GP, Event}
    BY <2>1 DEF AtUnit, IInv, TypeOK, UnitInv, AtHost
  <2>4. /\ cs' \in CodeSegment /\ eip' \in Phys /\ pending' \in BOOLEAN
        /\ cur' = 0 /\ pos' \in Nat /\ r8' \in Nat /\ rcx' \in Nat
        /\ hot' \in [HotIndex -> Nat]
    BY <2>1, <1>1, HotType DEF TypeOK
  <2> QED
    BY <2>1, <2>2, <2>3, <2>4, OutsideStep
<1>8. CASE Enter
  BY <1>8, EnterStep
<1> QED
  BY <1>2, <1>3, <1>4, <1>5, <1>6, <1>7, <1>8 DEF Dispatch

\* An open unit ends, and the host runs the CPU, writes memory, moves it or
\* drops the blocks.
LEMMA RestStep ==
  ASSUME IInv, JitRetire \/ JitRun \/ JitHostSet \/ invalidate_jit
  PROVE  IInv'
<1>1. /\ cs \in CodeSegment /\ eip \in Phys /\ left \in Nat /\ pending \in BOOLEAN
      /\ executing \in BOOLEAN /\ executed \in DecodedInsn \cup {GP, Event}
      /\ pos \in Nat /\ r8 \in Nat /\ rcx \in Nat /\ hot \in [HotIndex -> Nat]
  BY DEF IInv, TypeOK
<1>2. /\ executing \/ AtHost => cur = 0
      /\ executing => left > 0 /\ ~hostDirty
  BY <1>1 DEF IInv, UnitInv, CodeInv, AtUnit, AtHost
<1>3. ASSUME NEW p \in Places PROVE p.cs \in CodeSegment /\ p.eip \in Phys
  BY KindAssumption
<1>4. CacheFits(blocks, table) /\ CacheFits(<<>>, EmptyTable) /\ EmptyHot \in [HotIndex -> Nat]
  BY CacheNow, EmptyFits, HotType DEF IInv
<1>5. CASE JitRetire
  <2>1. /\ executing /\ executing' = FALSE /\ pending' \in BOOLEAN
        /\ left' = left - 1 /\ executed' = GP
        /\ UNCHANGED <<ram, stamps, clock, inval, blocks, table, hot, cur, pos, r8, rcx, hostDirty>>
    BY <1>5 DEF JitRetire, Retire, stampVars, cacheVars, blockVars
  <2>2. cs' \in CodeSegment /\ eip' \in Phys
    BY <1>3, <1>5 DEF JitRetire, Retire
  <2>3. left' \in Nat
    BY <1>1, <1>2, <2>1
  <2> QED
    BY <1>1, <1>2, <1>4, <2>1, <2>2, <2>3, OutsideStep
<1>6. CASE JitRun
  <2>1. /\ AtHost /\ ~hostDirty /\ left' \in Budgets /\ executed' = GP
        /\ UNCHANGED <<ram, cs, eip, executing, pending, stamps, clock, inval, blocks, table, hot,
                       cur, pos, r8, rcx, hostDirty>>
    BY <1>6 DEF JitRun, Run, stampVars, cacheVars, blockVars
  <2>2. left' \in Nat /\ ~executing
    BY <2>1, KindAssumption DEF AtHost
  <2> QED
    BY <1>1, <1>2, <1>4, <2>1, <2>2, OutsideStep
<1>7. CASE JitHostSet
  <2>1. /\ AtHost /\ pending' \in BOOLEAN
        /\ UNCHANGED <<ram, executing, executed, left, stamps, clock, inval, blocks, table, hot,
                       cur, pos, r8, rcx, hostDirty>>
    BY <1>7 DEF JitHostSet, HostSet, stampVars, cacheVars, blockVars
  <2>2. cs' \in CodeSegment /\ eip' \in Phys
    BY <1>3, <1>7 DEF JitHostSet, HostSet
  <2>3. ~executing /\ left <= 0
    BY <2>1 DEF AtHost
  <2> QED
    BY <1>1, <1>2, <1>4, <2>1, <2>2, <2>3, OutsideStep
<1>8. CASE invalidate_jit
  <2>1. /\ AtHost /\ blocks' = <<>> /\ table' = EmptyTable /\ hot' = EmptyHot
        /\ UNCHANGED <<ram, cs, eip, executing, executed, left, pending, stamps, clock, inval,
                       cur, pos, r8, rcx, hostDirty>>
    BY <1>8 DEF invalidate_jit, flush, vars, stampVars, blockVars
  <2>2. ~executing /\ left <= 0
    BY <2>1 DEF AtHost
  <2> QED
    BY <1>1, <1>2, <1>4, <2>1, <2>2, OutsideStep
<1> QED
  BY <1>5, <1>6, <1>7, <1>8

\* A host write keeps the invariant: until the host invalidates, nothing is
\* promised of the table.
LEMMA HostWriteStep ==
  ASSUME IInv, JitHostWrite
  PROVE  IInv'
<1>1. PICK st \in Stores : ram' = StoreBytes(ram, st)
  BY DEF JitHostWrite, HostWrite
<1>2. /\ AtHost /\ hostDirty' = TRUE
      /\ UNCHANGED <<cs, eip, executing, executed, left, pending, stamps, clock, inval,
                     blocks, table, hot, cur, pos, r8, rcx>>
  BY DEF JitHostWrite, HostWrite, stampVars, cacheVars, blockVars
<1>3. cur = 0
  BY <1>2 DEF IInv, TypeOK, CodeInv, AtUnit, AtHost
<1>4. ram' \in [RamAddr -> Byte]
  BY <1>1, KindAssumption, StoreType DEF IInv, TypeOK
<1>5. TypeOK'
  <2>1. hostDirty' \in BOOLEAN
    BY <1>2
  <2>2. TypeOK
    BY DEF IInv
  <2> QED
    BY <1>2, <1>4, <2>1, <2>2, Zenon DEF TypeOK
<1>6. ClockInv' /\ UnitInv' /\ BlocksInv'
  BY <1>2, <1>3 DEF IInv, ClockInv, UnitInv, AtHost, BlocksInv
<1>7. CodeInv' /\ NoStaleBlock'
  BY <1>2, <1>3 DEF IInv, CodeInv, NoStaleBlock, PrologueAgrees
<1> QED
  BY <1>5, <1>6, <1>7 DEF IInv

\* After invalidate_all no slot is live, whatever else the host changes.
LEMMA InvalidateStep ==
  ASSUME IInv, InvalidateIcache \/ Reset
  PROVE  IInv'
<1>1. /\ AtHost /\ clock' = clock + 1 /\ inval' = clock + 1 /\ hostDirty' = FALSE
      /\ UNCHANGED <<ram, executing, executed, left, stamps, cur, pos, r8, rcx>>
  BY DEF InvalidateIcache, Reset, invalidate_all, vars, blockVars
<1>2. cur = 0
  BY <1>1 DEF IInv, TypeOK, CodeInv, AtUnit, AtHost
<1>3. /\ cs' \in CodeSegment /\ eip' \in Phys /\ pending' \in BOOLEAN
      /\ hot' \in [HotIndex -> Nat]
      /\ CacheFits(blocks', table')
  <2>1. CASE InvalidateIcache
    BY <2>1, CacheNow DEF InvalidateIcache, vars, cacheVars, IInv, TypeOK
  <2>2. CASE Reset
    <3>1. ResetPlace.cs \in CodeSegment /\ ResetPlace.eip \in Phys
      <4>1. ResetPlace \in Places
        BY JitAssumption
      <4> QED
        BY <4>1, KindAssumption
    <3>2. TypeOK
      BY DEF IInv
    <3> QED
      BY <2>2, <3>1, <3>2, EmptyFits, HotType DEF Reset, flush
  <2> QED
    BY <2>1, <2>2
<1>4. /\ clock \in Nat /\ clock' \in Nat /\ inval' \in Nat /\ inval' = clock'
      /\ \A s \in StampIndex : stamps[s] \in Nat /\ stamps[s] <= clock
      /\ \A s \in TableIndex : table' [s].version \in Nat /\ table' [s].version <= clock
  BY <1>1, <1>3, SlotFacts DEF IInv, TypeOK, ClockInv, CacheFits
<1>5. TypeOK'
  <2>1. blocks' \in Seq(BlockMeta) /\ table' \in [TableIndex -> Slot]
    BY <1>3 DEF CacheFits
  <2>2. cur' \in 0 .. Len(blocks')
    BY <1>1, <1>2, <2>1, LenProperties
  <2>3. /\ ram' \in [RamAddr -> Byte] /\ hostDirty' \in BOOLEAN /\ executing' \in BOOLEAN
        /\ executed' \in DecodedInsn \cup {GP, Event} /\ left' \in Nat
        /\ stamps' \in [StampIndex -> Nat]
        /\ pos' \in Nat /\ r8' \in Nat /\ rcx' \in Nat
    BY <1>1 DEF IInv, TypeOK
  <2> QED
    BY <1>3, <1>4, <2>1, <2>2, <2>3, Zenon DEF TypeOK
<1>6. ClockInv'
  BY <1>1, <1>4 DEF ClockInv
<1>7. UnitInv' /\ CodeInv' /\ BlocksInv'
  BY <1>1, <1>2, <1>3 DEF IInv, UnitInv, AtHost, CodeInv, BlocksInv, CacheFits
<1>8. NoStaleBlock'
  <2>1. ASSUME NEW v \in Nat, NEW p, v <= clock
        PROVE  ~LiveAt(v, p)'
    BY <1>1, <1>4, <2>1 DEF LiveAt
  <2>2. TableFresh'
    BY <1>4, <2>1 DEF TableFresh
  <2>3. PrologueAgrees'
    BY <1>3 DEF PrologueAgrees, CacheFits
  <2> QED
    BY <1>1, <1>2, <2>2, <2>3 DEF NoStaleBlock
<1> QED
  BY <1>5, <1>6, <1>7, <1>8 DEF IInv

\* The dispatcher starts with an empty cache.
LEMMA InitInv ==
  JitInit => IInv
<1> SUFFICES ASSUME JitInit PROVE IInv
  OBVIOUS
<1>1. /\ ram \in Programs /\ executing = FALSE /\ executed = GP /\ left = 0
      /\ pending \in BOOLEAN
      /\ stamps = [s \in StampIndex |-> 0] /\ clock = 1 /\ inval = 1
      /\ blocks = <<>> /\ table = EmptyTable /\ hot = EmptyHot
      /\ cur = 0 /\ pos = 0 /\ r8 = 0 /\ rcx = 0 /\ hostDirty = FALSE
  BY DEF JitInit, Init
<1>2. cs \in CodeSegment /\ eip \in Phys
  <2>1. PICK p \in Places : cs = p.cs /\ eip = p.eip
    BY DEF JitInit, Init
  <2> QED
    BY <2>1, KindAssumption
<1>3. EmptySlot \in Slot /\ EmptySlot.idx = COLD /\ EmptySlot.version = 0
  BY DEF EmptySlot, Slot, COLD
<1>4. table \in [TableIndex -> Slot] /\ \A s \in TableIndex : table[s] = EmptySlot
  BY <1>1, <1>3 DEF EmptyTable
<1>5. blocks \in Seq(BlockMeta) /\ Len(blocks) = 0
  BY <1>1, EmptySeq
<1>6. TypeOK
  <2>1. ram \in [RamAddr -> Byte] /\ hot \in [HotIndex -> Nat]
    BY <1>1, KindAssumption DEF EmptyHot
  <2>2. cur \in 0 .. Len(blocks)
    BY <1>1, <1>5
  <2> QED
    BY <1>1, <1>2, <1>4, <1>5, <2>1, <2>2 DEF TypeOK
<1>7. ClockInv /\ UnitInv
  BY <1>1, <1>3, <1>4 DEF ClockInv, UnitInv
<1>8. BlocksInv /\ CodeInv /\ NoStaleBlock
  BY <1>1, <1>3, <1>4, <1>5 DEF BlocksInv, CodeInv, NoStaleBlock, PrologueAgrees, TableFresh
<1> QED
  BY <1>6, <1>7, <1>8 DEF IInv

\* Every action keeps the invariant, when aliases of a RAM byte share a stamp.
LEMMA InductiveStep ==
  ASSUME StampsCoverRam, IInv, [JitNext]_jvars
  PROVE  IInv'
<1>1. CASE Dispatch
  BY <1>1, DispatchStep
<1>2. CASE InCode
  BY <1>2, InCodeStep
<1>3. CASE \E st \in Stores : JitWrite(st) /\ WithinBound
  BY <1>3, WriteStep
<1>4. CASE JitRetire \/ JitRun \/ JitHostSet \/ invalidate_jit
  BY <1>4, RestStep
<1>5. CASE JitHostWrite
  BY <1>5, HostWriteStep
<1>6. CASE InvalidateIcache \/ Reset
  BY <1>6, InvalidateStep
<1>7. CASE UNCHANGED jvars
  <2>1. UNCHANGED <<ram, cs, eip, executing, executed, left, pending, stamps, clock, inval,
                    blocks, table, hot, cur, pos, r8, rcx, hostDirty>>
    BY <1>7 DEF jvars, vars, stampVars, cacheVars, blockVars
  <2>2. TypeOK' /\ ClockInv' /\ UnitInv' /\ BlocksInv'
    BY <2>1 DEF IInv, TypeOK, ClockInv, UnitInv, AtHost, BlocksInv
  <2>3. CodeInv'
    BY <2>1 DEF IInv, CodeInv, AtUnit, Block, phys
  <2>4. NoStaleBlock'
    BY <2>1 DEF IInv, NoStaleBlock, PrologueAgrees, TableFresh, LiveAt, Block
  <2> QED
    BY <2>2, <2>3, <2>4 DEF IInv
<1> QED
  BY <1>1, <1>2, <1>3, <1>4, <1>5, <1>6, <1>7 DEF JitNext

\* The JIT never holds a stale block: when physical addresses that reach one
\* RAM byte share a stamp slot, every block that jit_lookup would enter, and
\* the one being executed, is what its bytes decode to now, after any
\* interleaving of stores, translations, evictions, flushes, host writes and
\* invalidations; and the prologue of a block agrees with the table.
THEOREM NoStale ==
  ASSUME StampsCoverRam
  PROVE  JitSpec => []NoStaleBlock
<1>1. IInv /\ [JitNext]_jvars => IInv'
  BY InductiveStep
<1>2. IInv => NoStaleBlock
  BY DEF IInv
<1> QED
  BY InitInv, <1>1, <1>2, PTL DEF JitSpec

-----------------------------------------------------------------------------
\* The operators the abstract interpreter uses are the same ones.
LEMMA SameOperators ==
  /\ I!GP = GP /\ I!Event = Event
  /\ \A m, c, off : I!FetchOk(m, c, off) = FetchOk(m, c, off)
  /\ \A m, c, off : I!Decode(m, c, off) = Decode(m, c, off)
  /\ \A m, st : I!StoreBytes(m, st) = StoreBytes(m, st)
  /\ \A d, e, c, next : I!Reaches(d, e, c, next) = Reaches(d, e, c, next)
  /\ \A m, c, e : I!OpenAt(m, c, e) = OpenAt(m, c, e)
<1>1. I!GP = GP /\ I!Event = Event /\ I!RamAddr = RamAddr
  BY DEF I!GP, I!Event, GP, Event, I!RamAddr, I!RamSize, RamAddr, RamSize
<1>2. \A x : I!Wrap(x) = Wrap(x) /\ I!RamIndex(x) = RamIndex(x)
  BY DEF I!Wrap, I!RamIndex, I!PhysSize, I!RamSize, Wrap, RamIndex, PhysSize, RamSize
<1>3. \A c, off : I!CodeAddr(c, off) = CodeAddr(c, off)
  BY <1>2 DEF I!CodeAddr, CodeAddr
<1>4. \A m, c, off, i : I!CodeByte(m, c, off, i) = CodeByte(m, c, off, i)
  BY <1>2, <1>3 DEF I!CodeByte, CodeByte
<1>5. \A m, c, off : I!LengthAt(m, c, off) = LengthAt(m, c, off)
  BY <1>4 DEF I!LengthAt, LengthAt
<1>6. \A m, c, off : I!Decode(m, c, off) = Decode(m, c, off)
  BY <1>4, <1>5 DEF I!Decode, Decode
<1>7. \A m, c, off : I!FetchOk(m, c, off) = FetchOk(m, c, off)
  <2>1. \A c, off, n : I!InLimit(c, off, n) = InLimit(c, off, n)
    BY <1>2, Zenon DEF I!InLimit, InLimit
  <2> QED
    BY <2>1, <1>5, Zenon DEF I!FetchOk, FetchOk
<1>8. \A m, st : I!StoreBytes(m, st) = StoreBytes(m, st)
  BY <1>1, <1>2 DEF I!StoreBytes, StoreBytes
<1>9. \A d : I!KindOf(d) = KindOf(d)
  BY DEF I!KindOf, KindOf
<1>10. \A d, e : I!EndOf(d, e) = EndOf(d, e) /\ I!TargetOf(d, e) = TargetOf(d, e)
  BY <1>2 DEF I!EndOf, EndOf, I!TargetOf, TargetOf
<1>11. \A d, e, c, next : I!Reaches(d, e, c, next) = Reaches(d, e, c, next)
  BY <1>9, <1>10, Zenon DEF I!Reaches, Reaches
<1>12. \A m, c, e : I!OpenAt(m, c, e) = OpenAt(m, c, e)
  BY <1>1, <1>6, <1>7, <1>9, <1>10 DEF I!OpenAt, OpenAt
<1> QED
  BY <1>1, <1>6, <1>7, <1>8, <1>11, <1>12

\* Outside a block the mapped EIP and budget are the CPU's.
LEMMA MappedOutside ==
  /\ cur = 0 => CurEip = eip /\ CurLeft = left
  /\ cur' = 0 => CurEip' = eip' /\ CurLeft' = left'
  BY DEF CurEip, CurLeft

\* Nothing is beyond the limit of a flat segment.
LEMMA FlatFetch ==
  ASSUME FlatSegments, NEW m \in [RamAddr -> Byte], NEW c \in CodeSegment, NEW off \in Phys
  PROVE  FetchOk(m, c, off)
<1>1. c.limit = PhysSize - 1 /\ c.base \in Phys /\ c.ctx \in Ctx
  BY SegmentAssumption DEF FlatSegments
<1>2. LengthAt(m, c, off) \in Nat
  BY <1>1, DecodeType, CodeAssumption
<1>3. ASSUME NEW i \in Nat PROVE Wrap(off + i) <= c.limit
  <2>1. off + i \in Int
    BY Sizes DEF Phys
  <2>2. Wrap(off + i) \in 0 .. PhysSize - 1
    BY <2>1, WrapType DEF Phys
  <2> QED
    BY <1>1, <2>2, Sizes
<1> QED
  BY <1>2, <1>3 DEF FetchOk, InLimit

\* A step_fast is a step of the interpreter.
LEMMA StepFastImplements ==
  ASSUME cur = 0, StepFast
  PROVE  I!Simple \/ I!Open
<1>1. cur' = 0
  BY DEF StepFast, blockVars
<1>2. CurEip = eip /\ CurLeft = left /\ CurEip' = eip' /\ CurLeft' = left'
  BY <1>1, MappedOutside
<1>3. CASE Simple
  <2>1. I!Simple
    BY <1>2, <1>3, SameOperators DEF Simple, AtUnit, I!Simple, I!AtUnit
  <2> QED
    BY <2>1
<1>4. CASE Open
  <2>1. I!Open
    BY <1>2, <1>4, SameOperators DEF Open, AtUnit, I!Open, I!AtUnit
  <2> QED
    BY <2>1
<1> QED
  BY <1>3, <1>4 DEF StepFast

\* An instruction of a block is the instruction the interpreter would execute:
\* a step that continues where it may, and counts as one, is a Simple step.
LEMMA InBlockImplements ==
  ASSUME FlatSegments, IInv, InBlock,
         UNCHANGED <<ram, cs, executing, pending>>,
         \/ KindOf(Insn.d) \in {"body", "jcc"} /\ CurEip' = EndOf(Insn.d, Insn.eip)
         \/ KindOf(Insn.d) \in {"jcc", "jmp"} /\ CurEip' = TargetOf(Insn.d, Insn.eip),
         CurLeft' = left - r8 - pos
  PROVE  I!Simple
<1>1. /\ cur # 0 /\ executed' = Insn.d
      /\ ~executing /\ ~pending
      /\ Len(Block.insns) \in Nat /\ pos \in 1 .. Len(Block.insns)
      /\ Insn.eip \in Phys /\ Insn.d \in DecodedInsn
      /\ Insn.d = Decode(ram, cs, Insn.eip)
      /\ r8 \in Nat /\ left \in Nat
      /\ r8 + Len(Block.insns) <= left
  BY InBlockFacts DEF InBlock, AtUnit
<1>2. CurEip = Insn.eip /\ CurLeft = left - r8 - (pos - 1)
  BY <1>1 DEF CurEip, CurLeft
<1>3. CurLeft > 0 /\ CurLeft' = CurLeft - 1
  BY <1>1, <1>2
<1>4. ram \in [RamAddr -> Byte] /\ cs \in CodeSegment
  BY DEF IInv, TypeOK
<1>5. FetchOk(ram, cs, CurEip)
  BY <1>1, <1>2, <1>4, FlatFetch
<1>6. Reaches(Insn.d, Insn.eip, cs, CurEip')
  <2>1. TargetOf(Insn.d, Insn.eip) \in 0 .. PhysSize - 1 /\ cs.limit = PhysSize - 1
    BY <1>1, <1>4, InsnType DEF Phys, FlatSegments
  <2>2. TargetOf(Insn.d, Insn.eip) <= cs.limit
    BY <2>1, Sizes
  <2> QED
    BY <2>2 DEF Reaches
<1> QED
  BY <1>1, <1>2, <1>3, <1>5, <1>6, SameOperators DEF I!Simple, I!AtUnit

\* Every instruction of a block implements one of the interpreter.
LEMMA InCodeImplements ==
  ASSUME FlatSegments, IInv, InCode
  PROVE  I!Simple
<1> DEFINE n == Len(Block.insns)
<1>1. InBlock /\ cur # 0
  BY DEF InCode, BlockBody, BlockFall, BlockTaken, emit_backedge, InBlock
<1>2. /\ Block.start_eip = eip /\ Block.insns[1].eip = eip
      /\ n \in Nat /\ pos \in 1 .. n
      /\ ~AtLast => /\ KindOf(Insn.d) = "body"
                    /\ Block.insns[pos + 1].eip = EndOf(Insn.d, Insn.eip)
      /\ r8 \in Nat /\ left \in Nat
  BY <1>1, InBlockFacts
<1>3. CASE BlockBody
  <2>1. /\ ~AtLast /\ pos' = pos + 1
        /\ UNCHANGED <<ram, cs, eip, executing, left, pending, blocks, cur, r8>>
    BY <1>3 DEF BlockBody, cacheVars
  <2>2. CurEip' = Block.insns[pos + 1].eip
    BY <1>1, <2>1 DEF CurEip, Insn, Block
  <2>3. CurLeft' = left' - r8' - (pos' - 1)
    BY <1>1, <2>1 DEF CurLeft
  <2>4. CurLeft' = left - r8 - pos
    BY <1>2, <2>1, <2>3
  <2> QED
    BY <1>1, <1>2, <2>1, <2>2, <2>4, InBlockImplements
<1>4. CASE emit_backedge
  <2>1. /\ SelfLoop /\ pos' = 1 /\ r8' = r8 + n
        /\ UNCHANGED <<ram, cs, eip, executing, left, pending, blocks, cur>>
    BY <1>4 DEF emit_backedge, cacheVars
  <2>2. CurEip' = Block.insns[1].eip
    BY <1>1, <2>1 DEF CurEip, Insn, Block
  <2>3. CurLeft' = left - (r8 + n) - (1 - 1)
    BY <1>1, <2>1 DEF CurLeft
  <2>4. pos = n /\ KindOf(Insn.d) \in {"jcc", "jmp"} /\ TargetOf(Insn.d, Insn.eip) = eip
    BY <1>2, <2>1 DEF SelfLoop, AtLast, Branches
  <2>5. CurLeft' = left - r8 - pos
    BY <1>2, <2>3, <2>4
  <2> QED
    BY <1>1, <1>2, <2>1, <2>2, <2>4, <2>5, InBlockImplements
<1>5. ASSUME NEW next, emit_exit(next, r8 + n), AtLast
      PROVE  /\ CurEip' = next /\ CurLeft' = left - r8 - pos
             /\ UNCHANGED <<ram, cs, executing, pending>>
  <2>1. /\ eip' = next /\ left' = left - (r8 + n) /\ cur' = 0
        /\ UNCHANGED <<ram, cs, executing, pending>>
    BY <1>5 DEF emit_exit
  <2>2. left - (r8 + n) = left - r8 - pos
    BY <1>2, <1>5 DEF AtLast
  <2> QED
    BY <2>1, <2>2, MappedOutside
<1>6. CASE BlockFall
  <2>1. /\ emit_exit(EndOf(Insn.d, Insn.eip), r8 + n) /\ AtLast
        /\ KindOf(Insn.d) \in {"body", "jcc"}
    BY <1>6 DEF BlockFall
  <2> QED
    BY <1>1, <1>5, <2>1, InBlockImplements
<1>7. CASE BlockTaken
  <2>1. /\ emit_exit(TargetOf(Insn.d, Insn.eip), r8 + n) /\ AtLast
        /\ KindOf(Insn.d) \in {"jcc", "jmp"}
    BY <1>7 DEF BlockTaken, Branches
  <2> QED
    BY <1>1, <1>5, <2>1, InBlockImplements
<1> QED
  BY <1>3, <1>4, <1>6, <1>7 DEF InCode

\* What run_jit does besides executing is a step of the interpreter or none.
LEMMA DispatchImplements ==
  ASSUME IInv, Dispatch
  PROVE  I!Next \/ UNCHANGED I!vars
<1>1. ASSUME cur = 0, StepFast PROVE I!Next
  BY <1>1, StepFastImplements DEF I!Next
<1>2. CASE RunBoundary
  <2>1. cur = 0 /\ cur' = 0
    BY <1>2 DEF RunBoundary, AtHead, blockVars
  <2>2. CurEip = eip /\ CurLeft = left /\ CurEip' = eip' /\ CurLeft' = left'
    BY <2>1, MappedOutside
  <2>3. I!Boundary
    BY <1>2, <2>2, SameOperators DEF RunBoundary, Boundary, AtUnit, I!Boundary, I!AtUnit
  <2> QED
    BY <2>3 DEF I!Next
<1>3. CASE Step16 \/ Step32 \/ Warm \/ TranslateNothing \/ CommitFails
  BY <1>1, <1>3 DEF Step16, Step32, Warm, TranslateNothing, CommitFails, Missed, AtHead
<1>4. CASE Translate
  <2>1. cur = 0 /\ cur' = 0 /\ UNCHANGED vars
    BY <1>4 DEF Translate, Missed, AtHead, blockVars
  <2> QED
    BY <2>1, MappedOutside DEF vars, I!vars
<1>5. CASE Enter
  <2> DEFINE k == table[TableSlot].idx
  <2>1. /\ k \in 1 .. Len(blocks) /\ blocks[k].insns[1].eip = eip
        /\ cur' = k /\ pos' = 1 /\ r8' = 0
        /\ UNCHANGED <<ram, cs, eip, executing, executed, left, pending, blocks>>
    BY <1>5, EnterFacts
  <2>2. Len(blocks) \in Nat /\ left \in Nat
    BY DEF IInv, TypeOK
  <2>3. cur = 0
    BY <1>5 DEF Enter, AtHead
  <2> HIDE DEF k
  <2>4. k # 0
    BY <2>1, <2>2
  <2>5. CurEip' = eip
    BY <2>1, <2>4 DEF CurEip, Insn, Block
  <2>6. CurLeft' = left' - r8' - (pos' - 1)
    BY <2>1, <2>4 DEF CurLeft
  <2>7. CurLeft' = left
    BY <2>1, <2>2, <2>6
  <2>8. CurEip = eip /\ CurLeft = left
    BY <2>3, MappedOutside
  <2> QED
    BY <2>1, <2>5, <2>7, <2>8 DEF I!vars
<1> QED
  BY <1>2, <1>3, <1>4, <1>5 DEF Dispatch

\* Every step of the JIT is a step of the interpreter, or none.
LEMMA StepImplements ==
  ASSUME FlatSegments, IInv, [JitNext]_jvars
  PROVE  [I!Next]_(I!vars)
<1>1. executing \/ AtHost => cur = 0
  BY DEF IInv, UnitInv, TypeOK, CodeInv, AtUnit, AtHost
<1>2. ASSUME cur = 0, cur' = 0
      PROVE  CurEip = eip /\ CurLeft = left /\ CurEip' = eip' /\ CurLeft' = left'
  BY <1>2, MappedOutside
<1>3. CASE Dispatch
  BY <1>3, DispatchImplements
<1>4. CASE InCode
  BY <1>4, InCodeImplements DEF I!Next
<1>5. CASE \E st \in Stores : JitWrite(st) /\ WithinBound
  <2>1. /\ executing /\ (\E st \in Stores : ram' = StoreBytes(ram, st)) /\ cur' = cur
        /\ UNCHANGED <<cs, eip, executing, executed, left, pending>>
    BY <1>5 DEF JitWrite, blockVars
  <2>2. I!Write
    BY <1>1, <1>2, <2>1, SameOperators DEF I!Write
  <2> QED
    BY <2>2 DEF I!Next
<1>6. CASE JitRetire
  <2>1. Retire /\ cur' = cur
    BY <1>6 DEF JitRetire, blockVars
  <2>2. I!Retire
    BY <1>1, <1>2, <2>1, SameOperators DEF Retire, I!Retire
  <2> QED
    BY <2>2 DEF I!Next
<1>7. CASE JitRun
  <2>1. Run /\ cur' = cur
    BY <1>7 DEF JitRun, blockVars
  <2>2. I!Run
    BY <1>1, <1>2, <2>1, SameOperators DEF Run, AtHost, I!Run, I!AtHost
  <2> QED
    BY <2>2 DEF I!Next
<1>8. CASE JitHostWrite
  <2>1. HostWrite /\ cur' = cur
    BY <1>8 DEF JitHostWrite, blockVars
  <2>2. I!HostWrite
    BY <1>1, <1>2, <2>1, SameOperators DEF HostWrite, AtHost, I!HostWrite, I!AtHost
  <2> QED
    BY <2>2 DEF I!Next
<1>9. CASE JitHostSet
  <2>1. HostSet /\ cur' = cur
    BY <1>9 DEF JitHostSet, blockVars
  <2>2. I!HostSet
    BY <1>1, <1>2, <2>1, SameOperators DEF HostSet, AtHost, I!HostSet, I!AtHost
  <2> QED
    BY <2>2 DEF I!Next
<1>10. CASE InvalidateIcache \/ invalidate_jit
  <2>1. AtHost /\ cur' = cur /\ UNCHANGED vars
    BY <1>10 DEF InvalidateIcache, invalidate_jit, blockVars
  <2> QED
    BY <1>1, <1>2, <2>1 DEF vars, I!vars
<1>11. CASE Reset
  <2>1. ResetPlace \in Places
    BY JitAssumption
  <2>2. /\ AtHost /\ cs' = ResetPlace.cs /\ eip' = ResetPlace.eip /\ pending' = FALSE
        /\ cur' = cur
        /\ UNCHANGED <<ram, executing, executed, left>>
    BY <1>11 DEF Reset, blockVars
  <2>3. I!HostSet
    BY <1>1, <1>2, <2>1, <2>2 DEF AtHost, I!HostSet, I!AtHost
  <2> QED
    BY <2>3 DEF I!Next
<1>12. CASE UNCHANGED jvars
  BY <1>12 DEF jvars, vars, cacheVars, blockVars, I!vars, CurEip, CurLeft, Insn, Block
<1> QED
  BY <1>3, <1>4, <1>5, <1>6, <1>7, <1>8, <1>9, <1>10, <1>11, <1>12 DEF JitNext

\* Cpu::run with the JIT is Cpu::run of the interpreter, when code segments
\* span the address space: whatever is translated, evicted, flushed, stored
\* over or aliased, every instruction executed is the one the bytes at CS:EIP
\* decode to at that moment, each counts once against the budget, and no
\* boundary is skipped (run_jit in x86_32/jit/mod.rs).
THEOREM Implements ==
  ASSUME StampsCoverRam, FlatSegments
  PROVE  JitSpec => ImplementsInterp
<1>1. JitInit => I!Init
  <2> SUFFICES ASSUME JitInit PROVE I!Init
    OBVIOUS
  <2>1. Init /\ cur = 0
    BY DEF JitInit
  <2>2. CurEip = eip /\ CurLeft = left
    BY <2>1, MappedOutside
  <2> QED
    BY <2>1, <2>2, SameOperators DEF Init, I!Init
<1>2. IInv /\ [JitNext]_jvars => IInv'
  BY InductiveStep
<1>3. IInv /\ [JitNext]_jvars => [I!Next]_(I!vars)
  BY StepImplements
<1> QED
  BY InitInv, <1>1, <1>2, <1>3, PTL DEF JitSpec, ImplementsInterp, I!Spec

=============================================================================
