-------------------------- MODULE ICache386_proofs --------------------------
(***************************************************************************)
(* The decoded-instruction cache never replays a stale decode, and the     *)
(* cached interpreter implements the fused one, for every size of memory,  *)
(* cache and stamp table in which aliases of a RAM byte share a stamp.     *)
(***************************************************************************)
EXTENDS ICache386, Stamps386_proofs

USE DEF StampIndex, EntryIndex

\* Cache slots are in bounds.
LEMMA SlotType ==
  ASSUME NEW x \in Phys
  PROVE  EntrySlot(x) \in EntryIndex
<1>1. x \in Int
  BY Sizes DEF Phys
<1> QED
  BY <1>1, CacheAssumption, DivMod DEF EntrySlot

\* icache_phys is a physical address, its slots exist, its key is a key.
LEMMA KeyType ==
  ASSUME TypeOK
  PROVE  /\ icache_phys \in Phys
         /\ icache_key \in Key
         /\ EntrySlot(icache_phys) \in EntryIndex
<1>1. cs.base \in Phys /\ cs.ctx \in Ctx
  BY SegmentAssumption DEF TypeOK
<1>2. cs.base + eip \in Int
  BY <1>1, Sizes DEF TypeOK, Phys
<1>3. icache_phys \in Phys
  BY <1>2, WrapType DEF icache_phys, CodeAddr
<1> QED
  BY <1>1, <1>3, SlotType DEF icache_key, Key

\* Fresh in terms of KeySeg.
LEMMA FreshKey ==
  ASSUME NEW e
  PROVE  Fresh(e) <=> e.insn = Decode(ram, KeySeg(e.key.phys, e.key.ctx), 0)
  BY DEF Fresh, KeySeg

\* A store kills every entry it could make stale: an entry that is live after
\* it was live before it, and its bytes are the ones it was.
LEMMA StorePreserves ==
  ASSUME StampsCoverRam, TypeOK, ClockInv,
         NEW st \in Store, lin_write(st), inval' = inval,
         NEW e \in Entry, e.version <= clock, e.version > 0,
         (e.key.phys % PageSize) + e.insn.len <= PageSize,
         Live(e) => Fresh(e),
         Live(e)'
  PROVE  Fresh(e)'
<1> DEFINE first == StampSlot(st.addr)
<1> DEFINE last == StampSlot(Wrap(st.addr + st.width - 1))
<1> DEFINE here == StampSlot(e.key.phys)
<1>1. /\ st.addr \in Phys
      /\ Wrap(st.addr + st.width - 1) \in Phys
  BY StoreEnds
<1>2. e.key.phys \in Phys /\ e.key.ctx \in Ctx
  BY DEF Entry, Key
<1>3. here \in StampIndex
  BY <1>2, StampSlotType
<1>4. e.version \in Nat /\ clock \in Nat
  BY DEF Entry, TypeOK
<1>5. /\ stamps' [here] \in Nat
      /\ here \in {first, last} => stamps' [here] > clock
      /\ here \notin {first, last} => stamps' [here] = stamps[here]
  BY <1>1, <1>3, SpanStamps DEF TypeOK, ClockInv, lin_write
<1>6. e.version >= stamps' [here] /\ e.version >= inval
  BY DEF Live, LiveAt
<1>7. here # first /\ here # last
  <2> HIDE DEF first, last, here
  <2> QED
    BY <1>4, <1>5, <1>6
<1>8. Fresh(e)
  BY <1>5, <1>6, <1>7 DEF Live, LiveAt
<1> DEFINE k == KeySeg(e.key.phys, e.key.ctx)
<1> DEFINE n == LengthAt(ram, k, 0)
<1>9. ram \in [RamAddr -> Byte] /\ ram' = StoreBytes(ram, st) /\ ram' \in [RamAddr -> Byte]
  BY StoreType DEF TypeOK, lin_write
<1>10. n \in 1 .. MaxInsnLen /\ e.insn.len = n
  <2>1. k.base \in Phys /\ k.ctx \in Ctx /\ 0 \in Phys
    BY <1>2, Sizes DEF KeySeg, Phys
  <2>2. e.insn = Decode(ram, k, 0)
    BY <1>8, FreshKey
  <2> QED
    BY <1>9, <2>1, <2>2, DecodeType
<1>11. ASSUME NEW i \in 0 .. n - 1
       PROVE  ram' [RamIndex(Wrap(e.key.phys + i))] = ram[RamIndex(Wrap(e.key.phys + i))]
  <2>1. i \in Nat /\ i < n
    BY <1>10, CodeAssumption
  <2>2. e.key.phys % PageSize \in Int
    BY <1>2, AddrSplit
  <2>3. (e.key.phys % PageSize) + i < PageSize
    BY <2>1, <2>2, <1>10, CodeAssumption, SizeAssumption
  <2>4. StampSlot(Wrap(e.key.phys + i)) = here
    BY <2>1, <2>3, <1>2, PageLocal DEF StampSlot
  <2>5. Wrap(e.key.phys + i) \in Phys
    <3>1. e.key.phys + i \in Int
      BY <1>2, <2>1, Sizes DEF Phys
    <3> QED
      BY <3>1, WrapType
  <2> QED
    BY <1>7, <1>9, <2>4, <2>5, StoreElsewhere
<1>12. Decode(ram', k, 0) = Decode(ram, k, 0)
  BY <1>2, <1>9, <1>11, DecodeStable
<1> QED
  BY <1>8, <1>12, FreshKey DEF Fresh, KeySeg

\* What a fill installs is fresh, page-local and as old as the clock.
LEMMA FillStep ==
  ASSUME IInv, FetchHot
  PROVE  IInv'
<1> DEFINE d == FusedStep(ram, cs, eip)
<1> DEFINE s0 == EntrySlot(icache_phys)
<1> DEFINE new == [key |-> icache_key, version |-> clock, insn |-> d]
<1>1. d = Decode(ram, cs, eip) /\ d \in DecodedInsn
  <2>1. cs \in CodeSegment /\ cs.base \in Phys /\ cs.ctx \in Ctx
    BY SegmentAssumption DEF IInv, TypeOK
  <2> QED
    BY <2>1, DecodeType DEF FusedStep, FetchHot, IInv, TypeOK
<1>2. icache_phys \in Phys /\ icache_key \in Key /\ s0 \in EntryIndex
  BY KeyType DEF IInv
<1>3. /\ clock \in Nat /\ inval \in 1 .. clock
      /\ entries \in [EntryIndex -> Entry]
  BY DEF IInv, TypeOK, ClockInv
<1>4. new \in Entry
  BY <1>1, <1>2, <1>3 DEF Entry
<1>5. Fresh(new)
  <2>1. cs.base \in Phys /\ eip \in Phys
    BY SegmentAssumption DEF IInv, TypeOK
  <2>2. Decode(ram, KeySeg(icache_phys, cs.ctx), 0) = d
    BY <1>1, <2>1, KeyDecode DEF icache_phys
  <2> QED
    BY <2>2, FreshKey DEF icache_key
<1>6. \/ entries' = entries
      \/ /\ entries' = [entries EXCEPT ![s0] = new]
         /\ (icache_phys % PageSize) + d.len <= PageSize
  <2>1. icache_phys % PageSize \in Int
    BY <1>2, AddrSplit
  <2>2. d.len \in Int
    BY <1>1, CodeAssumption DEF DecodedInsn
  <2> QED
    BY <2>1, <2>2, SizeAssumption DEF FetchHot, icache_fill
<1> HIDE DEF d, s0, new
<1>7. UNCHANGED <<ram, cs, eip, stamps, clock, inval, hostDirty>>
  BY DEF FetchHot
<1>8. TypeOK'
  <2>1. executed' \in DecodedInsn
    BY <1>1 DEF FetchHot, d
  <2>2. executing' = TRUE
    BY DEF FetchHot, Begin
  <2>3. entries' \in [EntryIndex -> Entry]
    BY <1>3, <1>4, <1>6
  <2> QED
    BY <2>1, <2>2, <2>3, <1>7 DEF IInv, TypeOK
<1>9. ASSUME NEW s \in EntryIndex
      PROVE  \/ entries' [s] = entries[s]
             \/ /\ entries' [s] = new
                /\ (icache_phys % PageSize) + d.len <= PageSize
  BY <1>3, <1>6
<1>10. new.version = clock /\ new.key.phys = icache_phys /\ new.insn = d
  BY DEF new, icache_key
<1>11. ClockInv'
  BY <1>3, <1>7, <1>9, <1>10 DEF IInv, ClockInv
<1>12. PageLocalInv'
  BY <1>9, <1>10 DEF IInv, PageLocalInv
<1>13. ASSUME NEW e PROVE Fresh(e)' = Fresh(e) /\ Live(e)' = Live(e)
  BY <1>7 DEF Fresh, Live, LiveAt
<1>14. NoStaleEntry'
  BY <1>5, <1>7, <1>9, <1>13 DEF IInv, NoStaleEntry, FetchHot, Begin
<1> QED
  BY <1>8, <1>11, <1>12, <1>14 DEF IInv

\* A step that touches neither memory, clock nor entries keeps the invariant.
LEMMA QuietStep ==
  ASSUME IInv, UNCHANGED <<ram, cacheVars, hostDirty>>,
         cs' \in CodeSegment, eip' \in Phys,
         executing' \in BOOLEAN, executed' \in DecodedInsn \cup {GP}
  PROVE  IInv'
<1>1. TypeOK' /\ ClockInv' /\ PageLocalInv'
  BY DEF IInv, TypeOK, ClockInv, PageLocalInv, cacheVars
<1>2. ASSUME NEW e PROVE Fresh(e)' = Fresh(e) /\ Live(e)' = Live(e)
  BY DEF Fresh, Live, LiveAt, cacheVars
<1> QED
  BY <1>1, <1>2 DEF IInv, NoStaleEntry, cacheVars

\* A guest store keeps the invariant.
LEMMA WriteStep ==
  ASSUME StampsCoverRam, IInv, NEW st \in Store, Write(st)
  PROVE  IInv'
<1>1. /\ lin_write(st)
      /\ UNCHANGED <<cs, eip, executing, executed, entries, inval, hostDirty>>
  BY DEF Write
<1>2. /\ st.addr \in Phys
      /\ Wrap(st.addr + st.width - 1) \in Phys
  BY StoreEnds
<1>4. /\ clock' \in Nat /\ clock' > clock
      /\ stamps' \in [StampIndex -> Nat]
      /\ \A s \in StampIndex : stamps' [s] <= clock'
  BY <1>1, <1>2, SpanStamps DEF IInv, TypeOK, ClockInv, lin_write
<1>5. TypeOK'
  BY <1>1, <1>4, StoreType DEF lin_write, IInv, TypeOK
<1>6. ClockInv'
  <2>1. /\ clock \in Nat /\ inval \in 1 .. clock
        /\ \A s \in EntryIndex : entries[s].version \in Nat /\ entries[s].version <= clock
    BY DEF IInv, ClockInv, TypeOK, Entry
  <2> QED
    BY <1>1, <1>4, <2>1 DEF ClockInv
<1>7. PageLocalInv'
  BY <1>1 DEF IInv, PageLocalInv
<1>8. NoStaleEntry'
  <2> SUFFICES ASSUME ~hostDirty, NEW s \in EntryIndex, Live(entries[s])'
               PROVE  Fresh(entries[s])'
    BY <1>1 DEF NoStaleEntry
  <2> DEFINE e == entries[s]
  <2>1. e \in Entry /\ e.version <= clock /\ (Live(e) => Fresh(e))
    BY DEF IInv, TypeOK, ClockInv, NoStaleEntry
  <2>2. Live(e)' /\ e.version >= inval
    BY <1>1 DEF Live, LiveAt
  <2>3. e.version > 0
    BY <2>1, <2>2 DEF IInv, ClockInv, TypeOK, Entry
  <2>4. (e.key.phys % PageSize) + e.insn.len <= PageSize
    BY <2>3 DEF IInv, PageLocalInv
  <2>5. TypeOK /\ ClockInv /\ inval' = inval
    BY <1>1 DEF IInv
  <2> HIDE DEF e
  <2>6. e' = e
    BY <1>1 DEF e
  <2>7. PICK f : f = e
    OBVIOUS
  <2>8. Fresh(f)'
    BY <1>1, <2>1, <2>2, <2>3, <2>4, <2>5, <2>6, <2>7, StorePreserves DEF Live, LiveAt
  <2> QED
    BY <1>1, <2>6, <2>7, <2>8 DEF Fresh, e
<1> QED
  BY <1>5, <1>6, <1>7, <1>8 DEF IInv

\* A host write keeps the invariant: until the host invalidates, NoStaleEntry
\* promises nothing.
LEMMA HostWriteStep ==
  ASSUME IInv, NEW x \in RamAddr, NEW v \in Byte, HostWrite(x, v)
  PROVE  IInv'
<1>1. TypeOK'
  BY DEF IInv, TypeOK, HostWrite, cacheVars
<1>2. ClockInv' /\ PageLocalInv' /\ NoStaleEntry'
  BY DEF IInv, ClockInv, PageLocalInv, NoStaleEntry, HostWrite, cacheVars
<1> QED
  BY <1>1, <1>2 DEF IInv

\* After invalidate_all no entry is live.
LEMMA InvalidateStep ==
  ASSUME IInv, invalidate_all, UNCHANGED <<ram, entries, stamps, executing, executed>>,
         cs' \in CodeSegment, eip' \in Phys, hostDirty' = FALSE
  PROVE  IInv'
<1>1. /\ clock \in Nat /\ clock' = clock + 1 /\ inval' = clock + 1
      /\ \A s \in StampIndex : stamps[s] \in Nat /\ stamps[s] <= clock
      /\ \A s \in EntryIndex : entries[s].version \in Nat /\ entries[s].version <= clock
  BY DEF IInv, TypeOK, ClockInv, invalidate_all, Entry
<1>2. TypeOK'
  <2>1. clock' \in Nat /\ inval' \in Nat
    BY <1>1
  <2>2. TypeOK
    BY DEF IInv
  <2> QED
    BY <2>1, <2>2, Zenon DEF TypeOK
<1>3. ClockInv'
  BY <1>1 DEF ClockInv
<1>4. PageLocalInv'
  BY DEF IInv, PageLocalInv
<1>5. NoStaleEntry'
  BY <1>1 DEF NoStaleEntry, Live, LiveAt
<1> QED
  BY <1>2, <1>3, <1>4, <1>5 DEF IInv

\* The zeroed table holds entries, none of them live.
LEMMA InitInv ==
  Init => IInv
<1> SUFFICES ASSUME Init PROVE IInv
  OBVIOUS
<1>1. ZeroEntry \in Entry
  <2>1. (CHOOSE c \in Ctx : TRUE) \in Ctx
    BY CodeAssumption
  <2>2. \E d \in DecodedInsn : TRUE
    <3>1. PICK b \in Byte : TRUE
      BY CodeAssumption
    <3>2. PICK c \in Ctx : TRUE
      BY CodeAssumption
    <3>3. 1 \in 1 .. MaxInsnLen
      BY CodeAssumption
    <3>4. [ctx |-> c, len |-> 1, bytes |-> [i \in 0 .. 0 |-> b]]
             \in [ctx : Ctx, len : {1}, bytes : [0 .. 1 - 1 -> Byte]]
      OBVIOUS
    <3>5. [ctx |-> c, len |-> 1, bytes |-> [i \in 0 .. 0 |-> b]] \in DecodedInsn
      BY <3>3, <3>4 DEF DecodedInsn
    <3> QED
      BY <3>5
  <2>3. (CHOOSE d \in DecodedInsn : TRUE) \in DecodedInsn
    BY <2>2
  <2>4. 0 \in Phys
    BY Sizes DEF Phys
  <2> QED
    BY <2>1, <2>3, <2>4 DEF ZeroEntry, Entry, Key
<1>2. ZeroEntry.version = 0
  BY DEF ZeroEntry
<1>3. entries = [s \in EntryIndex |-> ZeroEntry] /\ stamps = [s \in StampIndex |-> 0]
      /\ clock = 1 /\ inval = 1 /\ hostDirty = FALSE
  BY DEF Init
<1>4. TypeOK
  <2>1. /\ entries \in [EntryIndex -> Entry] /\ stamps \in [StampIndex -> Nat]
        /\ clock \in Nat /\ inval \in Nat
    BY <1>1, <1>3
  <2>2. F!Init
    BY DEF Init
  <2> QED
    BY <2>1, <2>2, <1>3, Zenon
    DEF F!Init, F!RamAddr, F!RamSize, F!Phys, F!PhysSize, F!GP,
        RamAddr, RamSize, Phys, PhysSize, GP, TypeOK
<1>5. ClockInv /\ PageLocalInv
  BY <1>2, <1>3 DEF ClockInv, PageLocalInv
<1>6. NoStaleEntry
  BY <1>2, <1>3 DEF NoStaleEntry, Live, LiveAt
<1> QED
  BY <1>4, <1>5, <1>6 DEF IInv

\* A hit replays an instruction; so does a decode.
LEMMA ExecutedType ==
  ASSUME TypeOK
  PROVE  /\ FusedStep(ram, cs, eip) \in DecodedInsn \cup {GP}
         /\ entries[EntrySlot(icache_phys)].insn \in DecodedInsn
<1>1. cs.base \in Phys /\ cs.ctx \in Ctx
  BY SegmentAssumption DEF TypeOK
<1>2. Decode(ram, cs, eip) \in DecodedInsn
  BY <1>1, DecodeType DEF TypeOK
<1>3. EntrySlot(icache_phys) \in EntryIndex
  BY KeyType
<1> QED
  BY <1>2, <1>3 DEF FusedStep, TypeOK, Entry

\* Every action keeps the invariant, when aliases of a RAM byte share a stamp.
LEMMA InductiveStep ==
  ASSUME StampsCoverRam, IInv, [Next]_vars
  PROVE  IInv'
<1>1. TypeOK
  BY DEF IInv
<1>2. CASE FetchHit
  BY <1>1, <1>2, ExecutedType, QuietStep DEF FetchHit, Begin, TypeOK
<1>3. CASE FetchHot
  BY <1>3, FillStep
<1>4. CASE FetchFused
  BY <1>1, <1>4, ExecutedType, QuietStep DEF FetchFused, Begin, TypeOK
<1>5. CASE \E st \in Store : Write(st) /\ WithinBound
  BY <1>5, WriteStep
<1>6. CASE Retire
  BY <1>1, <1>6, QuietStep DEF Retire, TypeOK
<1>7. CASE \E x \in RamAddr, v \in Byte : HostWrite(x, v)
  BY <1>7, HostWriteStep
<1>8. CASE HostSetCs
  BY <1>1, <1>8, QuietStep DEF HostSetCs, TypeOK
<1>9. CASE InvalidateIcache /\ WithinBound
  BY <1>1, <1>9, InvalidateStep DEF InvalidateIcache, TypeOK, archVars
<1>10. CASE Reset /\ WithinBound
  BY <1>1, <1>10, CacheAssumption, StampAssumption, InvalidateStep DEF Reset
<1>11. CASE UNCHANGED vars
  BY <1>1, <1>11, QuietStep DEF vars, TypeOK, cacheVars
<1> QED
  BY <1>2, <1>3, <1>4, <1>5, <1>6, <1>7, <1>8, <1>9, <1>10, <1>11 DEF Next

\* The decoded-instruction cache is never stale: when physical addresses that
\* reach one RAM byte share a stamp slot, every live entry of ICache holds
\* what its bytes decode to now, after any interleaving of fetches, stores,
\* evictions, mode changes, host writes and invalidations.
THEOREM NoStale ==
  ASSUME StampsCoverRam
  PROVE  Spec => []NoStaleEntry
<1>1. IInv /\ [Next]_vars => IInv'
  BY InductiveStep
<1>2. IInv => NoStaleEntry
  BY DEF IInv
<1> QED
  BY InitInv, <1>1, <1>2, PTL DEF Spec

-----------------------------------------------------------------------------
\* The operators the abstract interpreter uses are the same ones.
LEMMA SameOperators ==
  /\ F!Phys = Phys
  /\ F!RamAddr = RamAddr
  /\ F!GP = GP
  /\ F!Store = Store
  /\ \A m, c, off : F!FusedStep(m, c, off) = FusedStep(m, c, off)
  /\ \A m, st : F!StoreBytes(m, st) = StoreBytes(m, st)
<1>1. F!Phys = Phys /\ F!RamAddr = RamAddr /\ F!GP = GP
  BY DEF F!Phys, F!RamAddr, F!PhysSize, F!RamSize, F!GP,
         Phys, RamAddr, PhysSize, RamSize, GP
<1>2. \A x : F!Wrap(x) = Wrap(x) /\ F!RamIndex(x) = RamIndex(x)
  BY DEF F!Wrap, F!RamIndex, F!PhysSize, F!RamSize, Wrap, RamIndex, PhysSize, RamSize
<1>3. \A c, off : F!CodeAddr(c, off) = CodeAddr(c, off)
  BY <1>2 DEF F!CodeAddr, CodeAddr
<1>4. \A m, c, off, i : F!CodeByte(m, c, off, i) = CodeByte(m, c, off, i)
  BY <1>2, <1>3 DEF F!CodeByte, CodeByte
<1>5. \A m, c, off : F!LengthAt(m, c, off) = LengthAt(m, c, off)
  BY <1>4 DEF F!LengthAt, LengthAt
<1>6. \A m, c, off : F!Decode(m, c, off) = Decode(m, c, off)
  BY <1>4, <1>5 DEF F!Decode, Decode
<1>7. \A m, c, off : F!FetchOk(m, c, off) = FetchOk(m, c, off)
  <2>1. \A c, off, n : F!InLimit(c, off, n) = InLimit(c, off, n)
    BY <1>2, Zenon DEF F!InLimit, InLimit
  <2> QED
    BY <2>1, <1>5, Zenon DEF F!FetchOk, FetchOk
<1>8. \A m, c, off : F!FusedStep(m, c, off) = FusedStep(m, c, off)
  BY <1>1, <1>6, <1>7, Zenon DEF F!FusedStep, FusedStep
<1>9. \A m, st : F!StoreBytes(m, st) = StoreBytes(m, st)
  BY <1>1, <1>2 DEF F!StoreBytes, StoreBytes
<1>10. F!Store = Store
  BY <1>1 DEF F!Store, Store
<1> QED
  BY <1>1, <1>8, <1>9, <1>10

\* On a hit, the cached decode products are what the fused interpreter would
\* have fetched, and no byte of them is beyond the CS limit.
LEMMA HitIsFused ==
  ASSUME IInv, Hit, ~hostDirty
  PROVE  entries[EntrySlot(icache_phys)].insn = FusedStep(ram, cs, eip)
<1> DEFINE e == entries[EntrySlot(icache_phys)]
<1>1. EntrySlot(icache_phys) \in EntryIndex
  BY KeyType DEF IInv
<1>2. e.key = icache_key /\ Live(e) /\ eip + (e.insn.len - 1) <= cs.limit
  BY DEF Hit
<1>3. Fresh(e)
  BY <1>1, <1>2 DEF IInv, NoStaleEntry
<1>4. cs \in CodeSegment /\ eip \in Phys /\ ram \in [RamAddr -> Byte]
  BY DEF IInv, TypeOK
<1>5. cs.base \in Phys /\ cs.limit \in Phys /\ cs.ctx \in Ctx
  BY <1>4, SegmentAssumption
<1> HIDE DEF e
<1>6. e.insn = Decode(ram, KeySeg(icache_phys, cs.ctx), 0)
  BY <1>2, <1>3, FreshKey DEF icache_key
<1>7. e.insn = Decode(ram, cs, eip)
  BY <1>4, <1>5, <1>6, KeyDecode DEF icache_phys
<1> DEFINE n == LengthAt(ram, cs, eip)
<1>8. n \in 1 .. MaxInsnLen /\ e.insn.len = n
  BY <1>4, <1>5, <1>7, DecodeType
<1> HIDE DEF n
<1>9. n \in Nat /\ 1 <= n
  BY <1>8, CodeAssumption
<1>10. ASSUME NEW i \in 0 .. n - 1
       PROVE  Wrap(eip + i) <= cs.limit
  <2>1. eip + i <= cs.limit /\ eip + i \in Phys
    BY <1>2, <1>4, <1>5, <1>8, <1>9, Sizes DEF Phys
  <2> QED
    BY <2>1, WrapSmall
<1>11. InLimit(cs, eip, 1) /\ InLimit(cs, eip, n)
  BY <1>9, <1>10 DEF InLimit
<1>12. FetchOk(ram, cs, eip)
  BY <1>11 DEF FetchOk, n
<1> QED
  BY <1>7, <1>12 DEF FusedStep, e

\* Every step of the cached interpreter is a step of the fused one.
LEMMA StepImplements ==
  ASSUME IInv, [Next]_vars
  PROVE  [F!Next]_(F!vars)
<1> USE SameOperators
<1>1. CASE FetchHit
  BY <1>1, HitIsFused DEF FetchHit, Begin, F!Next, F!Fetch
<1>2. CASE FetchHot
  BY <1>2 DEF FetchHot, Begin, F!Next, F!Fetch
<1>3. CASE FetchFused
  BY <1>3 DEF FetchFused, Begin, F!Next, F!Fetch
<1>4. CASE \E st \in Store : Write(st) /\ WithinBound
  BY <1>4 DEF Write, lin_write, F!Next, F!Write
<1>5. CASE Retire
  BY <1>5 DEF Retire, F!Next, F!Retire
<1>6. CASE \E x \in RamAddr, v \in Byte : HostWrite(x, v)
  BY <1>6 DEF HostWrite, F!Next, F!HostWrite
<1>7. CASE HostSetCs
  BY <1>7 DEF HostSetCs, F!Next, F!HostSetCs
<1>8. CASE InvalidateIcache /\ WithinBound
  BY <1>8 DEF InvalidateIcache, archVars, F!vars
<1>9. CASE Reset /\ WithinBound
  BY <1>9, CacheAssumption, StampAssumption DEF Reset, F!Next, F!HostSetCs
<1>10. CASE UNCHANGED vars
  BY <1>10 DEF vars, F!vars
<1> QED
  BY <1>1, <1>2, <1>3, <1>4, <1>5, <1>6, <1>7, <1>8, <1>9, <1>10 DEF Next

\* The cached interpreter implements the interpreter that re-fetches every
\* byte: self-modifying code, a shrinking CS limit and a mode change are all
\* executed exactly as without the cache (exec_one in x86_32/mod.rs).
THEOREM Implements ==
  ASSUME StampsCoverRam
  PROVE  Spec => ImplementsFused
<1>1. Init => F!Init
  BY DEF Init
<1>2. IInv /\ [Next]_vars => IInv'
  BY InductiveStep
<1>3. IInv /\ [Next]_vars => [F!Next]_(F!vars)
  BY StepImplements
<1> QED
  BY InitInv, <1>1, <1>2, <1>3, PTL DEF Spec, ImplementsFused, F!Spec
=============================================================================
