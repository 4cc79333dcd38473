------------------------------- MODULE Jit386 -------------------------------
(***************************************************************************)
(* The block dispatcher and translator of the 80386 JIT (x86_32/jit), with *)
(* paging off: run_jit, the direct-mapped block table, the hot counters,   *)
(* the translation of a run of instructions into a block, and the          *)
(* execution of a block with its budgeted self loop.                       *)
(*                                                                         *)
(* Inside a block EIP, the retired count and the flags live in host        *)
(* registers and constants; regs.eip is only written at an exit.  The      *)
(* module therefore steps through a block instruction by instruction, and  *)
(* the refinement of Interp386 maps the position in the block to the EIP   *)
(* and the budget the interpreter would have.  Where the flag analysis     *)
(* cuts a block is left open here.                                         *)
(***************************************************************************)
EXTENDS Interp386, Stamps386, Sequences

CONSTANTS
    JIT_SLOTS,         \* entries of the direct-mapped block table
    HOT_SLOTS,         \* hot counters
    HOT_THRESHOLD,     \* executions before a head is translated
    MAX_BLOCKS,        \* blocks that force a flush (as MAX_CODE_BYTES does)
    MAX_BLOCK_INSNS,   \* instructions of a block
    ResetPlace,        \* CS and EIP after reset
    MaxClock           \* bound of the model on the store clock (a u64)

ASSUME JitAssumption ==
    /\ {JIT_SLOTS, HOT_SLOTS, HOT_THRESHOLD, MAX_BLOCKS, MAX_BLOCK_INSNS, MaxClock}
         \subseteq Nat \ {0}
    /\ ResetPlace \in Places

VARIABLES
    blocks,     \* translated blocks
    table,      \* slot -> [key, version, idx]
    hot,        \* hot counters (saturating)
    cur,        \* the block being executed, 0 outside
    pos,        \* the instruction in it
    r8,         \* instructions retired by its completed iterations
    rcx,        \* iterations its budget still allows
    hostDirty   \* a host write has not been followed by invalidate_icache

stampVars == <<stamps, clock, inval>>
cacheVars == <<blocks, table, hot>>
blockVars == <<cur, pos, r8, rcx>>
jvars == <<vars, stampVars, cacheVars, blockVars, hostDirty>>

COLD == 0
NoKey == [none |-> TRUE]
EmptySlot == [key |-> NoKey, version |-> 0, idx |-> COLD]
TableIndex == 0 .. JIT_SLOTS - 1
HotIndex == 0 .. HOT_SLOTS - 1
EmptyTable == [s \in TableIndex |-> EmptySlot]
EmptyHot == [s \in HotIndex |-> 0]

phys == CodeAddr(cs, eip)
key == [phys |-> phys, ctx |-> cs.ctx]
TableSlot == phys % JIT_SLOTS
HotSlot == phys % HOT_SLOTS

-----------------------------------------------------------------------------
\* jit_lookup: key, write stamp and invalidation clock.
jit_lookup ==
    LET s == table[TableSlot] IN
    CASE s.key # key \/ ~LiveAt(s.version, phys) -> "miss"
      [] s.key = key /\ LiveAt(s.version, phys) /\ s.idx = COLD -> "cold"
      [] OTHER -> "hit"

\* Mutant: the same physical code is entered at whatever EIP reaches it.
EnterAnyEip == jit_lookup = "hit" /\ Len(blocks[table[TableSlot].idx].insns) <= left

\* A hit is entered at the EIP it was translated for, if the budget covers one
\* traversal.
Enterable ==
    /\ jit_lookup = "hit"
    /\ blocks[table[TableSlot].idx].start_eip = eip
    /\ Len(blocks[table[TableSlot].idx].insns) <= left

-----------------------------------------------------------------------------
\* Mutant: blocks run on into the next page.
PlanAcrossPages == 2 * PageSize

\* What is left of the page of the block's head.
PlanRoom == PageSize - (phys % PageSize)

\* The instruction `o` bytes after the head (jit_decode_one).
PlanEip(o) == Wrap(eip + o)
Planned(o) == Decode(ram, cs, PlanEip(o))

\* Pass 1 of jit_plan: instructions from CS:EIP one after the other, until a
\* branch, the end of the page, or an untranslatable or unfetchable one.
InPlan(offs) ==
    /\ offs[1] = 0
    /\ \A i \in DOMAIN offs :
          LET d == Planned(offs[i]) IN
          /\ FetchOk(ram, cs, PlanEip(offs[i]))
          /\ KindOf(d) # "other"
          /\ offs[i] + d.len <= PlanRoom
          /\ i # Len(offs) => KindOf(d) = "body" /\ offs[i + 1] = offs[i] + d.len

\* The non-empty prefixes of the plan, as the offsets of their instructions,
\* up to the length cap.
jit_plan ==
    {offs \in UNION {[1 .. n -> 0 .. PlanRoom - 1] : n \in 1 .. MAX_BLOCK_INSNS} :
        InPlan(offs)}

\* JitState::flush, before a translation when the cache is full.
Full == Len(blocks) >= MAX_BLOCKS
Kept == IF Full THEN <<>> ELSE blocks

\* Mutant: the flush drops the blocks and keeps the table.
KeepTable == table

KeptTable == IF Full THEN EmptyTable ELSE table

flush ==
    /\ blocks' = <<>>
    /\ table' = EmptyTable
    /\ hot' = EmptyHot

\* The counter of this head, saturating.
Warmed == IF hot[HotSlot] < HOT_THRESHOLD THEN hot[HotSlot] + 1 ELSE HOT_THRESHOLD
KeptHot == IF Full THEN EmptyHot ELSE [hot EXCEPT ![HotSlot] = Warmed]

\* A block of a prefix of the plan, valid from the clock of now.
NewBlock(offs) ==
    [phys |-> phys, version |-> clock, start_eip |-> eip,
     insns |-> [i \in DOMAIN offs |-> [d |-> Planned(offs[i]), eip |-> PlanEip(offs[i])]]]

NewSlot == [key |-> key, version |-> clock, idx |-> Len(Kept) + 1]

\* jit_mark_cold
ColdSlot == [key |-> key, version |-> clock, idx |-> COLD]

-----------------------------------------------------------------------------
JitInit ==
    /\ Init
    /\ stamps = [s \in StampIndex |-> 0]
    /\ clock = 1 /\ inval = 1
    /\ blocks = <<>> /\ table = EmptyTable /\ hot = EmptyHot
    /\ cur = 0 /\ pos = 0 /\ r8 = 0 /\ rcx = 0
    /\ hostDirty = FALSE

\* The head of run_jit's loop.
AtHead == AtUnit /\ cur = 0

\* step_fast: the interpreter executes one instruction.
StepFast == (Simple \/ Open) /\ UNCHANGED <<stampVars, blockVars, hostDirty>>

RunBoundary ==
    /\ AtHead
    /\ Boundary
    /\ UNCHANGED <<stampVars, cacheVars, blockVars, hostDirty>>

\* 16-bit code, an untranslatable head, and a block that was made for another
\* EIP or does not fit the budget are interpreted.
Step16 ==
    /\ AtHead
    /\ cs.ctx \notin D32
    /\ StepFast
    /\ UNCHANGED cacheVars

Step32 ==
    /\ AtHead
    /\ cs.ctx \in D32
    /\ jit_lookup # "miss"
    /\ ~Enterable
    /\ StepFast
    /\ UNCHANGED cacheVars

Missed ==
    /\ AtHead /\ ~pending
    /\ cs.ctx \in D32
    /\ jit_lookup = "miss"

\* A head that is not hot yet.
Warm ==
    /\ Missed
    /\ Warmed < HOT_THRESHOLD
    /\ hot' = [hot EXCEPT ![HotSlot] = Warmed]
    /\ StepFast
    /\ UNCHANGED <<blocks, table>>

\* jit_translate: the flag analysis keeps some non-empty prefix of the plan.
Translate ==
    /\ Missed
    /\ Warmed >= HOT_THRESHOLD
    /\ \E offs \in jit_plan : blocks' = Append(Kept, NewBlock(offs))
    /\ table' = [KeptTable EXCEPT ![TableSlot] = NewSlot]
    /\ hot' = KeptHot
    /\ UNCHANGED <<vars, stampVars, blockVars, hostDirty>>

\* ... or no prefix: the head is remembered as cold and interpreted.
TranslateNothing ==
    /\ Missed
    /\ Warmed >= HOT_THRESHOLD
    /\ blocks' = Kept
    /\ table' = [KeptTable EXCEPT ![TableSlot] = ColdSlot]
    /\ hot' = KeptHot
    /\ StepFast

\* ... or the assembler fails to commit the code: everything is dropped.
CommitFails ==
    /\ Missed
    /\ Warmed >= HOT_THRESHOLD
    /\ jit_plan # {}
    /\ blocks' = <<>>
    /\ table' = [EmptyTable EXCEPT ![TableSlot] = ColdSlot]
    /\ hot' = EmptyHot
    /\ StepFast

\* Mutant: the budget is rounded up to whole iterations.
IterationsUp(n) == (left + n - 1) \div n

\* The iterations of n instructions that the budget covers.
Iterations(n) == left \div n

\* jit_enter; the prologue's check of the block's own version always succeeds
\* (see PrologueAgrees).
Enter ==
    /\ AtHead /\ ~pending
    /\ cs.ctx \in D32
    /\ Enterable
    /\ cur' = table[TableSlot].idx
    /\ pos' = 1
    /\ r8' = 0
    /\ rcx' = Iterations(Len(blocks[table[TableSlot].idx].insns))
    /\ UNCHANGED <<vars, stampVars, cacheVars, hostDirty>>

-----------------------------------------------------------------------------
Block == blocks[cur]
Insn == Block.insns[pos]
AtLast == pos = Len(Block.insns)
Branches == KindOf(Insn.d) \in {"jcc", "jmp"}
SelfLoop == AtLast /\ Branches /\ TargetOf(Insn.d, Insn.eip) = Block.start_eip

InBlock == cur # 0 /\ executed' = Insn.d

\* An instruction of the body.
BlockBody ==
    /\ InBlock
    /\ ~AtLast
    /\ pos' = pos + 1
    /\ UNCHANGED <<ram, cs, eip, executing, left, pending, stampVars, cacheVars,
                   cur, r8, rcx, hostDirty>>

\* emit_exit: EIP becomes a constant of the block, the retired instructions
\* are returned to run_jit.
emit_exit(next, retired) ==
    /\ eip' = next
    /\ left' = left - retired
    /\ cur' = 0 /\ pos' = 0 /\ r8' = 0 /\ rcx' = 0
    /\ UNCHANGED <<ram, cs, executing, pending, stampVars, cacheVars, hostDirty>>

\* The end of the block: a fall-through or an untaken branch ...
BlockFall ==
    /\ InBlock
    /\ AtLast
    /\ KindOf(Insn.d) \in {"body", "jcc"}
    /\ emit_exit(EndOf(Insn.d, Insn.eip), r8 + Len(Block.insns))

\* ... a taken branch out of the block, or the last iteration of its loop ...
BlockTaken ==
    /\ InBlock
    /\ AtLast /\ Branches
    /\ SelfLoop => rcx = 1
    /\ emit_exit(TargetOf(Insn.d, Insn.eip), r8 + Len(Block.insns))

\* ... or emit_backedge.
emit_backedge ==
    /\ InBlock
    /\ SelfLoop
    /\ rcx # 1
    /\ rcx' = rcx - 1
    /\ r8' = r8 + Len(Block.insns)
    /\ pos' = 1
    /\ UNCHANGED <<ram, cs, eip, executing, left, pending, stampVars, cacheVars, cur, hostDirty>>

-----------------------------------------------------------------------------
\* An open unit stores: the bytes and the stamps of their pages.
JitWrite(st) ==
    /\ executing
    /\ ram' = StoreBytes(ram, st)
    /\ stamp_write_span(st.addr, Wrap(st.addr + st.width - 1))
    /\ UNCHANGED <<cs, eip, executing, executed, left, pending, inval,
                   cacheVars, blockVars, hostDirty>>

JitRetire == Retire /\ UNCHANGED <<stampVars, cacheVars, blockVars, hostDirty>>

\* The host honours its side of the contract before it runs the CPU again.
JitRun ==
    /\ ~hostDirty
    /\ Run
    /\ UNCHANGED <<stampVars, cacheVars, blockVars, hostDirty>>

JitHostWrite ==
    /\ HostWrite
    /\ hostDirty' = TRUE
    /\ UNCHANGED <<stampVars, cacheVars, blockVars>>

JitHostSet == HostSet /\ UNCHANGED <<stampVars, cacheVars, blockVars, hostDirty>>

InvalidateIcache ==
    /\ AtHost
    /\ invalidate_all
    /\ hostDirty' = FALSE
    /\ UNCHANGED <<vars, stamps, cacheVars, blockVars>>

invalidate_jit ==
    /\ AtHost
    /\ flush
    /\ UNCHANGED <<vars, stampVars, blockVars, hostDirty>>

\* Cpu::reset
Reset ==
    /\ AtHost
    /\ cs' = ResetPlace.cs /\ eip' = ResetPlace.eip /\ pending' = FALSE
    /\ invalidate_all
    /\ flush
    /\ hostDirty' = FALSE
    /\ UNCHANGED <<ram, executing, executed, left, stamps, blockVars>>

\* The named bound on the clock.
WithinBound == clock' <= MaxClock

Dispatch ==
    \/ RunBoundary \/ Step16 \/ Step32
    \/ Warm \/ TranslateNothing \/ Translate \/ CommitFails
    \/ Enter
InCode == BlockBody \/ BlockFall \/ BlockTaken \/ emit_backedge

JitNext ==
    \/ Dispatch
    \/ InCode
    \/ \E st \in Stores : JitWrite(st) /\ WithinBound
    \/ JitRetire
    \/ JitRun \/ JitHostWrite \/ JitHostSet
    \/ InvalidateIcache /\ WithinBound
    \/ invalidate_jit
    \/ Reset /\ WithinBound

JitSpec == JitInit /\ [][JitNext]_jvars

\* run_jit is a loop that nothing blocks, and every open unit ends.
JitFairSpec == JitSpec /\ WF_jvars(Dispatch \/ InCode \/ JitRetire)

-----------------------------------------------------------------------------
\* The bytes of memory m at b.phys decode to the instructions of b, one after
\* the other.
FreshBlock(m, b, ctx) ==
    LET seg == [base |-> Wrap(b.phys - b.start_eip + PhysSize), limit |-> 0, ctx |-> ctx] IN
    \A i \in 1 .. Len(b.insns) :
        /\ b.insns[i].d = Decode(m, seg, b.insns[i].eip)
        /\ b.insns[i].eip = (IF i = 1 THEN b.start_eip
                             ELSE EndOf(b.insns[i - 1].d, b.insns[i - 1].eip))

\* The block's own prologue would never find it stale after the table's check
\* passed: the slot and the block agree on the version and the page.
PrologueAgrees ==
    \A s \in TableIndex :
        LET t == table[s] IN
        t.idx # COLD => /\ t.idx <= Len(blocks)
                        /\ blocks[t.idx].version = t.version
                        /\ blocks[t.idx].phys = t.key.phys

TableFresh ==
    \A s \in TableIndex :
        LET t == table[s] IN
        t.idx # COLD /\ LiveAt(t.version, t.key.phys)
          => FreshBlock(ram, blocks[t.idx], t.key.ctx)

\* A block the table offers is what its bytes decode to now, whatever was
\* stored, flushed, evicted or invalidated since it was translated, and a
\* block never changes under the CPU that is executing it (jit_lookup).
NoStaleBlock ==
    /\ PrologueAgrees
    /\ ~hostDirty => TableFresh
    /\ cur # 0 => FreshBlock(ram, Block, cs.ctx)

\* Where the interpreter would be inside a block.
CurEip == IF cur = 0 THEN eip ELSE Insn.eip
CurLeft == IF cur = 0 THEN left ELSE left - r8 - (pos - 1)

I == INSTANCE Interp386 WITH eip <- CurEip, left <- CurLeft

\* Cpu::run with the JIT is Cpu::run of the interpreter: the same instructions
\* from the same EIPs, exactly n of them, no boundary skipped.
ImplementsInterp == I!Spec

\* A run never loops in the dispatcher: translating, finding the block
\* unusable and translating again always makes progress (run_jit).
RunReturns == left > 0 ~> left = 0

-----------------------------------------------------------------------------
\* The inductive invariant.  The type invariant:
Key == [phys : Phys, ctx : Ctx]
Slot == {EmptySlot} \cup [key : Key, version : Nat, idx : Nat]
BlockInsn == [d : DecodedInsn, eip : Phys]
BlockMeta == [phys : Phys, version : Nat, start_eip : Phys, insns : Seq(BlockInsn)]

TypeOK ==
    /\ ram \in [RamAddr -> Byte]
    /\ cs \in CodeSegment /\ eip \in Phys
    /\ executing \in BOOLEAN /\ pending \in BOOLEAN /\ hostDirty \in BOOLEAN
    /\ executed \in DecodedInsn \cup {GP, Event}
    /\ left \in Nat
    /\ stamps \in [StampIndex -> Nat] /\ clock \in Nat /\ inval \in Nat
    /\ blocks \in Seq(BlockMeta)
    /\ table \in [TableIndex -> Slot]
    /\ hot \in [HotIndex -> Nat]
    /\ cur \in 0 .. Len(blocks)
    /\ pos \in Nat /\ r8 \in Nat /\ rcx \in Nat

\* Nothing is newer than the clock.
ClockInv ==
    /\ \A s \in StampIndex : stamps[s] <= clock
    /\ inval \in 1 .. clock
    /\ \A s \in TableIndex : table[s].version <= clock

\* Open units run inside a run, and a run starts with the cache invalidated.
UnitInv ==
    /\ executing => left > 0 /\ cur = 0
    /\ hostDirty => AtHost

\* A block stays in its page, and only its last instruction may branch.
BlockShape(b) ==
    /\ Len(b.insns) >= 1
    /\ \A i \in 1 .. Len(b.insns) :
          LET n == b.insns[i] IN
          /\ (b.phys % PageSize) + Wrap(n.eip - b.start_eip) + n.d.len <= PageSize
          /\ KindOf(n.d) # "other"
          /\ i # Len(b.insns) => KindOf(n.d) = "body"

BlocksInv == \A k \in 1 .. Len(blocks) : BlockShape(blocks[k])

\* The block being executed was entered at its own EIP, and the budget covers
\* the iterations that rcx still allows.
CodeInv ==
    cur # 0 =>
        /\ AtUnit /\ ~pending
        /\ Block.start_eip = eip /\ Block.phys = phys
        /\ pos \in 1 .. Len(Block.insns)
        /\ rcx >= 1
        /\ r8 + rcx * Len(Block.insns) <= left

IInv ==
    /\ TypeOK /\ ClockInv /\ UnitInv
    /\ BlocksInv /\ CodeInv /\ NoStaleBlock

\* Every code segment spans the address space.  Neither jit_lookup nor the
\* exits of a block look at the CS limit.
FlatSegments == \A c \in CodeSegment : c.limit = PhysSize - 1
=============================================================================
