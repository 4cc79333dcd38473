------------------------------ MODULE ICache386 -----------------------------
(***************************************************************************)
(* The decoded-instruction cache of the 80386 core (x86_32/icache.rs) and  *)
(* the interpreter step that probes and fills it (exec_one, x86_32/mod.rs),*)
(* with paging off.  The cache is direct mapped and physically keyed; a    *)
(* monotonic clock stamps the page of every store, and an entry is live    *)
(* while its fill-time clock is not older than its page's stamp nor than   *)
(* the last invalidate-all.                                                *)
(*                                                                         *)
(* Spec implements Fused386!Spec, the interpreter that re-fetches every    *)
(* byte.                                                                   *)
(***************************************************************************)
EXTENDS Stamps386

CONSTANTS
    ICACHE_ENTRIES,   \* direct-mapped entries
    ResetSegment,     \* CS after reset (F000, base FFFF0000)
    ResetEip,         \* EIP after reset (FFF0)
    MaxClock          \* bound of the model on the store clock (a u64)

ASSUME CacheAssumption ==
    /\ ICACHE_ENTRIES \in Nat \ {0}
    /\ ResetSegment \in CodeSegment
    /\ ResetEip \in Phys
    /\ MaxClock \in Nat \ {0}

VARIABLES
    ram, cs, eip, executing, executed,   \* as in Fused386
    entries,    \* the cache: slot -> [key, version, insn]
    hostDirty   \* a host write has not been followed by invalidate_icache

archVars == <<ram, cs, eip, executing, executed>>
cacheVars == <<entries, stamps, clock, inval>>
vars == <<ram, cs, eip, executing, executed, entries, stamps, clock, inval, hostDirty>>

F == INSTANCE Fused386

-----------------------------------------------------------------------------
EntrySlot(phys) == phys % ICACHE_ENTRIES

EntryIndex == 0 .. ICACHE_ENTRIES - 1

\* The key of an entry: first byte's physical address and decode context.
Key == [phys : Phys, ctx : Ctx]
Entry == [key : Key, version : Nat, insn : DecodedInsn]

\* icache_phys with paging off.
icache_phys == CodeAddr(cs, eip)
icache_key == [phys |-> icache_phys, ctx |-> cs.ctx]

Live(e) == LiveAt(e.version, e.key.phys)

\* Mutant: the CS limit is not revalidated on a hit.
HitPastLimit ==
    LET e == entries[EntrySlot(icache_phys)] IN e.key = icache_key /\ Live(e)

\* The probe of exec_one: key, page stamp, invalidation clock, CS limit.
Hit ==
    LET e == entries[EntrySlot(icache_phys)] IN
    /\ e.key = icache_key
    /\ Live(e)
    /\ eip + (e.insn.len - 1) <= cs.limit

\* icache_fill: a page-crosser is never cached; the version is the clock now.
icache_fill(insn) ==
    IF (icache_phys % PageSize) + insn.len > PageSize
    THEN entries
    ELSE [entries EXCEPT ![EntrySlot(icache_phys)] =
             [key |-> icache_key, version |-> clock, insn |-> insn]]

\* lin_write8/16/32 with CR0.PG clear: stamp the span, then write the bytes.
lin_write(st) ==
    /\ ram' = StoreBytes(ram, st)
    /\ stamp_write_span(st.addr, Wrap(st.addr + st.width - 1))

-----------------------------------------------------------------------------
\* A dead entry stands for the zeroed pages the table is allocated from.
ZeroEntry ==
    [key |-> [phys |-> 0, ctx |-> CHOOSE c \in Ctx : TRUE],
     version |-> 0,
     insn |-> CHOOSE d \in DecodedInsn : TRUE]

Init ==
    /\ F!Init
    /\ entries = [s \in EntryIndex |-> ZeroEntry]
    /\ stamps = [s \in StampIndex |-> 0]
    /\ clock = 1
    /\ inval = 1
    /\ hostDirty = FALSE

\* A step starts once the host has honoured its side of the contract.
Begin ==
    /\ ~executing
    /\ ~hostDirty
    /\ executing' = TRUE

\* exec_one on a hit: the cached decode products run, the bytes are not read.
FetchHit ==
    /\ Begin
    /\ Hit
    /\ executed' = entries[EntrySlot(icache_phys)].insn
    /\ UNCHANGED <<ram, cs, eip, cacheVars, hostDirty>>

\* exec_one on a miss, hot opcode: fetch, decode, fill; execution follows.
FetchHot ==
    /\ Begin
    /\ ~Hit
    /\ FetchOk(ram, cs, eip)
    /\ CodeByte(ram, cs, eip, 0) \in Hot
    /\ executed' = FusedStep(ram, cs, eip)
    /\ entries' = icache_fill(FusedStep(ram, cs, eip))
    /\ UNCHANGED <<ram, cs, eip, stamps, clock, inval, hostDirty>>

\* exec_one on a miss, everything else: the fused dispatch, or a fetch fault.
\* Neither fills the cache.
FetchFused ==
    /\ Begin
    /\ ~Hit
    /\ \/ ~FetchOk(ram, cs, eip)
       \/ CodeByte(ram, cs, eip, 0) \notin Hot
    /\ executed' = FusedStep(ram, cs, eip)
    /\ UNCHANGED <<ram, cs, eip, cacheVars, hostDirty>>

\* The instruction under way stores (any number of times).
Write(st) ==
    /\ executing
    /\ lin_write(st)
    /\ UNCHANGED <<cs, eip, executing, executed, entries, inval, hostDirty>>

\* The step ends; it or the delivery of its fault may have loaded CS.
Retire ==
    /\ executing
    /\ executing' = FALSE
    /\ cs' \in CodeSegment
    /\ eip' \in Phys
    /\ UNCHANGED <<ram, executed, cacheVars, hostDirty>>

\* A host write bypasses the CPU: nothing is stamped.
HostWrite(x, v) ==
    /\ ~executing
    /\ ram' = [ram EXCEPT ![x] = v]
    /\ hostDirty' = TRUE
    /\ UNCHANGED <<cs, eip, executing, executed, cacheVars>>

\* set_cs_ip, or a poke of the public registers or of `extensions`.
HostSetCs ==
    /\ ~executing
    /\ cs' \in CodeSegment
    /\ eip' \in Phys
    /\ UNCHANGED <<ram, executing, executed, cacheVars, hostDirty>>

\* invalidate_icache, which the host owes after a write, before the next step.
InvalidateIcache ==
    /\ ~executing
    /\ invalidate_all
    /\ hostDirty' = FALSE
    /\ UNCHANGED <<archVars, entries, stamps>>

\* Cpu::reset: power-on registers, and the cache is invalidated.
Reset ==
    /\ ~executing
    /\ cs' = ResetSegment
    /\ eip' = ResetEip
    /\ invalidate_all
    /\ hostDirty' = FALSE
    /\ UNCHANGED <<ram, executing, executed, entries, stamps>>

\* The named bound: a step that would push the clock past MaxClock is cut.
WithinBound == clock' <= MaxClock

Next ==
    \/ FetchHit
    \/ FetchHot
    \/ FetchFused
    \/ \E st \in Store : Write(st) /\ WithinBound
    \/ Retire
    \/ \E x \in RamAddr, v \in Byte : HostWrite(x, v)
    \/ HostSetCs
    \/ InvalidateIcache /\ WithinBound
    \/ Reset /\ WithinBound

Spec == Init /\ [][Next]_vars

-----------------------------------------------------------------------------
TypeOK ==
    /\ ram \in [RamAddr -> Byte]
    /\ cs \in CodeSegment
    /\ eip \in Phys
    /\ executing \in BOOLEAN
    /\ executed \in DecodedInsn \cup {GP}
    /\ entries \in [EntryIndex -> Entry]
    /\ stamps \in [StampIndex -> Nat]
    /\ clock \in Nat
    /\ inval \in Nat
    /\ hostDirty \in BOOLEAN

\* The decode products of e are what its bytes decode to now.
Fresh(e) ==
    e.insn = Decode(ram, [base |-> e.key.phys, limit |-> 0, ctx |-> e.key.ctx], 0)

\* Every live entry is what its bytes decode to now: the decode products the
\* cache would replay are those a fresh fetch would produce, whatever stores,
\* evictions, mode changes and invalidations came before.  This is what
\* icache_differential asserts on a hit.
NoStaleEntry ==
    ~hostDirty => \A s \in EntryIndex : Live(entries[s]) => Fresh(entries[s])

\* The cached interpreter implements the fused one: every step executes what
\* re-fetching every byte would have executed, #GP at the limit included.
ImplementsFused == F!Spec

-----------------------------------------------------------------------------
\* The inductive invariant: nothing is newer than the clock, a filled entry
\* never crosses a page, and no live entry is stale.
ClockInv ==
    /\ \A s \in StampIndex : stamps[s] <= clock
    /\ inval \in 1 .. clock
    /\ \A s \in EntryIndex : entries[s].version <= clock

PageLocalInv ==
    \A s \in EntryIndex :
        LET e == entries[s] IN
        e.version > 0 => (e.key.phys % PageSize) + e.insn.len <= PageSize

IInv == TypeOK /\ ClockInv /\ PageLocalInv /\ NoStaleEntry
=============================================================================
