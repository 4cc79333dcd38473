----------------------------- MODULE Stamps386 ------------------------------
(***************************************************************************)
(* The validity clocks of the 80386 core (the clock half of ICache in      *)
(* x86_32/icache.rs), which the decoded-instruction cache and the JIT      *)
(* share: a monotonic clock stamps the page of every store, and whatever   *)
(* was derived from the bytes of a page at an older clock is dead.         *)
(***************************************************************************)
EXTENDS Fetch386

CONSTANT STAMP_SLOTS   \* per-page write-stamp slots

ASSUME StampAssumption == STAMP_SLOTS \in Nat \ {0}

VARIABLES
    stamps,     \* stamp slot -> clock of the last store into an aliasing page
    clock,      \* monotonic store clock
    inval       \* whatever is older than this is dead

Page(phys) == phys \div PageSize
StampSlot(phys) == Page(phys) % STAMP_SLOTS
StampIndex == 0 .. STAMP_SLOTS - 1

\* Derived from the page of phys at clock `version`, and not outdated since.
LiveAt(version, phys) ==
    /\ version >= stamps[StampSlot(phys)]
    /\ version >= inval

\* Mutant: a store that crosses a page stamps its first page only.
StampFirstPage(first, last) ==
    /\ clock' = clock + 1
    /\ stamps' = [stamps EXCEPT ![StampSlot(first)] = clock + 1]

\* stamp_write_span(first, last): the first byte's page, and the last byte's
\* page when the span crosses into it.  The clock moves once per stamp.
stamp_write_span(first, last) ==
    IF Page(first) = Page(last)
    THEN /\ clock' = clock + 1
         /\ stamps' = [stamps EXCEPT ![StampSlot(first)] = clock + 1]
    ELSE /\ clock' = clock + 2
         /\ stamps' = [stamps EXCEPT ![StampSlot(first)] = clock + 1,
                                     ![StampSlot(last)] = clock + 2]

invalidate_all ==
    /\ clock' = clock + 1
    /\ inval' = clock + 1

-----------------------------------------------------------------------------
\* Physical addresses that reach one byte of RAM share a stamp slot.  It holds
\* when RAM does not wrap, and fails for LinearMemory (16 MiB of RAM, stamp
\* slots for 64 MiB).
StampsCoverRam ==
    \A a, b \in Phys : RamIndex(a) = RamIndex(b) => StampSlot(a) = StampSlot(b)
=============================================================================
