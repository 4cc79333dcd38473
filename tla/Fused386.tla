------------------------------ MODULE Fused386 ------------------------------
(***************************************************************************)
(* What the 80386 core promises about instruction fetch: the interpreter   *)
(* without any cache.  Every instruction is decoded from the bytes that    *)
(* are in memory when it starts, every byte checked against the CS limit,  *)
(* and its store, if any, lands afterwards.  ICache386 (the decoded        *)
(* instruction cache) is shown to implement this specification.            *)
(***************************************************************************)
EXTENDS Fetch386

VARIABLES
    ram,        \* the bytes behind the bus
    cs,         \* CS base, limit and the decode context
    eip,        \* instruction pointer
    executing,  \* an instruction (or the delivery of its fault) is under way
    executed    \* what the current or last step executes: decode products or #GP

vars == <<ram, cs, eip, executing, executed>>

-----------------------------------------------------------------------------
Init ==
    /\ ram \in [RamAddr -> Byte]
    /\ cs \in CodeSegment
    /\ eip \in Phys
    /\ executing = FALSE
    /\ executed = GP

\* The next instruction is fetched and decoded, or its fetch raises #GP.
Fetch ==
    /\ ~executing
    /\ executing' = TRUE
    /\ executed' = FusedStep(ram, cs, eip)
    /\ UNCHANGED <<ram, cs, eip>>

\* The instruction stores, or its fault or an interrupt pushes a frame word.
Write ==
    /\ executing
    /\ \E st \in Store : ram' = StoreBytes(ram, st)
    /\ UNCHANGED <<cs, eip, executing, executed>>

\* The step ends: where it continues, and whether CS was loaded on the way
\* (far transfer, MOV CR0, IRET, the segment of a vector), is left open.
Retire ==
    /\ executing
    /\ executing' = FALSE
    /\ cs' \in CodeSegment
    /\ eip' \in Phys
    /\ UNCHANGED <<ram, executed>>

\* Between two steps a loader or syscall layer writes guest memory directly.
HostWrite ==
    /\ ~executing
    /\ \E x \in RamAddr, v \in Byte : ram' = [ram EXCEPT ![x] = v]
    /\ UNCHANGED <<cs, eip, executing, executed>>

\* Between two steps: set_cs_ip, reset, or a poke of the public fields.
HostSetCs ==
    /\ ~executing
    /\ cs' \in CodeSegment
    /\ eip' \in Phys
    /\ UNCHANGED <<ram, executing, executed>>

Next == Fetch \/ Write \/ Retire \/ HostWrite \/ HostSetCs

Spec == Init /\ [][Next]_vars
=============================================================================
