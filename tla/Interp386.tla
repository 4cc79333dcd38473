----------------------------- MODULE Interp386 ------------------------------
(***************************************************************************)
(* What Cpu::run(n) promises, whatever executes the guest: n units, each   *)
(* the instruction that the bytes at CS:EIP decode to at that moment, with *)
(* every pending boundary (interrupt, single step, trap) honoured before   *)
(* the next instruction.  This is run_interp without any cache; Jit386 is  *)
(* shown to implement it.                                                  *)
(*                                                                         *)
(* Register-only instructions and near branches are single steps.  Every   *)
(* other unit (stores, far transfers, faults, deliveries) is left open: it *)
(* may write memory and continue at any place, in any code segment.        *)
(***************************************************************************)
EXTENDS Fetch386

CONSTANTS
    D32,       \* the contexts of 32-bit code segments (CS.D = 1)
    Kind,      \* first byte -> "body", "jcc", "jmp" or "other"
    Rel,       \* byte -> branch displacement it encodes (modulo 2^32)
    Budgets,   \* the n of run(n)
    Programs,  \* initial contents of memory
    Stores,    \* the stores of guest and host in this instance
    Places     \* the CS and EIP at which other code may continue

ASSUME KindAssumption ==
    /\ D32 \subseteq Ctx
    /\ Kind \in [Byte -> {"body", "jcc", "jmp", "other"}]
    /\ \A b \in Byte : Kind[b] # "other" => b \in Hot
    /\ Rel \in [Byte -> Phys]
    /\ Budgets \subseteq Nat \ {0}
    /\ Programs \subseteq [RamAddr -> Byte]
    /\ Stores \subseteq Store
    /\ Places \subseteq [cs : CodeSegment, eip : Phys]

VARIABLES
    ram, cs, eip,
    executing,   \* an open unit is under way
    executed,    \* what the last unit executed: decode products, #GP or Event;
                 \* forgotten when an open unit ends and when run() starts
    left,        \* units that run() still owes
    pending      \* an event bit, a halt, a shutdown, a host trap or EFLAGS.TF

vars == <<ram, cs, eip, executing, executed, left, pending>>

Event == [event |-> TRUE]

\* The kind of a decoded instruction; 16-bit code is all "other".
KindOf(d) == IF d.ctx \in D32 THEN Kind[d.bytes[0]] ELSE "other"

EndOf(d, e) == Wrap(e + d.len)
TargetOf(d, e) == Wrap(EndOf(d, e) + Rel[d.bytes[d.len - 1]])

\* A branch target beyond the CS limit faults at the transfer (set_ip).
Reaches(d, e, c, next) ==
    \/ KindOf(d) \in {"body", "jcc"} /\ next = EndOf(d, e)
    \/ KindOf(d) \in {"jcc", "jmp"} /\ next = TargetOf(d, e) /\ next <= c.limit

\* What an open unit at CS:e may execute.
OpenAt(m, c, e) ==
    IF ~FetchOk(m, c, e) THEN {GP}
    ELSE LET d == Decode(m, c, e) IN
         CASE KindOf(d) = "other" -> {d}
           [] KindOf(d) # "other" ->
                {x \in {GP} : KindOf(d) \in {"jcc", "jmp"} /\ TargetOf(d, e) > c.limit}

-----------------------------------------------------------------------------
Init ==
    /\ ram \in Programs
    /\ \E p \in Places : cs = p.cs /\ eip = p.eip
    /\ executing = FALSE
    /\ executed = GP
    /\ left = 0
    /\ pending \in BOOLEAN

AtUnit == ~executing /\ left > 0

\* A register-only instruction or a near branch.
Simple ==
    /\ AtUnit /\ ~pending
    /\ FetchOk(ram, cs, eip)
    /\ Reaches(Decode(ram, cs, eip), eip, cs, eip')
    /\ executed' = Decode(ram, cs, eip)
    /\ left' = left - 1
    /\ UNCHANGED <<ram, cs, executing, pending>>

\* Any other instruction, or a fault.
Open ==
    /\ AtUnit /\ ~pending
    /\ executed' \in OpenAt(ram, cs, eip)
    /\ executing' = TRUE
    /\ UNCHANGED <<ram, cs, eip, left, pending>>

\* A pending boundary is serviced, or makes run() return.
Boundary ==
    /\ AtUnit /\ pending
    /\ \/ executing' = TRUE /\ executed' = Event /\ UNCHANGED left
       \/ left' = 0 /\ UNCHANGED <<executing, executed>>
    /\ UNCHANGED <<ram, cs, eip, pending>>

Write ==
    /\ executing
    /\ \E st \in Stores : ram' = StoreBytes(ram, st)
    /\ UNCHANGED <<cs, eip, executing, executed, left, pending>>

Retire ==
    /\ executing
    /\ executing' = FALSE
    /\ \E p \in Places : cs' = p.cs /\ eip' = p.eip
    /\ pending' \in BOOLEAN
    /\ left' = left - 1
    /\ executed' = GP
    /\ UNCHANGED ram

\* The host, between two calls of run(), which returns once n units are done.
AtHost == ~executing /\ left <= 0

Run ==
    /\ AtHost
    /\ left' \in Budgets
    /\ executed' = GP
    /\ UNCHANGED <<ram, cs, eip, executing, pending>>

HostWrite ==
    /\ AtHost
    /\ \E st \in Stores : ram' = StoreBytes(ram, st)
    /\ UNCHANGED <<cs, eip, executing, executed, left, pending>>

HostSet ==
    /\ AtHost
    /\ \E p \in Places : cs' = p.cs /\ eip' = p.eip
    /\ pending' \in BOOLEAN
    /\ UNCHANGED <<ram, executing, executed, left>>

Next == Simple \/ Open \/ Boundary \/ Write \/ Retire \/ Run \/ HostWrite \/ HostSet

Spec == Init /\ [][Next]_vars
=============================================================================
