------------------------------- MODULE Step386 ------------------------------
(***************************************************************************)
(* The instruction boundary of the 80386 core (x86_32/mod.rs): step, run   *)
(* and run_boundary; the latched events (NMI, INTR, the one-instruction    *)
(* shadow, the host-trap doorbell); the rewind of a faulting instruction;  *)
(* and delivery with its nested, double and triple faults.                 *)
(*                                                                         *)
(* Data abstraction: of the register file the model keeps EIP, one general *)
(* register (ESP included), one "cold" register (segments, control and     *)
(* table registers), IF and TF.  An instruction is any sequence of writes  *)
(* to them that ends in a retirement or a fault; a delivery is any partial *)
(* sequence that ends in the handler or in a nested fault.  Vectors matter *)
(* by their double-fault class only.                                       *)
(***************************************************************************)
EXTENDS Integers

CONSTANTS
    Eip,         \* instruction pointers
    Handler,     \* the one a vector leads to
    Val,         \* values of a general and of a cold register
    MaxRun,      \* bound of the model on the n of run(n)
    MaxShadow    \* bound of the model on shadow-arming instructions in a row

ASSUME StepAssumption ==
    /\ Handler \in Eip
    /\ Val # {}
    /\ MaxRun \in Nat
    /\ MaxShadow \in Nat

VARIABLES
    regs,         \* the register file
    halted, shutdown,
    events,       \* EVT_* bits: NMI, INTR, INHIBIT, HOST_TRAP
    intr,         \* the pending INTR request: intr.is_some()
    host_trap,    \* "none", "Syscall" or "Exception"
    trap_faults,  \* the host takes CPU exceptions itself
    mode,         \* who drives: the host, a step() call or a run() call
    left,         \* step-units the run() call has left
    phase,        \* between units, executing an instruction, or delivering
    insn,         \* locals of the instruction under way
    delivery,     \* locals of the delivery under way
    shadow        \* shadow-arming instructions retired in a row

driveVars == <<mode, left>>
vars == <<regs, halted, shutdown, events, intr, host_trap, trap_faults, mode, left,
          phase, insn, delivery, shadow>>

\* Double-fault classes: contributory, page fault, #DF itself, benign.
Vector == {"benign", "contributory", "pf", "df"}
-----------------------------------------------------------------------------
\* Mutant: only INTR counts.
IntrPending == "INTR" \in events /\ regs.IFlag

interrupt_pending == "NMI" \in events \/ ("INTR" \in events /\ regs.IFlag)

boundary_pending == events # {} \/ halted \/ shutdown \/ regs.TFlag

\* No instruction, and no delivery, is under way.  Of an instruction, `pre` are
\* the registers it started with (saved_all; saved_gpr, start_eip and the TF at
\* the start come from it) and `fault_regs` what prepare_cold_write captured.
\* Of a delivery, `class` is "Fault", "SoftInt" or "External", `snapshot` is
\* raise's and `origin` the registers deliver was entered with; the trap-flag
\* test follows a fault's delivery (`ofInsn`) but not an interrupt's.
NoRegs == [eip |-> Handler, gpr |-> CHOOSE v \in Val : TRUE,
           cold |-> CHOOSE v \in Val : TRUE, IFlag |-> FALSE, TFlag |-> FALSE]
NoInsn == [pre |-> NoRegs, trap |-> FALSE, commit_on_fault |-> FALSE,
           cold_saved |-> FALSE, fault_regs |-> NoRegs]
NoDelivery == [vector |-> "benign", class |-> "Fault", in_double_fault |-> FALSE,
               tries |-> 0, snapshot |-> NoRegs, origin |-> NoRegs, ofInsn |-> FALSE]

\* Mutant: run() forgets to count.
EndUnitFree ==
    /\ phase' = "idle"
    /\ insn' = NoInsn
    /\ delivery' = NoDelivery
    /\ mode' = IF mode = "step" THEN "host" ELSE mode
    /\ UNCHANGED left

\* A step-unit ends: step() returns, run() counts it.
EndUnit ==
    /\ phase' = "idle"
    /\ insn' = NoInsn
    /\ delivery' = NoDelivery
    /\ IF mode = "step"
       THEN mode' = "host" /\ UNCHANGED left
       ELSE left' = left - 1 /\ UNCHANGED mode

\* deliver(e, class) is entered with registers r.
BeginDelivery(vector, class, r, ofInsn) ==
    /\ phase' = "deliver"
    /\ delivery' = [vector |-> vector, class |-> class, in_double_fault |-> FALSE,
                    tries |-> 1, snapshot |-> r, origin |-> r, ofInsn |-> ofInsn]
    /\ UNCHANGED driveVars

\* The end of step_slow and step_fast, with the registers and events the
\* instruction (or the delivery of its fault) left: the single-step trap.
AfterInsn(r, ev) ==
    IF insn.trap /\ r.TFlag /\ "INHIBIT" \notin ev
    THEN BeginDelivery("benign", "Fault", r, FALSE) /\ UNCHANGED insn
    ELSE EndUnit

\* exec_one starts: the per-instruction state is reset.
StartInsn(trap) ==
    /\ phase' = "exec"
    /\ insn' = [pre |-> regs, trap |-> trap, commit_on_fault |-> FALSE,
                cold_saved |-> FALSE, fault_regs |-> NoRegs]
    /\ UNCHANGED <<regs, delivery, driveVars>>

-----------------------------------------------------------------------------
\* Mutant: run_boundary does not look at host_trap.
UnitDuePastTrap ==
    /\ phase = "idle"
    /\ \/ mode = "step"
       \/ /\ mode = "run"
          /\ left > 0
          /\ boundary_pending => ~shutdown /\ ~(halted /\ ~interrupt_pending)

\* A unit may start: inside step(), or inside run() when run_boundary finds no
\* reason to return.
UnitDue ==
    /\ phase = "idle"
    /\ \/ mode = "step"
       \/ /\ mode = "run"
          /\ left > 0
          /\ boundary_pending =>
               /\ host_trap = "none"
               /\ ~shutdown
               /\ ~(halted /\ ~interrupt_pending)

step_fast ==
    /\ UnitDue
    /\ ~boundary_pending
    /\ StartInsn(FALSE)
    /\ UNCHANGED <<halted, shutdown, events, intr, host_trap, trap_faults, shadow>>

\* step_slow always drops the doorbell; past the shutdown test it consumes the
\* shadow, which masks both interrupts for this unit.
SlowDue == UnitDue /\ boundary_pending

\* Mutant: the shadow masks nothing.
DeliverableAlways == TRUE
Deliverable == "INHIBIT" \notin events

SlowShutdown ==
    /\ SlowDue
    /\ shutdown
    /\ events' = events \ {"HOST_TRAP"}
    /\ EndUnit
    /\ UNCHANGED <<regs, halted, shutdown, intr, host_trap, trap_faults, shadow>>

SlowNmi ==
    /\ SlowDue
    /\ ~shutdown
    /\ Deliverable /\ "NMI" \in events
    /\ events' = events \ {"HOST_TRAP", "INHIBIT", "NMI"}
    /\ halted' = FALSE
    /\ BeginDelivery("benign", "External", regs, FALSE)
    /\ UNCHANGED <<regs, shutdown, intr, host_trap, trap_faults, insn, shadow>>

SlowIntr ==
    /\ SlowDue
    /\ ~shutdown
    /\ Deliverable /\ "NMI" \notin events
    /\ intr /\ regs.IFlag
    /\ events' = events \ {"HOST_TRAP", "INHIBIT", "INTR"}
    /\ intr' = FALSE
    /\ halted' = FALSE
    /\ BeginDelivery("benign", "External", regs, FALSE)
    /\ UNCHANGED <<regs, shutdown, host_trap, trap_faults, insn, shadow>>

\* Neither interrupt is taken at this boundary.
NoInterrupt == Deliverable => "NMI" \notin events /\ ~(intr /\ regs.IFlag)

SlowHalted ==
    /\ SlowDue
    /\ ~shutdown
    /\ NoInterrupt
    /\ halted
    /\ events' = events \ {"HOST_TRAP", "INHIBIT"}
    /\ EndUnit
    /\ UNCHANGED <<regs, halted, shutdown, intr, host_trap, trap_faults, shadow>>

SlowInsn ==
    /\ SlowDue
    /\ ~shutdown
    /\ NoInterrupt
    /\ ~halted
    /\ events' = events \ {"HOST_TRAP", "INHIBIT"}
    /\ StartInsn(regs.TFlag)
    /\ UNCHANGED <<halted, shutdown, intr, host_trap, trap_faults, shadow>>

-----------------------------------------------------------------------------
\* The body of an instruction.
bodyVars == <<halted, shutdown, events, intr, host_trap, trap_faults, driveVars, phase,
              delivery, shadow>>

WriteGpr(v) ==
    /\ phase = "exec"
    /\ regs' = [regs EXCEPT !.gpr = v]
    /\ UNCHANGED <<insn, bodyVars>>

\* EIP moves past the instruction (or to a target) before a later fault.
MoveEip(e) ==
    /\ phase = "exec"
    /\ regs' = [regs EXCEPT !.eip = e]
    /\ UNCHANGED <<insn, bodyVars>>

\* prepare_cold_write, then the write.
WriteCold(v) ==
    /\ phase = "exec"
    /\ insn' = IF insn.cold_saved THEN insn
               ELSE [insn EXCEPT !.cold_saved = TRUE, !.fault_regs = regs]
    /\ regs' = [regs EXCEPT !.cold = v]
    /\ UNCHANGED bodyVars

\* A string instruction keeps its progress when an iteration faults.
CommitOnFault ==
    /\ phase = "exec"
    /\ insn' = [insn EXCEPT !.commit_on_fault = TRUE]
    /\ UNCHANGED <<regs, bodyVars>>

\* The instruction ends well with registers r, events ev, and the CPU halted
\* or a system call recorded if it says so.
Retire(r, ev, hlt, trap) ==
    /\ phase = "exec"
    /\ regs' = r
    /\ events' = ev
    /\ halted' = hlt
    /\ host_trap' = trap
    /\ AfterInsn(r, ev)
    /\ UNCHANGED <<shutdown, intr, trap_faults>>

RetirePlain ==
    /\ Retire(regs, events, halted, host_trap)
    /\ shadow' = 0

\* POPF, IRET, CLI: the flags are the last thing written.
RetireFlags(if, tf) ==
    /\ Retire([regs EXCEPT !.IFlag = if, !.TFlag = tf], events, halted, host_trap)
    /\ shadow' = 0

\* STI, and MOV SS / POP SS / LSS, arm the shadow.
RetireSti ==
    /\ shadow < MaxShadow
    /\ Retire([regs EXCEPT !.IFlag = TRUE], events \cup {"INHIBIT"}, halted, host_trap)
    /\ shadow' = shadow + 1

RetireMovSs ==
    /\ shadow < MaxShadow
    /\ Retire(regs, events \cup {"INHIBIT"}, halted, host_trap)
    /\ shadow' = shadow + 1

RetireHlt ==
    /\ Retire(regs, events, TRUE, host_trap)
    /\ shadow' = 0

\* string_op yields to a pending interrupt: EIP back at the prefix.
RetireRepYield ==
    /\ interrupt_pending
    /\ insn.commit_on_fault
    /\ Retire([regs EXCEPT !.eip = insn.pre.eip], events, halted, host_trap)
    /\ shadow' = 0

\* software_int on the system-call vector: set_host_trap.
RetireSyscall ==
    /\ Retire(regs, events \cup {"HOST_TRAP"}, halted, "Syscall")
    /\ shadow' = 0

\* software_int through a gate that works (one that does not is a Fault).
RetireSoftInt(if) ==
    /\ if => regs.IFlag
    /\ Retire([regs EXCEPT !.eip = Handler, !.TFlag = FALSE, !.IFlag = if], events, halted, host_trap)
    /\ shadow' = 0

\* Mutant: the general registers are restored first, then the whole file as
\* it was at the first cold write.
RewindGprFirst ==
    IF insn.commit_on_fault
    THEN [regs EXCEPT !.eip = insn.pre.eip]
    ELSE LET r == [regs EXCEPT !.gpr = insn.pre.gpr]
         IN  [(IF insn.cold_saved
               THEN [insn.fault_regs EXCEPT !.IFlag = regs.IFlag, !.TFlag = regs.TFlag]
               ELSE r) EXCEPT !.eip = insn.pre.eip]

\* The registers fault_epilogue leaves: progress kept, or everything but the
\* flags rewound.
fault_epilogue ==
    IF insn.commit_on_fault
    THEN [regs EXCEPT !.eip = insn.pre.eip]
    ELSE LET r == IF insn.cold_saved
                  THEN [insn.fault_regs EXCEPT !.IFlag = regs.IFlag, !.TFlag = regs.TFlag]
                  ELSE regs
         IN  [r EXCEPT !.gpr = insn.pre.gpr, !.eip = insn.pre.eip]

\* The instruction faults; the host takes the fault, or it is delivered.
Fault(vector) ==
    /\ phase = "exec"
    /\ regs' = fault_epilogue
    /\ shadow' = 0
    /\ IF trap_faults
       THEN /\ host_trap' = "Exception"
            /\ events' = events \cup {"HOST_TRAP"}
            /\ EndUnit
       ELSE /\ BeginDelivery(vector, "Fault", fault_epilogue, TRUE)
            /\ UNCHANGED <<host_trap, events, insn>>
    /\ UNCHANGED <<halted, shutdown, intr, trap_faults>>

-----------------------------------------------------------------------------
deliverFrame == <<events, intr, host_trap, trap_faults, shadow>>

\* Part of a delivery: words pushed, the stack switched, VM/TF/IF cleared.
RaisePartly(v, c, if) ==
    /\ phase = "deliver"
    /\ if => regs.IFlag
    /\ regs' = [regs EXCEPT !.gpr = v, !.cold = c, !.IFlag = if, !.TFlag = FALSE]
    /\ UNCHANGED <<halted, shutdown, driveVars, phase, insn, delivery, deliverFrame>>

\* After a delivery the unit ends; that of a fault still meets the trap test.
AfterDelivery(r) ==
    IF delivery.ofInsn THEN AfterInsn(r, events)
    ELSE EndUnit

\* The handler is entered: the frame is on its stack, TF clear, IF clear
\* unless the vector is a trap gate.
RaiseOk(v, c, if) ==
    LET r == [eip |-> Handler, gpr |-> v, cold |-> c, IFlag |-> if, TFlag |-> FALSE] IN
    /\ phase = "deliver"
    /\ if => delivery.snapshot.IFlag
    /\ regs' = r
    /\ AfterDelivery(r)
    /\ UNCHANGED <<halted, shutdown, deliverFrame>>

\* Mutant: a failed raise leaves the registers as they are.
KeptPartial == regs

\* What raise leaves of the registers when it fails: they are rolled back.
RolledBack == delivery.snapshot

is_double_fault(first, class, second) ==
    /\ class = "Fault"
    /\ \/ second = "pf" /\ first = "pf"
       \/ second = "contributory" /\ first \in {"contributory", "pf"}

\* Mutant: one attempt fewer.
ThreeRaises == 3

\* The number of raises deliver attempts.
MaxRaises == 4

\* raise failed with a nested fault and deliver tries again ...
RaiseAgain(nested) ==
    LET double == is_double_fault(delivery.vector, delivery.class, nested) IN
    /\ phase = "deliver"
    /\ ~delivery.in_double_fault
    /\ delivery.tries < MaxRaises
    /\ regs' = RolledBack
    /\ delivery' = [delivery EXCEPT
                      !.vector = IF double THEN "df" ELSE nested,
                      !.in_double_fault = double,
                      !.class = "Fault",
                      !.tries = @ + 1,
                      !.snapshot = RolledBack]
    /\ UNCHANGED <<halted, shutdown, driveVars, phase, insn, deliverFrame>>

\* ... or gives up and shuts down.
RaiseShutdown ==
    /\ phase = "deliver"
    /\ delivery.in_double_fault \/ delivery.tries = MaxRaises
    /\ regs' = RolledBack
    /\ shutdown' = TRUE
    /\ halted' = TRUE
    /\ AfterDelivery(RolledBack)
    /\ UNCHANGED deliverFrame

-----------------------------------------------------------------------------
\* run() returns: all n units done, or run_boundary found a reason.
RunReturns ==
    /\ mode = "run"
    /\ phase = "idle"
    /\ mode' = "host"
    /\ UNCHANGED <<regs, halted, shutdown, intr, host_trap, trap_faults, phase, insn,
                   delivery, shadow>>
    /\ left' = 0

RunCompleted ==
    /\ left = 0
    /\ RunReturns
    /\ UNCHANGED events

RunHostTrap ==
    /\ left > 0 /\ boundary_pending
    /\ host_trap # "none"
    /\ RunReturns
    /\ events' = events \ {"HOST_TRAP"}

RunShutdown ==
    /\ left > 0 /\ boundary_pending
    /\ host_trap = "none" /\ shutdown
    /\ RunReturns
    /\ UNCHANGED events

RunHalted ==
    /\ left > 0 /\ boundary_pending
    /\ host_trap = "none" /\ ~shutdown
    /\ halted /\ ~interrupt_pending
    /\ RunReturns
    /\ UNCHANGED events

-----------------------------------------------------------------------------
\* The host, between two calls.
Host == mode = "host"
hostFrame == <<regs, shutdown, trap_faults, phase, insn, delivery, shadow>>

CallStep ==
    /\ Host
    /\ mode' = "step"
    /\ UNCHANGED <<hostFrame, halted, events, intr, host_trap, left>>

\* run(n): a trap not yet taken stops it before anything executes.
CallRun(n) ==
    /\ Host
    /\ IF host_trap # "none"
       THEN UNCHANGED driveVars
       ELSE mode' = "run" /\ left' = n
    /\ UNCHANGED <<hostFrame, halted, events, intr, host_trap>>

trigger_nmi ==
    /\ Host
    /\ events' = events \cup {"NMI"}
    /\ UNCHANGED <<hostFrame, halted, intr, host_trap, driveVars>>

assert_intr ==
    /\ Host
    /\ intr' = TRUE
    /\ events' = events \cup {"INTR"}
    /\ UNCHANGED <<hostFrame, halted, host_trap, driveVars>>

clear_intr ==
    /\ Host
    /\ intr' = FALSE
    /\ events' = events \ {"INTR"}
    /\ UNCHANGED <<hostFrame, halted, host_trap, driveVars>>

\* host_trap.take() after servicing it.
TakeTrap ==
    /\ Host
    /\ host_trap # "none"
    /\ host_trap' = "none"
    /\ UNCHANGED <<hostFrame, halted, events, intr, driveVars>>

reset ==
    /\ Host
    /\ regs' = NoRegs
    /\ halted' = FALSE
    /\ shutdown' = FALSE
    /\ events' = {}
    /\ intr' = FALSE
    /\ host_trap' = "none"
    /\ shadow' = 0
    /\ UNCHANGED <<trap_faults, driveVars, phase, insn, delivery>>

-----------------------------------------------------------------------------
Init ==
    /\ regs \in [eip : Eip \ {Handler}, gpr : Val, cold : Val, IFlag : BOOLEAN, TFlag : {FALSE}]
    /\ halted = FALSE
    /\ shutdown = FALSE
    /\ events = {}
    /\ intr = FALSE
    /\ host_trap = "none"
    /\ trap_faults \in BOOLEAN
    /\ mode = "host"
    /\ left = 0
    /\ phase = "idle"
    /\ insn = NoInsn
    /\ delivery = NoDelivery
    /\ shadow = 0

\* What the CPU does inside step() and run(): units start, an instruction does
\* things, ends, or faults; a delivery does part of its work, ends or nests.
UnitStart == step_fast \/ SlowShutdown \/ SlowNmi \/ SlowIntr \/ SlowHalted \/ SlowInsn

Body ==
    \/ \E v \in Val : WriteGpr(v) \/ WriteCold(v)
    \/ \E e \in Eip : MoveEip(e)
    \/ CommitOnFault

InsnEnd ==
    \/ RetirePlain \/ RetireSti \/ RetireMovSs \/ RetireHlt \/ RetireRepYield \/ RetireSyscall
    \/ \E if, tf \in BOOLEAN : RetireFlags(if, tf)
    \/ \E if \in BOOLEAN : RetireSoftInt(if)
    \/ \E vector \in {"benign", "contributory", "pf"} : Fault(vector)

DeliveryEnd ==
    \/ \E v, c \in Val, if \in BOOLEAN : RaiseOk(v, c, if)
    \/ \E nested \in {"contributory", "pf"} : RaiseAgain(nested)
    \/ RaiseShutdown

RunEnd == RunCompleted \/ RunHostTrap \/ RunShutdown \/ RunHalted

HostAct ==
    \/ CallStep \/ trigger_nmi \/ assert_intr \/ clear_intr \/ TakeTrap \/ reset
    \/ \E n \in 0 .. MaxRun : CallRun(n)

Next ==
    \/ UnitStart \/ Body \/ InsnEnd \/ DeliveryEnd \/ RunEnd \/ HostAct
    \/ \E v, c \in Val, if \in BOOLEAN : RaisePartly(v, c, if)

Spec == Init /\ [][Next]_vars

-----------------------------------------------------------------------------
\* No guest instruction executes past a pending trap inside run(), whether the
\* trap came from this call or was never taken from an earlier one.
NoInsnPastTrap ==
    [][mode = "run" /\ phase = "idle" /\ host_trap # "none" =>
          phase' = "idle" /\ regs' = regs]_vars

\* Every attempt at delivery, however many nested faults came before it, starts
\* from the registers the first one started from: raise is atomic.
DeliveryIsAtomic == phase = "deliver" => delivery.snapshot = delivery.origin

\* deliver gives up only on a real triple fault, a fault while #DF itself is
\* being delivered: its bound of four attempts never cuts a chain short.
ShutdownIsTripleFault ==
    [][shutdown' /\ ~shutdown => delivery.in_double_fault]_vars

\* A faulting instruction leaves EIP at its start, and, unless it commits its
\* progress, the registers it found, in whatever order it had written them.
FaultRewinds ==
    [][\A vector \in Vector : Fault(vector) =>
          /\ regs'.eip = insn.pre.eip
          /\ ~insn.commit_on_fault =>
                regs'.gpr = insn.pre.gpr /\ regs'.cold = insn.pre.cold]_vars

\* No interrupt is taken between an instruction that arms the shadow and the
\* one after it, across step(), run() and trap boundaries alike.
ShadowHolds ==
    [][shadow > 0 /\ phase = "idle" /\ phase' = "deliver" => delivery'.class # "External"]_vars

-----------------------------------------------------------------------------
(* The inductive invariant behind these properties.                        *)

RegFile == [eip : Eip, gpr : Val, cold : Val, IFlag : BOOLEAN, TFlag : BOOLEAN]
Event == {"NMI", "INTR", "INHIBIT", "HOST_TRAP"}
InsnState == [pre : RegFile, trap : BOOLEAN, commit_on_fault : BOOLEAN,
              cold_saved : BOOLEAN, fault_regs : RegFile]
DeliveryState == [vector : Vector, class : {"Fault", "SoftInt", "External"},
                  in_double_fault : BOOLEAN, tries : 0 .. MaxRaises, snapshot : RegFile,
                  origin : RegFile, ofInsn : BOOLEAN]

TypeOK ==
    /\ regs \in RegFile
    /\ halted \in BOOLEAN /\ shutdown \in BOOLEAN /\ intr \in BOOLEAN
    /\ trap_faults \in BOOLEAN
    /\ events \subseteq Event
    /\ host_trap \in {"none", "Syscall", "Exception"}
    /\ mode \in {"host", "step", "run"}
    /\ left \in 0 .. MaxRun
    /\ phase \in {"idle", "exec", "deliver"}
    /\ insn \in InsnState
    /\ delivery \in DeliveryState
    /\ shadow \in 0 .. MaxShadow

\* A unit is under way only inside step(), or inside run() with units left.
DriveInv == phase # "idle" => mode = "step" \/ (mode = "run" /\ left > 0)

\* Inside run() an untaken trap has its doorbell rung, and nothing executes.
TrapInv == mode = "run" /\ host_trap # "none" => "HOST_TRAP" \in events /\ phase # "exec"

\* The shadow is armed as long as the instruction after it has not started, and
\* no HLT slips in between.
ShadowInv ==
    /\ phase = "exec" => ~halted
    /\ shadow > 0 =>
         /\ ~halted
         /\ phase # "deliver"
         /\ phase = "idle" => "INHIBIT" \in events

\* The cold registers an instruction found are in the capture once it has
\* written one of them, and in the register file until then.
RewindInv ==
    phase = "exec" =>
        IF insn.cold_saved THEN insn.fault_regs.cold = insn.pre.cold
        ELSE regs.cold = insn.pre.cold

\* The longest chain of nested faults: any vector, a contributory fault, a page
\* fault, #DF.  Each attempt starts from the registers of the first.
ChainInv ==
    phase = "deliver" =>
        /\ delivery.snapshot = delivery.origin
        /\ delivery.in_double_fault <=> delivery.vector = "df"
        /\ delivery.tries > 1 => delivery.class = "Fault" /\ delivery.vector # "benign"
        /\ delivery.tries > 2 => delivery.vector \in {"pf", "df"}
        /\ delivery.tries > 3 => delivery.vector = "df"

IInv == TypeOK /\ DriveInv /\ TrapInv /\ ShadowInv /\ RewindInv /\ ChainInv

-----------------------------------------------------------------------------
\* Inside a call the CPU never waits: it starts a due unit, ends an instruction
\* and a delivery, and returns.  The host keeps asking for units (strongly:
\* run(0) in between asks for none).
Fairness ==
    /\ WF_vars(UnitStart)
    /\ WF_vars(InsnEnd)
    /\ WF_vars(DeliveryEnd)
    /\ WF_vars(RunEnd)
    /\ SF_vars(CallStep \/ \E n \in 1 .. MaxRun : CallRun(n))

FairSpec == Spec /\ Fairness

\* A latched NMI is never lost: it is taken, through HLT, shadows, traps to the
\* host and nested faults, unless the processor shuts down first.
NmiIsTaken == "NMI" \in events ~> "NMI" \notin events \/ shutdown

\* Every run(n) returns, also when the guest halts, shuts down or traps.
RunReturnsToHost == mode = "run" ~> mode = "host"
=============================================================================
