--------------------------- MODULE Step386_proofs ---------------------------
(***************************************************************************)
(* Proofs for Step386: whatever the instruction pointers, the values and   *)
(* the bounds, nothing executes past an untaken trap, the one-instruction  *)
(* shadow masks interrupts, a fault rewinds, a failed delivery leaves no   *)
(* trace and the processor shuts down on a triple fault only.              *)
(***************************************************************************)
EXTENDS Step386, TLAPS

-----------------------------------------------------------------------------
(* Facts about the pieces the actions are put together from.               *)

\* The records that stand for "no instruction" and "no delivery" are records.
LEMMA NoneFacts ==
  /\ NoRegs \in RegFile
  /\ NoInsn \in InsnState
  /\ NoDelivery \in DeliveryState
<1>1. (CHOOSE v \in Val : TRUE) \in Val
  BY StepAssumption
<1>2. NoRegs \in RegFile
  BY <1>1, StepAssumption DEF NoRegs, RegFile
<1> QED
  BY <1>2 DEF NoInsn, NoDelivery, InsnState, DeliveryState, Vector, MaxRaises

\* What holds after a unit has ended, or a delivery begun (EndUnit, deliver).
Settled ==
  /\ mode' \in {"host", "step", "run"}
  /\ left' \in 0 .. MaxRun
  /\ phase' \in {"idle", "deliver"}
  /\ insn' \in InsnState
  /\ delivery' \in DeliveryState
  /\ mode' = "run" => mode = "run"
  /\ DriveInv'
  /\ RewindInv'
  /\ ChainInv'

\* A unit ends.
LEMMA EndUnitSettles ==
  ASSUME TypeOK, mode = "step" \/ (mode = "run" /\ left > 0), EndUnit
  PROVE  Settled /\ phase' = "idle"
<1>1. left' \in 0 .. MaxRun /\ mode' \in {"host", "step", "run"} /\ (mode' = "run" => mode = "run")
  BY StepAssumption DEF TypeOK, EndUnit
<1> QED
  BY <1>1, NoneFacts DEF EndUnit, Settled, DriveInv, RewindInv, ChainInv

\* A delivery begins.
LEMMA DeliveryBegins ==
  ASSUME TypeOK, mode = "step" \/ (mode = "run" /\ left > 0),
         NEW vector \in {"benign", "contributory", "pf"},
         NEW class \in {"Fault", "SoftInt", "External"},
         NEW r \in RegFile, NEW ofInsn \in BOOLEAN,
         BeginDelivery(vector, class, r, ofInsn), insn' \in InsnState
  PROVE  Settled /\ phase' = "deliver"
<1>1. delivery' \in DeliveryState
  BY DEF BeginDelivery, DeliveryState, Vector, MaxRaises
<1>2. ChainInv'
  BY DEF BeginDelivery, ChainInv
<1>3. DriveInv' /\ mode' = mode /\ left' = left /\ phase' = "deliver"
  BY DEF BeginDelivery, DriveInv, driveVars
<1> QED
  BY <1>1, <1>2, <1>3 DEF Settled, TypeOK, RewindInv

\* The end of step_slow and step_fast: the trap flag's delivery begins, or the
\* unit ends.
LEMMA InsnSettles ==
  ASSUME TypeOK, DriveInv, phase # "idle", NEW r \in RegFile, NEW ev, AfterInsn(r, ev)
  PROVE  Settled /\ (phase' = "deliver" => "INHIBIT" \notin ev)
<1>1. mode = "step" \/ (mode = "run" /\ left > 0)
  BY DEF DriveInv
<1>2. CASE insn.trap /\ r.TFlag /\ "INHIBIT" \notin ev
  <2>1. BeginDelivery("benign", "Fault", r, FALSE) /\ insn' = insn
    BY <1>2 DEF AfterInsn
  <2> QED
    BY <1>1, <1>2, <2>1, DeliveryBegins DEF TypeOK
<1>3. CASE ~(insn.trap /\ r.TFlag /\ "INHIBIT" \notin ev)
  <2>1. EndUnit
    BY <1>3 DEF AfterInsn
  <2> QED
    BY <1>1, <2>1, EndUnitSettles
<1> QED
  BY <1>2, <1>3

\* An instruction starts (exec_one).
LEMMA InsnStarts ==
  ASSUME IInv, mode = "step" \/ (mode = "run" /\ left > 0), NEW trap \in BOOLEAN,
         StartInsn(trap)
  PROVE  /\ phase' = "exec"
         /\ regs' \in RegFile /\ insn' \in InsnState /\ delivery' \in DeliveryState
         /\ mode' = mode /\ left' = left
         /\ DriveInv' /\ RewindInv' /\ ChainInv'
<1>1. insn' \in InsnState
  BY NoneFacts DEF IInv, TypeOK, StartInsn, InsnState
<1> QED
  BY <1>1 DEF IInv, TypeOK, StartInsn, driveVars, DriveInv, RewindInv, ChainInv

\* fault_epilogue and a rolled back delivery leave a register file.
LEMMA EpilogueFacts ==
  ASSUME TypeOK
  PROVE  fault_epilogue \in RegFile /\ RolledBack \in RegFile
<1>1. insn.pre.eip \in Eip /\ insn.pre.gpr \in Val /\ insn.fault_regs \in RegFile
  BY DEF TypeOK, InsnState, RegFile
<1>2. fault_epilogue \in RegFile
  BY <1>1 DEF TypeOK, fault_epilogue, RegFile
<1> QED
  BY <1>2 DEF TypeOK, DeliveryState, RolledBack

-----------------------------------------------------------------------------
\* The processor starts between two units, nothing latched.
LEMMA InitInv == Init => IInv
<1> SUFFICES ASSUME Init PROVE IInv
  OBVIOUS
<1>1. regs \in RegFile
  BY DEF Init, RegFile
<1>2. left \in 0 .. MaxRun /\ shadow \in 0 .. MaxShadow
  BY StepAssumption DEF Init
<1>3. TypeOK
  BY <1>1, <1>2, NoneFacts DEF Init, TypeOK, Event
<1> QED
  BY <1>3 DEF Init, IInv, DriveInv, TrapInv, ShadowInv, RewindInv, ChainInv

\* A step-unit starts; inside run() only with no trap outstanding.
LEMMA DueFacts ==
  ASSUME IInv, UnitDue
  PROVE  /\ phase = "idle"
         /\ mode = "step" \/ (mode = "run" /\ left > 0)
         /\ mode = "run" => host_trap = "none"
<1>1. mode = "run" /\ host_trap # "none" => boundary_pending
  BY DEF IInv, TrapInv, boundary_pending
<1> QED
  BY <1>1 DEF UnitDue

LEMMA UnitStartInv ==
  ASSUME IInv, UnitStart
  PROVE  IInv'
<1>1. UnitDue
  BY DEF UnitStart, step_fast, SlowShutdown, SlowNmi, SlowIntr, SlowHalted, SlowInsn, SlowDue
<1>2. /\ TypeOK
      /\ phase = "idle"
      /\ mode = "step" \/ (mode = "run" /\ left > 0)
      /\ mode = "run" => host_trap = "none"
      /\ regs \in RegFile /\ insn \in InsnState
  BY <1>1, DueFacts DEF IInv, TypeOK
<1>3. /\ halted' \in BOOLEAN /\ shutdown' \in BOOLEAN /\ intr' \in BOOLEAN /\ trap_faults' \in BOOLEAN
      /\ host_trap' = host_trap /\ host_trap' \in {"none", "Syscall", "Exception"}
      /\ events' \subseteq Event /\ shadow' = shadow /\ shadow' \in 0 .. MaxShadow
  BY DEF IInv, TypeOK, UnitStart, step_fast, SlowShutdown, SlowNmi, SlowIntr, SlowHalted, SlowInsn
<1>4. CASE step_fast
  <2>1. StartInsn(FALSE) /\ ~halted /\ halted' = halted /\ events = {}
    BY <1>4 DEF step_fast, boundary_pending
  <2>2. shadow = 0
    BY <2>1, <1>2, <1>3 DEF IInv, ShadowInv
  <2> QED
    BY <1>2, <1>3, <2>1, <2>2, InsnStarts DEF IInv, TypeOK, TrapInv, ShadowInv
<1>5. CASE SlowInsn
  <2>1. StartInsn(regs.TFlag) /\ ~halted /\ halted' = halted
    BY <1>5 DEF SlowInsn
  <2>2. regs.TFlag \in BOOLEAN
    BY <1>2 DEF RegFile
  <2> QED
    BY <1>2, <1>3, <2>1, <2>2, InsnStarts DEF IInv, TypeOK, TrapInv, ShadowInv
<1>6. CASE SlowNmi \/ SlowIntr
  <2>1. BeginDelivery("benign", "External", regs, FALSE) /\ "INHIBIT" \notin events
        /\ regs' = regs /\ insn' = insn
    BY <1>6 DEF SlowNmi, SlowIntr, Deliverable
  <2>2. shadow = 0
    BY <2>1, <1>2, <1>3 DEF IInv, ShadowInv
  <2>3. Settled /\ phase' = "deliver"
    BY <1>2, <2>1, DeliveryBegins
  <2> QED
    BY <1>2, <1>3, <2>1, <2>2, <2>3 DEF IInv, TypeOK, TrapInv, ShadowInv, Settled
<1>7. CASE SlowShutdown \/ SlowHalted
  <2>1. EndUnit /\ regs' = regs /\ halted' = halted
    BY <1>7 DEF SlowShutdown, SlowHalted
  <2>2. Settled /\ phase' = "idle"
    BY <1>2, <2>1, EndUnitSettles
  <2>3. shadow' > 0 => ~halted' /\ "INHIBIT" \in events'
    BY <1>2, <1>3, <1>7 DEF SlowShutdown, SlowHalted, IInv, ShadowInv
  <2> QED
    BY <1>2, <1>3, <2>1, <2>2, <2>3 DEF IInv, TypeOK, TrapInv, ShadowInv, Settled
<1> QED
  BY <1>4, <1>5, <1>6, <1>7 DEF UnitStart

\* The body of an instruction: the first cold write captures the registers.
LEMMA BodyInv ==
  ASSUME IInv, Body
  PROVE  IInv'
<1>1. phase = "exec" /\ UNCHANGED bodyVars
  BY DEF Body, WriteGpr, WriteCold, MoveEip, CommitOnFault
<1>2. regs' \in RegFile /\ insn' \in InsnState /\ RewindInv'
  <2>1. ASSUME NEW v \in Val, WriteGpr(v)
        PROVE  regs' \in RegFile /\ insn' \in InsnState /\ RewindInv'
    BY <2>1 DEF WriteGpr, bodyVars, IInv, TypeOK, RegFile, RewindInv
  <2>2. ASSUME NEW v \in Val, WriteCold(v)
        PROVE  regs' \in RegFile /\ insn' \in InsnState /\ RewindInv'
    <3>1. regs' \in RegFile
      BY <2>2 DEF WriteCold, IInv, TypeOK, RegFile
    <3>2. CASE insn.cold_saved
      BY <2>2, <3>1, <3>2, <1>1 DEF WriteCold, IInv, TypeOK, RewindInv
    <3>3. CASE ~insn.cold_saved
      <4>1. insn' = [insn EXCEPT !.cold_saved = TRUE, !.fault_regs = regs]
        BY <2>2, <3>3 DEF WriteCold
      <4>2. insn' \in InsnState
        BY <4>1 DEF IInv, TypeOK, InsnState
      <4>3. insn'.cold_saved /\ insn'.fault_regs = regs /\ insn'.pre = insn.pre
        BY <4>1 DEF IInv, TypeOK, InsnState
      <4>4. regs.cold = insn.pre.cold
        BY <1>1, <3>3 DEF IInv, RewindInv
      <4> QED
        BY <3>1, <4>2, <4>3, <4>4 DEF RewindInv
    <3> QED
      BY <3>2, <3>3
  <2>3. ASSUME NEW e \in Eip, MoveEip(e)
        PROVE  regs' \in RegFile /\ insn' \in InsnState /\ RewindInv'
    BY <2>3 DEF MoveEip, bodyVars, IInv, TypeOK, RegFile, RewindInv
  <2>4. ASSUME CommitOnFault
        PROVE  regs' \in RegFile /\ insn' \in InsnState /\ RewindInv'
    BY <2>4 DEF CommitOnFault, bodyVars, IInv, TypeOK, InsnState, RewindInv
  <2> QED
    BY <2>1, <2>2, <2>3, <2>4 DEF Body
<1> QED
  BY <1>1, <1>2 DEF bodyVars, driveVars, IInv, TypeOK, DriveInv, TrapInv, ShadowInv, ChainInv

\* What a retirement leaves: a unit ended or the trap flag's delivery begun,
\* an armed shadow only at the end of the unit.
LEMMA RetireFacts ==
  ASSUME IInv, NEW r \in RegFile, NEW ev \in SUBSET Event, NEW hlt \in BOOLEAN,
         NEW trap \in {"none", "Syscall", "Exception"}, Retire(r, ev, hlt, trap),
         mode = "run" /\ trap # "none" => "HOST_TRAP" \in ev,
         shadow' \in 0 .. MaxShadow,
         shadow' > 0 => ~hlt /\ "INHIBIT" \in ev
  PROVE  IInv'
<1>1. TypeOK /\ DriveInv /\ phase # "idle" /\ AfterInsn(r, ev)
  BY DEF IInv, Retire
<1>2. Settled /\ (phase' = "deliver" => "INHIBIT" \notin ev)
  BY <1>1, InsnSettles
<1>3. /\ regs' = r /\ events' = ev /\ halted' = hlt /\ host_trap' = trap
      /\ UNCHANGED <<shutdown, intr, trap_faults>>
  BY DEF Retire
<1>4. TypeOK'
  BY <1>1, <1>2, <1>3 DEF TypeOK, Settled
<1>5. TrapInv'
  BY <1>2, <1>3 DEF TrapInv, Settled
<1>6. ShadowInv'
  BY <1>2, <1>3 DEF ShadowInv, Settled
<1> QED
  BY <1>2, <1>4, <1>5, <1>6 DEF IInv, Settled

LEMMA InsnEndInv ==
  ASSUME IInv, InsnEnd
  PROVE  IInv'
<1>1. phase = "exec" /\ ~halted
  <2>1. phase = "exec"
    BY DEF InsnEnd, RetirePlain, RetireSti, RetireMovSs, RetireHlt, RetireRepYield,
           RetireSyscall, RetireFlags, RetireSoftInt, Fault, Retire
  <2> QED
    BY <2>1 DEF IInv, ShadowInv
<1>2. /\ TypeOK /\ regs \in RegFile /\ events \in SUBSET Event
      /\ insn.pre \in RegFile
      /\ mode = "step" \/ (mode = "run" /\ left > 0)
      /\ 0 \in 0 .. MaxShadow
  BY <1>1, StepAssumption DEF IInv, TypeOK, DriveInv, InsnState
<1>3. mode = "run" => host_trap = "none"
  BY <1>1 DEF IInv, TrapInv
<1>4. host_trap \in {"none", "Syscall", "Exception"} /\ halted \in BOOLEAN
  BY <1>2 DEF TypeOK
<1>5. CASE RetirePlain
  BY <1>1, <1>2, <1>3, <1>4, <1>5, RetireFacts DEF RetirePlain
<1>6. CASE RetireHlt
  <2>1. shadow' \in 0 .. MaxShadow /\ ~(shadow' > 0)
    BY <1>2, <1>6 DEF RetireHlt
  <2>2. Retire(regs, events, TRUE, host_trap)
    BY <1>6, Zenon DEF RetireHlt
  <2>3. TRUE \in BOOLEAN
    OBVIOUS
  <2> QED
    BY <1>2, <1>3, <1>4, <2>1, <2>2, <2>3, RetireFacts
<1>7. CASE RetireSti \/ RetireMovSs
  <2>1. [regs EXCEPT !.IFlag = TRUE] \in RegFile /\ events \cup {"INHIBIT"} \in SUBSET Event
    BY <1>2 DEF RegFile, Event
  <2>2. shadow' \in 0 .. MaxShadow
    BY <1>2, <1>7, StepAssumption DEF TypeOK, RetireSti, RetireMovSs
  <2> QED
    BY <1>1, <1>2, <1>3, <1>4, <1>7, <2>1, <2>2, RetireFacts DEF RetireSti, RetireMovSs
<1>8. CASE RetireRepYield
  <2>1. [regs EXCEPT !.eip = insn.pre.eip] \in RegFile
    BY <1>2 DEF RegFile
  <2> QED
    BY <1>1, <1>2, <1>3, <1>4, <1>8, <2>1, RetireFacts DEF RetireRepYield
<1>9. CASE RetireSyscall
  <2>1. events \cup {"HOST_TRAP"} \in SUBSET Event
    BY <1>2 DEF Event
  <2> QED
    BY <1>1, <1>2, <1>4, <1>9, <2>1, RetireFacts DEF RetireSyscall
<1>10. ASSUME NEW if \in BOOLEAN, NEW tf \in BOOLEAN, RetireFlags(if, tf)
       PROVE  IInv'
  <2>1. [regs EXCEPT !.IFlag = if, !.TFlag = tf] \in RegFile
    BY <1>2 DEF RegFile
  <2>2. Retire([regs EXCEPT !.IFlag = if, !.TFlag = tf], events, halted, host_trap)
        /\ shadow' \in 0 .. MaxShadow /\ ~(shadow' > 0)
    BY <1>2, <1>10 DEF RetireFlags
  <2> QED
    BY <1>2, <1>3, <1>4, <2>1, <2>2, RetireFacts
<1>11. ASSUME NEW if \in BOOLEAN, RetireSoftInt(if)
       PROVE  IInv'
  <2>1. [regs EXCEPT !.eip = Handler, !.TFlag = FALSE, !.IFlag = if] \in RegFile
    BY <1>2, StepAssumption DEF RegFile
  <2> QED
    BY <1>1, <1>2, <1>3, <1>4, <1>11, <2>1, RetireFacts DEF RetireSoftInt
<1>12. ASSUME NEW vector \in {"benign", "contributory", "pf"}, Fault(vector)
       PROVE  IInv'
  <2>1. /\ regs' \in RegFile /\ fault_epilogue \in RegFile /\ shadow' = 0
        /\ UNCHANGED <<halted, shutdown, intr, trap_faults>>
    BY <1>2, <1>12, EpilogueFacts DEF Fault
  <2>2. CASE trap_faults
    <3>1. EndUnit /\ host_trap' = "Exception" /\ events' = events \cup {"HOST_TRAP"}
      BY <1>12, <2>2 DEF Fault
    <3>2. Settled /\ phase' = "idle"
      BY <1>2, <3>1, EndUnitSettles
    <3>3. TypeOK'
      BY <1>2, <2>1, <3>1, <3>2 DEF TypeOK, Event, Settled
    <3> QED
      BY <2>1, <3>1, <3>2, <3>3 DEF IInv, TrapInv, ShadowInv, Settled
  <2>3. CASE ~trap_faults
    <3>1. BeginDelivery(vector, "Fault", fault_epilogue, TRUE) /\ UNCHANGED <<host_trap, events, insn>>
      BY <1>12, <2>3 DEF Fault
    <3>2. Settled /\ phase' = "deliver"
      BY <1>2, <2>1, <3>1, DeliveryBegins DEF TypeOK
    <3>3. TypeOK'
      BY <1>2, <2>1, <3>1, <3>2 DEF TypeOK, Settled
    <3> QED
      BY <1>3, <2>1, <3>1, <3>2, <3>3 DEF IInv, TrapInv, ShadowInv, Settled
  <2> QED
    BY <2>2, <2>3
<1> QED
  BY <1>5, <1>6, <1>7, <1>8, <1>9, <1>10, <1>11, <1>12 DEF InsnEnd

\* A delivery does part of its work.
LEMMA RaisePartlyInv ==
  ASSUME IInv, NEW v \in Val, NEW c \in Val, NEW if \in BOOLEAN, RaisePartly(v, c, if)
  PROVE  IInv'
<1>1. phase = "deliver" /\ UNCHANGED <<halted, shutdown, driveVars, phase, insn, delivery, deliverFrame>>
  BY DEF RaisePartly
<1>2. regs' \in RegFile
  BY DEF RaisePartly, IInv, TypeOK, RegFile
<1> QED
  BY <1>1, <1>2 DEF IInv, TypeOK, driveVars, deliverFrame, DriveInv, TrapInv, ShadowInv,
                    RewindInv, ChainInv

\* A delivery ends with registers r, or nests.
LEMMA AfterDeliveryInv ==
  ASSUME IInv, phase = "deliver", NEW r \in RegFile, regs' = r, AfterDelivery(r),
         UNCHANGED deliverFrame, halted' \in BOOLEAN, shutdown' \in BOOLEAN
  PROVE  IInv'
<1>1. mode = "step" \/ (mode = "run" /\ left > 0)
  BY DEF IInv, DriveInv
<1>2. Settled
  BY <1>1, EndUnitSettles, InsnSettles DEF AfterDelivery, IInv
<1>3. shadow = 0 /\ (mode = "run" /\ host_trap # "none" => "HOST_TRAP" \in events)
  BY DEF IInv, TypeOK, ShadowInv, TrapInv
<1>4. TypeOK'
  BY <1>2 DEF IInv, TypeOK, Settled, deliverFrame
<1> QED
  BY <1>2, <1>3, <1>4 DEF IInv, TrapInv, ShadowInv, Settled, deliverFrame

\* A chain of nested faults: a second page fault, or a second contributory one,
\* is a double fault, so the fourth attempt is always that of #DF.
LEMMA RaiseAgainInv ==
  ASSUME IInv, NEW nested \in {"contributory", "pf"}, RaiseAgain(nested)
  PROVE  IInv'
<1> DEFINE double == is_double_fault(delivery.vector, delivery.class, nested)
<1>1. /\ phase = "deliver" /\ ~delivery.in_double_fault /\ delivery.tries < MaxRaises
      /\ regs' = RolledBack
      /\ UNCHANGED <<halted, shutdown, driveVars, phase, insn, deliverFrame>>
  BY DEF RaiseAgain
<1>2. regs' \in RegFile /\ delivery \in DeliveryState
  BY <1>1, EpilogueFacts DEF IInv, TypeOK
<1>3. delivery' = [delivery EXCEPT
                     !.vector = IF double THEN "df" ELSE nested,
                     !.in_double_fault = double,
                     !.class = "Fault",
                     !.tries = delivery.tries + 1,
                     !.snapshot = RolledBack]
  BY DEF RaiseAgain
<1>4. double \in BOOLEAN
  BY DEF is_double_fault
<1>5. /\ delivery'.vector = (IF double THEN "df" ELSE nested)
      /\ delivery'.in_double_fault = double
      /\ delivery'.class = "Fault"
      /\ delivery'.tries = delivery.tries + 1
      /\ delivery'.snapshot = delivery.snapshot
      /\ delivery'.origin = delivery.origin
  BY <1>2, <1>3 DEF DeliveryState, RolledBack
<1>6. delivery' \in DeliveryState
  <2>1. delivery.tries + 1 \in 0 .. MaxRaises
    BY <1>1, <1>2 DEF DeliveryState, MaxRaises
  <2>2. (IF double THEN "df" ELSE nested) \in Vector
    BY DEF Vector
  <2>3. RolledBack \in RegFile
    BY <1>2 DEF RolledBack, DeliveryState
  <2> HIDE DEF double
  <2> QED
    BY <1>2, <1>3, <1>4, <2>1, <2>2, <2>3 DEF DeliveryState
<1>7. delivery.tries \in 0 .. 4
  BY <1>2 DEF DeliveryState, MaxRaises
<1>8. ChainInv'
  <2>1. /\ delivery.tries > 1 => delivery.class = "Fault" /\ delivery.vector # "benign"
        /\ delivery.tries > 2 => delivery.vector \in {"pf", "df"}
        /\ delivery.vector # "df"
        /\ delivery.snapshot = delivery.origin
    BY <1>1 DEF IInv, ChainInv
  <2>2. delivery.vector \in {"benign", "contributory", "pf"}
    BY <1>2, <2>1 DEF DeliveryState, Vector
  <2>3. delivery'.tries > 2 => delivery'.vector \in {"pf", "df"}
    BY <1>5, <1>7, <2>1, <2>2 DEF is_double_fault
  <2>4. delivery'.tries > 3 => delivery'.vector = "df"
    BY <1>5, <1>7, <2>1, <2>2 DEF is_double_fault
  <2>5. (delivery'.in_double_fault <=> delivery'.vector = "df") /\ delivery'.vector # "benign"
    BY <1>4, <1>5
  <2> QED
    BY <1>5, <2>1, <2>3, <2>4, <2>5 DEF ChainInv
<1> QED
  BY <1>1, <1>2, <1>6, <1>8 DEF IInv, TypeOK, driveVars, deliverFrame, DriveInv, TrapInv,
                                ShadowInv, RewindInv

LEMMA DeliveryEndInv ==
  ASSUME IInv, DeliveryEnd
  PROVE  IInv'
<1>1. ASSUME NEW v \in Val, NEW c \in Val, NEW if \in BOOLEAN, RaiseOk(v, c, if)
      PROVE  IInv'
  <2> DEFINE r == [eip |-> Handler, gpr |-> v, cold |-> c, IFlag |-> if, TFlag |-> FALSE]
  <2>1. r \in RegFile
    BY StepAssumption DEF RegFile
  <2>2. phase = "deliver" /\ regs' = r /\ AfterDelivery(r) /\ UNCHANGED <<halted, shutdown, deliverFrame>>
    BY <1>1 DEF RaiseOk
  <2> HIDE DEF r
  <2> QED
    BY <2>1, <2>2, AfterDeliveryInv DEF IInv, TypeOK
<1>2. ASSUME RaiseShutdown
      PROVE  IInv'
  <2>1. RolledBack \in RegFile
    BY EpilogueFacts DEF IInv
  <2> QED
    BY <1>2, <2>1, AfterDeliveryInv DEF RaiseShutdown
<1> QED
  BY <1>1, <1>2, RaiseAgainInv DEF DeliveryEnd

\* run() returns.
LEMMA RunEndInv ==
  ASSUME IInv, RunEnd
  PROVE  IInv'
<1>1. RunReturns
  BY DEF RunEnd, RunCompleted, RunHostTrap, RunShutdown, RunHalted
<1>2. events' = events \/ events' = events \ {"HOST_TRAP"}
  BY DEF RunEnd, RunCompleted, RunHostTrap, RunShutdown, RunHalted
<1>3. TypeOK'
  BY <1>1, <1>2, StepAssumption DEF RunReturns, IInv, TypeOK
<1> QED
  BY <1>1, <1>2, <1>3 DEF RunReturns, IInv, TypeOK, DriveInv, TrapInv, ShadowInv, RewindInv, ChainInv

\* The host acts between two calls only.
LEMMA HostActInv ==
  ASSUME IInv, HostAct
  PROVE  IInv'
<1>1. Host
  BY DEF HostAct, CallStep, CallRun, trigger_nmi, assert_intr, clear_intr, TakeTrap, reset
<1>2. phase = "idle" /\ phase' = "idle" /\ insn' = insn /\ delivery' = delivery
      /\ trap_faults' = trap_faults
  BY <1>1 DEF Host, IInv, DriveInv, TypeOK, HostAct, CallStep, CallRun, trigger_nmi, assert_intr,
              clear_intr, TakeTrap, reset, hostFrame
<1>3. CASE reset
  <2>1. /\ regs' \in RegFile /\ halted' = FALSE /\ shutdown' = FALSE /\ events' = {}
        /\ intr' = FALSE /\ host_trap' = "none" /\ shadow' = 0 /\ mode' = mode /\ left' = left
    BY <1>3, NoneFacts DEF reset, driveVars
  <2>2. shadow' \in 0 .. MaxShadow
    BY <2>1, StepAssumption
  <2>3. TypeOK'
    BY <1>2, <2>1, <2>2 DEF IInv, TypeOK
  <2> QED
    BY <1>2, <2>1, <2>3 DEF IInv, DriveInv, TrapInv, ShadowInv, RewindInv, ChainInv
<1>4. CASE CallStep
  BY <1>2, <1>4 DEF CallStep, hostFrame, IInv, TypeOK, DriveInv, TrapInv, ShadowInv, RewindInv, ChainInv
<1>5. ASSUME NEW n \in 0 .. MaxRun, CallRun(n)
      PROVE  IInv'
  BY <1>1, <1>2, <1>5 DEF CallRun, Host, hostFrame, driveVars, IInv, TypeOK, DriveInv, TrapInv,
                          ShadowInv, RewindInv, ChainInv
<1>6. CASE trigger_nmi \/ assert_intr \/ clear_intr \/ TakeTrap
  <2>1. /\ UNCHANGED <<hostFrame, halted, driveVars>> /\ events' \subseteq Event
        /\ intr' \in BOOLEAN /\ host_trap' \in {"none", "Syscall", "Exception"}
        /\ "INHIBIT" \in events => "INHIBIT" \in events'
    BY <1>6 DEF trigger_nmi, assert_intr, clear_intr, TakeTrap, IInv, TypeOK, Event, hostFrame
  <2>2. mode' = "host"
    BY <1>1, <2>1 DEF Host, driveVars
  <2> QED
    BY <1>2, <2>1, <2>2 DEF hostFrame, driveVars, IInv, TypeOK, DriveInv, TrapInv, ShadowInv,
                            RewindInv, ChainInv
<1> QED
  BY <1>3, <1>4, <1>5, <1>6 DEF HostAct

\* The invariant is inductive.
LEMMA StepInv == IInv /\ [Next]_vars => IInv'
<1> SUFFICES ASSUME IInv, [Next]_vars PROVE IInv'
  OBVIOUS
<1>1. CASE UNCHANGED vars
  BY <1>1 DEF vars, IInv, TypeOK, DriveInv, TrapInv, ShadowInv, RewindInv, ChainInv
<1> QED
  BY <1>1, UnitStartInv, BodyInv, InsnEndInv, DeliveryEndInv, RunEndInv, HostActInv, RaisePartlyInv
     DEF Next

\* Types, and the facts above, hold in every reachable state.
THEOREM Invariance == Spec => []IInv
<1> QED
  BY InitInv, StepInv, PTL DEF Spec

-----------------------------------------------------------------------------
\* However many faults nest, every attempt at delivery starts from the registers
\* the first one started from (raise restores its snapshot when it fails).
THEOREM AtomicDelivery == Spec => []DeliveryIsAtomic
<1>1. IInv => DeliveryIsAtomic
  BY DEF IInv, ChainInv, DeliveryIsAtomic
<1> QED
  BY <1>1, Invariance, PTL

\* deliver's limit of four attempts is never what shuts the processor down: the
\* only chain that reaches it has #DF as its last vector.
THEOREM TripleFaultOnly == Spec => ShutdownIsTripleFault
<1>1. IInv /\ [Next]_vars => [shutdown' /\ ~shutdown => delivery.in_double_fault]_vars
  <2> SUFFICES ASSUME IInv, Next, shutdown', ~shutdown
               PROVE  delivery.in_double_fault
    OBVIOUS
  <2>1. RaiseShutdown
    BY DEF Next, UnitStart, step_fast, SlowShutdown, SlowNmi, SlowIntr, SlowHalted, SlowInsn,
           Body, WriteGpr, WriteCold, MoveEip, CommitOnFault, bodyVars, InsnEnd, RetirePlain,
           RetireSti, RetireMovSs, RetireHlt, RetireRepYield, RetireSyscall, RetireFlags,
           RetireSoftInt, Retire, Fault, DeliveryEnd, RaiseOk, RaiseAgain, RunEnd, RunCompleted,
           RunHostTrap, RunShutdown, RunHalted, RunReturns, HostAct, CallStep, CallRun,
           trigger_nmi, assert_intr, clear_intr, TakeTrap, reset, hostFrame, RaisePartly
  <2>2. phase = "deliver" /\ (delivery.in_double_fault \/ delivery.tries = 4)
    BY <2>1 DEF RaiseShutdown, MaxRaises
  <2> QED
    BY <2>2 DEF IInv, ChainInv
<1> QED
  BY <1>1, Invariance, PTL DEF Spec, ShutdownIsTripleFault

\* fault_epilogue puts EIP and, unless the instruction commits its progress, the
\* general and the cold registers back, in whatever order they were written.
THEOREM FaultsRewind == Spec => FaultRewinds
<1>1. IInv /\ [Next]_vars =>
        [\A vector \in Vector : Fault(vector) =>
           /\ regs'.eip = insn.pre.eip
           /\ ~insn.commit_on_fault =>
                 regs'.gpr = insn.pre.gpr /\ regs'.cold = insn.pre.cold]_vars
  <2> SUFFICES ASSUME IInv, NEW vector \in Vector, Fault(vector)
               PROVE  /\ regs'.eip = insn.pre.eip
                      /\ ~insn.commit_on_fault =>
                            regs'.gpr = insn.pre.gpr /\ regs'.cold = insn.pre.cold
    OBVIOUS
  <2>1. regs' = fault_epilogue /\ phase = "exec"
    BY DEF Fault
  <2>2. regs \in RegFile /\ insn.fault_regs \in RegFile
    BY DEF IInv, TypeOK, InsnState
  <2>3. IF insn.cold_saved THEN insn.fault_regs.cold = insn.pre.cold
        ELSE regs.cold = insn.pre.cold
    BY <2>1 DEF IInv, RewindInv
  <2> QED
    BY <2>1, <2>2, <2>3 DEF fault_epilogue, RegFile
<1> QED
  BY <1>1, Invariance, PTL DEF Spec, FaultRewinds

\* run(n) executes nothing past a trap the host has not taken (run_boundary).
THEOREM NothingPastTrap == Spec => NoInsnPastTrap
<1>1. IInv /\ [Next]_vars =>
        [mode = "run" /\ phase = "idle" /\ host_trap # "none" =>
           phase' = "idle" /\ regs' = regs]_vars
  <2> SUFFICES ASSUME IInv, Next, mode = "run", phase = "idle", host_trap # "none"
               PROVE  phase' = "idle" /\ regs' = regs
    OBVIOUS
  <2>1. ~UnitDue
    BY DueFacts
  <2>2. RunEnd
    BY <2>1 DEF Next, UnitStart, step_fast, SlowShutdown, SlowNmi, SlowIntr, SlowHalted, SlowInsn,
           SlowDue, Body, WriteGpr, WriteCold, MoveEip, CommitOnFault, InsnEnd, RetirePlain,
           RetireSti, RetireMovSs, RetireHlt, RetireRepYield, RetireSyscall, RetireFlags,
           RetireSoftInt, Retire, Fault, DeliveryEnd, RaiseOk, RaiseAgain, RaiseShutdown,
           RaisePartly, HostAct, Host, CallStep, CallRun, trigger_nmi, assert_intr, clear_intr,
           TakeTrap, reset
  <2> QED
    BY <2>2 DEF RunEnd, RunCompleted, RunHostTrap, RunShutdown, RunHalted, RunReturns
<1> QED
  BY <1>1, Invariance, PTL DEF Spec, NoInsnPastTrap

\* An interrupt never lands between an instruction that arms the shadow and the
\* next one, whatever calls and traps come between them (step_slow).
THEOREM ShadowMasks == Spec => ShadowHolds
<1>1. IInv /\ [Next]_vars =>
        [shadow > 0 /\ phase = "idle" /\ phase' = "deliver" => delivery'.class # "External"]_vars
  <2> SUFFICES ASSUME IInv, Next, shadow > 0, phase = "idle", phase' = "deliver"
               PROVE  FALSE
    OBVIOUS
  <2>1. "INHIBIT" \in events
    BY DEF IInv, ShadowInv
  <2>2. SlowNmi \/ SlowIntr
    BY DEF Next, UnitStart, step_fast, StartInsn, SlowShutdown, SlowHalted, SlowInsn, EndUnit,
           Body, WriteGpr, WriteCold, MoveEip, CommitOnFault, InsnEnd, RetirePlain,
           RetireSti, RetireMovSs, RetireHlt, RetireRepYield, RetireSyscall, RetireFlags,
           RetireSoftInt, Retire, Fault, DeliveryEnd, RaiseOk, RaiseAgain, RaiseShutdown,
           RaisePartly, RunEnd, RunCompleted, RunHostTrap, RunShutdown, RunHalted, RunReturns,
           HostAct, CallStep, CallRun, trigger_nmi, assert_intr, clear_intr, TakeTrap, reset,
           hostFrame
  <2> QED
    BY <2>1, <2>2 DEF SlowNmi, SlowIntr, Deliverable
<1> QED
  BY <1>1, Invariance, PTL DEF Spec, ShadowHolds
=============================================================================
