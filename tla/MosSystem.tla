------------------------------ MODULE MosSystem ------------------------------
(***************************************************************************)
(* A 6502 machine under a host: the host calls step(), moves the NMI and   *)
(* IRQ lines, feeds the UART and resets.  `sys` is the machine.  `solo`    *)
(* is a second machine that starts alike, is fed alike and never sees an   *)
(* interrupt line: it executes the instructions of the program proper,     *)
(* those not inside a hardware interrupt, one for one (history).           *)
(* `frames` tells what each interrupt frame on the stack was pushed by.    *)
(***************************************************************************)
EXTENDS Mos6502

CONSTANTS
    Image,        \* Image[n]: what program n loads, with vectors and handlers
    Feed,         \* Feed[k]: the bytes the host feeds to programs of kind k, one at a time
    HandlerCells, \* the RAM that belongs to the interrupt handlers
    MaxEvents     \* bound on NMI edges and triggers, raised IRQs and resets together

VARIABLES sys, solo, frames, program, fed, events, resets

vars == <<sys, solo, frames, program, fed, events, resets>>

Event == events < MaxEvents /\ events' = events + 1

Machine(n) == NewCpu @@ [loaded |-> Image[n], ram |-> <<>>, dev |-> [i \in DOMAIN Windows |-> NewUart]]

\* A program is named by its kind and a number.
Kind == program[1]

Init ==
    /\ program \in DOMAIN Image
    /\ sys = reset(Machine(program))
    /\ solo = sys
    /\ frames = <<>>
    /\ fed = 0 /\ events = 0 /\ resets = FALSE

Interrupted == \E i \in DOMAIN frames : frames[i] = "hw"

\* The operation that the next instruction of a machine performs.
NextOp(s) == OPCODES[RamAt(s, s.pc)].op

Popping == frames # <<>> /\ NextOp(sys) = "RTI"

\* One call of step() that services an interrupt.
StepInterrupt ==
    /\ TakesNmi(sys) \/ TakesIrq(sys)
    /\ sys' = step(sys)
    /\ frames' = Append(frames, "hw")
    /\ UNCHANGED <<solo, program, fed, events, resets>>

\* One call of step() that executes an instruction.
StepInsn ==
    /\ ~sys.halted /\ ~TakesNmi(sys) /\ ~TakesIrq(sys)
    /\ sys' = step(sys)
    /\ solo' = IF Interrupted THEN solo ELSE InsnStep(solo)
    /\ frames' = IF Popping THEN SubSeq(frames, 1, Len(frames) - 1)
                 ELSE IF NextOp(sys) = "BRK" THEN Append(frames, "brk") ELSE frames
    /\ UNCHANGED <<program, fed, events, resets>>

Step == StepInterrupt \/ StepInsn

\* Between steps the host drives the lines and the UART.
SetNmi(level) ==
    /\ level # sys.prev_nmi
    /\ IF level THEN UNCHANGED events ELSE Event
    /\ sys' = set_nmi(sys, level)
    /\ UNCHANGED <<solo, frames, program, fed, resets>>

TriggerNmi ==
    /\ Event
    /\ sys' = trigger_nmi(sys)
    /\ UNCHANGED <<solo, frames, program, fed, resets>>

RaiseIrq ==
    /\ ~sys.irq_line
    /\ Event
    /\ sys' = set_irq(sys, TRUE)
    /\ UNCHANGED <<solo, frames, program, fed, resets>>

DropIrq ==
    /\ sys.irq_line
    /\ sys' = set_irq(sys, FALSE)
    /\ UNCHANGED <<solo, frames, program, fed, events, resets>>

FeedByte ==
    /\ fed < Len(Feed[Kind])
    /\ sys' = [sys EXCEPT !.dev[1] = feed(@, <<Feed[Kind][fed + 1]>>)]
    /\ solo' = [solo EXCEPT !.dev[1] = feed(@, <<Feed[Kind][fed + 1]>>)]
    /\ fed' = fed + 1
    /\ UNCHANGED <<frames, program, events, resets>>

\* A reset restarts both machines; it does not clear RAM or devices.
Reset ==
    /\ Event
    /\ sys' = reset(sys)
    /\ solo' = reset([solo EXCEPT !.ram = sys.ram, !.a = sys.a, !.x = sys.x, !.y = sys.y, !.p = sys.p])
    /\ frames' = <<>>
    /\ resets' = TRUE
    /\ UNCHANGED <<program, fed>>

Next ==
    \/ Step
    \/ \E level \in BOOLEAN : SetNmi(level)
    \/ TriggerNmi \/ RaiseIrq \/ DropIrq \/ FeedByte \/ Reset

Spec == Init /\ [][Next]_vars

(* --- Properties ---------------------------------------------------------- *)

\* Stack cells at or below the stack pointer are dead.
Dead(s, a) == a \in 256 .. 256 + s.sp

(* Interrupts are transparent: outside hardware interrupt handlers the program  *)
(* has the registers, flags, live memory and devices it would have had without  *)
(* any interrupt (service_interrupt, push_status, rti and the I flag together). *)
InterruptsTransparent ==
    ~Interrupted =>
        /\ \A r \in {"a", "x", "y", "sp", "pc", "p", "halted", "dev"} : sys[r] = solo[r]
        /\ \A a \in DOMAIN sys.ram \cup DOMAIN solo.ram :
              a \in HandlerCells \/ Dead(sys, a) \/ RamAt(sys, a) = RamAt(solo, a)

(* The polled echo program transmits the fed bytes in order, once each, however *)
(* polls, interrupts and arriving bytes interleave; between the read of RBR and *)
(* the write of THR at most one byte is in flight.                              *)
EchoInOrder ==
    Kind = "echo" /\ ~resets =>
        LET u == sys.dev[1]
        IN  /\ u.tx = SubSeq(Feed["echo"], 1, Len(u.tx))
            /\ fed - Len(u.tx) - Len(u.rx) \in {0, 1}

\* A packed decimal byte as a number.
Decimal(v) == 10 * (v \div 16) + (v % 16)

(* In decimal mode a sum and a difference of packed decimal operands, chained   *)
(* through the carry over two bytes, are those of decimal arithmetic (adc, sbc  *)
(* with D set, interrupts in between).  Cells 32.. hold the operands and the    *)
(* results.                                                                     *)
DecimalExact ==
    Kind = "decimal" /\ sys.halted /\ ~resets =>
        LET Pair(lo) == 100 * Decimal(RamAt(sys, lo + 1)) + Decimal(RamAt(sys, lo))
        IN  /\ Pair(36) = (Pair(32) + Pair(34)) % 10000
            /\ Pair(38) = (Pair(32) - Pair(34)) % 10000
=============================================================================
