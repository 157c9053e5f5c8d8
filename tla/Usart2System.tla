---------------------------- MODULE Usart2System ----------------------------
(* Usart2 with what is behind its irq output: the GIC, which latches a rising *)
(* edge, and the vCPU, which takes the interrupt between two bus accesses and *)
(* runs the irq_handler() of hello_isr.c.  The GIC and the CPU are not code   *)
(* of the repository: they do what the firmware configures and relies on.     *)
EXTENDS Usart2

VARIABLES
    gic,                 \* the USARTs whose interrupt is pending
    isr,                 \* where irq_handler() is
    isr_usart,           \* which interrupt it acknowledged
    isr_status           \* its local status

isrVars == <<isr, isr_usart, isr_status>>
sysVars == <<vars, gic, isrVars>>

SysInit == /\ Init
           /\ gic = {} /\ isr = "none"
           /\ isr_usart = CHOOSE u \in Usarts : TRUE
           /\ isr_status = {}

\* A rising edge of irq makes the interrupt pending.
Edges == {u \in Usarts : "irq" \in level'[u] \ level[u]}
Latch == gic' = gic \cup Edges

\* ICC_IAR1_EL1: the vCPU acknowledges a pending interrupt.
TakeIrq(u) ==
    /\ Idle("Q") /\ isr = "none" /\ u \in gic
    /\ gic' = gic \ {u}
    /\ isr' = "read" /\ isr_usart' = u
    /\ UNCHANGED <<vars, isr_status>>

\* status = UA_STATUS;
IsrRead ==
    /\ isr = "read"
    /\ isr_status' = status[isr_usart]
    /\ isr' = "clear"
    /\ UNCHANGED <<vars, gic, isr_usart>>

\* UA_STATUS = status;
IsrClear ==
    /\ isr = "clear"
    /\ W1C(isr_usart, isr_status)
    /\ isr' = "eoi"
    /\ Latch
    /\ UNCHANGED <<isr_usart, isr_status>>

\* ICC_EOIR1_EL1, once the write has returned
IsrReturn ==
    /\ isr = "eoi" /\ Idle("Q")
    /\ isr' = "none" /\ isr_status' = {}
    /\ UNCHANGED <<vars, gic, isr_usart>>

Isr == IsrRead \/ IsrClear \/ IsrReturn

\* The interrupted program goes on when the handler has returned.
Program == isr = "none" /\ (\E u \in Usarts : Driver(u)) /\ Latch /\ UNCHANGED isrVars

BusAccess == (Access \/ Update("Q")) /\ Latch /\ UNCHANGED isrVars

KernelStep == Kernel /\ Latch /\ UNCHANGED isrVars

SysNext == \/ Program \/ BusAccess \/ KernelStep
           \/ Isr \/ \E u \in Usarts : TakeIrq(u)

SysSpec == SysInit /\ [][SysNext]_sysVars

\* Besides the kernel's fairness: the handler runs to its end, and the vCPU
\* takes a pending interrupt although the program goes on between bus accesses.
SysFairSpec ==
    /\ SysSpec
    /\ WF_sysVars(BusAccess) /\ WF_sysVars(Isr)
    /\ WF_sysVars((Process \/ Update("S") \/ DeltaCycle) /\ Latch /\ UNCHANGED isrVars)
    /\ SF_sysVars(AdvanceTime /\ Latch /\ UNCHANGED isrVars)
    /\ \A u \in Usarts : SF_sysVars(TakeIrq(u))

-----------------------------------------------------------------------------
(* Properties *)

\* Type invariant of the interrupt path.
SysTypeOK == /\ TypeOK
             /\ gic \subseteq Usarts
             /\ isr \in {"none", "read", "clear", "eoi"}
             /\ isr_usart \in Usarts /\ isr_status \subseteq StatusBits

\* Something will still bring the handler to STATUS of u: a notification of
\* m_irq_event, made or about to be, the second half of the two-delta pulse
\* while irq is low, the GIC, or the handler.
Notifies(u) == \/ {<<"Irq", u>>} \cap (ready \cup delta) # {}
               \/ \E t \in Threads : at[t] = u /\ new_irq[t]

Cause(u) ==
    \/ Notifies(u)
    \/ /\ <<"IrqPulse", u>> \in ready \cup delta
       /\ "irq" \notin level[u]
    \/ u \in gic
    \/ isr = "read" /\ isr_usart = u

\* The handler is about to clear these bits of u.
Clearing(u) ==
    CASE isr_usart # u -> {}
      [] isr_usart = u /\ isr = "clear" -> isr_status
      [] isr_usart = u /\ isr = "eoi" /\ pc["Q"] \in {"w1c_load", "w1c_store"} -> arg
      [] OTHER -> {}

\* No interrupt is lost while its STATUS bit stands: consecutive events, the
\* LOW-HIGH pulse split over two deltas (irq_method(), irq_pulse_method()) and
\* the handler's clear never leave a bit that nothing will report.
NoStrandedStatus == \A u \in Usarts : status[u] \subseteq Clearing(u) \/ Cause(u)

\* Every event the wrapper reports is served: a STATUS bit is cleared.
EveryEventServed ==
    \A u \in Usarts : \A b \in StatusBits : b \in status[u] ~> b \notin status[u]
=============================================================================
