----------------------------- MODULE SimpleUsart -----------------------------
(* The simple USART (peripherals/usart): a receive FIFO between the character *)
(* backend, which the SystemC thread S delivers, and the driver, whose bus    *)
(* accesses run on the vCPU thread Q.  The backend sends only what it has     *)
(* credit for; bytes are numbered in the order in which they were typed.      *)
EXTENDS Integers, Sequences

CONSTANTS
    Depth,        \* RX_FIFO_DEPTH
    MaxBytes      \* bound on the bytes typed

ASSUME SimpleUsartAssumption == Depth \in Nat \ {0} /\ MaxBytes \in Nat

VARIABLES
    rxneie,       \* CR1.RXNEIE
    fifo,         \* m_rx_fifo
    irq_state,    \* m_irq_state, and the irq line
    irq_event,    \* m_irq_event is notified
    credits,      \* what the backend may still send
    typed,        \* the bytes typed so far
    left,         \* those rx_receive() has taken and not yet pushed
    unsent,       \* those the backend still holds
    taken,        \* those the driver has read
    q, s,         \* where the two threads are
    assert_irq    \* the local of update_irq()

vars == <<rxneie, fifo, irq_state, irq_event, credits, typed, left, unsent,
          taken, q, s, assert_irq>>

\* start_of_simulation() grants a credit for every place in the FIFO.
Init ==
    /\ rxneie = FALSE /\ fifo = <<>>
    /\ irq_state = FALSE /\ irq_event = FALSE
    /\ credits = Depth
    /\ typed = 0 /\ left = 0 /\ unsent = 0 /\ taken = 0
    /\ q = "idle" /\ s = "idle" /\ assert_irq = FALSE

-----------------------------------------------------------------------------
(* The backend *)

Type ==
    /\ typed < MaxBytes
    /\ typed' = typed + 1 /\ unsent' = unsent + 1
    /\ UNCHANGED <<rxneie, fifo, irq_state, irq_event, credits, left, taken, q, s,
                   assert_irq>>

-----------------------------------------------------------------------------
(* S: rx_receive() and update_irq() *)

Receive(n) ==
    /\ s = "idle"
    /\ n <= unsent /\ n <= credits
    /\ unsent' = unsent - n /\ credits' = credits - n
    /\ left' = n
    /\ s' = "push"
    /\ UNCHANGED <<rxneie, fifo, irq_state, irq_event, typed, taken, q, assert_irq>>

Push ==
    /\ s = "push" /\ left > 0
    /\ fifo' = IF Len(fifo) < Depth THEN Append(fifo, typed - unsent - left + 1)
                                    ELSE fifo
    /\ left' = left - 1
    /\ UNCHANGED <<rxneie, irq_state, irq_event, credits, typed, unsent, taken, q, s,
                   assert_irq>>

Pushed ==
    /\ s = "push" /\ left = 0
    /\ irq_event' = TRUE
    /\ s' = "idle"
    /\ UNCHANGED <<rxneie, fifo, irq_state, credits, typed, left, unsent, taken, q,
                   assert_irq>>

UpdateIrq ==
    /\ s = "idle" /\ irq_event
    /\ irq_event' = FALSE
    /\ assert_irq' = (rxneie /\ fifo # <<>>)
    /\ s' = "irq"
    /\ UNCHANGED <<rxneie, fifo, irq_state, credits, typed, left, unsent, taken, q>>

WriteIrq ==
    /\ s = "irq"
    /\ irq_state' = assert_irq
    /\ s' = "idle"
    /\ UNCHANGED <<rxneie, fifo, irq_event, credits, typed, left, unsent, taken, q,
                   assert_irq>>

-----------------------------------------------------------------------------
(* Q: the driver's accesses.  Reads of SR, CR1 and BRR change nothing, and    *)
(* writes to DR and BRR nothing that is read.                                 *)

\* mutant: an empty FIFO is not an early return
ReadDrCreditsAlways ==
    /\ q = "idle"
    /\ IF fifo = <<>> THEN UNCHANGED <<fifo, taken>>
                      ELSE taken' = Head(fifo) /\ fifo' = Tail(fifo)
    /\ q' = "credit"
    /\ UNCHANGED <<rxneie, irq_state, irq_event, credits, typed, left, unsent, s,
                   assert_irq>>

ReadDr ==
    /\ q = "idle" /\ fifo # <<>>
    /\ taken' = Head(fifo)
    /\ fifo' = Tail(fifo)
    /\ q' = "credit"
    /\ UNCHANGED <<rxneie, irq_state, irq_event, credits, typed, left, unsent, s,
                   assert_irq>>

CreditForgotten(c) == c      \* mutant

\* can_receive_more(1)
Credit(c) == c + 1

ReadDrCredit ==
    /\ q = "credit"
    /\ credits' = Credit(credits)
    /\ q' = "notify"
    /\ UNCHANGED <<rxneie, fifo, irq_state, irq_event, typed, left, unsent, taken, s,
                   assert_irq>>

\* mutant: update_irq() is not asked to look at the new CR1
WriteCr1Silent(v) ==
    /\ q = "idle"
    /\ rxneie' = v
    /\ UNCHANGED <<fifo, irq_state, irq_event, credits, typed, left, unsent, taken, q,
                   s, assert_irq>>

WriteCr1(v) ==
    /\ q = "idle"
    /\ rxneie' = v
    /\ q' = "notify"
    /\ UNCHANGED <<fifo, irq_state, irq_event, credits, typed, left, unsent, taken, s,
                   assert_irq>>

\* m_irq_event.notify(SC_ZERO_TIME), the last step of both
NotifyIrq ==
    /\ q = "notify"
    /\ irq_event' = TRUE
    /\ q' = "idle"
    /\ UNCHANGED <<rxneie, fifo, irq_state, credits, typed, left, unsent, taken, s,
                   assert_irq>>

-----------------------------------------------------------------------------

Deliver == \E n \in 1..Depth : Receive(n)

Kernel == Push \/ Pushed \/ UpdateIrq \/ WriteIrq

Next == \/ Type \/ Deliver \/ Kernel
        \/ ReadDr \/ ReadDrCredit \/ NotifyIrq
        \/ \E v \in BOOLEAN : WriteCr1(v)

Spec == Init /\ [][Next]_vars

\* A driver whose interrupt handler reads DR while irq is high, the bus and the
\* kernel.
FairSpec == /\ Spec
            /\ WF_vars(Kernel) /\ SF_vars(Deliver)
            /\ WF_vars(ReadDrCredit \/ NotifyIrq)
            /\ SF_vars(ReadDr /\ irq_state)

-----------------------------------------------------------------------------
(* Properties *)

\* Type invariant: no more credit than places.
TypeOK ==
    /\ rxneie \in BOOLEAN /\ irq_state \in BOOLEAN /\ irq_event \in BOOLEAN
    /\ assert_irq \in BOOLEAN
    /\ fifo \in Seq(1..MaxBytes)
    /\ credits \in 0..Depth /\ left \in 0..Depth
    /\ typed \in 0..MaxBytes /\ unsent \in 0..MaxBytes /\ taken \in 0..MaxBytes
    /\ q \in {"idle", "credit", "notify"} /\ s \in {"idle", "push", "irq"}

\* The credits of can_receive_set() and can_receive_more() are what keeps
\* rx_receive() from dropping a byte: the FIFO always holds, in order, every
\* byte that has arrived and was not read.
NothingLost ==
    /\ fifo = [i \in 1..Len(fifo) |-> taken + i]
    /\ taken + Len(fifo) + left + unsent = typed

\* Whenever nothing is left to run, irq is what update_irq() makes of CR1 and
\* the FIFO, however the driver's changes met its two halves.
IrqSettles ==
    s = "idle" /\ q = "idle" /\ ~irq_event => irq_state = (rxneie /\ fifo # <<>>)

\* With RXNEIE left on, credits, FIFO and interrupt never wait for each other:
\* every byte typed is read.
EveryByteRead ==
    <>[]rxneie => \A n \in 1..MaxBytes : (typed >= n) ~> (taken >= n)
=============================================================================
