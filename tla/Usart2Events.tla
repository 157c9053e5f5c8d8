---------------------------- MODULE Usart2Events -----------------------------
(* Usart2 with two history variables, to say which events reach STATUS: the   *)
(* events that were counted and not yet stored there, and the USARTs on which *)
(* the scheduler's update_status_from_core() or tir_auto_method() has run     *)
(* while a forwarded bus access was in progress.                              *)
EXTENDS Usart2

VARIABLES
    unreported,    \* per USART: the events counted and not stored into STATUS since
    overlapped     \* the USARTs on which the two threads have overlapped

evVars == <<vars, unreported, overlapped>>

EvInit == /\ Init
          /\ unreported = [u \in Usarts |-> {}]
          /\ overlapped = {}

\* The events of u whose counter moves in a step
Counted(u) == {b \in Counters : count'[u][b] # count[u][b]}

\* The bits that update_status_from_core() stores into u's STATUS in a step
Stored(u) == {Head(todo[t]) : t \in {s \in Threads : /\ In(s, u, {"upd_store"})
                                                     /\ pc'[s] # pc[s]}}

\* Both threads are at work on the events of u.
Overlap(u) == /\ In("Q", u, UpdPlaces \cup {"tbuf", "tbuf_test", "tbuf_load"})
              /\ In("S", u, UpdPlaces)

\* What history keeps of a step
Remember ==
    /\ unreported' = [u \in Usarts |-> (unreported[u] \cup Counted(u)) \ Stored(u)]
    /\ overlapped' = overlapped \cup {u \in Usarts : Overlap(u)'}

EvDriver(u) == Driver(u) /\ Remember
EvAccess == (Access \/ Update("Q")) /\ Remember
EvKernel == Kernel /\ Remember

EvNext == (\E u \in Usarts : EvDriver(u)) \/ EvAccess \/ EvKernel

EvSpec == EvInit /\ [][EvNext]_evVars

EvFairSpec == EvSpec /\ Fairness

-----------------------------------------------------------------------------
(* Properties *)

\* Thread t ends its call of update_status_from_core() on u.
Ends(t, u) == In(t, u, {"upd"}) /\ todo[t] = <<>>

EndsReceive(u) == Ends("S", u) /\ ret["S"] = "rx_next"

\* Where the two threads have not overlapped on a USART, each update reports
\* the event it is called for: the TBUF write on the bus thread, the accepted
\* byte and the overrun on the scheduler's (usart2.h:56-57), whatever RBUF reads
\* and STATUS writes come in between, on however many updates.
EventsReported ==
    \A u \in Usarts \ overlapped :
        /\ Ends("Q", u) => "TBIR" \notin unreported[u]
        /\ EndsReceive(u) => /\ "RIR" \notin unreported[u]
                             /\ "EIR" \notin unreported[u] \cap asserted[u]

-----------------------------------------------------------------------------
(* What the comments say and the code does not do *)

\* The event b of u is in STATUS, or has been since it was counted.
Reported(u, b) == b \in unreported[u] => b \in status[u]

\* "After every TBUF write (catches TBIR)" (usart2.h:56), by "per-event counters
\* for reliable edge detection" (usart2.h:282).
WriteReported == \A u \in Usarts : Ends("Q", u) => Reported(u, "TBIR")

\* "Inside rx_done_method after rx_inject (catches RIR / EIR)" (usart2.h:57)
ReceivedReported == \A u \in Usarts : EndsReceive(u) => Reported(u, "RIR")
=============================================================================
