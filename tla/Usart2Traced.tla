---------------------------- MODULE Usart2Traced -----------------------------
(* Usart2 with the frames that usart2.h draws on txd when vcd_file is set.    *)
(* They keep a queue and a chain of timers of their own beside those of the   *)
(* core, fed by the bus thread and drained by the scheduler.  Nothing here    *)
(* feeds back into the device.  The pulses drawn for STATUS events and irq    *)
(* are left out; rxd is LOW exactly while rxd_busy.                           *)
EXTENDS Usart2

CONSTANT Traced          \* the USARTs with a vcd_file

VARIABLES
    txd_queue,           \* the length of m_txd_queue: its bytes are not drawn
    txd_busy,            \* m_txd_busy; txd is LOW exactly while it is set
    tready, tdelta, ttimed  \* the kernel's sets, for the events of tracing

traceVars == <<txd_queue, txd_busy, tready, tdelta, ttimed>>
tracedVars == <<vars, traceVars>>

TracedInit ==
    /\ Init
    /\ txd_queue = [u \in Usarts |-> 0]
    /\ txd_busy = [u \in Usarts |-> FALSE]
    /\ tready = {} /\ tdelta = {} /\ ttimed = {}

-----------------------------------------------------------------------------
(* Q: the driver's TBUF writes *)

\* The byte is queued and m_txd_start_ev notified under m_txd_mtx.  Only
\* txd_try_start() looks at the queue: one step with the byte's force_send().
ForwardTbuf(u, b) ==
    /\ WriteTbuf(u, b)
    /\ IF u \in Traced
       THEN /\ txd_queue' = [txd_queue EXCEPT ![u] = @ + 1]
            /\ tdelta' = tdelta \cup {<<"TxdStart", u>>}
       ELSE UNCHANGED <<txd_queue, tdelta>>
    /\ UNCHANGED <<txd_busy, tready, ttimed>>

-----------------------------------------------------------------------------
(* S: the waveform's processes *)

DispatchTrace(e, u) == /\ Idle("S") /\ <<e, u>> \in tready
                       /\ tready' = tready \ {<<e, u>>}

\* txd_try_start() with the line occupied or not.  A byte whose frame has no
\* duration, R being clear, leaves the queue and starts nothing.
TxdTryStart(u, busy) ==
    IF busy \/ txd_queue[u] = 0
    THEN /\ txd_busy' = [txd_busy EXCEPT ![u] = busy]
         /\ UNCHANGED <<txd_queue, ttimed>>
    ELSE /\ txd_queue' = [txd_queue EXCEPT ![u] = @ - 1]
         /\ txd_busy' = [txd_busy EXCEPT ![u] = "R" \in con[u]]
         /\ ttimed' = IF "R" \in con[u] THEN ttimed \cup {<<"TxdDone", u>>} ELSE ttimed

\* tx_start_method()
TxdStart(u) ==
    /\ DispatchTrace("TxdStart", u)
    /\ TxdTryStart(u, txd_busy[u])
    /\ UNCHANGED <<vars, tdelta>>

\* tx_done_method(): the line is idle again, the next byte is chained.
TxdDone(u) ==
    /\ DispatchTrace("TxdDone", u)
    /\ TxdTryStart(u, FALSE)
    /\ UNCHANGED <<vars, tdelta>>

\* A delta cycle ends, and time moves, for the device and the waveform alike.
TracedDeltaCycle ==
    /\ Idle("S") /\ ready = {} /\ tready = {}
    /\ \/ DeltaCycle
       \/ (delta = {} /\ written = level /\ tdelta # {} /\ UNCHANGED vars)
    /\ tready' = tdelta /\ tdelta' = {}
    /\ UNCHANGED <<txd_queue, txd_busy, ttimed>>

TracedAdvanceTime ==
    /\ Idle("S") /\ ready = {} /\ delta = {} /\ written = level
    /\ tready = {} /\ tdelta = {}
    /\ \E due \in SUBSET ttimed :
          /\ AdvanceTime \/ (due # {} /\ UNCHANGED vars)
          /\ tready' = due /\ ttimed' = ttimed \ due
    /\ UNCHANGED <<txd_queue, txd_busy, tdelta>>

-----------------------------------------------------------------------------

\* Every access but a TBUF write, which alone moves a counter as it starts
TracedDriver(u) ==
    \/ "TBUF" \in Driven[u] /\ \E b \in Bytes : ForwardTbuf(u, b)
    \/ Driver(u) /\ UNCHANGED <<count, traceVars>>

TracedAccess == (Access \/ Update("Q")) /\ UNCHANGED traceVars

TracedProcess == \/ (Process \/ Update("S")) /\ UNCHANGED traceVars
                 \/ \E u \in Usarts : TxdStart(u) \/ TxdDone(u)

TracedBridge(u) == Bridge(u) /\ UNCHANGED traceVars

TracedNext == \/ \E u \in Usarts : TracedDriver(u) \/ TracedBridge(u)
              \/ TracedAccess \/ TracedProcess
              \/ TracedDeltaCycle \/ TracedAdvanceTime

TracedSpec == TracedInit /\ [][TracedNext]_tracedVars

\* As in Usart2
TracedFairSpec ==
    /\ TracedSpec
    /\ WF_tracedVars(TracedAccess)
    /\ WF_tracedVars(TracedProcess \/ TracedDeltaCycle)
    /\ SF_tracedVars(TracedAdvanceTime)
    /\ \A u \in Usarts : SF_tracedVars(TracedBridge(u))

-----------------------------------------------------------------------------
(* Properties *)

\* For a driver that keeps R set, the chain of the waveform's frames does not
\* break either: a line that is occupied has its one timer running, and a byte
\* that waits to be drawn waits for a frame or for the start event that its
\* TBUF write notified (b_transport(), txd_try_start(), tx_done_method()).
WaveformNeverStalls ==
    \A u \in Usarts :
        /\ txd_busy[u] <=> <<"TxdDone", u>> \in ttimed \cup tready
        /\ txd_queue[u] # 0 => txd_busy[u] \/ <<"TxdStart", u>> \in tdelta \cup tready

\* For the same driver every byte is drawn and the line goes idle, once there
\* is no more to send (MaxWrites).
WaveformEnds == \A u \in Usarts : <>[](txd_queue[u] = 0 /\ ~txd_busy[u])
=============================================================================
