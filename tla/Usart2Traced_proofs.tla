------------------------- MODULE Usart2Traced_proofs -------------------------
(* What tracing does to the device, and that its own chain of frames holds.   *)
EXTENDS Usart2Traced, Usart2_proofs

\* A step of the traced device is a step of the device or leaves it alone.
LEMMA TracedStep == TracedNext => [Next]_vars
<1> SUFFICES ASSUME TracedNext PROVE [Next]_vars
  OBVIOUS
<1>1. ASSUME NEW u \in Usarts, TracedDriver(u) PROVE Driver(u)
  BY <1>1 DEF TracedDriver, ForwardTbuf, Driver
<1>2. CASE TracedAccess \/ TracedProcess \/ \E u \in Usarts : TracedBridge(u)
  BY <1>2 DEF TracedAccess, TracedProcess, TracedBridge, TxdStart, TxdDone, Next, Kernel
<1>3. CASE TracedDeltaCycle \/ TracedAdvanceTime
  BY <1>3 DEF TracedDeltaCycle, TracedAdvanceTime, Next, Kernel
<1> QED BY <1>1, <1>2, <1>3 DEF TracedNext, Next

\* Tracing is passive: whatever the instances with a vcd_file do, the device
\* behaves as Usart2 does (the m_tf branches of usart2.h change nothing that
\* the rest of it reads), so what is proved of Usart2 holds with tracing on.
THEOREM TracingIsPassive == TracedSpec => Spec
<1>1. TracedInit => Init
  BY DEF TracedInit
<1>2. [TracedNext]_tracedVars => [Next]_vars
  BY TracedStep DEF tracedVars
<1> QED BY <1>1, <1>2, PTL DEF TracedSpec, Spec

-----------------------------------------------------------------------------
(* The waveform, for a driver that keeps R set *)

TxdEv(u) == <<"TxdDone", u>>
StartEv(u) == <<"TxdStart", u>>

WaveType == txd_queue \in [Usarts -> Nat] /\ txd_busy \in [Usarts -> BOOLEAN]

\* WaveformNeverStalls, with what makes each frame last: R is set while a byte
\* waits to be drawn, and no timer is both running and due.
Wave(u) ==
    /\ txd_busy[u] <=> TxdEv(u) \in ttimed \cup tready
    /\ ~(TxdEv(u) \in ttimed /\ TxdEv(u) \in tready)
    /\ TxdEv(u) \notin tdelta
    /\ txd_queue[u] # 0 => /\ txd_busy[u] \/ StartEv(u) \in tdelta \cup tready
                           /\ "R" \in con[u]

WaveInv == WaveType /\ \A u \in Usarts : Wave(u)

\* R stays set: the driver writes it, and the copy of CON that the receiver
\* writes back has it.
LEMMA RStays ==
    ASSUME KeepsR, TypeInv, TxInv, [Next]_vars, NEW u \in Usarts, "R" \in con[u]
    PROVE  "R" \in con'[u]
<1> USE DEF TypeInv, CoreType
<1>1. CASE UNCHANGED con
  BY <1>1
<1>2. ASSUME NEW v \in Usarts, NEW c \in ConValues, WriteCon(v, c) PROVE "R" \in con'[u]
  <2>1. con' = [con EXCEPT ![v] = c \ {"OE"}] /\ "R" \in c
    BY <1>2 DEF WriteCon, KeepsR
  <2> QED BY <2>1
<1>3. CASE OeStore
  <2>1. con' = [con EXCEPT ![at["S"]] = ld["S"] \cup {"OE"}] /\ "R" \in ld["S"]
    BY <1>3 DEF OeStore, TxInv
  <2> QED BY <2>1
<1>4. CASE \E v \in Usarts : Driver(v)
  BY <1>1, <1>2, <1>4 DEF Driver, WriteTbuf, RbufGet, OtherAccess, W1C, coreVars
<1>5. CASE Access \/ (\E t \in Threads : Update(t))
  BY <1>1, <1>5 DEF Access, TbufWrite, TbufTest, TbufLoad, LoadTSR, RbufClearFull,
     RbufClearRaw, W1cLoad, W1cStore, Update, UpdTest, UpdLoad, UpdStore, UpdCount,
     UpdFired, UpdEnd, coreVars
<1>6. CASE Process
  BY <1>1, <1>3, <1>6 DEF Process, RxIdle, RxStart, InjectDropped, InjectOverrun, OeIrq,
     InjectByte, InjectFull, TxdTest, TxdLoad, LoadTSR, RxDone, TxDone, TirAuto,
     IrqDeassert, IrqMethod, IrqPulse, coreVars
<1>7. CASE (\E v \in Usarts : Bridge(v)) \/ DeltaCycle \/ AdvanceTime
  BY <1>1, <1>7 DEF Bridge, Deliver, DeltaCycle, AdvanceTime, coreVars
<1> QED BY <1>1, <1>4, <1>5, <1>6, <1>7 DEF Next, Kernel, Threads, vars, coreVars

\* A step that leaves the waveform alone
LEMMA WaveStays ==
    ASSUME KeepsR, TypeInv, TxInv, WaveInv, [Next]_vars, UNCHANGED traceVars
    PROVE  WaveInv'
<1>1. \A u \in Usarts : "R" \in con[u] => "R" \in con'[u]
  BY RStays
<1> QED BY <1>1 DEF WaveInv, WaveType, Wave, TxdEv, StartEv, traceVars

LEMMA ForwardWave ==
    ASSUME KeepsR, TypeInv, WaveInv, NEW v \in Usarts, NEW b \in Bytes, ForwardTbuf(v, b)
    PROVE  WaveInv'
<1> USE DEF WaveInv, WaveType, Wave, TxdEv, StartEv
<1>1. UNCHANGED <<con, txd_busy, tready, ttimed>> /\ "R" \in con[v]
  BY DEF ForwardTbuf, WriteTbuf, coreVars, KeepsR
<1>2. CASE v \in Traced
  <2>1. /\ txd_queue' = [txd_queue EXCEPT ![v] = @ + 1]
        /\ tdelta' = tdelta \cup {StartEv(v)}
    BY <1>2 DEF ForwardTbuf
  <2> QED BY <1>1, <2>1
<1>3. CASE v \notin Traced
  BY <1>1, <1>3 DEF ForwardTbuf
<1> QED BY <1>2, <1>3

LEMMA TxdWave ==
    ASSUME WaveInv, NEW v \in Usarts, TxdStart(v) \/ TxdDone(v) PROVE WaveInv'
<1> USE DEF WaveInv, WaveType, Wave, TxdEv, StartEv
<1>1. UNCHANGED <<con, tdelta>>
  BY DEF TxdStart, TxdDone, vars, coreVars
<1>2. CASE TxdStart(v) /\ (txd_busy[v] \/ txd_queue[v] = 0)
  <2>1. /\ tready' = tready \ {StartEv(v)}
        /\ txd_busy' = txd_busy /\ UNCHANGED <<txd_queue, ttimed>>
    BY <1>2 DEF TxdStart, DispatchTrace, TxdTryStart
  <2> QED BY <1>1, <1>2, <2>1
<1>3. CASE TxdStart(v) /\ ~(txd_busy[v] \/ txd_queue[v] = 0)
  <2>1. "R" \in con[v]
    BY <1>3
  <2>2. /\ tready' = tready \ {StartEv(v)} /\ ttimed' = ttimed \cup {TxdEv(v)}
        /\ txd_queue' = [txd_queue EXCEPT ![v] = @ - 1]
        /\ txd_busy' = [txd_busy EXCEPT ![v] = TRUE]
    BY <1>3, <2>1 DEF TxdStart, DispatchTrace, TxdTryStart
  <2>3. WaveType'
    BY <1>3, <2>2
  <2>4. ASSUME NEW u \in Usarts PROVE Wave(u)'
    BY <1>1, <1>3, <2>1, <2>2, <2>4
  <2> QED BY <2>3, <2>4
<1>4. CASE TxdDone(v) /\ txd_queue[v] = 0
  <2>1. /\ tready' = tready \ {TxdEv(v)} /\ TxdEv(v) \in tready
        /\ txd_busy' = [txd_busy EXCEPT ![v] = FALSE]
        /\ UNCHANGED <<txd_queue, ttimed>>
    BY <1>4 DEF TxdDone, DispatchTrace, TxdTryStart
  <2> QED BY <1>1, <1>4, <2>1
<1>5. CASE TxdDone(v) /\ txd_queue[v] # 0
  <2>1. "R" \in con[v]
    BY <1>5
  <2>2. /\ tready' = tready \ {TxdEv(v)} /\ ttimed' = ttimed \cup {TxdEv(v)}
        /\ txd_queue' = [txd_queue EXCEPT ![v] = @ - 1]
        /\ txd_busy' = [txd_busy EXCEPT ![v] = TRUE]
    BY <1>5, <2>1 DEF TxdDone, DispatchTrace, TxdTryStart
  <2>3. WaveType'
    BY <1>5, <2>2
  <2>4. ASSUME NEW u \in Usarts PROVE Wave(u)'
    BY <1>1, <1>5, <2>1, <2>2, <2>4
  <2> QED BY <2>3, <2>4
<1> QED BY <1>2, <1>3, <1>4, <1>5

LEMMA TimeWave ==
    ASSUME WaveInv, TracedDeltaCycle \/ TracedAdvanceTime PROVE WaveInv'
<1> USE DEF WaveInv, WaveType, Wave, TxdEv, StartEv
<1>1. UNCHANGED <<con, txd_queue, txd_busy>>
  BY DEF TracedDeltaCycle, TracedAdvanceTime, DeltaCycle, AdvanceTime, vars, coreVars
<1>2. CASE TracedDeltaCycle
  BY <1>1, <1>2 DEF TracedDeltaCycle
<1>3. CASE TracedAdvanceTime
  <2>1. PICK due \in SUBSET ttimed : tready' = due /\ ttimed' = ttimed \ due
    BY <1>3 DEF TracedAdvanceTime
  <2>2. tready = {} /\ tdelta = {} /\ tdelta' = {}
    BY <1>3 DEF TracedAdvanceTime
  <2> QED BY <1>1, <2>1, <2>2
<1> QED BY <1>2, <1>3

LEMMA NextWave ==
    KeepsR /\ TypeInv /\ TxInv /\ WaveInv /\ [TracedNext]_tracedVars => WaveInv'
<1> SUFFICES ASSUME KeepsR, TypeInv, TxInv, WaveInv, [TracedNext]_tracedVars
             PROVE  WaveInv'
  OBVIOUS
<1>1. [Next]_vars
  BY TracedStep DEF tracedVars
<1>2. CASE UNCHANGED traceVars
  BY <1>1, <1>2, WaveStays
<1>3. ASSUME NEW u \in Usarts, TracedDriver(u) PROVE WaveInv'
  BY <1>2, <1>3, ForwardWave DEF TracedDriver
<1>4. CASE TracedAccess \/ TracedProcess \/ \E u \in Usarts : TracedBridge(u)
  BY <1>2, <1>4, TxdWave DEF TracedAccess, TracedProcess, TracedBridge
<1>5. CASE TracedDeltaCycle \/ TracedAdvanceTime
  BY <1>5, TimeWave
<1> QED BY <1>2, <1>3, <1>4, <1>5 DEF TracedNext, tracedVars

LEMMA InitWave == TracedInit => WaveInv
  BY DEF TracedInit, WaveInv, WaveType, Wave

\* A driver that sets R before its first TBUF write and never clears it sees
\* every byte drawn: the queue that the bus thread fills never waits for a
\* frame or a start event that is not there (txd_try_start(), usart2.h:559).
THEOREM WaveformGoesOn == KeepsR => (TracedSpec => []WaveformNeverStalls)
<1> SUFFICES ASSUME KeepsR PROVE TracedSpec => []WaveformNeverStalls
  OBVIOUS
<1>1. WaveInv => WaveformNeverStalls
  BY DEF WaveInv, Wave, TxdEv, StartEv, WaveformNeverStalls
<1>2. TypeInv /\ TxInv /\ [Next]_vars => TxInv'
  BY NextTx
<1>3. TypeInv /\ TxInv /\ WaveInv /\ [TracedNext]_tracedVars => WaveInv'
  BY NextWave
<1>4. Spec => [](TypeInv /\ TxInv)
  BY InitTypeInv, NextTypeInv, InitTx, <1>2, PTL DEF Spec
<1>5. TracedSpec => [](TypeInv /\ TxInv)
  BY TracingIsPassive, <1>4, PTL
<1> QED BY InitWave, <1>1, <1>3, <1>5, PTL DEF TracedSpec
=============================================================================
