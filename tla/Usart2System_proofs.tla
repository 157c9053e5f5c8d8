------------------------- MODULE Usart2System_proofs --------------------------
(* Theorems about Usart2System: whatever the driver, the bridge and the two   *)
(* threads do, a STATUS bit stands only while something will still bring the  *)
(* interrupt handler to it, or the handler is about to clear it.              *)
EXTENDS Usart2System, Usart2_proofs

SysTypeInv ==
    /\ TypeInv
    /\ gic \subseteq Usarts
    /\ isr \in {"none", "read", "clear", "eoi"}
    /\ isr_usart \in Usarts /\ isr_status \subseteq StatusBits

\* A step of Usart2 that the interrupt path only looks at.
WatchedStep == Next /\ Latch /\ UNCHANGED isrVars

LEMMA StepsAreWatched == Program \/ BusAccess \/ KernelStep => WatchedStep
  BY DEF Program, BusAccess, KernelStep, WatchedStep, Next

LEMMA SysTypeInit == SysInit => SysTypeInv
  BY InitTypeInv, PeerType DEF SysInit, SysTypeInv

LEMMA SysTypeNext == SysTypeInv /\ [SysNext]_sysVars => SysTypeInv'
<1> SUFFICES ASSUME SysTypeInv, [SysNext]_sysVars PROVE SysTypeInv'
  OBVIOUS
<1>1. CASE Program \/ BusAccess \/ KernelStep
  <2>1. WatchedStep
    BY <1>1, StepsAreWatched
  <2>2. TypeInv'
    BY <2>1, NextTypeInv DEF SysTypeInv, WatchedStep
  <2> QED BY <2>1, <2>2 DEF SysTypeInv, WatchedStep, Latch, Edges, isrVars
<1>2. CASE IsrClear
  <2>1. TypeInv'
    BY <1>2, W1cStepType DEF IsrClear, SysTypeInv
  <2> QED BY <1>2, <2>1 DEF SysTypeInv, IsrClear, Latch, Edges
<1>3. ASSUME UNCHANGED vars PROVE TypeInv'
  BY <1>3, NextTypeInv DEF SysTypeInv
<1>4. CASE IsrRead
  <2>1. status[isr_usart] \subseteq StatusBits
    BY DEF SysTypeInv, TypeInv, StatType
  <2> QED BY <1>3, <1>4, <2>1 DEF SysTypeInv, IsrRead
<1>5. CASE IsrReturn
  BY <1>3, <1>5 DEF SysTypeInv, IsrReturn
<1>6. ASSUME NEW u \in Usarts, TakeIrq(u) PROVE SysTypeInv'
  BY <1>3, <1>6 DEF SysTypeInv, TakeIrq
<1>7. CASE UNCHANGED sysVars
  BY <1>3, <1>7 DEF SysTypeInv, sysVars, isrVars
<1> QED BY <1>1, <1>2, <1>4, <1>5, <1>6, <1>7 DEF SysNext, Isr

\* The composition keeps the types of both, for every set of USARTs and every
\* driver.
THEOREM SysTypeCorrect == SysSpec => []SysTypeOK
<1>1. SysTypeInv => SysTypeOK
  BY TypeInvImpliesTypeOK DEF SysTypeInv, SysTypeOK
<1> QED BY SysTypeInit, SysTypeNext, <1>1, PTL DEF SysSpec

-----------------------------------------------------------------------------
(* The way of an interrupt *)

IrqEv(u) == <<"Irq", u>>
PulseEv(u) == <<"IrqPulse", u>>

\* These bits of u will be looked at again or are about to be cleared.
Covered(u, x) == x \subseteq Clearing(u) \/ Cause(u)

\* NoStrandedStatus, with what it needs: between the load and the store of the
\* write-1-to-clear its copy of STATUS is covered too; irq is a port only its
\* own two methods write; and the handler has the vCPU thread for itself.
IrqInv ==
    /\ \A u \in Usarts : "irq" \in written[u] <=> "irq" \in level[u]
    /\ isr \in {"read", "clear"} => Idle("Q")
    /\ isr = "eoi" => /\ pc["Q"] \in {"idle", "w1c_load", "w1c_store"}
                      /\ pc["Q"] # "idle" => at["Q"] = isr_usart
    /\ \A u \in Usarts : Covered(u, status[u])
    /\ pc["Q"] = "w1c_store" => Covered(at["Q"], ld["Q"])

\* What keeps a cause: a notification stays or is delivered, and a thread keeps
\* its new_irq on its USART until it has notified.
CauseKept(u) ==
    /\ UNCHANGED <<isr, isr_usart>> /\ gic \subseteq gic'
    /\ IrqEv(u) \in ready \cup delta => IrqEv(u) \in ready' \cup delta'
    /\ PulseEv(u) \in ready \cup delta /\ "irq" \notin level[u] =>
          PulseEv(u) \in ready' \cup delta' /\ "irq" \notin level'[u]
    /\ \A t \in Threads : at[t] = u /\ new_irq[t] =>
          (at'[t] = u /\ new_irq'[t]) \/ IrqEv(u) \in ready' \cup delta'

LEMMA CauseStays == ASSUME NEW u, CauseKept(u), Cause(u) PROVE Cause(u)'
<1>1. CASE Notifies(u)
  BY <1>1 DEF CauseKept, Cause, Notifies, IrqEv
<1>2. CASE ~Notifies(u)
  BY <1>2 DEF CauseKept, Cause, PulseEv
<1> QED BY <1>1, <1>2

\* A step of Usart2 that leaves irq alone and drops no notification of it.
Harmless ==
    /\ \A u \in Usarts : /\ IrqEv(u) \in ready \cup delta => IrqEv(u) \in ready' \cup delta'
                         /\ PulseEv(u) \in ready \cup delta => PulseEv(u) \in ready' \cup delta'
                         /\ "irq" \in level'[u] <=> "irq" \in level[u]
                         /\ "irq" \in written'[u] <=> "irq" \in written[u]
    /\ \A t \in Threads : new_irq[t] =>
          at'[t] = at[t] /\ (new_irq'[t] \/ IrqEv(at[t]) \in ready' \cup delta')

LEMMA HarmlessKeeps ==
    ASSUME Harmless, Latch, UNCHANGED isrVars, NEW u \in Usarts PROVE CauseKept(u)
  BY DEF Harmless, Latch, Edges, isrVars, CauseKept

LEMMA LoadTSRIrq ==
    ASSUME TypeInv, NEW v \in Usarts, LoadTSR(v)
    PROVE  delta \subseteq delta' /\ UNCHANGED <<ready, written, level>>
<1>1. CASE <<"TxDone", v>> \in delta \/ "R" \notin con[v]
  BY <1>1 DEF LoadTSR
<1>2. CASE ~(<<"TxDone", v>> \in delta \/ "R" \notin con[v])
  BY <1>2 DEF LoadTSR
<1> QED BY <1>1, <1>2

LEMMA UpdateHarmless ==
    ASSUME TypeInv, IrqBound, NEW t \in Threads, Update(t) PROVE Harmless
<1> USE DEF TypeInv, ThreadType, Harmless, kernVars
<1>1. CASE UpdTest(t)
  BY <1>1 DEF UpdTest
<1>2. CASE UpdLoad(t)
  BY <1>2 DEF UpdLoad
<1>3. CASE UpdStore(t)
  BY <1>3 DEF UpdStore
<1>4. CASE UpdEnd(t)
  BY <1>4 DEF UpdEnd, IrqEv
<1>5. CASE UpdCount(t) \/ UpdFired(t)
  BY <1>5 DEF UpdCount, UpdFired
<1> QED BY <1>1, <1>2, <1>3, <1>4, <1>5 DEF Update

\* Expire() and assertIrq() touch the port tir, never irq.
LEMMA ExpireIrq ==
    ASSUME TypeInv, NEW v \in Usarts, NEW x, Expire(v, x), NEW u \in Usarts
    PROVE  "irq" \in written'[u] <=> "irq" \in written[u]
  BY DEF Expire, TypeInv, KernType

LEMMA AssertIrqIrq ==
    ASSUME TypeInv, NEW v \in Usarts, NEW i, AssertIrq(v, i)
    PROVE  /\ \A u \in Usarts : "irq" \in written'[u] <=> "irq" \in written[u]
           /\ delta \subseteq delta'
  BY DEF AssertIrq, TypeInv, KernType

LEMMA DriverHarmless ==
    ASSUME TypeInv,
           \/ (\E u \in Usarts : Driver(u)) \/ Access
           \/ \E u \in Usarts, w \in SUBSET StatusBits : W1C(u, w)
    PROVE  Harmless
<1>1. ~new_irq["Q"] /\ new_irq' = new_irq
  BY DEF TypeInv, Locals, LocalsOf, Threads, UpdPlaces, Driver, WriteTbuf, RbufGet, WriteCon,
     OtherAccess, W1C, Access, TbufWrite, TbufTest, TbufLoad, RbufClearFull, RbufClearRaw,
     W1cLoad, W1cStore, Idle
<1>2. at'["S"] = at["S"]
  BY DEF TypeInv, ThreadType, Threads, Start, Driver, WriteTbuf, RbufGet, WriteCon,
     OtherAccess, W1C, Access, TbufWrite, TbufTest, TbufLoad, RbufClearFull, RbufClearRaw,
     W1cLoad, W1cStore
<1>3. /\ ready' = ready /\ delta \subseteq delta' /\ level' = level
      /\ \A u \in Usarts : "irq" \in written'[u] <=> "irq" \in written[u]
  <2>1. CASE TbufLoad
    BY <2>1, LoadTSRIrq DEF TbufLoad, TypeInv, ThreadType, Threads
  <2>2. CASE TbufWrite
    BY <2>2, ExpireIrq DEF TbufWrite, TypeInv, ThreadType, Threads
  <2>3. ASSUME NEW u \in Usarts, OtherAccess(u) \/ \E c \in ConValues : WriteCon(u, c)
        PROVE  /\ ready' = ready /\ delta \subseteq delta' /\ level' = level
               /\ \A w \in Usarts : "irq" \in written'[w] <=> "irq" \in written[w]
    BY <2>3, ExpireIrq DEF OtherAccess, WriteCon
  <2>4. CASE \/ \E u \in Usarts : \/ RbufGet(u) \/ \E b \in Bytes : WriteTbuf(u, b)
                                  \/ \E w \in SUBSET StatusBits : W1C(u, w)
             \/ TbufTest \/ RbufClearFull \/ RbufClearRaw \/ W1cLoad \/ W1cStore
    BY <2>4 DEF WriteTbuf, RbufGet, W1C, TbufTest, RbufClearFull, RbufClearRaw, W1cLoad,
       W1cStore, kernVars
  <2> QED BY <2>1, <2>2, <2>3, <2>4, DriverType DEF Driver, Access
<1> QED BY <1>1, <1>2, <1>3 DEF Harmless, Threads

LEMMA ReceiverHarmless ==
    ASSUME TypeInv,
           \/ RxIdle \/ RxStart \/ InjectDropped \/ InjectOverrun \/ OeStore \/ OeIrq
           \/ InjectByte \/ InjectFull
           \/ \E u \in Usarts : RxDone(u) \/ Bridge(u)
    PROVE  Harmless
<1>1. ~new_irq["S"] /\ new_irq' = new_irq /\ at'["Q"] = at["Q"]
  BY DEF TypeInv, ThreadType, Locals, LocalsOf, Threads, UpdPlaces, RxIdle, RxStart, Bridge,
     InjectDropped, InjectOverrun, OeStore, OeIrq, InjectByte, InjectFull, RxDone, Deliver,
     Dispatch, Idle, Start
<1>2. /\ delta \subseteq delta' /\ level' = level
      /\ \A u \in Usarts : "irq" \in written'[u] <=> "irq" \in written[u]
  BY AssertIrqIrq DEF TypeInv, ThreadType, Threads, StatusBits, RxIdle, RxStart, Bridge,
     InjectDropped, InjectOverrun, OeStore, OeIrq, InjectByte, InjectFull, RxDone, Deliver,
     kernVars
<1>3. ready' = ready \/ \E u \in Usarts : ready' = ready \ {<<"RxDone", u>>}
  BY DEF RxIdle, RxStart, Bridge, InjectDropped, InjectOverrun, OeStore, OeIrq, InjectByte,
     InjectFull, RxDone, Deliver, Dispatch, kernVars
<1> QED BY <1>1, <1>2, <1>3 DEF Harmless, Threads, IrqEv, PulseEv

LEMMA TransmitterHarmless ==
    ASSUME TypeInv,
           \/ TxdTest \/ TxdLoad
           \/ \E u \in Usarts : TxDone(u) \/ TirAuto(u) \/ IrqDeassert(u)
    PROVE  Harmless
<1>1. ~new_irq["S"] /\ new_irq' = new_irq /\ at'["Q"] = at["Q"]
  BY DEF TypeInv, ThreadType, Locals, LocalsOf, Threads, UpdPlaces, TxdTest, TxdLoad, TxDone,
     TirAuto, IrqDeassert, Dispatch, Idle, Start, EnterUpdate, thVars
<1>2. /\ delta \subseteq delta' /\ level' = level
      /\ \A u \in Usarts : "irq" \in written'[u] <=> "irq" \in written[u]
  <2>1. CASE TxdTest \/ \E u \in Usarts : TirAuto(u)
    BY <2>1 DEF TxdTest, TirAuto, kernVars
  <2>2. CASE TxdLoad
    BY <2>2, LoadTSRIrq DEF TxdLoad, TypeInv, ThreadType, Threads
  <2>3. CASE \E u \in Usarts : TxDone(u)
    BY <2>3, AssertIrqIrq DEF TxDone
  <2>4. CASE \E u \in Usarts : IrqDeassert(u)
    BY <2>4, ExpireIrq DEF IrqDeassert
  <2> QED BY <2>1, <2>2, <2>3, <2>4
<1>3. \/ ready' = ready
      \/ \E u \in Usarts, e \in {"TxDone", "TirAuto", "IrqDeassert"} : ready' = ready \ {<<e, u>>}
  <2>1. CASE TxdTest \/ TxdLoad
    BY <2>1, LoadTSRIrq DEF TxdTest, TxdLoad, kernVars, TypeInv, ThreadType, Threads
  <2>2. CASE \E u \in Usarts : TxDone(u) \/ TirAuto(u) \/ IrqDeassert(u)
    BY <2>2 DEF TxDone, TirAuto, IrqDeassert, Dispatch
  <2> QED BY <2>1, <2>2
<1> QED BY <1>1, <1>2, <1>3 DEF Harmless, Threads, IrqEv, PulseEv

\* What keeps irq with its causes.
Sound ==
    /\ \A u \in Usarts : Cause(u) => Cause(u)'
    /\ \A u \in Usarts : "irq" \in written'[u] <=> "irq" \in level'[u]

LEMMA HarmlessIsSound ==
    ASSUME IrqInv, Harmless, Latch, UNCHANGED isrVars PROVE Sound
  BY HarmlessKeeps, CauseStays DEF IrqInv, Sound, Harmless

\* irq_method() drives irq LOW and irq_pulse_method() will drive it HIGH: the
\* notification becomes the second half of the pulse.
LEMMA IrqMethodIsSound ==
    ASSUME SysTypeInv, IrqInv, NEW v \in Usarts, IrqMethod(v), Latch, UNCHANGED isrVars
    PROVE  Sound
<1>1. /\ ready' = ready \ {IrqEv(v)} /\ delta' = delta \cup {PulseEv(v)}
      /\ written' = [written EXCEPT ![v] = @ \ {"irq"}]
      /\ level' = [level EXCEPT ![v] = @ \ {"irq"}]
      /\ UNCHANGED <<new_irq, at>>
  BY DEF IrqMethod, Dispatch, DriveIrq, IrqEv, PulseEv, thVars
<1>2. \A u \in Usarts : "irq" \in written'[u] <=> "irq" \in level'[u]
  BY <1>1 DEF IrqInv, SysTypeInv, TypeInv, KernType
<1>3. ASSUME NEW u \in Usarts, Cause(u) PROVE Cause(u)'
  <2>1. CASE u = v
    BY <1>1, <2>1 DEF Cause, PulseEv, SysTypeInv, TypeInv, KernType
  <2>2. CASE u # v
    <3>1. CauseKept(u)
      BY <1>1, <2>2 DEF CauseKept, IrqEv, PulseEv, Latch, Edges, isrVars, SysTypeInv, TypeInv,
         KernType
    <3> QED BY <1>3, <3>1, CauseStays
  <2> QED BY <2>1, <2>2
<1> QED BY <1>2, <1>3 DEF Sound

\* irq_pulse_method(): the rising edge reaches the GIC.
LEMMA IrqPulseIsSound ==
    ASSUME SysTypeInv, IrqInv, NEW v \in Usarts, IrqPulse(v), Latch, UNCHANGED isrVars
    PROVE  Sound
<1>1. /\ ready' = ready \ {PulseEv(v)} /\ delta' = delta
      /\ written' = [written EXCEPT ![v] = @ \cup {"irq"}]
      /\ level' = [level EXCEPT ![v] = @ \cup {"irq"}]
      /\ UNCHANGED <<new_irq, at>>
  BY DEF IrqPulse, Dispatch, DriveIrq, PulseEv, thVars
<1>2. \A u \in Usarts : "irq" \in written'[u] <=> "irq" \in level'[u]
  BY <1>1 DEF IrqInv, SysTypeInv, TypeInv, KernType
<1>3. "irq" \notin level[v] => v \in gic'
  BY <1>1 DEF Latch, Edges, SysTypeInv, TypeInv, KernType
<1>4. ASSUME NEW u \in Usarts, Cause(u) PROVE Cause(u)'
  <2>1. CASE u = v /\ "irq" \notin level[v]
    BY <1>3, <2>1 DEF Cause
  <2>2. CASE u # v \/ "irq" \in level[v]
    <3>1. CauseKept(u)
      BY <1>1, <2>2 DEF CauseKept, IrqEv, PulseEv, Latch, Edges, isrVars, SysTypeInv, TypeInv,
         KernType
    <3> QED BY <1>4, <3>1, CauseStays
  <2> QED BY <2>1, <2>2
<1> QED BY <1>2, <1>4 DEF Sound

LEMMA SchedulerIsSound ==
    ASSUME SysTypeInv, IrqInv, DeltaCycle \/ AdvanceTime, Latch, UNCHANGED isrVars
    PROVE  Sound
<1>1. /\ UNCHANGED <<new_irq, at, written>> /\ delta \subseteq ready' /\ ready = {}
      /\ level' = written
  BY DEF DeltaCycle, AdvanceTime, thVars
<1>2. ASSUME NEW u \in Usarts PROVE CauseKept(u)
  BY <1>1 DEF IrqInv, CauseKept, IrqEv, PulseEv, Latch, Edges, isrVars
<1>3. \A u \in Usarts : "irq" \in written'[u] <=> "irq" \in level'[u]
  BY <1>1
<1> QED BY <1>2, <1>3, CauseStays DEF Sound

LEMMA WatchedIsSound ==
    ASSUME IrqBound, SysTypeInv, IrqInv, WatchedStep PROVE Sound
<1>1. TypeInv /\ Latch /\ UNCHANGED isrVars
  BY DEF SysTypeInv, WatchedStep
<1>2. CASE (\E u \in Usarts : Driver(u)) \/ Access
  BY <1>1, <1>2, DriverHarmless, HarmlessIsSound
<1>3. ASSUME NEW t \in Threads, Update(t) PROVE Sound
  BY <1>1, <1>3, UpdateHarmless, HarmlessIsSound
<1>4. CASE Process
  <2>1. \/ Harmless \/ \E u \in Usarts : IrqMethod(u) \/ IrqPulse(u)
    BY <1>1, <1>4, ReceiverHarmless, TransmitterHarmless DEF Process
  <2> QED BY <1>1, <2>1, HarmlessIsSound, IrqMethodIsSound, IrqPulseIsSound
<1>5. CASE \E u \in Usarts : Bridge(u)
  BY <1>1, <1>5, ReceiverHarmless, HarmlessIsSound
<1>6. CASE DeltaCycle \/ AdvanceTime
  BY <1>1, <1>6, SchedulerIsSound
<1> QED BY <1>2, <1>3, <1>4, <1>5, <1>6 DEF WatchedStep, Next, Kernel, Threads

-----------------------------------------------------------------------------
(* No STATUS bit is stranded *)

\* The bits the handler is about to clear, by where it is.
LEMMA ClearingNone ==
    ASSUME NEW u, isr \in {"none", "read"} PROVE Clearing(u) = {}
  BY DEF Clearing

\* A bus access of the program, not of the handler.
LEMMA ProgramAccess ==
    ASSUME SysTypeInv, IrqInv, ~Idle("Q"), pc["Q"] \notin {"w1c_load", "w1c_store"}
    PROVE  isr = "none"
  BY DEF SysTypeInv, IrqInv, Idle

\* The steps that leave STATUS and the handler's write alone
LEMMA QuietIrq ==
    ASSUME SysTypeInv, IrqInv, Sound, UNCHANGED <<isrVars, status, arg>>,
           pc'["Q"] = pc["Q"], at'["Q"] = at["Q"], ld'["Q"] = ld["Q"]
    PROVE  IrqInv'
<1>1. \A u \in Usarts : Clearing(u)' = Clearing(u)
  BY DEF Clearing, isrVars
<1>2. \A u \in Usarts : Covered(u, status[u])'
  BY <1>1 DEF Covered, Sound, IrqInv
<1>3. at["Q"] \in Usarts
  BY DEF SysTypeInv, TypeInv, ThreadType, Threads
<1>4. pc'["Q"] = "w1c_store" => Covered(at["Q"], ld["Q"])'
  BY <1>1, <1>3 DEF Covered, Sound, IrqInv
<1> QED BY <1>2, <1>4 DEF IrqInv, Sound, Idle, isrVars

LEMMA UpdStoreIrq ==
    ASSUME SysTypeInv, IrqInv, Sound, UNCHANGED isrVars, NEW t \in Threads, UpdStore(t)
    PROVE  IrqInv'
<1> DEFINE u == at[t]
<1>1. /\ u \in Usarts /\ pc[t] = "upd_store" /\ pc' = [pc EXCEPT ![t] = "upd_count"]
      /\ ld' = [ld EXCEPT ![t] = {}] /\ UNCHANGED <<at, arg>>
      /\ new_irq'[t] = TRUE /\ \A w \in Usarts \ {u} : status'[w] = status[w]
  BY DEF UpdStore, Goto, SysTypeInv, TypeInv, ThreadType, StatType
<1>2. Cause(u)'
  BY <1>1 DEF Cause, Notifies
<1>3. \A w \in Usarts : Clearing(w)' = Clearing(w)
  BY <1>1 DEF Clearing, isrVars, SysTypeInv, TypeInv, ThreadType, Threads
<1>4. \A w \in Usarts : Covered(w, status[w])'
  BY <1>1, <1>2, <1>3 DEF Covered, IrqInv, Sound
<1>5. pc'["Q"] = "w1c_store" => Covered(at["Q"], ld["Q"])'
  BY <1>1, <1>3 DEF Covered, IrqInv, Sound, SysTypeInv, TypeInv, ThreadType, Threads
<1> QED BY <1>1, <1>4, <1>5, ProgramAccess
        DEF IrqInv, Sound, Idle, isrVars, SysTypeInv, TypeInv, ThreadType, Threads

\* The vCPU thread between the handler's write and its own: what it does to
\* STATUS is only the store of a write-1-to-clear.
LEMMA DriverIrq ==
    ASSUME IrqBound, SysTypeInv, IrqInv, isr = "none", UNCHANGED isrVars, Sound,
           \/ \E u \in Usarts : Driver(u)
           \/ TbufWrite \/ TbufTest \/ TbufLoad \/ RbufClearFull \/ RbufClearRaw
           \/ UpdTest("Q") \/ UpdLoad("Q") \/ UpdCount("Q") \/ UpdFired("Q") \/ UpdEnd("Q")
    PROVE  IrqInv'
<1>1. UNCHANGED status
  BY DEF Driver, WriteTbuf, RbufGet, WriteCon, OtherAccess, W1C, TbufWrite, TbufTest, TbufLoad,
     RbufClearFull, RbufClearRaw, UpdTest, UpdLoad, UpdCount, UpdFired, UpdEnd,
     statVars
<1>2. pc'["Q"] # "w1c_store"
  <2> USE DEF SysTypeInv, TypeInv, ThreadType, Threads, Goto, Start, EnterUpdate
  <2>1. CASE \E u \in Usarts : Driver(u)
    BY <2>1 DEF Driver, WriteTbuf, RbufGet, WriteCon, OtherAccess, W1C
  <2>2. CASE TbufWrite
    BY <2>2 DEF TbufWrite
  <2>3. CASE TbufTest \/ TbufLoad \/ RbufClearFull \/ RbufClearRaw
    BY <2>3 DEF TbufTest, TbufLoad, RbufClearFull, RbufClearRaw
  <2>4. CASE UpdTest("Q") \/ UpdLoad("Q") \/ UpdCount("Q") \/ UpdFired("Q")
    BY <2>4 DEF UpdTest, UpdLoad, UpdCount, UpdFired
  <2>5. CASE UpdEnd("Q")
    BY <2>5 DEF UpdEnd
  <2> QED BY <2>1, <2>2, <2>3, <2>4, <2>5
<1>3. \A u \in Usarts : Clearing(u) = {} /\ Clearing(u)' = {}
  BY DEF Clearing, isrVars
<1>4. \A u \in Usarts : Covered(u, status[u])'
  BY <1>1, <1>3 DEF Covered, IrqInv, Sound
<1> QED BY <1>2, <1>4 DEF IrqInv, Sound, isrVars

\* m_status &= ~wval on the copy of STATUS it loaded: what it stores was
\* covered when it was loaded, and no cause is used up while the vCPU thread is
\* in a bus access.
LEMMA W1cIrq ==
    ASSUME SysTypeInv, IrqInv, UNCHANGED isrVars, Sound, W1cLoad \/ W1cStore
    PROVE  IrqInv'
<1> DEFINE v == at["Q"]
<1>1. /\ v \in Usarts /\ UNCHANGED at /\ isr \in {"none", "eoi"}
      /\ isr = "eoi" => v = isr_usart
  BY DEF SysTypeInv, TypeInv, ThreadType, Threads, W1cLoad, W1cStore, IrqInv, Idle
<1>2. \A w \in Usarts \ {v} : Clearing(w) = {} /\ Clearing(w)' = {}
  BY <1>1 DEF Clearing, isrVars
<1>3. CASE W1cLoad
  <2>1. /\ pc["Q"] = "w1c_load" /\ pc'["Q"] = "w1c_store" /\ ld'["Q"] = status[v]
        /\ UNCHANGED <<status, arg>>
    BY <1>3 DEF W1cLoad, Goto, statVars, SysTypeInv, TypeInv, ThreadType, Threads
  <2>2. Clearing(v)' = Clearing(v)
    BY <1>1, <2>1 DEF Clearing, isrVars
  <2>3. \A w \in Usarts : Covered(w, status[w])'
    <3>1. \A w \in Usarts : Clearing(w)' = Clearing(w)
      BY <1>1, <1>2, <2>2
    <3> QED BY <2>1, <3>1 DEF Covered, IrqInv, Sound
  <2>4. Covered(at["Q"], ld["Q"])'
    BY <1>1, <2>1, <2>2 DEF Covered, IrqInv, Sound
  <2> QED BY <1>1, <2>1, <2>3, <2>4 DEF IrqInv, Sound, isrVars
<1>4. CASE W1cStore
  <2>1. /\ pc["Q"] = "w1c_store" /\ pc'["Q"] = "idle"
        /\ status'[v] = ld["Q"] \ arg /\ \A w \in Usarts \ {v} : status'[w] = status[w]
    BY <1>1, <1>4 DEF W1cStore, Goto, SysTypeInv, TypeInv, ThreadType, StatType, Threads
  <2>2. Clearing(v) \subseteq arg
    BY <1>1, <2>1 DEF Clearing
  <2>3. status'[v] = {} \/ Cause(v)'
    BY <1>1, <2>1, <2>2 DEF Covered, IrqInv, Sound
  <2>4. \A w \in Usarts : Covered(w, status[w])'
    BY <1>1, <1>2, <2>1, <2>3 DEF Covered, IrqInv, Sound
  <2> QED BY <1>1, <2>1, <2>4 DEF IrqInv, Sound, isrVars
<1> QED BY <1>3, <1>4

LEMMA KernelIrq ==
    ASSUME IrqBound, SysTypeInv, IrqInv, Sound, UNCHANGED isrVars,
           \/ Process \/ UpdTest("S") \/ UpdLoad("S") \/ UpdCount("S") \/ UpdFired("S")
           \/ UpdEnd("S")
           \/ (\E u \in Usarts : Bridge(u)) \/ DeltaCycle \/ AdvanceTime
    PROVE  IrqInv'
<1>1. UNCHANGED <<status, arg>>
  BY DEF Process, RxIdle, RxStart, InjectDropped, InjectOverrun, OeStore, OeIrq, InjectByte,
     InjectFull, TxdTest, TxdLoad, RxDone, TxDone, TirAuto, IrqDeassert, IrqMethod, IrqPulse,
     Bridge, Deliver, DeltaCycle, AdvanceTime, UpdTest, UpdLoad, UpdCount, UpdFired,
     UpdEnd, Refused, statVars, thVars
<1>2. pc'["Q"] = pc["Q"] /\ at'["Q"] = at["Q"] /\ ld'["Q"] = ld["Q"]
  <2> USE DEF SysTypeInv, TypeInv, ThreadType, Threads, Goto, Start, EnterUpdate, thVars
  <2>1. CASE \/ RxIdle \/ RxStart \/ InjectOverrun \/ OeStore \/ InjectByte \/ TxdTest
             \/ TxdLoad \/ DeltaCycle \/ AdvanceTime
    BY <2>1 DEF RxIdle, RxStart, InjectOverrun, OeStore, InjectByte, TxdTest, TxdLoad,
       DeltaCycle, AdvanceTime
  <2>2. CASE InjectDropped \/ OeIrq \/ InjectFull
    BY <2>2 DEF InjectDropped, OeIrq, InjectFull, Refused
  <2>3. CASE UpdTest("S") \/ UpdLoad("S") \/ UpdCount("S") \/ UpdFired("S") \/ UpdEnd("S")
    BY <2>3 DEF UpdTest, UpdLoad, UpdCount, UpdFired, UpdEnd
  <2>4. ASSUME NEW u \in Usarts, \/ RxDone(u) \/ TxDone(u) \/ TirAuto(u) \/ IrqDeassert(u)
                                 \/ IrqMethod(u) \/ IrqPulse(u) \/ Bridge(u)
        PROVE  pc'["Q"] = pc["Q"] /\ at'["Q"] = at["Q"] /\ ld'["Q"] = ld["Q"]
    BY <2>4 DEF RxDone, TxDone, TirAuto, IrqDeassert, IrqMethod, IrqPulse, Bridge, Deliver
  <2> QED BY <2>1, <2>2, <2>3, <2>4 DEF Process
<1> QED BY <1>1, <1>2, QuietIrq

LEMMA WatchedIrq ==
    ASSUME IrqBound, SysTypeInv, IrqInv, Program \/ BusAccess \/ KernelStep PROVE IrqInv'
<1>1. Sound /\ UNCHANGED isrVars
  BY StepsAreWatched, WatchedIsSound DEF WatchedStep
<1>2. CASE Program
  BY <1>1, <1>2, DriverIrq DEF Program
<1>3. CASE BusAccess
  <2>1. Access \/ Update("Q")
    BY <1>3 DEF BusAccess
  <2>2. CASE W1cLoad \/ W1cStore
    BY <1>1, <2>2, W1cIrq
  <2>3. CASE UpdStore("Q")
    BY <1>1, <2>3, UpdStoreIrq DEF Threads
  <2>4. CASE \/ TbufWrite \/ TbufTest \/ TbufLoad \/ RbufClearFull \/ RbufClearRaw
             \/ UpdTest("Q") \/ UpdLoad("Q") \/ UpdCount("Q") \/ UpdFired("Q")
             \/ UpdEnd("Q")
    <3>1. ~Idle("Q") /\ pc["Q"] \notin {"w1c_load", "w1c_store"}
      BY <2>4 DEF TbufWrite, TbufTest, TbufLoad, RbufClearFull, RbufClearRaw, UpdTest, UpdLoad,
         UpdCount, UpdFired, UpdEnd, Idle
    <3>2. isr = "none"
      BY <3>1, ProgramAccess
    <3> QED BY <1>1, <2>4, <3>2, DriverIrq
  <2> QED BY <2>1, <2>2, <2>3, <2>4 DEF Access, Update
<1>4. CASE KernelStep
  <2>1. CASE UpdStore("S")
    BY <1>1, <2>1, UpdStoreIrq DEF Threads
  <2>2. CASE ~UpdStore("S")
    BY <1>1, <1>4, <2>2, KernelIrq DEF KernelStep, Kernel, Update
  <2> QED BY <2>1, <2>2
<1> QED BY <1>2, <1>3, <1>4

\* The handler: it acknowledges, reads STATUS, and clears what it read.
LEMMA IsrIrq ==
    ASSUME SysTypeInv, IrqInv, Isr \/ \E u \in Usarts : TakeIrq(u) PROVE IrqInv'
<1>1. ASSUME NEW v \in Usarts, TakeIrq(v) PROVE IrqInv'
  <2>1. /\ UNCHANGED vars /\ isr = "none" /\ isr' = "read" /\ isr_usart' = v
        /\ gic' = gic \ {v} /\ Idle("Q")
    BY <1>1 DEF TakeIrq
  <2>2. \A u \in Usarts : Clearing(u) = {} /\ Clearing(u)' = {}
    BY <2>1 DEF Clearing
  <2>3. \A u \in Usarts : Cause(u) => Cause(u)'
    BY <2>1 DEF Cause, Notifies, vars, kernVars, thVars
  <2>4. \A u \in Usarts : Covered(u, status[u])'
    BY <2>1, <2>2, <2>3 DEF Covered, IrqInv, vars, statVars
  <2> QED BY <2>1, <2>4 DEF IrqInv, Idle, vars, kernVars, thVars
<1>2. CASE IsrRead
  <2>1. /\ UNCHANGED <<vars, gic, isr_usart>> /\ isr = "read" /\ isr' = "clear"
        /\ isr_status' = status[isr_usart] /\ Idle("Q")
    BY <1>2 DEF IsrRead, IrqInv
  <2>2. \A u \in Usarts : Clearing(u) = {}
    BY <2>1 DEF Clearing
  <2>3. \A u \in Usarts \ {isr_usart} : Cause(u) => Cause(u)'
    BY <2>1 DEF Cause, Notifies, vars, kernVars, thVars
  <2>4. Clearing(isr_usart)' = status[isr_usart]
    BY <2>1 DEF Clearing
  <2>5. \A u \in Usarts : Covered(u, status[u])'
    BY <2>1, <2>2, <2>3, <2>4 DEF Covered, IrqInv, vars, statVars
  <2> QED BY <2>1, <2>5 DEF IrqInv, Idle, vars, kernVars, thVars
<1>3. CASE IsrClear
  <2>1. /\ W1C(isr_usart, isr_status) /\ Latch /\ UNCHANGED <<isr_usart, isr_status>>
        /\ isr = "clear" /\ isr' = "eoi"
    BY <1>3 DEF IsrClear
  <2>2. /\ pc'["Q"] = "w1c_load" /\ at'["Q"] = isr_usart /\ arg' = isr_status
        /\ UNCHANGED <<status, ready, delta, level, written, new_irq>>
        /\ at'["S"] = at["S"] /\ ~new_irq["Q"]
    BY <2>1 DEF W1C, Start, Idle, statVars, kernVars, SysTypeInv, TypeInv, ThreadType, Threads,
       Locals, LocalsOf, UpdPlaces
  <2>3. \A u \in Usarts : Clearing(u)' = Clearing(u)
    BY <2>1, <2>2 DEF Clearing
  <2>4. \A u \in Usarts : Cause(u) => Cause(u)'
    BY <2>1, <2>2 DEF Cause, Notifies, Latch, Threads
  <2>5. \A u \in Usarts : Covered(u, status[u])'
    BY <2>2, <2>3, <2>4 DEF Covered, IrqInv
  <2> QED BY <2>1, <2>2, <2>5 DEF IrqInv
<1>4. CASE IsrReturn
  <2>1. UNCHANGED <<vars, gic, isr_usart>> /\ isr = "eoi" /\ isr' = "none" /\ Idle("Q")
    BY <1>4 DEF IsrReturn
  <2>2. \A u \in Usarts : Clearing(u) = {} /\ Clearing(u)' = {}
    BY <2>1 DEF Clearing, Idle, vars, thVars
  <2>3. \A u \in Usarts : Cause(u) => Cause(u)'
    BY <2>1 DEF Cause, Notifies, vars, kernVars, thVars
  <2>4. \A u \in Usarts : Covered(u, status[u])'
    BY <2>1, <2>2, <2>3 DEF Covered, IrqInv, vars, statVars
  <2> QED BY <2>1, <2>4 DEF IrqInv, Idle, vars, kernVars, thVars
<1> QED BY <1>1, <1>2, <1>3, <1>4 DEF Isr

LEMMA NextIrq == IrqBound /\ SysTypeInv /\ IrqInv /\ [SysNext]_sysVars => IrqInv'
<1> SUFFICES ASSUME IrqBound, SysTypeInv, IrqInv, [SysNext]_sysVars PROVE IrqInv'
  OBVIOUS
<1>1. CASE UNCHANGED sysVars
  BY <1>1 DEF IrqInv, Covered, Clearing, Cause, Notifies, Idle, sysVars, isrVars, vars,
     statVars, kernVars, thVars
<1> QED BY <1>1, WatchedIrq, IsrIrq DEF SysNext

LEMMA InitIrq == SysInit => IrqInv
<1> SUFFICES ASSUME SysInit PROVE IrqInv
  OBVIOUS
<1>1. /\ \A u \in Usarts : written[u] = {} /\ level[u] = {} /\ status[u] = {}
      /\ pc["Q"] = "idle" /\ isr = "none"
  BY DEF SysInit, Init, Threads
<1>2. \A u \in Usarts : Covered(u, status[u])
  BY <1>1 DEF Covered
<1> QED BY <1>1, <1>2 DEF IrqInv

\* No interrupt is lost while its STATUS bit stands: not by consecutive events,
\* not between the two deltas of the pulse, not by the read-modify-write of
\* either thread, and not between the handler's read and its clear.
THEOREM NoInterruptIsLost == IrqBound => (SysSpec => []NoStrandedStatus)
<1> SUFFICES ASSUME IrqBound PROVE SysSpec => []NoStrandedStatus
  OBVIOUS
<1>1. IrqInv => NoStrandedStatus
  BY DEF IrqInv, Covered, NoStrandedStatus
<1>2. SysTypeInv /\ IrqInv /\ [SysNext]_sysVars => IrqInv'
  BY NextIrq
<1> QED BY SysTypeInit, SysTypeNext, InitIrq, <1>1, <1>2, PTL DEF SysSpec
=============================================================================
