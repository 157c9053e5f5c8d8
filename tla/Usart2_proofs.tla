---------------------------- MODULE Usart2_proofs -----------------------------
(* Theorems about Usart2 for every set of USARTs, every wiring of the bridge, *)
(* every driver and every interleaving of the two threads.                    *)
EXTENDS Usart2, SequenceTheorems, TLAPS

QPlaces == UpdPlaces \cup {"idle", "tbuf", "tbuf_test", "tbuf_load", "rbuf_full",
                           "rbuf_raw", "w1c_load", "w1c_store"}
SPlaces == UpdPlaces \cup {"idle", "rx_next", "inject", "oe_store", "oe_irq",
                           "inj_full", "txd_test", "txd_load"}

\* What is left of the loop of update_status_from_core(), or tir_auto_method().
Todos == {<<>>, <<"EIR">>, <<"RIR", "EIR">>, <<"TBIR", "RIR", "EIR">>, <<"TIR">>}

Notices == Events \X Usarts

CoreType ==
    /\ con \in [Usarts -> SUBSET Flags]
    /\ tbuf_full \in [Usarts -> BOOLEAN] /\ tsr_busy \in [Usarts -> BOOLEAN]
    /\ rbuf_full \in [Usarts -> BOOLEAN] /\ rbuf \in [Usarts -> Bytes \cup {0}]
    /\ asserted \in [Usarts -> SUBSET StatusBits]
    /\ tir_fire_count \in [Usarts -> 0..CountMod-1]

StatType ==
    /\ status \in [Usarts -> SUBSET StatusBits]
    /\ count \in [Usarts -> [Counters -> 0..CountMod-1]]
    /\ fired \in [Usarts -> [StatusBits -> 0..CountMod-1]]

RxType ==
    /\ rxd_pending_q \in [Usarts -> Seq(Bytes)] /\ wire \in [Usarts -> Seq(Bytes)]
    /\ rxd_busy \in [Usarts -> BOOLEAN] /\ rxd_frame_byte \in [Usarts -> Bytes \cup {0}]

KernType ==
    /\ ready \subseteq Notices /\ delta \subseteq Notices /\ timed \subseteq Notices
    /\ written \in [Usarts -> SUBSET {"tir", "irq"}]
    /\ level \in [Usarts -> SUBSET {"tir", "irq"}]

ThreadType ==
    /\ at \in [Threads -> Usarts] /\ arg \subseteq StatusBits
    /\ new_irq \in [Threads -> BOOLEAN]
    /\ pc \in [Threads -> QPlaces \cup SPlaces]
    /\ pc["Q"] \in QPlaces /\ pc["S"] \in SPlaces
    /\ ret \in [Threads -> {"idle", "rx_next"}] /\ ret["Q"] = "idle"
    /\ todo \in [Threads -> Todos]
    /\ ld \in [Threads -> SUBSET (StatusBits \cup Flags)]
    /\ ld_count \in [Threads -> 0..CountMod-1]

\* The locals of thread t where it stands.
LocalsOf(t) ==
    /\ pc[t] \in UpdPlaces \ {"upd"} => todo[t] # <<>>
    /\ pc[t] \notin UpdPlaces => todo[t] = <<>> /\ ~new_irq[t] /\ ret[t] = "idle"
    /\ pc[t] \notin {"upd_store", "w1c_store", "oe_store"} => ld[t] = {}
    /\ pc[t] \in {"upd_store", "w1c_store"} => ld[t] \subseteq StatusBits
    /\ pc[t] # "upd_fired" => ld_count[t] = 0
    /\ pc[t] = "oe_store" => ld[t] \subseteq Flags

Locals == \A t \in Threads : LocalsOf(t)

TypeInv == CoreType /\ StatType /\ RxType /\ KernType /\ ThreadType /\ Locals

-----------------------------------------------------------------------------
(* The constants *)

LEMMA PeerType == Usarts # {} /\ Peer \in [Usarts -> Usarts]
  BY Usart2Assumption

LEMMA BytesType == Bytes \subseteq Nat \ {0}
  BY Usart2Assumption

LEMMA DriverType == ConValues \subseteq SUBSET Flags /\ W1cValues \subseteq SUBSET StatusBits
  BY Usart2Assumption

LEMMA CountType == CountMod \in Nat \ {0} /\ MaxWrites \in Nat
  BY Usart2Assumption

-----------------------------------------------------------------------------
(* What the handlers share *)

LEMMA CoreStays == CoreType /\ UNCHANGED coreVars => CoreType'
  BY DEF CoreType, coreVars

LEMMA StatStays == StatType /\ UNCHANGED statVars => StatType'
  BY DEF StatType, statVars

LEMMA RxStays == RxType /\ UNCHANGED rxVars => RxType'
  BY DEF RxType, rxVars

LEMMA KernStays == KernType /\ UNCHANGED kernVars => KernType'
  BY DEF KernType, kernVars

LEMMA ThreadsStay ==
    ThreadType /\ Locals /\ UNCHANGED thVars => ThreadType' /\ Locals'
  BY DEF ThreadType, Locals, LocalsOf, thVars

LEMMA NoticeType ==
    ASSUME NEW e \in Events, NEW u \in Usarts PROVE <<e, u>> \in Notices
  BY DEF Notices

LEMMA IncrType == ASSUME NEW n \in Nat PROVE Incr(n) \in 0..CountMod-1
  BY CountType DEF Incr

LEMMA CountIncrType ==
    ASSUME StatType, NEW u \in Usarts, NEW b \in Counters,
           count' = [count EXCEPT ![u][b] = Incr(@)], UNCHANGED <<status, fired>>
    PROVE  StatType'
<1>1. count[u][b] \in Nat
  BY CountType DEF StatType
<1>2. Incr(count[u][b]) \in 0..CountMod-1
  BY <1>1, IncrType
<1>3. count' = [count EXCEPT ![u] = [count[u] EXCEPT ![b] = Incr(count[u][b])]]
  OBVIOUS
<1>4. count[u] \in [Counters -> 0..CountMod-1]
  BY DEF StatType
<1>5. [count[u] EXCEPT ![b] = Incr(count[u][b])] \in [Counters -> 0..CountMod-1]
  BY <1>2, <1>4
<1>6. count' \in [Usarts -> [Counters -> 0..CountMod-1]]
  BY <1>3, <1>5 DEF StatType
<1> QED BY <1>6 DEF StatType

LEMMA ExpireType ==
    ASSUME CoreType, KernType, NEW u \in Usarts, NEW x, Expire(u, x)
    PROVE  /\ asserted' \in [Usarts -> SUBSET StatusBits]
           /\ written' \in [Usarts -> SUBSET {"tir", "irq"}]
  BY DEF CoreType, KernType, Expire

LEMMA AssertIrqType ==
    ASSUME CoreType, KernType, NEW u \in Usarts, NEW i \in StatusBits, AssertIrq(u, i)
    PROVE  /\ asserted' \in [Usarts -> SUBSET StatusBits]
           /\ written' \in [Usarts -> SUBSET {"tir", "irq"}]
           /\ delta' \subseteq Notices
<1>1. <<"IrqDeassert", u>> \in Notices
  BY NoticeType DEF Events
<1>2. delta' \subseteq Notices
  BY <1>1 DEF KernType, AssertIrq
<1>3. asserted' \in [Usarts -> SUBSET StatusBits]
  BY DEF CoreType, AssertIrq
<1>4. written' \in [Usarts -> SUBSET {"tir", "irq"}]
  BY DEF KernType, AssertIrq
<1> QED BY <1>2, <1>3, <1>4

LEMMA LoadTSRType ==
    ASSUME CoreType, KernType, NEW u \in Usarts, LoadTSR(u)
    PROVE  CoreType' /\ KernType'
<1>1. <<"IrqDeassert", u>> \in Notices /\ <<"TxDone", u>> \in Notices
  BY NoticeType DEF Events
<1>2. delta' \subseteq Notices /\ timed' \subseteq Notices
  BY <1>1 DEF KernType, LoadTSR
<1>3. KernType'
  BY <1>2 DEF KernType, LoadTSR
<1>4. asserted' \in [Usarts -> SUBSET StatusBits]
  BY DEF CoreType, LoadTSR, StatusBits
<1>5. CoreType'
  BY <1>4 DEF CoreType, LoadTSR
<1> QED BY <1>3, <1>5

LEMMA TodosFacts ==
    ASSUME NEW td \in Todos, td # <<>>
    PROVE  Tail(td) \in Todos /\ Head(td) \in StatusBits
<1>1. CASE td = <<"EIR">>
  <2>1. Tail(td) = <<>>
    BY <1>1
  <2> QED BY <1>1, <2>1 DEF Todos, StatusBits
<1>2. CASE td = <<"TIR">>
  <2>1. Tail(td) = <<>>
    BY <1>2
  <2> QED BY <1>2, <2>1 DEF Todos, StatusBits
<1>3. CASE td = <<"RIR", "EIR">>
  BY <1>3 DEF Todos, StatusBits
<1>4. CASE td = <<"TBIR", "RIR", "EIR">>
  BY <1>4 DEF Todos, StatusBits
<1> QED BY <1>1, <1>2, <1>3, <1>4 DEF Todos

-----------------------------------------------------------------------------
(* Type correctness, action by action *)

LEMMA InitTypeInv == Init => TypeInv
<1> SUFFICES ASSUME Init PROVE TypeInv
  OBVIOUS
<1>1. CoreType
  BY PeerType, CountType DEF Init, CoreType
<1>2. StatType
  BY CountType DEF Init, StatType
<1>3. RxType
  BY DEF Init, RxType
<1>4. KernType
  BY DEF Init, KernType
<1>5. ThreadType
  BY PeerType, CountType DEF Init, ThreadType, Todos, Threads, QPlaces, SPlaces
<1>6. Locals
  BY DEF Init, Locals, LocalsOf, UpdPlaces
<1> QED BY <1>1, <1>2, <1>3, <1>4, <1>5, <1>6 DEF TypeInv

LEMMA UpdTestType ==
    ASSUME TypeInv, NEW t \in Threads, UpdTest(t) PROVE TypeInv'
<1>1. CoreType' /\ StatType' /\ RxType' /\ KernType'
  BY CoreStays, StatStays, RxStays, KernStays DEF TypeInv, UpdTest
<1>2. CASE Fires(at[t], Head(todo[t]))
  <2>1. ThreadType'
    BY <1>2 DEF TypeInv, UpdTest, Goto, ThreadType, UpdPlaces, QPlaces, SPlaces, Threads
  <2>2. Locals'
    BY <1>2 DEF TypeInv, UpdTest, Goto, ThreadType, Locals, LocalsOf, UpdPlaces
  <2> QED BY <1>1, <2>1, <2>2 DEF TypeInv
<1>3. CASE ~Fires(at[t], Head(todo[t]))
  <2>1. Tail(todo[t]) \in Todos
    BY TodosFacts DEF TypeInv, UpdTest, ThreadType
  <2>2. ThreadType'
    BY <1>3, <2>1 DEF TypeInv, UpdTest, ThreadType
  <2>3. Locals'
    BY <1>3 DEF TypeInv, UpdTest, ThreadType, Locals, LocalsOf, UpdPlaces
  <2> QED BY <1>1, <2>2, <2>3 DEF TypeInv
<1> QED BY <1>2, <1>3

LEMMA UpdLoadType ==
    ASSUME TypeInv, NEW t \in Threads, UpdLoad(t) PROVE TypeInv'
<1>1. CoreType' /\ StatType' /\ RxType' /\ KernType'
  BY CoreStays, StatStays, RxStays, KernStays DEF TypeInv, UpdLoad
<1>2. status[at[t]] \subseteq StatusBits
  BY DEF TypeInv, StatType, ThreadType
<1>3. ThreadType'
  BY <1>2 DEF TypeInv, UpdLoad, Goto, ThreadType, UpdPlaces, QPlaces, SPlaces, Threads
<1>4. ASSUME NEW t2 \in Threads PROVE LocalsOf(t2)'
  BY <1>2 DEF TypeInv, UpdLoad, Goto, ThreadType, Locals, LocalsOf, UpdPlaces
<1> QED BY <1>1, <1>3, <1>4 DEF TypeInv, Locals

LEMMA UpdStoreType ==
    ASSUME TypeInv, NEW t \in Threads, UpdStore(t) PROVE TypeInv'
<1>1. CoreType' /\ RxType' /\ KernType'
  BY CoreStays, RxStays, KernStays DEF TypeInv, UpdStore
<1>2. todo[t] \in Todos /\ todo[t] # <<>> /\ ld[t] \subseteq StatusBits
  BY DEF TypeInv, UpdStore, ThreadType, Locals, LocalsOf, UpdPlaces
<1>3. Head(todo[t]) \in StatusBits
  BY <1>2, TodosFacts
<1>4. StatType'
  BY <1>2, <1>3 DEF TypeInv, UpdStore, StatType
<1>5. ThreadType'
  BY DEF TypeInv, UpdStore, Goto, ThreadType, UpdPlaces, QPlaces, SPlaces, Threads
<1>6. ASSUME NEW t2 \in Threads PROVE LocalsOf(t2)'
  BY <1>2 DEF TypeInv, UpdStore, Goto, ThreadType, Locals, LocalsOf, UpdPlaces
<1> QED BY <1>1, <1>4, <1>5, <1>6 DEF TypeInv, Locals

LEMMA UpdCountType ==
    ASSUME TypeInv, NEW t \in Threads, UpdCount(t) PROVE TypeInv'
<1>1. CoreType' /\ StatType' /\ RxType' /\ KernType'
  BY CoreStays, StatStays, RxStays, KernStays DEF TypeInv, UpdCount
<1>2. at[t] \in Usarts /\ todo[t] \in Todos /\ todo[t] # <<>>
  BY DEF TypeInv, UpdCount, ThreadType, Locals, LocalsOf, UpdPlaces
<1>3. Head(todo[t]) \in StatusBits
  BY <1>2, TodosFacts
<1>4. CountOf(at[t], Head(todo[t])) \in 0..CountMod-1
  BY <1>2, <1>3 DEF TypeInv, CountOf, CoreType, StatType, Counters, StatusBits
<1>5. ThreadType'
  BY <1>4 DEF TypeInv, UpdCount, Goto, ThreadType, UpdPlaces, QPlaces, SPlaces, Threads
<1>6. ASSUME NEW t2 \in Threads PROVE LocalsOf(t2)'
  BY <1>2 DEF TypeInv, UpdCount, Goto, ThreadType, Locals, LocalsOf, UpdPlaces
<1> QED BY <1>1, <1>5, <1>6 DEF TypeInv, Locals

LEMMA UpdFiredType ==
    ASSUME TypeInv, NEW t \in Threads, UpdFired(t) PROVE TypeInv'
<1> DEFINE u == at[t]
           b == Head(todo[t])
<1>1. CoreType' /\ RxType' /\ KernType'
  BY CoreStays, RxStays, KernStays DEF TypeInv, UpdFired
<1>2. /\ u \in Usarts /\ todo[t] \in Todos /\ todo[t] # <<>>
      /\ ld_count[t] \in 0..CountMod-1
  BY DEF TypeInv, UpdFired, ThreadType, Locals, LocalsOf, UpdPlaces
<1>3. Tail(todo[t]) \in Todos /\ b \in StatusBits
  BY <1>2, TodosFacts
<1>4. StatType'
  <2>1. fired' = [fired EXCEPT ![u] = [fired[u] EXCEPT ![b] = ld_count[t]]]
    BY DEF UpdFired
  <2>2. [fired[u] EXCEPT ![b] = ld_count[t]] \in [StatusBits -> 0..CountMod-1]
    BY <1>2, <1>3 DEF TypeInv, StatType
  <2>3. fired' \in [Usarts -> [StatusBits -> 0..CountMod-1]]
    BY <1>2, <2>1, <2>2 DEF TypeInv, StatType
  <2> QED BY <2>3 DEF UpdFired, StatType, TypeInv
<1>5. ThreadType'
  <2>1. todo' \in [Threads -> Todos]
    BY <1>3 DEF TypeInv, UpdFired, ThreadType
  <2>2. ld_count' \in [Threads -> 0..CountMod-1]
    BY CountType DEF TypeInv, UpdFired, ThreadType
  <2> QED BY <2>1, <2>2 DEF TypeInv, UpdFired, Goto, ThreadType, UpdPlaces, QPlaces, SPlaces, Threads
<1>6. ASSUME NEW t2 \in Threads PROVE LocalsOf(t2)'
  BY <1>2 DEF TypeInv, UpdFired, Goto, ThreadType, Locals, LocalsOf, UpdPlaces
<1> QED BY <1>1, <1>4, <1>5, <1>6 DEF TypeInv, Locals

LEMMA UpdEndType ==
    ASSUME TypeInv, NEW t \in Threads, UpdEnd(t) PROVE TypeInv'
<1>1. CoreType' /\ StatType' /\ RxType'
  BY CoreStays, StatStays, RxStays DEF TypeInv, UpdEnd
<1>2. <<"Irq", at[t]>> \in Notices
  BY NoticeType DEF TypeInv, ThreadType, Events
<1>3. KernType'
  BY <1>2 DEF TypeInv, UpdEnd, KernType
<1>4. ThreadType'
  BY DEF TypeInv, UpdEnd, Goto, ThreadType, UpdPlaces, QPlaces, SPlaces, Threads
<1>5. Locals'
  BY DEF TypeInv, UpdEnd, Goto, ThreadType, Locals, LocalsOf, UpdPlaces
<1> QED BY <1>1, <1>3, <1>4, <1>5 DEF TypeInv

LEMMA WriteTbufType ==
    ASSUME TypeInv, NEW u \in Usarts, NEW b \in Bytes, WriteTbuf(u, b) PROVE TypeInv'
<1>1. CoreType' /\ KernType'
  BY CoreStays, KernStays DEF TypeInv, WriteTbuf
<1>2. StatType'
  BY CountIncrType DEF TypeInv, WriteTbuf, Counters
<1>3. wire' \in [Usarts -> Seq(Bytes)]
  <2>1. Peer[u] \in Usarts /\ wire[Peer[u]] \in Seq(Bytes)
    BY PeerType DEF TypeInv, RxType
  <2>2. Append(wire[Peer[u]], b) \in Seq(Bytes)
    BY <2>1
  <2> QED BY <2>1, <2>2 DEF TypeInv, RxType, WriteTbuf
<1>4. RxType'
  BY <1>3 DEF TypeInv, RxType, WriteTbuf
<1>5. ThreadType' /\ Locals'
  BY DEF TypeInv, WriteTbuf, Idle, Start, ThreadType, Locals, LocalsOf, UpdPlaces, QPlaces, SPlaces, Threads
<1> QED BY <1>1, <1>2, <1>4, <1>5 DEF TypeInv

LEMMA TbufWriteType ==
    ASSUME TypeInv, TbufWrite PROVE TypeInv'
<1> DEFINE u == at["Q"]
<1>0. u \in Usarts /\ "Q" \in Threads
  BY DEF TypeInv, ThreadType, Threads
<1>1. StatType' /\ RxType'
  BY StatStays, RxStays DEF TypeInv, TbufWrite
<1>2. /\ asserted' \in [Usarts -> SUBSET StatusBits]
      /\ written' \in [Usarts -> SUBSET {"tir", "irq"}]
  <2>1. PICK x \in Stale(u) : Expire(u, x)
    BY DEF TbufWrite
  <2> QED BY <1>0, <2>1, ExpireType DEF TypeInv
<1>3. KernType'
  BY <1>2 DEF TypeInv, TbufWrite, KernType
<1>4. tbuf_full' \in [Usarts -> BOOLEAN]
  BY <1>0 DEF TypeInv, TbufWrite, CoreType
<1>5. CoreType'
  BY <1>2, <1>4 DEF TypeInv, TbufWrite, CoreType
<1>6. CASE tbuf_full[u]
  BY <1>1, <1>3, <1>5, <1>6 DEF TypeInv, TbufWrite, EnterUpdate, UpdateOrder, ThreadType,
     Locals, LocalsOf, Todos, UpdPlaces, QPlaces, SPlaces, Threads
<1>7. CASE ~tbuf_full[u]
  BY <1>1, <1>3, <1>5, <1>7 DEF TypeInv, TbufWrite, Goto, ThreadType,
     Locals, LocalsOf, UpdPlaces, QPlaces, SPlaces, Threads
<1> QED BY <1>6, <1>7

LEMMA TbufTestType ==
    ASSUME TypeInv, TbufTest PROVE TypeInv'
<1>1. CoreType' /\ StatType' /\ RxType' /\ KernType'
  BY CoreStays, StatStays, RxStays, KernStays DEF TypeInv, TbufTest
<1>2. CASE StartsAtOnce(at["Q"])
  BY <1>1, <1>2 DEF TypeInv, TbufTest, Goto, ThreadType,
     Locals, LocalsOf, UpdPlaces, QPlaces, SPlaces, Threads
<1>3. CASE ~StartsAtOnce(at["Q"])
  BY <1>1, <1>3 DEF TypeInv, TbufTest, EnterUpdate, UpdateOrder, ThreadType,
     Locals, LocalsOf, Todos, UpdPlaces, QPlaces, SPlaces, Threads
<1> QED BY <1>2, <1>3

LEMMA TbufLoadType ==
    ASSUME TypeInv, TbufLoad PROVE TypeInv'
<1>1. StatType' /\ RxType'
  BY StatStays, RxStays DEF TypeInv, TbufLoad
<1>2. CoreType' /\ KernType'
  BY LoadTSRType DEF TypeInv, TbufLoad, ThreadType, Threads
<1>3. ThreadType' /\ Locals'
  BY DEF TypeInv, TbufLoad, EnterUpdate, UpdateOrder, ThreadType,
     Locals, LocalsOf, Todos, UpdPlaces, QPlaces, SPlaces, Threads
<1> QED BY <1>1, <1>2, <1>3 DEF TypeInv

LEMMA RbufType ==
    ASSUME TypeInv, (\E u \in Usarts : RbufGet(u)) \/ RbufClearFull \/ RbufClearRaw
    PROVE  TypeInv'
<1>1. StatType' /\ RxType' /\ KernType'
  BY StatStays, RxStays, KernStays DEF TypeInv, RbufGet, RbufClearFull, RbufClearRaw
<1>2. CoreType'
  BY DEF TypeInv, CoreType, RbufGet, RbufClearFull, RbufClearRaw, coreVars
<1>3. CASE \E u \in Usarts : RbufGet(u)
  BY <1>1, <1>2, <1>3 DEF TypeInv, RbufGet, Idle, Start, ThreadType, Locals, LocalsOf,
     UpdPlaces, QPlaces, SPlaces, Threads
<1>4. CASE RbufClearFull
  BY <1>1, <1>2, <1>4 DEF TypeInv, RbufClearFull, Goto, ThreadType, Locals, LocalsOf,
     UpdPlaces, QPlaces, SPlaces, Threads
<1>5. CASE RbufClearRaw
  BY <1>1, <1>2, <1>5 DEF TypeInv, RbufClearRaw, Goto, ThreadType, Locals, LocalsOf,
     UpdPlaces, QPlaces, SPlaces, Threads
<1> QED BY <1>3, <1>4, <1>5

LEMMA WriteConType ==
    ASSUME TypeInv, NEW u \in Usarts,
           (\E c \in ConValues : WriteCon(u, c)) \/ OtherAccess(u)
    PROVE  TypeInv'
<1>1. StatType' /\ RxType'
  BY StatStays, RxStays DEF TypeInv, WriteCon, OtherAccess
<1>2. /\ asserted' \in [Usarts -> SUBSET StatusBits]
      /\ written' \in [Usarts -> SUBSET {"tir", "irq"}]
  <2>1. PICK x \in Stale(u) : Expire(u, x)
    BY DEF WriteCon, OtherAccess
  <2> QED BY <2>1, ExpireType DEF TypeInv
<1>3. KernType'
  BY <1>2 DEF TypeInv, WriteCon, OtherAccess, KernType
<1>4. con' \in [Usarts -> SUBSET Flags]
  BY DriverType DEF TypeInv, WriteCon, OtherAccess, CoreType
<1>5. CoreType'
  BY <1>2, <1>4 DEF TypeInv, WriteCon, OtherAccess, CoreType
<1>6. /\ Idle("Q") /\ at' = [at EXCEPT !["Q"] = u]
      /\ EnterUpdate("Q", UpdateOrder, "idle") /\ UNCHANGED <<ld, ld_count, new_irq, arg>>
  BY DEF WriteCon, OtherAccess
<1>7. ThreadType' /\ Locals'
  BY <1>6 DEF TypeInv, EnterUpdate, UpdateOrder, Idle, ThreadType, Locals, LocalsOf, Todos,
     UpdPlaces, QPlaces, SPlaces, Threads
<1> QED BY <1>1, <1>3, <1>5, <1>7 DEF TypeInv

LEMMA W1cStepType ==
    ASSUME TypeInv,
           \/ \E u \in Usarts : \E w \in SUBSET StatusBits : W1C(u, w)
           \/ W1cLoad \/ W1cStore
    PROVE  TypeInv'
<1>1. CoreType' /\ RxType' /\ KernType'
  BY CoreStays, RxStays, KernStays DEF TypeInv, W1C, W1cLoad, W1cStore
<1>2. StatType'
  BY DEF TypeInv, StatType, ThreadType, Locals, LocalsOf, Threads, W1C, W1cLoad, W1cStore,
     statVars
<1>3. CASE \E u \in Usarts : \E w \in SUBSET StatusBits : W1C(u, w)
  BY <1>1, <1>2, <1>3 DEF TypeInv, W1C, Idle, Start, ThreadType, Locals,
     LocalsOf, UpdPlaces, QPlaces, SPlaces, Threads
<1>4. CASE W1cLoad
  <2>1. status[at["Q"]] \subseteq StatusBits
    BY DEF TypeInv, StatType, ThreadType, Threads
  <2> QED BY <1>1, <1>2, <1>4, <2>1 DEF TypeInv, W1cLoad, Goto, ThreadType, Locals,
     LocalsOf, UpdPlaces, QPlaces, SPlaces, Threads
<1>5. CASE W1cStore
  BY <1>1, <1>2, <1>5 DEF TypeInv, W1cStore, Goto, ThreadType, Locals,
     LocalsOf, UpdPlaces, QPlaces, SPlaces, Threads
<1> QED BY <1>3, <1>4, <1>5

LEMMA DeliverType ==
    ASSUME TypeInv, NEW u \in Usarts, NEW n \in 1..Len(wire[u]), Deliver(u, n)
    PROVE  TypeInv'
<1>1. CoreType' /\ StatType' /\ KernType'
  BY CoreStays, StatStays, KernStays DEF TypeInv, Deliver
<1>2. /\ SubSeq(wire[u], 1, n) \in Seq(Bytes)
      /\ SubSeq(wire[u], n + 1, Len(wire[u])) \in Seq(Bytes)
  BY DEF TypeInv, RxType
<1>3. rxd_pending_q[u] \o SubSeq(wire[u], 1, n) \in Seq(Bytes)
  BY <1>2 DEF TypeInv, RxType
<1>4. RxType'
  BY <1>2, <1>3 DEF TypeInv, RxType, Deliver
<1>5. ThreadType' /\ Locals'
  BY DEF TypeInv, Deliver, Idle, Start, ThreadType, Locals, LocalsOf, UpdPlaces, QPlaces,
     SPlaces, Threads
<1> QED BY <1>1, <1>4, <1>5 DEF TypeInv

LEMMA RxStartType ==
    ASSUME TypeInv, RxIdle \/ RxStart PROVE TypeInv'
<1> DEFINE u == at["S"]
<1>1. CoreType' /\ StatType'
  BY CoreStays, StatStays DEF TypeInv, RxIdle, RxStart
<1>2. CASE RxIdle
  BY <1>1, <1>2, RxStays, KernStays DEF TypeInv, RxIdle, Goto, ThreadType, Locals, LocalsOf,
     UpdPlaces, QPlaces, SPlaces, Threads
<1>3. CASE RxStart
  <2>1. u \in Usarts /\ rxd_pending_q[u] \in Seq(Bytes) /\ rxd_pending_q[u] # <<>>
    BY <1>3 DEF TypeInv, ThreadType, RxType, Threads, RxStart, CanStartRx
  <2>2. Head(rxd_pending_q[u]) \in Bytes /\ Tail(rxd_pending_q[u]) \in Seq(Bytes)
    BY <2>1
  <2>3. RxType'
    BY <1>3, <2>1, <2>2 DEF TypeInv, RxType, RxStart
  <2>4. <<"RxDone", u>> \in Notices
    BY <2>1, NoticeType DEF Events
  <2>5. KernType'
    BY <1>3, <2>4 DEF TypeInv, KernType, RxStart
  <2>6. Goto("S", "idle") \/ Goto("S", "inject")
    BY <1>3 DEF RxStart
  <2>7. pc["S"] = "rx_next" /\ UNCHANGED <<at, ret, todo, ld, ld_count, new_irq, arg>>
    BY <1>3 DEF RxStart
  <2>8. ThreadType' /\ Locals'
    BY <2>6, <2>7 DEF TypeInv, Goto, ThreadType, Locals, LocalsOf, UpdPlaces, QPlaces,
       SPlaces, Threads
  <2> QED BY <1>1, <2>3, <2>5, <2>8 DEF TypeInv
<1> QED BY <1>2, <1>3

LEMMA RxDoneType ==
    ASSUME TypeInv, NEW u \in Usarts, RxDone(u) PROVE TypeInv'
<1>1. CoreType' /\ StatType'
  BY CoreStays, StatStays DEF TypeInv, RxDone
<1>2. RxType' /\ KernType'
  BY DEF TypeInv, RxDone, Dispatch, RxType, KernType
<1>3. ThreadType' /\ Locals'
  BY DEF TypeInv, RxDone, Dispatch, Idle, Start, ThreadType, Locals, LocalsOf, UpdPlaces,
     QPlaces, SPlaces, Threads
<1> QED BY <1>1, <1>2, <1>3 DEF TypeInv

\* rx_inject() refuses the byte, before or after it has set OE.
LEMMA RefusedType ==
    ASSUME TypeInv, InjectDropped \/ OeIrq PROVE TypeInv'
<1> DEFINE u == at["S"]
<1>1. u \in Usarts /\ "EIR" \in Counters /\ "EIR" \in StatusBits
  BY DEF TypeInv, ThreadType, Threads, Counters, StatusBits
<1>2. RxType'
  BY RxStays DEF TypeInv, InjectDropped, OeIrq
<1>3. StatType'
  BY <1>1, CountIncrType DEF TypeInv, InjectDropped, OeIrq, Refused
<1>4. CoreType' /\ KernType'
  <2>1. CASE AssertIrq(u, "EIR") /\ OeIrq
    BY <1>1, <2>1, AssertIrqType DEF TypeInv, OeIrq, CoreType, KernType
  <2>2. CASE UNCHANGED <<asserted, written, delta>> /\ OeIrq
    BY <2>2 DEF TypeInv, OeIrq, CoreType, KernType
  <2>3. CASE InjectDropped
    BY <2>3, CoreStays, KernStays DEF TypeInv, InjectDropped
  <2> QED BY <2>1, <2>2, <2>3 DEF OeIrq
<1>5. ThreadType' /\ Locals'
  BY DEF TypeInv, InjectDropped, OeIrq, Refused, EnterUpdate, UpdateOrder, ThreadType, Locals,
     LocalsOf, Todos, UpdPlaces, QPlaces, SPlaces, Threads
<1> QED BY <1>2, <1>3, <1>4, <1>5 DEF TypeInv

LEMMA OverrunType ==
    ASSUME TypeInv, InjectOverrun \/ OeStore PROVE TypeInv'
<1>1. StatType' /\ RxType' /\ KernType'
  BY StatStays, RxStays, KernStays DEF TypeInv, InjectOverrun, OeStore
<1>2. con[at["S"]] \subseteq Flags
  BY DEF TypeInv, CoreType, ThreadType, Threads
<1>3. CASE InjectOverrun
  <2>1. CoreType'
    BY <1>3, CoreStays DEF TypeInv, InjectOverrun
  <2>2. ThreadType' /\ Locals'
    BY <1>2, <1>3 DEF TypeInv, InjectOverrun, Goto, ThreadType, Locals, LocalsOf, UpdPlaces,
       QPlaces, SPlaces, Threads
  <2> QED BY <1>1, <2>1, <2>2 DEF TypeInv
<1>4. CASE OeStore
  <2>1. CoreType'
    BY <1>4 DEF TypeInv, CoreType, ThreadType, Locals, LocalsOf, Threads, OeStore, Flags
  <2>2. ThreadType' /\ Locals'
    BY <1>4 DEF TypeInv, OeStore, Goto, ThreadType, Locals, LocalsOf, UpdPlaces,
       QPlaces, SPlaces, Threads
  <2> QED BY <1>1, <2>1, <2>2 DEF TypeInv
<1> QED BY <1>3, <1>4

LEMMA InjectType ==
    ASSUME TypeInv, InjectByte \/ InjectFull PROVE TypeInv'
<1> DEFINE u == at["S"]
<1>1. u \in Usarts /\ "RIR" \in Counters /\ "RIR" \in StatusBits
  BY DEF TypeInv, ThreadType, Threads, Counters, StatusBits
<1>2. RxType'
  BY RxStays DEF TypeInv, InjectByte, InjectFull
<1>3. CASE InjectByte
  BY <1>2, <1>3, StatStays, KernStays DEF TypeInv, InjectByte, CoreType, RxType, Goto,
     ThreadType, Locals, LocalsOf, UpdPlaces, QPlaces, SPlaces, Threads
<1>4. CASE InjectFull
  <2>1. StatType'
    BY <1>1, <1>4, CountIncrType DEF TypeInv, InjectFull
  <2>2. AssertIrq(u, "RIR")
    BY <1>4 DEF InjectFull
  <2>3. CoreType' /\ KernType'
    BY <1>1, <1>4, <2>2, AssertIrqType DEF TypeInv, InjectFull, CoreType, KernType
  <2>4. ThreadType' /\ Locals'
    BY <1>4 DEF TypeInv, InjectFull, EnterUpdate, UpdateOrder, ThreadType, Locals,
       LocalsOf, Todos, UpdPlaces, QPlaces, SPlaces, Threads
  <2> QED BY <1>2, <2>1, <2>3, <2>4 DEF TypeInv
<1> QED BY <1>3, <1>4

LEMMA TxDoneType ==
    ASSUME TypeInv, NEW u \in Usarts, TxDone(u) PROVE TypeInv'
<1>1. StatType' /\ RxType'
  BY StatStays, RxStays DEF TypeInv, TxDone
<1>2. CASE "R" \notin con[u]
  BY <1>1, <1>2 DEF TypeInv, TxDone, Dispatch, CoreType, KernType, ThreadType, Locals,
     LocalsOf, coreVars
<1>3. CASE "R" \in con[u]
  <2>1. AssertIrq(u, "TIR") /\ "TIR" \in StatusBits
    BY <1>3 DEF TxDone, StatusBits
  <2>2. tir_fire_count' \in [Usarts -> 0..CountMod-1]
    <3>1. Incr(tir_fire_count[u]) \in 0..CountMod-1
      BY CountType, IncrType DEF TypeInv, CoreType
    <3> QED BY <1>3, <3>1 DEF TypeInv, CoreType, TxDone
  <2>3. CoreType'
    BY <1>3, <2>1, <2>2, AssertIrqType DEF TypeInv, CoreType, TxDone
  <2>4. KernType'
    BY <2>1, AssertIrqType DEF TypeInv, KernType, TxDone, Dispatch
  <2>5. ThreadType' /\ Locals'
    BY <1>3 DEF TypeInv, TxDone, Dispatch, Idle, Start, ThreadType, Locals, LocalsOf,
       UpdPlaces, QPlaces, SPlaces, Threads
  <2> QED BY <1>1, <2>3, <2>4, <2>5 DEF TypeInv
<1> QED BY <1>2, <1>3

LEMMA TxdType ==
    ASSUME TypeInv, TxdTest \/ TxdLoad PROVE TypeInv'
<1>1. StatType' /\ RxType'
  BY StatStays, RxStays DEF TypeInv, TxdTest, TxdLoad
<1>2. CoreType' /\ KernType'
  BY LoadTSRType, CoreStays, KernStays DEF TypeInv, TxdTest, TxdLoad, ThreadType, Threads
<1>3. Goto("S", "idle") \/ Goto("S", "txd_load")
  BY DEF TxdTest, TxdLoad
<1>4. pc["S"] \in {"txd_test", "txd_load"} /\ UNCHANGED <<at, ret, todo, ld, ld_count, new_irq, arg>>
  BY DEF TxdTest, TxdLoad
<1>5. ThreadType' /\ Locals'
  BY <1>3, <1>4 DEF TypeInv, Goto, ThreadType, Locals, LocalsOf, UpdPlaces, QPlaces,
     SPlaces, Threads
<1> QED BY <1>1, <1>2, <1>5 DEF TypeInv

LEMMA TirAutoType ==
    ASSUME TypeInv, NEW u \in Usarts, TirAuto(u) PROVE TypeInv'
<1>1. CoreType' /\ StatType' /\ RxType'
  BY CoreStays, StatStays, RxStays DEF TypeInv, TirAuto
<1>2. KernType'
  BY DEF TypeInv, TirAuto, Dispatch, KernType
<1>3. CASE "tir" \in level[u]
  BY <1>1, <1>2, <1>3 DEF TypeInv, TirAuto, Dispatch, Idle, EnterUpdate, ThreadType, Locals,
     LocalsOf, Todos, UpdPlaces, QPlaces, SPlaces, Threads
<1>4. CASE "tir" \notin level[u]
  BY <1>1, <1>2, <1>4 DEF TypeInv, TirAuto, ThreadType, Locals, LocalsOf
<1> QED BY <1>3, <1>4

LEMMA IrqMethodsType ==
    ASSUME TypeInv, NEW u \in Usarts, IrqDeassert(u) \/ IrqMethod(u) \/ IrqPulse(u)
    PROVE  TypeInv'
<1>1. StatType' /\ RxType' /\ ThreadType' /\ Locals'
  BY StatStays, RxStays, ThreadsStay DEF TypeInv, IrqDeassert, IrqMethod, IrqPulse
<1>2. CASE IrqDeassert(u)
  <2>1. Expire(u, asserted[u])
    BY <1>2 DEF IrqDeassert
  <2> QED BY <1>1, <1>2, <2>1, ExpireType DEF TypeInv, IrqDeassert, Dispatch, CoreType, KernType
<1>3. CASE IrqMethod(u) \/ IrqPulse(u)
  <2>1. <<"IrqPulse", u>> \in Notices
    BY NoticeType DEF Events
  <2>2. ready' \subseteq Notices /\ delta' \subseteq Notices /\ timed' \subseteq Notices
    BY <1>3, <2>1 DEF TypeInv, KernType, IrqMethod, IrqPulse, Dispatch
  <2>3. /\ written' \in [Usarts -> SUBSET {"tir", "irq"}]
        /\ level' \in [Usarts -> SUBSET {"tir", "irq"}]
    BY <1>3 DEF TypeInv, KernType, IrqMethod, IrqPulse, DriveIrq
  <2>4. CoreType'
    BY <1>3, CoreStays DEF TypeInv, IrqMethod, IrqPulse
  <2> QED BY <1>1, <2>2, <2>3, <2>4 DEF TypeInv, KernType
<1> QED BY <1>2, <1>3

LEMMA SchedulerType ==
    ASSUME TypeInv, DeltaCycle \/ AdvanceTime PROVE TypeInv'
<1>1. CoreType' /\ StatType' /\ RxType' /\ ThreadType' /\ Locals'
  BY CoreStays, StatStays, RxStays, ThreadsStay DEF TypeInv, DeltaCycle, AdvanceTime
<1>2. CASE DeltaCycle
  <2>1. \A u \in Usarts : <<"TirAuto", u>> \in Notices
    BY NoticeType DEF Events
  <2>2. ready' \subseteq Notices
    BY <1>2, <2>1 DEF TypeInv, KernType, DeltaCycle
  <2>3. KernType'
    BY <1>2, <2>2 DEF TypeInv, KernType, DeltaCycle
  <2> QED BY <1>1, <2>3 DEF TypeInv
<1>3. CASE AdvanceTime
  <2>1. ready' \subseteq timed /\ timed' \subseteq timed /\ UNCHANGED <<delta, written, level>>
    BY <1>3 DEF AdvanceTime
  <2>2. KernType'
    BY <2>1 DEF TypeInv, KernType
  <2> QED BY <1>1, <2>2 DEF TypeInv
<1> QED BY <1>2, <1>3

LEMMA NextTypeInv == TypeInv /\ [Next]_vars => TypeInv'
<1> SUFFICES ASSUME TypeInv, [Next]_vars PROVE TypeInv'
  OBVIOUS
<1>1. ASSUME NEW u \in Usarts, Driver(u) PROVE TypeInv'
  BY <1>1, WriteTbufType, RbufType, WriteConType, W1cStepType, DriverType DEF Driver
<1>2. CASE Access
  BY <1>2, TbufWriteType, TbufTestType, TbufLoadType, RbufType, W1cStepType DEF Access
<1>3. ASSUME NEW t \in Threads, Update(t) PROVE TypeInv'
  BY <1>3, UpdTestType, UpdLoadType, UpdStoreType, UpdCountType, UpdFiredType, UpdEndType
  DEF Update
<1>4. CASE Process
  BY <1>4, RxStartType, RefusedType, OverrunType, InjectType, TxdType, RxDoneType,
     TxDoneType, TirAutoType, IrqMethodsType DEF Process
<1>5. ASSUME NEW u \in Usarts, Bridge(u) PROVE TypeInv'
  BY <1>5, DeliverType DEF Bridge
<1>6. CASE DeltaCycle \/ AdvanceTime
  BY <1>6, SchedulerType
<1>7. CASE UNCHANGED vars
  BY <1>7, CoreStays, StatStays, RxStays, KernStays, ThreadsStay DEF TypeInv, vars
<1> QED BY <1>1, <1>2, <1>3, <1>4, <1>5, <1>6, <1>7 DEF Next, Kernel, Threads

LEMMA TypeInvImpliesTypeOK == TypeInv => TypeOK
  BY DEF TypeInv, TypeOK, CoreType, StatType, RxType, KernType, ThreadType, Locals, LocalsOf,
     Idle, UpdPlaces, Notices

\* The state of the wrapper, of its core and of the kernel is well typed, and a
\* thread that has left update_status_from_core() or a bus access holds no local.
THEOREM Usart2TypeCorrect == Spec => []TypeOK
  BY InitTypeInv, NextTypeInv, TypeInvImpliesTypeOK, PTL DEF Spec

-----------------------------------------------------------------------------
(* The receiver's chain of frame timers *)

RxEv(u) == <<"RxDone", u>>

\* ReceiverNeverStalls, with what it needs of the timer: it runs once, and is
\* never a delta notification.
RxInv ==
    \A u \in Usarts :
        /\ rxd_busy[u] <=> RxEv(u) \in timed \cup ready
        /\ RxEv(u) \notin timed \cap ready /\ RxEv(u) \notin delta
        /\ rxd_busy[u] => ~Injecting(u)
        /\ rxd_pending_q[u] # <<>> =>
              \/ rxd_busy[u] \/ Injecting(u) \/ In("S", u, {"rx_next"})
              \/ at["S"] = u /\ ret["S"] = "rx_next"

\* The transmitter's events are not the receiver's.
LEMMA LoadTSRNotices ==
    ASSUME NEW v \in Usarts, LoadTSR(v), NEW u \in Usarts
    PROVE  /\ RxEv(u) \in timed' <=> RxEv(u) \in timed
           /\ RxEv(u) \in delta' <=> RxEv(u) \in delta
           /\ ready' = ready
<1>1. CASE <<"TxDone", v>> \in delta \/ "R" \notin con[v]
  BY <1>1 DEF LoadTSR, RxEv
<1>2. CASE ~(<<"TxDone", v>> \in delta \/ "R" \notin con[v])
  BY <1>2 DEF LoadTSR, RxEv
<1> QED BY <1>1, <1>2

LEMMA AssertIrqNotices ==
    ASSUME NEW v, NEW i, AssertIrq(v, i), NEW u
    PROVE  RxEv(u) \in delta' <=> RxEv(u) \in delta
  BY DEF AssertIrq, RxEv

LEMMA UpdateRx ==
    ASSUME TypeInv, RxInv, NEW t \in Threads, Update(t) PROVE RxInv'
<1> USE DEF TypeInv, RxInv, RxEv, In, Injecting, ThreadType, Locals, LocalsOf, Threads,
            UpdPlaces, rxVars, kernVars, Goto
<1>1. CASE UpdTest(t) /\ Fires(at[t], Head(todo[t]))
  BY <1>1 DEF UpdTest
<1>2. CASE UpdTest(t) /\ ~Fires(at[t], Head(todo[t]))
  BY <1>2 DEF UpdTest
<1>3. CASE UpdLoad(t)
  BY <1>3 DEF UpdLoad
<1>4. CASE UpdStore(t)
  BY <1>4 DEF UpdStore
<1>5. CASE UpdEnd(t)
  BY <1>5 DEF UpdEnd
<1>6. CASE UpdCount(t)
  BY <1>6 DEF UpdCount
<1>7. CASE UpdFired(t)
  BY <1>7 DEF UpdFired
<1> QED BY <1>1, <1>2, <1>3, <1>4, <1>5, <1>6, <1>7 DEF Update

\* Nothing that the vCPU thread does moves the scheduler's.
LEMMA BusLeavesS ==
    ASSUME TypeInv, (\E u \in Usarts : Driver(u)) \/ Access
    PROVE  pc'["S"] = pc["S"] /\ at'["S"] = at["S"] /\ ret'["S"] = ret["S"]
<1> USE DEF TypeInv, ThreadType, Threads, Goto, Start, EnterUpdate
<1>1. CASE \E u \in Usarts : Driver(u)
  BY <1>1 DEF Driver, WriteTbuf, RbufGet, WriteCon, OtherAccess, W1C
<1>2. CASE TbufWrite
  <2>1. CASE tbuf_full[at["Q"]]
    BY <1>2, <2>1 DEF TbufWrite
  <2>2. CASE ~tbuf_full[at["Q"]]
    BY <1>2, <2>2 DEF TbufWrite
  <2> QED BY <2>1, <2>2
<1>3. CASE TbufTest
  <2>1. CASE StartsAtOnce(at["Q"])
    BY <1>3, <2>1 DEF TbufTest
  <2>2. CASE ~StartsAtOnce(at["Q"])
    BY <1>3, <2>2 DEF TbufTest
  <2> QED BY <2>1, <2>2
<1>4. CASE TbufLoad \/ RbufClearFull \/ RbufClearRaw \/ W1cLoad \/ W1cStore
  BY <1>4 DEF TbufLoad, RbufClearFull, RbufClearRaw, W1cLoad, W1cStore
<1> QED BY <1>1, <1>2, <1>3, <1>4 DEF Access

\* Nothing that the vCPU thread does concerns the receiver.
LEMMA DriverRx ==
    ASSUME TypeInv, RxInv, (\E u \in Usarts : Driver(u)) \/ Access PROVE RxInv'
<1> USE DEF TypeInv, RxInv, RxEv, In, Injecting, ThreadType, Threads, rxVars, kernVars,
            Goto, Start, EnterUpdate
<1>1. UNCHANGED <<rxd_busy, rxd_pending_q, ready>>
  BY DEF Driver, WriteTbuf, RbufGet, WriteCon, OtherAccess, W1C, Access, TbufWrite, TbufTest,
         TbufLoad, RbufClearFull, RbufClearRaw, W1cLoad, W1cStore, LoadTSR
<1>2. \A u \in Usarts : /\ RxEv(u) \in timed' <=> RxEv(u) \in timed
                        /\ RxEv(u) \in delta' <=> RxEv(u) \in delta
  <2>1. CASE TbufLoad
    BY <2>1, LoadTSRNotices DEF TbufLoad, TypeInv, ThreadType, Threads
  <2>2. CASE ~TbufLoad
    BY <2>2 DEF Driver, WriteTbuf, RbufGet, WriteCon, OtherAccess, W1C, Access, TbufWrite,
       TbufTest, RbufClearFull, RbufClearRaw, W1cLoad, W1cStore
  <2> QED BY <2>1, <2>2
<1> QED BY <1>1, <1>2, BusLeavesS

LEMMA DeliverRx ==
    ASSUME TypeInv, RxInv, NEW v \in Usarts, NEW n \in 1..Len(wire[v]), Deliver(v, n)
    PROVE  RxInv'
  BY DEF TypeInv, RxInv, RxEv, In, Injecting, ThreadType, RxType, Locals, LocalsOf, Threads,
     UpdPlaces, Deliver, Idle, Start, kernVars

LEMMA RxDoneRx ==
    ASSUME TypeInv, RxInv, NEW v \in Usarts, RxDone(v) PROVE RxInv'
  BY DEF TypeInv, RxInv, RxEv, In, Injecting, ThreadType, RxType, Locals, LocalsOf, Threads,
     UpdPlaces, RxDone, Dispatch, Idle, Start, kernVars

LEMMA RxStartRx ==
    ASSUME TypeInv, RxInv, RxIdle \/ RxStart PROVE RxInv'
<1> DEFINE v == at["S"]
<1>1. v \in Usarts /\ pc["S"] = "rx_next" /\ ret["S"] = "idle"
  BY DEF TypeInv, ThreadType, Threads, Locals, LocalsOf, UpdPlaces, RxIdle, RxStart
<1>2. UNCHANGED <<at, ret, ready, delta>>
  BY DEF RxIdle, RxStart, kernVars
<1>3. CASE RxIdle
  <2>1. pc'["S"] = "idle" /\ UNCHANGED <<rxd_busy, rxd_pending_q, timed>>
    BY <1>3 DEF RxIdle, Goto, rxVars, kernVars, TypeInv, ThreadType, Threads
  <2>2. rxd_busy[v] \/ rxd_pending_q[v] = <<>>
    BY <1>3 DEF RxIdle, CanStartRx
  <2> QED BY <1>1, <1>2, <2>1, <2>2 DEF RxInv, In, Injecting
<1>4. CASE RxStart /\ "R" \in con[v]
  <2>1. /\ pc'["S"] = "idle" /\ ~rxd_busy[v]
        /\ rxd_busy' = [rxd_busy EXCEPT ![v] = TRUE] /\ timed' = timed \cup {RxEv(v)}
        /\ \A u \in Usarts \ {v} : rxd_pending_q'[u] = rxd_pending_q[u]
    BY <1>4 DEF RxStart, CanStartRx, Goto, RxEv, TypeInv, ThreadType, RxType, Threads
  <2> QED BY <1>1, <1>2, <2>1 DEF RxInv, RxEv, In, Injecting, TypeInv, RxType
<1>5. CASE RxStart /\ "R" \notin con[v]
  <2>1. /\ pc'["S"] = "inject" /\ ~rxd_busy[v] /\ UNCHANGED <<rxd_busy, timed>>
        /\ \A u \in Usarts \ {v} : rxd_pending_q'[u] = rxd_pending_q[u]
    BY <1>5 DEF RxStart, CanStartRx, Goto, TypeInv, ThreadType, RxType, Threads
  <2> QED BY <1>1, <1>2, <2>1 DEF RxInv, In, Injecting
<1> QED BY <1>3, <1>4, <1>5

LEMMA InjectRx ==
    ASSUME TypeInv, RxInv,
           InjectDropped \/ InjectOverrun \/ OeStore \/ OeIrq \/ InjectByte \/ InjectFull
    PROVE  RxInv'
<1>1. UNCHANGED <<rxd_busy, rxd_pending_q, ready, timed, at>>
  BY DEF InjectDropped, InjectOverrun, OeStore, OeIrq, InjectByte, InjectFull, Refused,
         rxVars, kernVars, AssertIrq
<1>2. \A u \in Usarts : RxEv(u) \in delta' <=> RxEv(u) \in delta
  BY DEF InjectDropped, InjectOverrun, OeStore, OeIrq, InjectByte, InjectFull, RxEv,
         kernVars, AssertIrq
<1>3. pc["S"] \in {"inject", "oe_store", "oe_irq", "inj_full"}
  BY DEF InjectDropped, InjectOverrun, OeStore, OeIrq, InjectByte, InjectFull
<1>4. \/ pc'["S"] \in {"oe_store", "oe_irq", "inj_full"}
      \/ pc'["S"] = "upd" /\ ret'["S"] = "rx_next"
  BY DEF TypeInv, ThreadType, Threads, InjectDropped, InjectOverrun, OeStore, OeIrq,
         InjectByte, InjectFull, Refused, EnterUpdate, Goto
<1> QED BY <1>1, <1>2, <1>3, <1>4 DEF RxInv, In, Injecting

LEMMA TransmitterRx ==
    ASSUME TypeInv, RxInv,
           TxdTest \/ TxdLoad \/ \E u \in Usarts : TxDone(u) \/ TirAuto(u)
    PROVE  RxInv'
<1>1. UNCHANGED <<rxd_busy, rxd_pending_q>>
  BY DEF TxdTest, TxdLoad, TxDone, TirAuto, rxVars
<1>2. \A u \in Usarts : /\ RxEv(u) \in timed' <=> RxEv(u) \in timed
                        /\ RxEv(u) \in ready' <=> RxEv(u) \in ready
                        /\ RxEv(u) \in delta' <=> RxEv(u) \in delta
  <2>1. CASE TxdTest \/ \E u \in Usarts : TirAuto(u)
    BY <2>1 DEF TxdTest, TirAuto, Dispatch, RxEv, kernVars
  <2>2. CASE TxdLoad
    BY <2>2, LoadTSRNotices DEF TxdLoad, TypeInv, ThreadType, Threads
  <2>3. ASSUME NEW v \in Usarts, TxDone(v)
        PROVE  /\ timed' = timed /\ ready' = ready \ {<<"TxDone", v>>}
               /\ AssertIrq(v, "TIR") \/ delta' = delta
    BY <2>3 DEF TxDone, Dispatch
  <2> QED BY <2>1, <2>2, <2>3, AssertIrqNotices DEF RxEv
<1>3. pc["S"] \in {"idle", "txd_test", "txd_load"} /\ ret["S"] = "idle"
  BY DEF TypeInv, ThreadType, Locals, LocalsOf, Threads, UpdPlaces, TxdTest, TxdLoad, TxDone,
         TirAuto, Dispatch, Idle
<1>4. pc'["S"] \in {"idle", "txd_test", "txd_load", "upd"}
  BY DEF TypeInv, ThreadType, Threads, TxdTest, TxdLoad, TxDone, TirAuto, Dispatch, Idle,
         EnterUpdate, Goto, Start
<1> QED BY <1>1, <1>2, <1>3, <1>4 DEF RxInv, In, Injecting

LEMMA SchedulerRx ==
    ASSUME TypeInv, RxInv,
           \/ DeltaCycle \/ AdvanceTime
           \/ \E u \in Usarts : IrqDeassert(u) \/ IrqMethod(u) \/ IrqPulse(u)
    PROVE  RxInv'
<1>1. UNCHANGED <<rxVars, thVars>>
  BY DEF DeltaCycle, AdvanceTime, IrqDeassert, IrqMethod, IrqPulse
<1>2. \A u \in Usarts :
          /\ RxEv(u) \in timed' \cup ready' <=> RxEv(u) \in timed \cup ready
          /\ RxEv(u) \notin timed' \cap ready' /\ RxEv(u) \notin delta'
  <2>1. CASE DeltaCycle
    BY <2>1 DEF DeltaCycle, RxInv, RxEv
  <2>2. CASE AdvanceTime
    BY <2>2 DEF AdvanceTime, RxInv, RxEv
  <2>3. ASSUME NEW v \in Usarts, IrqDeassert(v) \/ IrqMethod(v) \/ IrqPulse(v)
        PROVE  /\ timed' = timed
               /\ \E e \in {"IrqDeassert", "Irq", "IrqPulse"} : ready' = ready \ {<<e, v>>}
               /\ delta' = delta \/ delta' = delta \cup {<<"IrqPulse", v>>}
    <3>1. CASE IrqDeassert(v)
      BY <3>1 DEF IrqDeassert, Dispatch
    <3>2. CASE IrqMethod(v)
      BY <3>2 DEF IrqMethod, Dispatch
    <3>3. CASE IrqPulse(v)
      BY <3>3 DEF IrqPulse, Dispatch
    <3> QED BY <2>3, <3>1, <3>2, <3>3
  <2>4. CASE \E u \in Usarts : IrqDeassert(u) \/ IrqMethod(u) \/ IrqPulse(u)
    BY <2>3, <2>4 DEF RxInv, RxEv
  <2> QED BY <2>1, <2>2, <2>4
<1> QED BY <1>1, <1>2 DEF RxInv, In, Injecting, rxVars, thVars

LEMMA NextRx == TypeInv /\ RxInv /\ [Next]_vars => RxInv'
<1> SUFFICES ASSUME TypeInv, RxInv, [Next]_vars PROVE RxInv'
  OBVIOUS
<1>1. CASE (\E u \in Usarts : Driver(u)) \/ Access
  BY <1>1, DriverRx
<1>2. ASSUME NEW t \in Threads, Update(t) PROVE RxInv'
  BY <1>2, UpdateRx
<1>3. CASE Process
  BY <1>3, RxDoneRx, RxStartRx, InjectRx, TransmitterRx, SchedulerRx DEF Process
<1>4. CASE (\E u \in Usarts : Bridge(u)) \/ DeltaCycle \/ AdvanceTime
  BY <1>4, DeliverRx, SchedulerRx DEF Bridge
<1>5. CASE UNCHANGED vars
  BY <1>5 DEF RxInv, In, Injecting, vars, rxVars, kernVars, thVars
<1> QED BY <1>1, <1>2, <1>3, <1>4, <1>5 DEF Next, Kernel, Threads

LEMMA InitRx == Init => RxInv
  BY DEF Init, RxInv, In, Injecting

\* A receiver that is busy has exactly its one timer, and one with bytes queued
\* is busy or about to look at its queue, whatever the driver and the bridge do:
\* rxd_try_start() and rx_done_method() never break their chain.
THEOREM ReceiverIsNeverStalled == Spec => []ReceiverNeverStalls
<1>1. RxInv => ReceiverNeverStalls
  BY DEF RxInv, RxEv, ReceiverNeverStalls
<1> QED BY InitTypeInv, NextTypeInv, InitRx, NextRx, <1>1, PTL DEF Spec

-----------------------------------------------------------------------------
(* The hand-off of TBUF, for a driver that keeps R set *)

KeepsR == ~EarlyTbuf /\ \A c \in ConValues : "R" \in c

\* An access that leaves R set and sends no byte without it.  Under KeepsR every
\* access is one.
HoldsR ==
    /\ \A u \in Usarts : "R" \in con[u] => "R" \in con'[u]
    /\ \A u \in Usarts, b \in Bytes : WriteTbuf(u, b) => "R" \in con[u]

TxEv(u) == <<"TxDone", u>>

\* Something of u's transmitter is under way.
Sending(u) ==
    \/ tbuf_full[u] \/ tsr_busy[u] \/ TxEv(u) \in timed \cup ready
    \/ In("Q", u, {"tbuf", "tbuf_test", "tbuf_load"})
    \/ In("S", u, {"txd_test", "txd_load"})

\* TxHandOff, with what keeps the end of a frame from being ignored: R is set
\* while anything is sent, also in the copy of CON that the receiver is about
\* to write back with OE.
TxInv ==
    /\ \A u \in Usarts :
          /\ tbuf_full[u] => \/ tsr_busy[u]
                             \/ In("Q", u, {"tbuf_test", "tbuf_load"})
                             \/ In("S", u, {"txd_test", "txd_load"})
          /\ tsr_busy[u] => TxEv(u) \in timed \cup ready
          /\ TxEv(u) \notin delta
          /\ Sending(u) => "R" \in con[u]
    /\ pc["S"] = "oe_store" => "R" \in ld["S"]

LEMMA UpdateTx ==
    ASSUME TypeInv, TxInv, NEW t \in Threads, Update(t) PROVE TxInv'
<1> USE DEF TypeInv, TxInv, Sending, TxEv, In, ThreadType, Threads, Goto, coreVars, kernVars
<1>1. CASE UpdTest(t)
  BY <1>1 DEF UpdTest
<1>2. CASE UpdLoad(t)
  BY <1>2 DEF UpdLoad
<1>3. CASE UpdStore(t)
  BY <1>3 DEF UpdStore
<1>4. CASE UpdEnd(t)
  BY <1>4 DEF UpdEnd
<1>5. CASE UpdCount(t)
  BY <1>5 DEF UpdCount
<1>6. CASE UpdFired(t)
  BY <1>6 DEF UpdFired
<1> QED BY <1>1, <1>2, <1>3, <1>4, <1>5, <1>6 DEF Update

LEMMA TbufTx ==
    ASSUME TypeInv, TxInv, TbufWrite \/ TbufTest \/ TbufLoad PROVE TxInv'
<1> USE DEF TypeInv, TxInv, Sending, TxEv, In, CoreType, KernType, ThreadType, Threads,
            Goto, EnterUpdate, coreVars, kernVars
<1>1. CASE TbufWrite
  BY <1>1 DEF TbufWrite
<1>2. CASE TbufTest
  BY <1>2 DEF TbufTest, StartsAtOnce
<1>3. CASE TbufLoad
  BY <1>3 DEF TbufLoad, LoadTSR
<1> QED BY <1>1, <1>2, <1>3

LEMMA DriverTx ==
    ASSUME TypeInv, TxInv,
           \/ (\E u \in Usarts : Driver(u)) /\ HoldsR
           \/ RbufClearFull \/ RbufClearRaw \/ W1cLoad \/ W1cStore
    PROVE  TxInv'
<1> USE DEF TypeInv, TxInv, Sending, TxEv, In, CoreType, ThreadType, Locals, LocalsOf,
            Threads, Idle, Goto, Start, EnterUpdate, coreVars, kernVars
<1>1. ASSUME HoldsR, NEW u \in Usarts, NEW b \in Bytes, WriteTbuf(u, b) PROVE TxInv'
  <2>1. "R" \in con[u]
    BY <1>1 DEF HoldsR
  <2> QED BY <1>1, <2>1 DEF WriteTbuf
<1>2. ASSUME HoldsR, NEW u \in Usarts, NEW c \in ConValues, WriteCon(u, c) PROVE TxInv'
  <2>1. \A v \in Usarts : "R" \in con[v] => "R" \in con'[v]
    BY <1>2 DEF HoldsR
  <2> QED BY <1>2, <2>1 DEF WriteCon
<1>3. ASSUME NEW u \in Usarts, RbufGet(u) PROVE TxInv'
  BY <1>3 DEF RbufGet
<1>4. ASSUME NEW u \in Usarts, OtherAccess(u) PROVE TxInv'
  BY <1>4 DEF OtherAccess
<1>5. ASSUME NEW u \in Usarts, NEW w \in W1cValues, W1C(u, w) PROVE TxInv'
  BY <1>5 DEF W1C
<1>6. CASE RbufClearFull \/ RbufClearRaw
  BY <1>6 DEF RbufClearFull, RbufClearRaw
<1>7. CASE W1cLoad \/ W1cStore
  BY <1>7 DEF W1cLoad, W1cStore
<1> QED BY <1>1, <1>2, <1>3, <1>4, <1>5, <1>6, <1>7 DEF Driver

LEMMA ReceiverTx ==
    ASSUME TypeInv, TxInv,
           \/ \E u \in Usarts : RxDone(u)
           \/ \E u \in Usarts : \E n \in 1..Len(wire[u]) : Deliver(u, n)
           \/ RxIdle \/ RxStart
    PROVE  TxInv'
<1> USE DEF TypeInv, TxInv, Sending, TxEv, In, ThreadType, Threads, Idle, Goto, Start,
            coreVars, kernVars
<1>1. ASSUME NEW v \in Usarts, RxDone(v) PROVE TxInv'
  BY <1>1 DEF RxDone, Dispatch
<1>2. ASSUME NEW v \in Usarts, NEW n \in 1..Len(wire[v]), Deliver(v, n) PROVE TxInv'
  BY <1>2 DEF Deliver
<1>3. CASE RxIdle
  BY <1>3 DEF RxIdle
<1>4. CASE RxStart
  BY <1>4 DEF RxStart
<1> QED BY <1>1, <1>2, <1>3, <1>4

\* rx_inject() reads R in CON before it writes CON back.
LEMMA InjectTx ==
    ASSUME TypeInv, TxInv,
           InjectDropped \/ InjectOverrun \/ OeStore \/ OeIrq \/ InjectByte \/ InjectFull
    PROVE  TxInv'
<1> USE DEF TypeInv, TxInv, Sending, TxEv, In, CoreType, ThreadType, Threads, Goto,
            EnterUpdate, AssertIrq, Refused, coreVars, kernVars
<1>1. CASE InjectDropped
  BY <1>1 DEF InjectDropped
<1>2. CASE InjectOverrun
  BY <1>2 DEF InjectOverrun, Receives
<1>3. CASE OeStore
  BY <1>3 DEF OeStore
<1>4. CASE OeIrq
  BY <1>4 DEF OeIrq
<1>5. CASE InjectByte
  BY <1>5 DEF InjectByte
<1>6. CASE InjectFull
  BY <1>6 DEF InjectFull
<1> QED BY <1>1, <1>2, <1>3, <1>4, <1>5, <1>6

\* txDoneMethod(): R is set, so the frame's end is not ignored, and a byte that
\* waits is chained.
LEMMA TransmitterTx ==
    ASSUME TypeInv, TxInv, TxdTest \/ TxdLoad \/ \E u \in Usarts : TxDone(u) \/ TirAuto(u)
    PROVE  TxInv'
<1> USE DEF TypeInv, TxInv, Sending, TxEv, In, CoreType, KernType, ThreadType, Threads, Idle,
            Goto, Start, EnterUpdate, coreVars, kernVars
<1>1. CASE TxdTest
  BY <1>1 DEF TxdTest
<1>2. CASE TxdLoad
  BY <1>2 DEF TxdLoad, LoadTSR
<1>3. ASSUME NEW v \in Usarts, TxDone(v) PROVE TxInv'
  <2>1. "R" \in con[v] /\ Idle("S")
    BY <1>3 DEF TxDone, Dispatch
  <2>2. /\ UNCHANGED <<con, tbuf_full, timed, ld>>
        /\ tsr_busy' = [tsr_busy EXCEPT ![v] = FALSE]
        /\ ready' = ready \ {TxEv(v)} /\ delta' = delta \cup {<<"IrqDeassert", v>>}
        /\ pc' = [pc EXCEPT !["S"] = "txd_test"] /\ at' = [at EXCEPT !["S"] = v]
    BY <1>3, <2>1 DEF TxDone, Dispatch, AssertIrq
  <2> QED BY <2>1, <2>2
<1>4. ASSUME NEW v \in Usarts, TirAuto(v) PROVE TxInv'
  BY <1>4 DEF TirAuto, Dispatch
<1> QED BY <1>1, <1>2, <1>3, <1>4

LEMMA SchedulerTx ==
    ASSUME TypeInv, TxInv,
           \/ DeltaCycle \/ AdvanceTime
           \/ \E u \in Usarts : IrqDeassert(u) \/ IrqMethod(u) \/ IrqPulse(u)
    PROVE  TxInv'
<1> USE DEF TypeInv, TxInv, Sending, TxEv, In, thVars, coreVars
<1>1. CASE DeltaCycle
  BY <1>1 DEF DeltaCycle
<1>2. CASE AdvanceTime
  BY <1>2 DEF AdvanceTime
<1>3. ASSUME NEW v \in Usarts, IrqDeassert(v) PROVE TxInv'
  BY <1>3 DEF IrqDeassert, Dispatch
<1>4. ASSUME NEW v \in Usarts, IrqMethod(v) PROVE TxInv'
  BY <1>4 DEF IrqMethod, Dispatch
<1>5. ASSUME NEW v \in Usarts, IrqPulse(v) PROVE TxInv'
  BY <1>5 DEF IrqPulse, Dispatch
<1> QED BY <1>1, <1>2, <1>3, <1>4, <1>5

LEMMA StepTx ==
    ASSUME TypeInv, TxInv,
           \/ (\E u \in Usarts : Driver(u)) /\ HoldsR
           \/ Access \/ (\E t \in Threads : Update(t)) \/ Kernel \/ UNCHANGED vars
    PROVE  TxInv'
<1>1. CASE ((\E u \in Usarts : Driver(u)) /\ HoldsR) \/ Access
  BY <1>1, DriverTx, TbufTx DEF Access
<1>2. ASSUME NEW t \in Threads, Update(t) PROVE TxInv'
  BY <1>2, UpdateTx
<1>3. CASE Process
  BY <1>3, ReceiverTx, InjectTx, TransmitterTx, SchedulerTx DEF Process
<1>4. CASE (\E u \in Usarts : Bridge(u)) \/ DeltaCycle \/ AdvanceTime
  BY <1>4, ReceiverTx, SchedulerTx DEF Bridge
<1>5. CASE UNCHANGED vars
  BY <1>5 DEF TxInv, Sending, In, vars, coreVars, kernVars, thVars
<1> QED BY <1>1, <1>2, <1>3, <1>4, <1>5 DEF Kernel, Threads

LEMMA NextTx == KeepsR /\ TypeInv /\ TxInv /\ [Next]_vars => TxInv'
<1> SUFFICES ASSUME KeepsR, TypeInv, TxInv, [Next]_vars PROVE TxInv'
  OBVIOUS
<1>1. ASSUME NEW u \in Usarts, Driver(u) PROVE HoldsR
  <2>1. \A v \in Usarts : "R" \in con[v] => "R" \in con'[v]
    BY <1>1 DEF Driver, WriteTbuf, RbufGet, WriteCon, OtherAccess, W1C, coreVars, KeepsR, TypeInv,
       CoreType
  <2>2. \A v \in Usarts, b \in Bytes : WriteTbuf(v, b) => "R" \in con[v]
    BY DEF WriteTbuf, KeepsR
  <2> QED BY <2>1, <2>2 DEF HoldsR
<1> QED BY <1>1, StepTx DEF Next, Threads

LEMMA InitTx == Init => TxInv
<1> SUFFICES ASSUME Init PROVE TxInv
  OBVIOUS
<1>1. timed = {} /\ ready = {} /\ delta = {} /\ \A t \in Threads : pc[t] = "idle"
  BY DEF Init
<1>2. \A u \in Usarts : tbuf_full[u] = FALSE /\ tsr_busy[u] = FALSE
  BY DEF Init
<1> QED BY <1>1, <1>2 DEF TxInv, Sending, In, Threads

\* A driver that sets R before its first TBUF write and never clears it finds
\* the two sides of the hand-off agreed at every interleaving: a byte held in
\* TBUF has a frame before it, whose end is on its way, or a thread that is
\* about to load it (regWrite() and txDoneMethod()).
THEOREM HandOffIsSafe == KeepsR => (Spec => []TxHandOff)
<1> SUFFICES ASSUME KeepsR PROVE Spec => []TxHandOff
  OBVIOUS
<1>1. TxInv => TxHandOff
  BY DEF TxInv, TxEv, TxHandOff
<1>2. TypeInv /\ TxInv /\ [Next]_vars => TxInv'
  BY NextTx
<1> QED BY InitTypeInv, NextTypeInv, InitTx, <1>1, <1>2, PTL DEF Spec
=============================================================================
