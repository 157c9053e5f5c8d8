------------------------------- MODULE Usart2 --------------------------------
(* The Usart2 wrapper (usart2.h) around the core (Usart.cc), for a set of     *)
(* USARTs cross-wired by the SerialBridge, at the grain at which its two OS   *)
(* threads interleave.  Q is the QEMU vCPU thread: it runs b_transport() and, *)
(* inside it, the core's register accesses.  S is the SystemC scheduler: it   *)
(* runs one SC_METHOD at a time.  Nothing in the code orders a step of one    *)
(* against a step of the other, so each read-modify-write of state that both  *)
(* threads touch is a load and a store.  Time is abstract: a timed event      *)
(* falls due at any instant that has no delta cycle left to run.              *)
EXTENDS Integers, Sequences, FiniteSets

CONSTANTS
    Usarts,       \* the USART instances
    Peer,         \* the bridge: whose receiver a USART's transmitter feeds
    Bytes,        \* the bytes the driver sends; 0 is not one of them
    Driven,       \* the registers of each USART that the driver accesses
    ConValues,    \* the CON flags it writes (mode 1)
    W1cValues,    \* the sets of bits it writes to STATUS
    MaxWrites,    \* bound on the TBUF writes to each USART
    CountMod,     \* the event counters are unsigned int: 2^32 in the code
    EarlyTbuf,    \* may the driver write TBUF while CON.R = 0?
    LateBus,      \* may a bus access be two clocks or more ahead of the kernel?
    IrqBound      \* is the irq output wired to a GIC?

Flags == {"REN", "OEN", "R", "OE"}
StatusBits == {"TBIR", "TIR", "RIR", "EIR"}
Registers == {"TBUF", "RBUF", "CON", "STATUS", "other"}

ASSUME Usart2Assumption ==
    /\ Usarts # {} /\ Peer \in [Usarts -> Usarts]
    /\ \A u, v \in Usarts : Peer[u] = Peer[v] => u = v
    /\ Bytes \subseteq Nat \ {0}
    /\ ConValues \subseteq SUBSET Flags
    /\ Driven \in [Usarts -> SUBSET Registers]
    /\ W1cValues \subseteq SUBSET StatusBits
    /\ MaxWrites \in Nat
    /\ CountMod \in Nat \ {0}
    /\ {EarlyTbuf, LateBus, IrqBound} \subseteq BOOLEAN

Threads == {"Q", "S"}

VARIABLES
    \* the core
    con,                 \* m_con
    tbuf_full,           \* m_tbuf_full
    tsr_busy,            \* m_tsr_busy
    rbuf_full, rbuf,     \* m_rbuf_full, m_rbuf
    asserted,            \* the IRQs whose m_<irq>_assert_time is not zero
    tir_fire_count,      \* m_tir_fire_count
    \* the wrapper
    status,              \* m_status
    count,               \* m_tbuf_write_count, m_rx_accept_count, m_rx_overrun_count
    fired,               \* m_tbir/tir/rir/eir_fired_count
    rxd_pending_q,       \* m_rxd_pending_q
    rxd_busy,            \* m_rxd_busy
    rxd_frame_byte,      \* m_rxd_frame_byte
    wire,                \* bytes the bridge holds for a USART's rx_receive()
    \* the SystemC kernel
    ready,               \* processes to run in this delta cycle
    delta,               \* notifications for the next delta cycle
    timed,               \* timed notifications
    written, level,      \* the "tir" and "irq" ports: last written, and as seen
    \* the threads
    pc, at,              \* where a thread is, and on which USART
    ret,                 \* where it goes on after update_status_from_core()
    todo,                \* the STATUS bits it still has to look at there
    ld,                  \* the register it has loaded and not yet stored
    ld_count,            \* the event count it has loaded and not yet stored
    new_irq,             \* its local new_irq
    arg                  \* Q: the value it is writing to STATUS

coreVars == <<con, tbuf_full, tsr_busy, rbuf_full, rbuf, asserted, tir_fire_count>>
statVars == <<status, count, fired>>
rxVars   == <<rxd_pending_q, rxd_busy, rxd_frame_byte, wire>>
kernVars == <<ready, delta, timed, written, level>>
thVars   == <<pc, at, ret, todo, ld, ld_count, new_irq, arg>>
vars     == <<coreVars, statVars, rxVars, kernVars, thVars>>

\* Which counter reports which bit, in update_status_from_core() and
\* tir_auto_method().
Counters == {"TBIR", "RIR", "EIR"}

CountOf(u, b) == IF b = "TIR" THEN tir_fire_count[u] ELSE count[u][b]

Incr(n) == (n + 1) % CountMod

Init ==
    /\ con = [u \in Usarts |-> {}]
    /\ tbuf_full = [u \in Usarts |-> FALSE]
    /\ tsr_busy = [u \in Usarts |-> FALSE]
    /\ rbuf_full = [u \in Usarts |-> FALSE]
    /\ rbuf = [u \in Usarts |-> 0]
    /\ asserted = [u \in Usarts |-> {}]
    /\ tir_fire_count = [u \in Usarts |-> 0]
    /\ status = [u \in Usarts |-> {}]
    /\ count = [u \in Usarts |-> [b \in Counters |-> 0]]
    /\ fired = [u \in Usarts |-> [b \in StatusBits |-> 0]]
    /\ rxd_pending_q = [u \in Usarts |-> <<>>]
    /\ rxd_busy = [u \in Usarts |-> FALSE]
    /\ rxd_frame_byte = [u \in Usarts |-> 0]
    /\ wire = [u \in Usarts |-> <<>>]
    /\ ready = {} /\ delta = {} /\ timed = {}
    /\ written = [u \in Usarts |-> {}] /\ level = [u \in Usarts |-> {}]
    /\ pc = [t \in Threads |-> "idle"]
    /\ at = [t \in Threads |-> CHOOSE u \in Usarts : TRUE]
    /\ ret = [t \in Threads |-> "idle"]
    /\ todo = [t \in Threads |-> <<>>]
    /\ ld = [t \in Threads |-> {}]
    /\ ld_count = [t \in Threads |-> 0]
    /\ new_irq = [t \in Threads |-> FALSE]
    /\ arg = {}

-----------------------------------------------------------------------------
(* Helpers *)

Idle(t) == pc[t] = "idle"

\* Thread t moves on to p, staying on the USART it serves.
Goto(t, p) == pc' = [pc EXCEPT ![t] = p]

\* Thread t starts p on USART u.
Start(t, p, u) == /\ pc' = [pc EXCEPT ![t] = p]
                  /\ at' = [at EXCEPT ![t] = u]

\* Thread t enters update_status_from_core() (or the body of
\* tir_auto_method()) for the bits bs and goes on at r.
EnterUpdate(t, bs, r) ==
    /\ pc' = [pc EXCEPT ![t] = "upd"]
    /\ todo' = [todo EXCEPT ![t] = bs]
    /\ ret' = [ret EXCEPT ![t] = r]

UpdateWithoutRir == <<"TBIR", "EIR">>        \* mutant

UpdateWithoutTbir == <<"RIR", "EIR">>        \* mutant

UpdateOrder == <<"TBIR", "RIR", "EIR">>

\* assertIrq(): the assert time, the port (only tir has a process listening to
\* it), the falling edge in the next delta cycle.
AssertIrq(u, i) ==
    /\ asserted' = [asserted EXCEPT ![u] = @ \cup {i}]
    /\ written' = [written EXCEPT ![u] = IF i = "TIR" THEN @ \cup {"tir"} ELSE @]
    /\ delta' = delta \cup {<<"IrqDeassert", u>>}

\* advance(): the pulses that may be stale for a bus access on u.
Stale(u) == IF LateBus /\ "R" \in con[u] THEN SUBSET asserted[u] ELSE {{}}

Expire(u, x) ==
    /\ asserted' = [asserted EXCEPT ![u] = @ \ x]
    /\ written' = [written EXCEPT ![u] = IF "TIR" \in x THEN @ \ {"tir"} ELSE @]

-----------------------------------------------------------------------------
(* update_status_from_core(), run by either thread *)

UpdPlaces == {"upd", "upd_load", "upd_store", "upd_count", "upd_fired"}

\* A bit fires when its counter has moved on, and RIR and EIR only while
\* their pulse is still asserted.
Fires(u, b) == /\ b \in {"RIR", "EIR"} => b \in asserted[u]
               /\ CountOf(u, b) > fired[u][b]

UpdTest(t) ==
    /\ pc[t] = "upd" /\ todo[t] # <<>>
    /\ IF Fires(at[t], Head(todo[t]))
       THEN Goto(t, "upd_load") /\ UNCHANGED todo
       ELSE todo' = [todo EXCEPT ![t] = Tail(@)] /\ UNCHANGED pc
    /\ UNCHANGED <<coreVars, statVars, rxVars, kernVars, at, ret, ld,
                   ld_count, new_irq, arg>>

UpdLoad(t) ==
    /\ pc[t] = "upd_load"
    /\ ld' = [ld EXCEPT ![t] = status[at[t]]]
    /\ Goto(t, "upd_store")
    /\ UNCHANGED <<coreVars, statVars, rxVars, kernVars, at, ret, todo,
                   ld_count, new_irq, arg>>

UpdStore(t) ==
    /\ pc[t] = "upd_store"
    /\ status' = [status EXCEPT ![at[t]] = ld[t] \cup {Head(todo[t])}]
    /\ new_irq' = [new_irq EXCEPT ![t] = TRUE]
    /\ ld' = [ld EXCEPT ![t] = {}]
    /\ Goto(t, "upd_count")
    /\ UNCHANGED <<coreVars, count, fired, rxVars, kernVars, at, ret, todo,
                   ld_count, arg>>

\* m_xxx_fired_count = m_xxx_count, a load and a store.  tir_auto_method() has
\* loaded its count before its test, but only S itself moves that count.
UpdCount(t) ==
    /\ pc[t] = "upd_count"
    /\ ld_count' = [ld_count EXCEPT ![t] = CountOf(at[t], Head(todo[t]))]
    /\ Goto(t, "upd_fired")
    /\ UNCHANGED <<coreVars, statVars, rxVars, kernVars, at, ret, todo, ld,
                   new_irq, arg>>

UpdFired(t) ==
    /\ pc[t] = "upd_fired"
    /\ fired' = [fired EXCEPT ![at[t]][Head(todo[t])] = ld_count[t]]
    /\ todo' = [todo EXCEPT ![t] = Tail(@)]
    /\ ld_count' = [ld_count EXCEPT ![t] = 0]
    /\ Goto(t, "upd")
    /\ UNCHANGED <<coreVars, status, count, rxVars, kernVars, at, ret, ld,
                   new_irq, arg>>

\* mutant: new_irq outlives the call
UpdEndKeepsNewIrq(t) ==
    /\ pc[t] = "upd" /\ todo[t] = <<>>
    /\ delta' = IF new_irq[t] /\ IrqBound
                THEN delta \cup {<<"Irq", at[t]>>} ELSE delta
    /\ Goto(t, ret[t])
    /\ ret' = [ret EXCEPT ![t] = "idle"]
    /\ UNCHANGED <<coreVars, statVars, rxVars, ready, timed, written, level,
                   at, todo, ld, ld_count, new_irq, arg>>

\* m_irq_event.notify(SC_ZERO_TIME)
UpdEnd(t) ==
    /\ pc[t] = "upd" /\ todo[t] = <<>>
    /\ delta' = IF new_irq[t] /\ IrqBound
                THEN delta \cup {<<"Irq", at[t]>>} ELSE delta
    /\ new_irq' = [new_irq EXCEPT ![t] = FALSE]
    /\ Goto(t, ret[t])
    /\ ret' = [ret EXCEPT ![t] = "idle"]
    /\ UNCHANGED <<coreVars, statVars, rxVars, ready, timed, written, level,
                   at, todo, ld, ld_count, arg>>

-----------------------------------------------------------------------------
(* Q: the driver's bus accesses *)

\* loadTSR(), reduced to what the wrapper and the other thread can see.  The
\* frame has no duration if R was cleared meanwhile: m_tx_done_ev is then due in
\* the next delta cycle, and an earlier notification always overrides.
LoadTSR(u) ==
    /\ tsr_busy' = [tsr_busy EXCEPT ![u] = TRUE]
    /\ tbuf_full' = [tbuf_full EXCEPT ![u] = FALSE]
    /\ asserted' = [asserted EXCEPT ![u] = @ \cup {"TBIR"}]
    /\ LET done == <<"TxDone", u>>  soon == done \in delta \/ "R" \notin con[u] IN
       /\ delta' = delta \cup {<<"IrqDeassert", u>>} \cup (IF soon THEN {done} ELSE {})
       /\ timed' = IF soon THEN timed \ {done} ELSE timed \cup {done}
    /\ UNCHANGED <<con, rbuf_full, rbuf, tir_fire_count, ready, written, level>>

\* TBUF write: the byte goes to the backend before the core sees the write.
\* Only update_status_from_core() on u reads the counter, never the wire, so
\* force_send() and the increment are one step.
WriteTbuf(u, b) ==
    /\ Idle("Q")
    /\ count[u]["TBIR"] < MaxWrites
    /\ EarlyTbuf \/ "R" \in con[u]
    /\ wire' = [wire EXCEPT ![Peer[u]] = Append(@, b)]
    /\ count' = [count EXCEPT ![u]["TBIR"] = Incr(@)]
    /\ Start("Q", "tbuf", u)
    /\ UNCHANGED <<coreVars, status, fired, rxd_pending_q, rxd_busy, rxd_frame_byte,
                   kernVars, ret, todo, ld, ld_count, new_irq, arg>>

\* advance(), then regWrite(TBUF): ignored when full.
TbufWrite ==
    /\ pc["Q"] = "tbuf"
    /\ \E x \in Stale(at["Q"]) : Expire(at["Q"], x)
    /\ IF tbuf_full[at["Q"]]
       THEN EnterUpdate("Q", UpdateOrder, "idle") /\ UNCHANGED tbuf_full
       ELSE /\ tbuf_full' = [tbuf_full EXCEPT ![at["Q"]] = TRUE]
            /\ Goto("Q", "tbuf_test")
            /\ UNCHANGED <<todo, ret>>
    /\ UNCHANGED <<con, tsr_busy, rbuf_full, rbuf, tir_fire_count, statVars, rxVars,
                   ready, delta, timed, level, at, ld, ld_count, new_irq, arg>>

StartsAtOnce(u) == ~tsr_busy[u] /\ "R" \in con[u]

TbufTest ==
    /\ pc["Q"] = "tbuf_test"
    /\ IF StartsAtOnce(at["Q"])
       THEN Goto("Q", "tbuf_load") /\ UNCHANGED <<todo, ret>>
       ELSE EnterUpdate("Q", UpdateOrder, "idle")
    /\ UNCHANGED <<coreVars, statVars, rxVars, kernVars, at, ld, ld_count,
                   new_irq, arg>>

TbufLoad ==
    /\ pc["Q"] = "tbuf_load"
    /\ LoadTSR(at["Q"])
    /\ EnterUpdate("Q", UpdateOrder, "idle")
    /\ UNCHANGED <<statVars, rxVars, at, ld, ld_count, new_irq, arg>>

\* RBUF read: get_rbuf_raw(), then the two stores of clear_rbuf().
RbufGet(u) ==
    /\ Idle("Q")
    /\ Start("Q", "rbuf_full", u)
    /\ UNCHANGED <<coreVars, statVars, rxVars, kernVars, ret, todo, ld,
                   ld_count, new_irq, arg>>

RbufClearFull ==
    /\ pc["Q"] = "rbuf_full"
    /\ rbuf_full' = [rbuf_full EXCEPT ![at["Q"]] = FALSE]
    /\ Goto("Q", "rbuf_raw")
    /\ UNCHANGED <<con, tbuf_full, tsr_busy, rbuf, asserted, tir_fire_count, statVars,
                   rxVars, kernVars, at, ret, todo, ld, ld_count, new_irq, arg>>

RbufClearRaw ==
    /\ pc["Q"] = "rbuf_raw"
    /\ rbuf' = [rbuf EXCEPT ![at["Q"]] = 0]
    /\ Goto("Q", "idle")
    /\ UNCHANGED <<con, tbuf_full, tsr_busy, rbuf_full, asserted, tir_fire_count,
                   statVars, rxVars, kernVars, at, ret, todo, ld, ld_count, new_irq, arg>>

\* CON write: OE does not survive it.
WriteCon(u, c) ==
    /\ Idle("Q")
    /\ con' = [con EXCEPT ![u] = c \ {"OE"}]
    /\ \E x \in Stale(u) : Expire(u, x)
    /\ at' = [at EXCEPT !["Q"] = u]
    /\ EnterUpdate("Q", UpdateOrder, "idle")
    /\ UNCHANGED <<tbuf_full, tsr_busy, rbuf_full, rbuf, tir_fire_count,
                   statVars, rxVars,
                   ready, delta, timed, level, ld, ld_count, new_irq, arg>>

\* Every other access that is forwarded to the core: BG, FDR, CON read...
OtherAccess(u) ==
    /\ Idle("Q")
    /\ \E x \in Stale(u) : Expire(u, x)
    /\ at' = [at EXCEPT !["Q"] = u]
    /\ EnterUpdate("Q", UpdateOrder, "idle")
    /\ UNCHANGED <<con, tbuf_full, tsr_busy, rbuf_full, rbuf, tir_fire_count, statVars,
                   rxVars, ready, delta, timed, level, ld, ld_count, new_irq, arg>>

\* STATUS write-1-to-clear of w: m_status &= ~wval
W1C(u, w) ==
    /\ Idle("Q")
    /\ arg' = w
    /\ Start("Q", "w1c_load", u)
    /\ UNCHANGED <<coreVars, statVars, rxVars, kernVars, ret, todo, ld,
                   ld_count, new_irq>>

W1cLoad ==
    /\ pc["Q"] = "w1c_load"
    /\ ld' = [ld EXCEPT !["Q"] = status[at["Q"]]]
    /\ Goto("Q", "w1c_store")
    /\ UNCHANGED <<coreVars, statVars, rxVars, kernVars, at, ret, todo,
                   ld_count, new_irq, arg>>

W1cStore ==
    /\ pc["Q"] = "w1c_store"
    /\ status' = [status EXCEPT ![at["Q"]] = ld["Q"] \ arg]
    /\ arg' = {} /\ ld' = [ld EXCEPT !["Q"] = {}]
    /\ Goto("Q", "idle")
    /\ UNCHANGED <<coreVars, count, fired, rxVars, kernVars, at, ret, todo,
                   ld_count, new_irq>>

-----------------------------------------------------------------------------
(* S: the receiver *)

\* The bridge and the backend socket hand over n bytes; rx_receive() queues them.
Deliver(u, n) ==
    /\ Idle("S")
    /\ rxd_pending_q' = [rxd_pending_q EXCEPT ![u] = @ \o SubSeq(wire[u], 1, n)]
    /\ wire' = [wire EXCEPT ![u] = SubSeq(@, n + 1, Len(@))]
    /\ Start("S", "rx_next", u)
    /\ UNCHANGED <<coreVars, statVars, rxd_busy, rxd_frame_byte, kernVars,
                   ret, todo, ld, ld_count, new_irq, arg>>

CanStartWhileBusy(u) == rxd_pending_q[u] # <<>>       \* mutant

\* rxd_try_start() has a byte to start and the receiver is free.
CanStartRx(u) == ~rxd_busy[u] /\ rxd_pending_q[u] # <<>>

RxIdle ==
    /\ pc["S"] = "rx_next" /\ ~CanStartRx(at["S"])
    /\ Goto("S", "idle")
    /\ UNCHANGED <<coreVars, statVars, rxVars, kernVars, at, ret, todo, ld,
                   ld_count, new_irq, arg>>

\* A frame takes no time while R is clear: the byte is injected at once.
RxStart ==
    /\ pc["S"] = "rx_next"
    /\ LET u == at["S"] IN
       /\ CanStartRx(u)
       /\ rxd_frame_byte' = [rxd_frame_byte EXCEPT ![u] = Head(rxd_pending_q[u])]
       /\ rxd_pending_q' = [rxd_pending_q EXCEPT ![u] = Tail(@)]
       /\ IF "R" \in con[u]
          THEN /\ rxd_busy' = [rxd_busy EXCEPT ![u] = TRUE]
               /\ timed' = timed \cup {<<"RxDone", u>>}
               /\ Goto("S", "idle")
          ELSE Goto("S", "inject") /\ UNCHANGED <<rxd_busy, timed>>
    /\ UNCHANGED <<coreVars, statVars, wire, ready, delta, written, level,
                   at, ret, todo, ld, ld_count, new_irq, arg>>

\* The scheduler dispatches a process of u whose event has fired.
Dispatch(e, u) == /\ Idle("S") /\ <<e, u>> \in ready
                  /\ ready' = ready \ {<<e, u>>}

\* mutant: m_rxd_busy is not cleared
RxDoneStaysBusy(u) ==
    /\ Dispatch("RxDone", u)
    /\ Start("S", "inject", u)
    /\ UNCHANGED <<coreVars, statVars, rxVars, delta, timed, written, level,
                   ret, todo, ld, ld_count, new_irq, arg>>

\* rx_done_method(): the frame has ended, its byte is injected.
RxDone(u) ==
    /\ Dispatch("RxDone", u)
    /\ rxd_busy' = [rxd_busy EXCEPT ![u] = FALSE]
    /\ Start("S", "inject", u)
    /\ UNCHANGED <<coreVars, statVars, rxd_pending_q, rxd_frame_byte, wire,
                   delta, timed, written, level, ret, todo, ld, ld_count, new_irq, arg>>

Receives(u) == {"R", "REN"} \subseteq con[u]

\* mutant: the queue is not looked at again after a refused byte
RefusedStops(u) ==
    /\ count' = [count EXCEPT ![u]["EIR"] = Incr(@)]
    /\ EnterUpdate("S", UpdateOrder, "idle")

\* rx_inject() returned false: the overrun is counted and reported.
Refused(u) ==
    /\ count' = [count EXCEPT ![u]["EIR"] = Incr(@)]
    /\ EnterUpdate("S", UpdateOrder, "rx_next")

InjectDropped ==
    /\ pc["S"] = "inject" /\ ~Receives(at["S"])
    /\ Refused(at["S"])
    /\ UNCHANGED <<coreVars, status, fired, rxVars, kernVars, at, ld,
                   ld_count, new_irq, arg>>

\* m_con.fields.OE = 1u is a read-modify-write of the whole of m_con.
InjectOverrun ==
    /\ pc["S"] = "inject" /\ Receives(at["S"]) /\ rbuf_full[at["S"]]
    /\ ld' = [ld EXCEPT !["S"] = con[at["S"]]]
    /\ Goto("S", "oe_store")
    /\ UNCHANGED <<coreVars, statVars, rxVars, kernVars, at, ret, todo,
                   ld_count, new_irq, arg>>

OeStore ==
    /\ pc["S"] = "oe_store"
    /\ con' = [con EXCEPT ![at["S"]] = ld["S"] \cup {"OE"}]
    /\ ld' = [ld EXCEPT !["S"] = {}]
    /\ Goto("S", "oe_irq")
    /\ UNCHANGED <<tbuf_full, tsr_busy, rbuf_full, rbuf, asserted, tir_fire_count,
                   statVars, rxVars, kernVars, at, ret, todo, ld_count, new_irq, arg>>

OeIrq ==
    /\ pc["S"] = "oe_irq"
    /\ IF "OEN" \in con[at["S"]] THEN AssertIrq(at["S"], "EIR")
                                  ELSE UNCHANGED <<asserted, written, delta>>
    /\ Refused(at["S"])
    /\ UNCHANGED <<con, tbuf_full, tsr_busy, rbuf_full, rbuf, tir_fire_count, status,
                   fired, rxVars, ready, timed, level, at, ld, ld_count, new_irq, arg>>

InjectByte ==
    /\ pc["S"] = "inject" /\ Receives(at["S"]) /\ ~rbuf_full[at["S"]]
    /\ rbuf' = [rbuf EXCEPT ![at["S"]] = rxd_frame_byte[at["S"]]]
    /\ Goto("S", "inj_full")
    /\ UNCHANGED <<con, tbuf_full, tsr_busy, rbuf_full, asserted, tir_fire_count,
                   statVars, rxVars, kernVars, at, ret, todo, ld, ld_count, new_irq, arg>>

InjectFull ==
    /\ pc["S"] = "inj_full"
    /\ rbuf_full' = [rbuf_full EXCEPT ![at["S"]] = TRUE]
    /\ AssertIrq(at["S"], "RIR")
    /\ count' = [count EXCEPT ![at["S"]]["RIR"] = Incr(@)]
    /\ EnterUpdate("S", UpdateOrder, "rx_next")
    /\ UNCHANGED <<con, tbuf_full, tsr_busy, rbuf, tir_fire_count, status, fired,
                   rxVars, ready, timed, level, at, ld, ld_count, new_irq, arg>>

-----------------------------------------------------------------------------
(* S: the transmitter *)

\* txDoneMethod(), up to its test of m_tbuf_full
TxDone(u) ==
    /\ Dispatch("TxDone", u)
    /\ IF "R" \notin con[u]
       THEN UNCHANGED <<coreVars, delta, written, pc, at>>
       ELSE /\ AssertIrq(u, "TIR")
            /\ tir_fire_count' = [tir_fire_count EXCEPT ![u] = Incr(@)]
            /\ tsr_busy' = [tsr_busy EXCEPT ![u] = FALSE]
            /\ Start("S", "txd_test", u)
            /\ UNCHANGED <<con, tbuf_full, rbuf_full, rbuf>>
    /\ UNCHANGED <<statVars, rxVars, timed, level, ret, todo, ld, ld_count,
                   new_irq, arg>>

\* mutant: the byte that waits in TBUF is not chained
TxdTestNoChain ==
    /\ pc["S"] = "txd_test"
    /\ Goto("S", "idle")
    /\ UNCHANGED <<coreVars, statVars, rxVars, kernVars, at, ret, todo, ld,
                   ld_count, new_irq, arg>>

\* The rest of txDoneMethod(): chain the byte that waits.
TxdTest ==
    /\ pc["S"] = "txd_test"
    /\ Goto("S", IF tbuf_full[at["S"]] THEN "txd_load" ELSE "idle")
    /\ UNCHANGED <<coreVars, statVars, rxVars, kernVars, at, ret, todo, ld,
                   ld_count, new_irq, arg>>

TxdLoad ==
    /\ pc["S"] = "txd_load"
    /\ LoadTSR(at["S"])
    /\ Goto("S", "idle")
    /\ UNCHANGED <<statVars, rxVars, at, ret, todo, ld, ld_count, new_irq, arg>>

\* tir_auto_method() acts on the rising edge of m_sig_tir only.
TirAuto(u) ==
    /\ Dispatch("TirAuto", u)
    /\ IF "tir" \in level[u]
       THEN /\ EnterUpdate("S", <<"TIR">>, "idle")
            /\ at' = [at EXCEPT !["S"] = u]
       ELSE UNCHANGED <<pc, at, todo, ret>>
    /\ UNCHANGED <<coreVars, statVars, rxVars, delta, timed, written, level,
                   ld, ld_count, new_irq, arg>>

IrqDeassert(u) ==
    /\ Dispatch("IrqDeassert", u)
    /\ Expire(u, asserted[u])
    /\ UNCHANGED <<con, tbuf_full, tsr_busy, rbuf_full, rbuf, tir_fire_count, statVars,
                   rxVars, delta, timed, level, thVars>>

-----------------------------------------------------------------------------
(* S: the irq output and the scheduler *)

\* irq->write(v): the signal socket hands it on at once.
DriveIrq(u, v) ==
    LET port(p) == [p EXCEPT ![u] = IF v THEN @ \cup {"irq"} ELSE @ \ {"irq"}]
    IN  written' = port(written) /\ level' = port(level)

\* mutant: irq is driven HIGH without being driven LOW first
IrqMethodNoLow(u) ==
    /\ Dispatch("Irq", u)
    /\ DriveIrq(u, TRUE)
    /\ delta' = delta \cup {<<"IrqPulse", u>>}
    /\ UNCHANGED <<coreVars, statVars, rxVars, timed, thVars>>

\* irq_method() and irq_pulse_method(): LOW in one delta cycle, HIGH in the next.
IrqMethod(u) ==
    /\ Dispatch("Irq", u)
    /\ DriveIrq(u, FALSE)
    /\ delta' = delta \cup {<<"IrqPulse", u>>}
    /\ UNCHANGED <<coreVars, statVars, rxVars, timed, thVars>>

IrqPulse(u) ==
    /\ Dispatch("IrqPulse", u)
    /\ DriveIrq(u, TRUE)
    /\ UNCHANGED <<coreVars, statVars, rxVars, delta, timed, thVars>>

\* The end of a delta cycle: signals take their new values, and what was
\* notified for the next cycle runs in it.
DeltaCycle ==
    /\ Idle("S") /\ ready = {}
    /\ delta # {} \/ written # level
    /\ ready' = delta \cup {<<"TirAuto", u>> : u \in
                    {v \in Usarts : ("tir" \in written[v]) # ("tir" \in level[v])}}
    /\ delta' = {}
    /\ level' = written
    /\ UNCHANGED <<coreVars, statVars, rxVars, timed, written, thVars>>

\* The next instant: some timed notifications fall due together.
AdvanceTime ==
    /\ Idle("S") /\ ready = {} /\ delta = {} /\ written = level
    /\ \E due \in (SUBSET timed) \ {{}} :
          /\ ready' = due
          /\ timed' = timed \ due
    /\ UNCHANGED <<coreVars, statVars, rxVars, delta, written, level, thVars>>

-----------------------------------------------------------------------------

\* What the driver may start, and how a bus access goes on.
Driver(u) ==
    \/ "TBUF" \in Driven[u] /\ \E b \in Bytes : WriteTbuf(u, b)
    \/ "RBUF" \in Driven[u] /\ RbufGet(u)
    \/ "CON" \in Driven[u] /\ \E c \in ConValues : WriteCon(u, c)
    \/ "other" \in Driven[u] /\ OtherAccess(u)
    \/ "STATUS" \in Driven[u] /\ \E w \in W1cValues : W1C(u, w)

Access == TbufWrite \/ TbufTest \/ TbufLoad \/ RbufClearFull \/ RbufClearRaw
          \/ W1cLoad \/ W1cStore

Update(t) == UpdTest(t) \/ UpdLoad(t) \/ UpdStore(t) \/ UpdCount(t) \/ UpdFired(t)
             \/ UpdEnd(t)

\* A process goes on, or one whose event has fired is dispatched.
Process ==
    \/ RxIdle \/ RxStart \/ InjectDropped \/ InjectOverrun \/ OeStore \/ OeIrq
    \/ InjectByte \/ InjectFull \/ TxdTest \/ TxdLoad
    \/ \E u \in Usarts : RxDone(u) \/ TxDone(u) \/ TirAuto(u) \/ IrqDeassert(u)
                         \/ IrqMethod(u) \/ IrqPulse(u)

Bridge(u) == \E n \in 1..Len(wire[u]) : Deliver(u, n)

Kernel == Process \/ Update("S") \/ (\E u \in Usarts : Bridge(u)) \/ DeltaCycle \/ AdvanceTime

Next == (\E u \in Usarts : Driver(u)) \/ Access \/ Update("Q") \/ Kernel

Spec == Init /\ [][Next]_vars

\* A bus access ends, and the kernel runs what it has to run.  A driver that
\* keeps notifying deltas does not keep the bridge or time from moving.
Fairness ==
    /\ WF_vars(Access \/ Update("Q"))
    /\ WF_vars(Process \/ Update("S") \/ DeltaCycle)
    /\ SF_vars(AdvanceTime)
    /\ \A u \in Usarts : SF_vars(Bridge(u))

FairSpec == Spec /\ Fairness

-----------------------------------------------------------------------------
(* Properties *)

Events == {"IrqDeassert", "TxDone", "RxDone", "Irq", "IrqPulse", "TirAuto"}

\* Type invariant of the core's, the wrapper's and the kernel's state; a thread
\* that has left the code of the model holds no local of it.
TypeOK ==
    /\ con \in [Usarts -> SUBSET Flags]
    /\ tbuf_full \in [Usarts -> BOOLEAN] /\ tsr_busy \in [Usarts -> BOOLEAN]
    /\ rbuf_full \in [Usarts -> BOOLEAN] /\ rbuf \in [Usarts -> Bytes \cup {0}]
    /\ asserted \in [Usarts -> SUBSET StatusBits]
    /\ tir_fire_count \in [Usarts -> 0..CountMod-1]
    /\ status \in [Usarts -> SUBSET StatusBits]
    /\ count \in [Usarts -> [Counters -> 0..CountMod-1]]
    /\ fired \in [Usarts -> [StatusBits -> 0..CountMod-1]]
    /\ \A u \in Usarts : rxd_pending_q[u] \in Seq(Bytes) /\ wire[u] \in Seq(Bytes)
    /\ rxd_busy \in [Usarts -> BOOLEAN] /\ rxd_frame_byte \in [Usarts -> Bytes \cup {0}]
    /\ ready \cup delta \cup timed \subseteq Events \X Usarts
    /\ {written, level} \subseteq [Usarts -> SUBSET {"tir", "irq"}]
    /\ at \in [Threads -> Usarts] /\ arg \subseteq StatusBits
    /\ new_irq \in [Threads -> BOOLEAN]
    /\ ld_count \in [Threads -> 0..CountMod-1]
    /\ \A t \in Threads : Idle(t) => /\ todo[t] = <<>> /\ ld[t] = {}
                                   /\ ld_count[t] = 0 /\ ~new_irq[t]

\* Thread t is at one of the places ps and serves u.
In(t, u, ps) == pc[t] \in ps /\ at[t] = u

Injecting(u) == In("S", u, {"inject", "oe_store", "oe_irq", "inj_full"})

\* The bytes written to u's peer travel to u in order and none is lost or
\* duplicated before rx_inject() accepts or refuses it (force_send(), the
\* bridge, m_rxd_pending_q, m_rxd_frame_byte), whatever the threads interleave.
InFrame(u) == IF rxd_busy[u] \/ Injecting(u) THEN <<rxd_frame_byte[u]>> ELSE <<>>

Link == INSTANCE SerialLink WITH
            Receivers <- Usarts,
            chan      <- [u \in Usarts |-> InFrame(u) \o rxd_pending_q[u] \o wire[u]],
            accepted  <- [u \in Usarts |-> count[u]["RIR"]],
            refused   <- [u \in Usarts |-> count[u]["EIR"]]

ImplementsLink == Link!Spec

\* Under the scheduler's fairness every byte gets there.
EveryByteArrives == Link!FairSpec

\* The chain of frame timers never breaks: a receiver that is busy has its one
\* timer running, and one with bytes queued is busy or about to look at them
\* (rxd_try_start() and rx_done_method()).
ReceiverNeverStalls ==
    \A u \in Usarts :
        /\ rxd_busy[u] <=> <<"RxDone", u>> \in timed \cup ready
        /\ rxd_busy[u] => ~Injecting(u)
        /\ rxd_pending_q[u] # <<>> =>
              \/ rxd_busy[u] \/ Injecting(u) \/ In("S", u, {"rx_next"})
              \/ at["S"] = u /\ ret["S"] = "rx_next"

\* For a driver that keeps R set, the hand-off of TBUF between the two threads
\* never strands a byte: the bus thread tests m_tsr_busy after it set
\* m_tbuf_full, txDoneMethod() tests m_tbuf_full after it cleared m_tsr_busy.
TxHandOff ==
    \A u \in Usarts :
        /\ tbuf_full[u] => \/ tsr_busy[u]
                           \/ In("Q", u, {"tbuf_test", "tbuf_load"})
                           \/ In("S", u, {"txd_test", "txd_load"})
        /\ tsr_busy[u] => <<"TxDone", u>> \in timed \cup ready

\* For the same driver a byte does not stay in TBUF for ever.
HeldByteLeaves == \A u \in Usarts : tbuf_full[u] ~> ~tbuf_full[u]

-----------------------------------------------------------------------------
(* What the comments say and the code does not do *)

\* "Write: write-1-to-clear (W1C) - firmware clears bits after handling"
\* (usart2.h:26): a write of w to STATUS clears no bit outside w.
W1cClearsOnlyWritten ==
    [][pc["Q"] = "w1c_store" /\ pc'["Q"] = "idle" =>
          status[at["Q"]] \ arg \subseteq status'[at["Q"]]]_vars

\* "Direct RBUF accessors - do NOT call advance(), safe from any thread"
\* (Usart.h:118): a full receive buffer holds the byte that filled it.
FullRbufHoldsByte ==
    \A u \in Usarts : rbuf_full[u] /\ ~Injecting(u) => rbuf[u] # 0
=============================================================================
