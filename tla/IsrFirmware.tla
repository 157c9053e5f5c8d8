----------------------------- MODULE IsrFirmware -----------------------------
(* The interrupt test suite hello_isr.c on one vCPU: isr_main() and its tests *)
(* as scripts, wait_n() with its WFI, and irq_handler(), which may interrupt  *)
(* the program at every instruction.  Of the two USARTs of usart2.h it keeps  *)
(* STATUS, RBUF and the frames on the line: S, the scheduler, and Q, the vCPU *)
(* thread in b_transport(), each set and clear STATUS by a load and a store,  *)
(* and each report ends in an edge at the GIC.  What two updates of the event *)
(* counts do to each other is the subject of Usart2Events; here raced says    *)
(* that the threads have met in STATUS or in the counts.                      *)
EXTENDS Integers, Sequences, FiniteSets

CONSTANTS
    Masks,        \* the values of TEST_MASK, as sets of test numbers
    LogSize,      \* LOG_SIZE
    WaitLimit,    \* the iterations of wait_n()
    PastRace      \* bound: does the program go on once the threads have met?

ASSUME IsrFirmwareAssumption ==
    /\ Masks \subseteq SUBSET (1..5)
    /\ LogSize \in Nat /\ WaitLimit \in Nat /\ PastRace \in BOOLEAN

Usarts == {"A", "B"}
Peer(u) == IF u = "A" THEN "B" ELSE "A"
BITS == <<"TBIR", "TIR", "RIR", "EIR">>

-----------------------------------------------------------------------------
(* The tests, as sequences of instructions *)

Clear(u) == [op |-> "clear", usart |-> u]
Base == [op |-> "base"]
Send(u, b) == [op |-> "send", usart |-> u, byte |-> b]
Wait == [op |-> "wait"]
Find(E) == [op |-> "find", events |-> E]
ReadRbuf(u, b) == [op |-> "read", usart |-> u, byte |-> b]
Drain(u) == [op |-> "drain", usart |-> u]

\* The three events of a byte sent by u and received by its peer
Sent(u) == {<<u, "TBIR">>, <<u, "TIR">>, <<Peer(u), "RIR">>}

Exchange(u, b) ==
    <<Base, Send(u, b), Wait, Find(Sent(u)), ReadRbuf(Peer(u), b)>>

Begin == <<Clear("A"), Clear("B")>>

Tests == <<
    Begin \o Exchange("A", 85),
    Begin \o Exchange("B", 170),
    Begin \o <<Base, Send("A", 17), Wait, Find({<<"B", "RIR">>}),
               Base, Send("A", 34), Wait, Find({<<"B", "EIR">>}), Drain("B")>>,
    Begin \o Exchange("A", 222) \o Exchange("A", 173)
          \o Exchange("A", 190) \o Exchange("A", 239),
    Begin \o <<Base, Send("A", 90), Wait, Find(Sent("A"))>> >>

-----------------------------------------------------------------------------

VARIABLES
    status,         \* m_status of each USART
    rbuf,           \* its RBUF, 0 when empty
    sending,        \* the USARTs with a frame on the line ...
    arriving,       \* ... and the byte each is receiving, 0 for none
    update,         \* S's report in progress: none, or its one record
    notified,       \* the USARTs whose m_irq_event is on its way to an edge
    gic,            \* the USARTs whose interrupt is pending
    ld,             \* the STATUS that Q has loaded and not yet stored
    main,           \* what the vCPU does outside of irq_handler()
    mask, test,     \* the tests to run, and the one running
    todo,           \* the instructions it has left
    base, waits,    \* its local base, and i of wait_n()
    g_log_count,    \* how many events irq_handler() logged
    logged,         \* g_log[base] and later, the records find_event() looks at
    failed,         \* the tests that called fail_test()
    isr, isr_usart, isr_status,
    raced           \* history: the threads have met in STATUS or in the counts

device == <<status, rbuf, sending, arriving, update, notified>>
program == <<main, mask, test, todo, base, waits, failed>>
handler == <<isr, isr_usart, isr_status>>
log == <<g_log_count, logged>>
vars == <<device, gic, ld, program, log, handler, raced>>

Init ==
    /\ status = [u \in Usarts |-> {}] /\ rbuf = [u \in Usarts |-> 0]
    /\ sending = {} /\ arriving = [u \in Usarts |-> 0]
    /\ update = {} /\ notified = {} /\ gic = {} /\ ld = {}
    /\ main = "run" /\ mask \in Masks /\ test = 0 /\ todo = <<>>
    /\ base = 0 /\ waits = 0 /\ failed = {}
    /\ g_log_count = 0 /\ logged = {}
    /\ isr = "none" /\ isr_usart = "A" /\ isr_status = {}
    /\ raced = FALSE

-----------------------------------------------------------------------------
(* S: the USARTs, the bridge and the interrupt line *)

Update(u, b) == [usart |-> u, bit |-> b, copy |-> status[u], stored |-> FALSE]

\* Q is reporting the TBIR of a byte it writes to u.
Reporting(u) == main \in {"tbir_load", "tbir_store"} /\ Head(todo).usart = u

\* txDoneMethod() and tir_auto_method() at the end of a frame that u sends: S
\* loads STATUS to set TIR.
TirLoad(u) ==
    /\ update = {} /\ u \in sending
    /\ sending' = sending \ {u}
    /\ update' = {Update(u, "TIR")}
    /\ UNCHANGED <<status, rbuf, arriving, notified, gic, ld, program, log, handler,
                   raced>>

\* rx_done_method() at the end of a frame that u receives, an overrun if RBUF
\* was not read: S loads STATUS to set RIR or EIR.
RxLoad(u) ==
    /\ update = {} /\ arriving[u] # 0
    /\ arriving' = [arriving EXCEPT ![u] = 0]
    /\ rbuf' = [rbuf EXCEPT ![u] = IF @ = 0 THEN arriving[u] ELSE @]
    /\ update' = {Update(u, IF rbuf[u] = 0 THEN "RIR" ELSE "EIR")}
    /\ raced' = (raced \/ Reporting(u))
    /\ UNCHANGED <<status, sending, notified, gic, ld, program, log, handler>>

\* m_status |= bit, from the copy
StoreBit ==
    \E r \in update :
        /\ ~r.stored
        /\ status' = [status EXCEPT ![r.usart] = r.copy \cup {r.bit}]
        /\ raced' = (raced \/ status[r.usart] # r.copy)
        /\ update' = {[r EXCEPT !.stored = TRUE]}
        /\ UNCHANGED <<rbuf, sending, arriving, notified, gic, ld, program, log,
                       handler>>

\* The fired count is stored and m_irq_event notified.
EndUpdate ==
    \E r \in update :
        /\ r.stored
        /\ update' = {}
        /\ notified' = notified \cup {r.usart}
        /\ UNCHANGED <<status, rbuf, sending, arriving, gic, ld, program, log,
                       handler, raced>>

\* irq_method() and irq_pulse_method() give the GIC its rising edge.
IrqEdge(u) ==
    /\ update = {} /\ u \in notified
    /\ notified' = notified \ {u}
    /\ gic' = gic \cup {u}
    /\ UNCHANGED <<status, rbuf, sending, arriving, update, ld, program, log, handler,
                   raced>>

Scheduler == StoreBit \/ EndUpdate
             \/ \E u \in Usarts : TirLoad(u) \/ RxLoad(u) \/ IrqEdge(u)

-----------------------------------------------------------------------------
(* irq_handler() *)

\* What the vCPU does inside b_transport() it finishes before an interrupt.
InAccess == main \in {"clearing", "tbir_load", "tbir_store", "send"}

\* The acknowledge.  The vCPU may execute a few instructions before it takes a
\* pending interrupt, but none after one has woken it from WFI.
TakeIrq(u) ==
    /\ isr = "none" /\ u \in gic
    /\ ~InAccess
    /\ gic' = gic \ {u}
    /\ isr' = "read" /\ isr_usart' = u
    /\ main' = IF main = "asleep" THEN "run" ELSE main
    /\ waits' = IF main = "asleep" THEN waits + 1 ELSE waits
    /\ UNCHANGED <<device, ld, mask, test, todo, base, failed, log, isr_status, raced>>

IsrRead ==
    /\ isr = "read"
    /\ isr_status' = status[isr_usart]
    /\ isr' = "clear"
    /\ UNCHANGED <<device, gic, ld, program, log, isr_usart, raced>>

\* The bits among the first n of a status read, in the handler's order
FirstOf(bits, n) ==
    {b \in bits : \E i \in DOMAIN BITS :
        BITS[i] = b /\ Cardinality({k \in 1..i : BITS[k] \in bits}) <= n}

LoggedFirst(bits) == FirstOf(bits, 1)      \* mutant: one record for each interrupt

\* The bits that get a record, as far as the log goes
Logged(bits) == FirstOf(bits, LogSize - g_log_count)

\* The W1C, m_status &= ~wval, is a load ...
IsrLoad ==
    /\ isr = "clear"
    /\ ld' = status[isr_usart]
    /\ isr' = "store"
    /\ UNCHANGED <<device, gic, program, log, isr_usart, isr_status, raced>>

\* ... and a store; then the bits are logged.
IsrStore ==
    /\ isr = "store"
    /\ status' = [status EXCEPT ![isr_usart] = ld \ isr_status]
    /\ raced' = (raced \/ status[isr_usart] # ld)
    /\ g_log_count' = g_log_count + Cardinality(Logged(isr_status))
    /\ logged' = logged \cup {<<isr_usart, b>> : b \in Logged(isr_status)}
    /\ isr' = "none" /\ isr_status' = {} /\ ld' = {}
    /\ UNCHANGED <<rbuf, sending, arriving, update, notified, gic, program, isr_usart>>

Handler == IsrRead \/ IsrLoad \/ IsrStore \/ \E u \in Usarts : TakeIrq(u)

-----------------------------------------------------------------------------
(* isr_main() and the tests *)

\* The program executes; its next instruction has this opcode.
Runs == main = "run" /\ isr = "none"
At(op) == Runs /\ todo # <<>> /\ Head(todo).op = op

Continue == todo' = Tail(todo) /\ UNCHANGED failed
FailTest == todo' = <<>> /\ failed' = failed \cup {test}

Advance(ok) == IF ok THEN Continue ELSE FailTest

NextTest ==
    /\ Runs /\ todo = <<>> /\ mask # {}
    /\ test' = CHOOSE n \in mask : \A k \in mask : n <= k
    /\ mask' = mask \ {test'}
    /\ todo' = Tests[test']
    /\ UNCHANGED <<device, gic, ld, main, base, waits, failed, log, handler, raced>>

Exit ==
    /\ Runs /\ todo = <<>> /\ mask = {}
    /\ main' = "done"
    /\ UNCHANGED <<device, gic, ld, mask, test, todo, base, waits, failed, log, handler,
                   raced>>

\* test_begin()'s W1C of all the bits of one USART: a load ...
ClearLoad ==
    /\ At("clear")
    /\ ld' = status[Head(todo).usart]
    /\ main' = "clearing"
    /\ UNCHANGED <<device, gic, mask, test, todo, base, waits, failed, log, handler,
                   raced>>

\* ... and a store.
ClearStore ==
    /\ main = "clearing"
    /\ LET u == Head(todo).usart IN
       /\ status' = [status EXCEPT ![u] = {}]
       /\ raced' = (raced \/ status[u] # ld)
    /\ main' = "run" /\ ld' = {}
    /\ Continue
    /\ UNCHANGED <<rbuf, sending, arriving, update, notified, gic, mask, test, base, waits,
                   log, handler>>

SetBase ==
    /\ At("base")
    /\ base' = g_log_count
    /\ logged' = {}
    /\ Continue
    /\ UNCHANGED <<device, gic, ld, main, mask, test, waits, g_log_count, handler, raced>>

\* The store to TBUF: the byte leaves and its frame is on the line.  A report of
\* RIR or EIR that S has not ended on the same USART is now seen by both threads.
SendByte ==
    /\ At("send")
    /\ LET u == Head(todo).usart IN
       /\ sending' = sending \cup {u}
       /\ arriving' = [arriving EXCEPT ![Peer(u)] = Head(todo).byte]
       /\ raced' = (raced \/ \E r \in update : r.usart = u /\ r.bit # "TIR")
    /\ main' = "tbir_load"
    /\ waits' = 0
    /\ UNCHANGED <<status, rbuf, update, notified, gic, ld, mask, test, todo, base, failed,
                   log, handler>>

\* update_status_from_core() on the vCPU thread: m_status |= TBIR
TbirLoad ==
    /\ main = "tbir_load"
    /\ ld' = status[Head(todo).usart]
    /\ main' = "tbir_store"
    /\ UNCHANGED <<device, gic, mask, test, todo, base, waits, failed, log, handler,
                   raced>>

TbirStore ==
    /\ main = "tbir_store"
    /\ LET u == Head(todo).usart IN
       /\ status' = [status EXCEPT ![u] = ld \cup {"TBIR"}]
       /\ notified' = notified \cup {u}
       /\ raced' = (raced \/ status[u] # ld)
    /\ main' = "send" /\ ld' = {}
    /\ Continue
    /\ UNCHANGED <<rbuf, sending, arriving, update, gic, mask, test, base, waits, log,
                   handler>>

\* b_transport() sleeps before it returns, for a time of the host that may or
\* may not outlast the frame.
SendReturns ==
    /\ main = "send"
    /\ main' = "run"
    /\ UNCHANGED <<device, gic, ld, mask, test, todo, base, waits, failed, log, handler,
                   raced>>

Enough == g_log_count >= base + 3

\* wait_n(base + 3) at the head of its loop
WaitCheck ==
    /\ At("wait")
    /\ IF waits < WaitLimit /\ ~Enough
       THEN main' = "wfi" /\ UNCHANGED <<todo, failed>>
       ELSE Advance(waits < WaitLimit) /\ UNCHANGED main
    /\ UNCHANGED <<device, gic, ld, mask, test, base, waits, log, handler, raced>>

Wfi ==
    /\ main = "wfi" /\ isr = "none"
    /\ main' = "asleep"
    /\ UNCHANGED <<device, gic, ld, mask, test, todo, base, waits, failed, log, handler,
                   raced>>

FindEvents ==
    /\ At("find")
    /\ Advance(Head(todo).events \subseteq logged)
    /\ UNCHANGED <<device, gic, ld, main, mask, test, base, waits, log, handler, raced>>

\* mutant: the read leaves the byte in RBUF
ReadKeepsByte ==
    /\ At("read") \/ At("drain")
    /\ Advance(Head(todo).op = "read" => rbuf[Head(todo).usart] = Head(todo).byte)
    /\ UNCHANGED <<device, gic, ld, main, mask, test, base, waits, log, handler, raced>>

\* A read of RBUF, with or without a look at the byte
ReadByte ==
    /\ At("read") \/ At("drain")
    /\ Advance(Head(todo).op = "read" => rbuf[Head(todo).usart] = Head(todo).byte)
    /\ rbuf' = [rbuf EXCEPT ![Head(todo).usart] = 0]
    /\ UNCHANGED <<status, sending, arriving, update, notified, gic, ld, main, mask, test,
                   base, waits, log, handler, raced>>

Program ==
    \/ NextTest \/ Exit \/ ClearLoad \/ ClearStore \/ SetBase
    \/ SendByte \/ TbirLoad \/ TbirStore \/ SendReturns
    \/ WaitCheck \/ Wfi \/ FindEvents \/ ReadByte

GoesOn == raced => PastRace

Next == GoesOn /\ (Scheduler \/ Handler \/ Program)

Spec == Init /\ [][Next]_vars

\* The scheduler and the vCPU go on; an interrupt that stays pending is taken.
FairSpec == /\ Spec
            /\ WF_vars(GoesOn /\ Scheduler)
            /\ WF_vars(GoesOn /\ Program)
            /\ WF_vars(GoesOn /\ Handler)

-----------------------------------------------------------------------------
(* Properties *)

\* The vCPU never sleeps in wait_n() for events that are in the log already,
\* with no interrupt left to wake it: "This is reliable regardless of timing:
\* the CPU genuinely sleeps until the interrupt arrives" (hello_isr.c:712).
SleepsOnlyForEvents == main = "asleep" => ~Enough \/ gic # {} \/ notified # {}

\* Each test is self-contained, "regardless of what ran before"
\* (hello_isr.c:516): under every TEST_MASK the events counted by wait_n() are
\* those of the test's own byte, and the byte read is the one sent, for as long
\* as the threads have not met in STATUS.
FailuresNeedARace == failed # {} => raced

\* Until then no event is lost between irq_handler()'s read of STATUS and its
\* clear, nor by a test's clears: a vCPU that sleeps for events that are not in
\* the log has an interrupt, an edge, a report or a frame on its way.
SleeperIsOwed ==
    main = "asleep" /\ ~Enough /\ ~raced =>
        \/ gic # {} \/ notified # {} \/ update # {} \/ sending # {}
        \/ \E u \in Usarts : arriving[u] # 0

\* Whatever the devices' speed, the suite reaches the exiter, unless the threads
\* meet in STATUS or it hangs in the one way that SleepsOnlyForEvents excludes.
SuiteEnds == <>(main = "done" \/ raced \/ ~SleepsOnlyForEvents)

-----------------------------------------------------------------------------
(* What the comments say and the code does not do *)

\* "Read and atomically clear all STATUS bits from the triggering USART"
\* (hello_isr.c:263), so that no test would ever fail.
NoTestFails == failed = {}
=============================================================================
