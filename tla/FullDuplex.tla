----------------------------- MODULE FullDuplex ------------------------------
(* The polling firmware hello_fullduplex.c over the USARTs A and B of Usart2: *)
(* fullduplex_main() as one script per test, wait_status() with its limit,    *)
(* clr_status() and the bus accesses they make.  No interrupt is wired: the   *)
(* vCPU thread polls STATUS while the scheduler sets its bits.  USART C, the  *)
(* console, is reduced to the time a text takes.                              *)
EXTENDS Usart2

CONSTANT Patient         \* does a poll outlast whatever the scheduler has to do?

ASSUME FullDuplexAssumption ==
    /\ Patient \in BOOLEAN
    /\ Usarts = {"A", "B"}
    /\ \A u \in Usarts : Peer[u] # u
    /\ MaxWrites >= 8

VARIABLES
    test, todo_main,     \* the test that runs and the instructions it has left
    ok,                  \* it has neither timed out nor read a wrong byte
    passed, failed,      \* the tests that called pass_test() and fail_test()
    missed               \* the waits that timed out, as <<test, usart, bit>>

progVars == <<test, todo_main, ok, passed, failed, missed>>
fdVars == <<vars, progVars>>

-----------------------------------------------------------------------------
(* The tests, as sequences of instructions *)

CON_INIT == {"REN", "OEN", "R"}

Con(u) == [op |-> "con", usart |-> u]
Clr(u, w) == [op |-> "clr", usart |-> u, bits |-> w]
Wait(u, b) == [op |-> "wait", usart |-> u, bit |-> b]
Read(u, b) == [op |-> "read", usart |-> u, byte |-> b]
Drain(u) == [op |-> "drain", usart |-> u]
Send(u, b) == [op |-> "send", usart |-> u, byte |-> b]

\* put_str(), put_hex(): a text of 17 characters or more goes to the console.
PutStr == [op |-> "put"]

SetUp == <<PutStr, Con("A"), Con("B"), Clr("A", StatusBits), Clr("B", StatusBits)>>

Exchange(u, v, b) ==
    <<PutStr, Send(u, b), Wait(u, "TBIR"), PutStr, Clr(u, {"TBIR"}),
      Wait(v, "RIR"), PutStr, Clr(v, {"RIR"}), Read(v, b)>>

OverrunUndrained ==                                     \* mutant
    <<PutStr, Send("A", 17), Clr("A", {"TBIR"}), Wait("B", "RIR"), PutStr,
      Send("A", 34), Clr("A", {"TBIR"}), Wait("B", "EIR"), PutStr,
      Clr("B", StatusBits), Clr("A", StatusBits)>>

Overrun ==
    <<PutStr, Send("A", 17), Clr("A", {"TBIR"}), Wait("B", "RIR"), PutStr,
      Send("A", 34), Clr("A", {"TBIR"}), Wait("B", "EIR"), PutStr,
      Drain("B"), Clr("B", StatusBits), Clr("A", StatusBits)>>

StreamedKeepsRir(b) ==                                  \* mutant
    <<Send("A", b), Wait("B", "RIR"), Read("B", b), Clr("A", {"TBIR"}), PutStr>>

Streamed(b) ==
    <<Send("A", b), Wait("B", "RIR"), Read("B", b), Clr("B", {"RIR"}),
      Clr("A", {"TBIR"}), PutStr>>

Stream == <<PutStr>> \o Streamed(222) \o Streamed(173) \o Streamed(190) \o Streamed(239)

TxCompleteKeepsStatus ==                                \* mutant
    <<PutStr, Send("A", 90), Wait("A", "TIR"), PutStr, Clr("A", StatusBits)>>

TxComplete ==
    <<PutStr, Clr("A", StatusBits), Send("A", 90), Wait("A", "TIR"), PutStr,
      Clr("A", StatusBits)>>

Script == <<Exchange("A", "B", 85), Exchange("B", "A", 170), Overrun, Stream, TxComplete>>

\* The program is one of the drivers of Usart2: its accesses are among theirs.
ASSUME ProgramAssumption ==
    /\ \A u \in Usarts : {"TBUF", "RBUF", "CON", "STATUS"} \subseteq Driven[u]
    /\ {85, 170, 17, 34, 222, 173, 190, 239, 90} \subseteq Bytes
    /\ CON_INIT \in ConValues
    /\ {{"TBIR"}, {"RIR"}, StatusBits} \subseteq W1cValues

FdInit ==
    /\ Init
    /\ test = 0 /\ todo_main = SetUp /\ ok = TRUE
    /\ passed = {} /\ failed = {} /\ missed = {}

-----------------------------------------------------------------------------
(* fullduplex_main() *)

\* The scheduler has run all there is to run.
Quiet == /\ Idle("S") /\ ready = {} /\ delta = {} /\ timed = {} /\ written = level
         /\ \A u \in Usarts : wire[u] = <<>>

Ins == Head(todo_main)
At(op) == Idle("Q") /\ todo_main # <<>> /\ Ins.op = op

Continue == /\ todo_main' = Tail(todo_main)
            /\ UNCHANGED <<test, passed, failed, missed>>

\* b_transport() sleeps 2 ms after every TBUF write, so a text takes tens of
\* milliseconds: the scheduler finishes meanwhile.  The one sleep after a TBUF
\* write to A or B is not taken to outlast anything.
DoPutStr == At("put") /\ Quiet /\ Continue /\ UNCHANGED <<vars, ok>>

DoCon == At("con") /\ WriteCon(Ins.usart, CON_INIT) /\ Continue /\ UNCHANGED ok

DoSend == At("send") /\ WriteTbuf(Ins.usart, Ins.byte) /\ Continue /\ UNCHANGED ok

DoClr == At("clr") /\ W1C(Ins.usart, Ins.bits) /\ Continue /\ UNCHANGED ok

DoRead ==
    /\ At("read")
    /\ RbufGet(Ins.usart)
    /\ ok' = (ok /\ rbuf[Ins.usart] = Ins.byte)
    /\ Continue

DoDrain == At("drain") /\ RbufGet(Ins.usart) /\ Continue /\ UNCHANGED ok

\* wait_status() sees the bit.
DoWait ==
    /\ At("wait") /\ Ins.bit \in status[Ins.usart]
    /\ Continue
    /\ UNCHANGED <<vars, ok>>

\* mutant: a poll without a limit
NeverTimesOut ==
    /\ At("wait") /\ Ins.bit \notin status[Ins.usart]
    /\ UNCHANGED fdVars

\* wait_status() gives up after its millions of polls: at any moment if the host
\* may keep the scheduler from running, and otherwise only when the scheduler has
\* nothing left to do and the bit is not coming.  Tests 1 to 4 end there, test 5
\* goes on.
TimeOut ==
    /\ At("wait") /\ Ins.bit \notin status[Ins.usart]
    /\ Patient => Quiet
    /\ ok' = FALSE
    /\ missed' = missed \cup {<<test, Ins.usart, Ins.bit>>}
    /\ todo_main' = IF test = 5 THEN Tail(todo_main) ELSE <<>>
    /\ UNCHANGED <<vars, test, passed, failed>>

\* The verdict, and the next test.  Test 5 never calls fail_test().
NextTest ==
    /\ Idle("Q") /\ todo_main = <<>> /\ test <= 5
    /\ passed' = IF ok /\ test > 0 THEN passed \cup {test} ELSE passed
    /\ failed' = IF ~ok /\ test < 5 THEN failed \cup {test} ELSE failed
    /\ test' = test + 1
    /\ todo_main' = IF test < 5 THEN Script[test + 1] ELSE <<>>
    /\ ok' = TRUE
    /\ UNCHANGED <<vars, missed>>

Main == \/ DoPutStr \/ DoCon \/ DoSend \/ DoClr \/ DoRead \/ DoDrain
        \/ DoWait \/ TimeOut \/ NextTest

BusAccess == (Access \/ Update("Q")) /\ UNCHANGED progVars

KernelStep == Kernel /\ UNCHANGED progVars

FdNext == Main \/ BusAccess \/ KernelStep

FdSpec == FdInit /\ [][FdNext]_fdVars

\* The program runs, a bus access returns, and the kernel runs what it has.
FdFairSpec ==
    /\ FdSpec
    /\ WF_fdVars(Main) /\ WF_fdVars(BusAccess) /\ WF_fdVars(KernelStep)

-----------------------------------------------------------------------------
(* Properties *)

\* The waits that may miss their bit.  update_status_from_core() on the bus
\* thread and tir_auto_method() on the scheduler's both do m_status |= ...:
\* the later store takes the other's bit back.  Only the bits of the USART
\* that sends are at risk, and only where a test waits for them: whatever the
\* threads interleave, no wait for RIR or EIR times out (wait_status()).
OnlyTransmitBitsMissed ==
    missed \subseteq {<<1, "A", "TBIR">>, <<2, "B", "TBIR">>, <<5, "A", "TIR">>}

\* A test fails for a wait that timed out and for no other reason: none reads a
\* wrong, wiped or earlier byte, whatever a failed test before it has left in
\* RBUF and STATUS (fullduplex_main()).
FailuresExplained == failed = {m[1] : m \in missed} \ {5, test}

\* However early a poll gives up, with its byte still on the wire or in the
\* frame, the trouble starts there: no test fails, for a byte that is wrong,
\* stale or late, before one has failed for a wait of its own that timed out.
FirstFailureIsATimeOut ==
    failed # {} => \E m \in missed : \A f \in failed : m[1] <= f

\* Test 5 sees the TIR of its own byte: when its wait is over, the TIRs of the
\* seven bytes that A sent before, which test 4 does not clear, have all come.
TirIsOwn == test = 5 /\ Len(todo_main) < 3 /\ ok => tir_fire_count["A"] = 8

\* The program ends: every poll has its limit.
SuiteReachesExit == <>(test = 6)
=============================================================================
