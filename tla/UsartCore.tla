------------------------------ MODULE UsartCore ------------------------------
(* The USART core (Usart.h, Usart.cc) under the SystemC kernel: every bus     *)
(* access and every SC_METHOD runs to its end before the next one starts.     *)
(* Time is explicit and in kernel ticks (1 ps).  A timed notification is the  *)
(* instant it falls due; m_irq_deassert_ev, always notified for the next      *)
(* delta cycle, is a flag that time may not pass.                             *)
EXTENDS Integers, UsartRegs

CONSTANTS
    TxValues,     \* values the driver writes to TBUF
    RxBytes,      \* bytes the far end sends
    ConWrites,    \* <<mode, flags>> pairs the driver writes to CON
    BgValues,     \* reload values the driver writes to BG
    ClkPeriods,   \* periods usartClkIn takes
    BusDelays,    \* the local-time offset a bus access carries
    TimeSteps,    \* how far time moves in one step, if no event is due before
    EarlyTbuf,    \* may the driver write TBUF while CON.R = 0?
    Resets,       \* is the rst pin ever driven?
    MaxTime,      \* the environment stops after this instant ...
    MaxFrames     \* ... and after this many TIRs

ASSUME DriverAssumption == /\ TxValues \subseteq Nat
                           /\ EarlyTbuf \in BOOLEAN

ASSUME BgAssumption == BgValues \subseteq 0..8191

ASSUME ConAssumption == ConWrites \subseteq Modes \X SUBSET ConFlags

ASSUME LineAssumption == RxBytes \subseteq 0..255 /\ Resets \in BOOLEAN

ASSUME TimeAssumption == /\ ClkPeriods \subseteq Nat \ {0}
                         /\ BusDelays \subseteq Nat
                         /\ TimeSteps \subseteq Nat \ {0}
                         /\ MaxTime \in Nat /\ MaxFrames \in Nat

Irqs == {"TBIR", "TIR", "RIR", "EIR"}

Never == -1                \* an event that is not pending

VARIABLES
    mode, con, bg,         \* m_con, m_bg_reload
    tbuf_full, tbuf,       \* m_tbuf_full, m_tbuf_data
    tsr_busy, tsr,         \* m_tsr_busy, m_tsr
    rbuf_full, rbuf,       \* m_rbuf_full, m_rbuf
    clk,                   \* m_clk_period, 0 until usartClkIn is written
    now,                   \* sc_time_stamp()
    last_advance,          \* m_last_advance_time
    assert_time,           \* m_<irq>_assert_time, 0 when not asserted
    line,                  \* the IRQ ports last written true
    tir_fire_count,        \* m_tir_fire_count
    tx_done_ev,            \* m_tx_done_ev: the instant it is due, or Never
    irq_deassert_ev,       \* m_irq_deassert_ev: pending for the next delta
    txd                    \* the frame last written to the txd port

regs  == <<mode, con, bg, clk>>
txVars == <<tbuf_full, tbuf, tsr_busy, tsr, tir_fire_count, tx_done_ev, txd>>
rxVars == <<rbuf_full, rbuf>>
irqVars == <<assert_time, line, irq_deassert_ev>>
vars == <<regs, txVars, rxVars, irqVars, now, last_advance>>

\* The idle value of the txd port
Mark == [data |-> 1, startOrStop |-> FALSE, parity |-> 0, stopBitCount |-> 1]

Init ==
    /\ mode = 0 /\ con = {} /\ bg = 0 /\ clk = 0
    /\ tbuf_full = FALSE /\ tbuf = 0 /\ tsr_busy = FALSE /\ tsr = 0
    /\ rbuf_full = FALSE /\ rbuf = 0
    /\ now = 0 /\ last_advance = 0
    /\ assert_time = [i \in Irqs |-> 0] /\ line = {}
    /\ tir_fire_count = 0
    /\ tx_done_ev = Never /\ irq_deassert_ev = FALSE
    /\ txd = Mark

-----------------------------------------------------------------------------
(* IRQ pulses *)

AssertStampPlain == now       \* mutant: no special case for time 0

\* assertIrq() never stores 0, which means "not asserted".
AssertStamp == IF now = 0 THEN 1 ELSE now

\* updateIrqPulses(t): the pulses that are two clock periods old at t.
StalePulses(t) ==
    {i \in Irqs : assert_time[i] # 0 /\ t >= assert_time[i] + 2 * clk}

\* advance(t) does nothing without a clock, while stopped, or on old news.
Advances(t) == clk # 0 /\ "R" \in con /\ t > last_advance

ExpiredAt(t) == IF Advances(t) THEN StalePulses(t) ELSE {}

\* The pulses in `ended` are driven low, then assertIrq() fires those in
\* `fired`, last.
Pulse(ended, fired) ==
    /\ assert_time' = [i \in Irqs |-> CASE i \in fired -> AssertStamp
                                        [] i \in ended \ fired -> 0
                                        [] OTHER -> assert_time[i]]
    /\ line' = (line \ ended) \cup fired
    /\ irq_deassert_ev' = IF fired = {} THEN irq_deassert_ev ELSE TRUE

\* The bus access at local time t stamps last_advance before anything else.
StampAdvance(t) == last_advance' = IF Advances(t) THEN t ELSE last_advance

-----------------------------------------------------------------------------
(* Transmitter *)

\* mutant: a notification for the present instant is dropped
NotifiedIfLater(ev, t) == IF ev = Never /\ t > now THEN t ELSE ev

\* sc_event::notify(): an earlier pending notification wins.
Notified(ev, t) == IF ev = Never \/ t < ev THEN t ELSE ev

\* loadTSR() of the TBUF value v, m_tx_done_ev being pending at ev.  Under
\* CON.LB it also writes rxd, which no process reads.
LoadTSR(v, ev) ==
    /\ tsr' = v % FrameModulus(mode)
    /\ tsr_busy' = TRUE
    /\ tbuf_full' = FALSE
    /\ txd' = [data         |-> v % FrameModulus(mode),
               startOrStop  |-> mode # 0,
               parity       |-> IF HasHwParity(mode)
                                THEN ParityBit(mode, con, v % FrameModulus(mode))
                                ELSE 0,
               stopBitCount |-> StopBits(mode, con)]
    /\ tx_done_ev' = Notified(ev, now + FrameDuration(mode, con, bg, clk))

StartsWhileBusy == "R" \in con      \* mutant

\* regWrite(TBUF) finds the transmitter idle and the module running.
StartsAtOnce == ~tsr_busy /\ "R" \in con

\* The environment's calls stop at the bounds.
Calls == now < MaxTime /\ tir_fire_count < MaxFrames

\* TBUF_DATA_MASK keeps nine bits of what is written.
TbufDataUnmasked(w) == w      \* mutant
TbufData(w) == w % 512

\* A bus write to TBUF, a local-time offset d ahead of the kernel.
WriteTbuf(w, d) ==
    /\ Calls
    /\ EarlyTbuf \/ "R" \in con
    /\ StampAdvance(now + d)
    /\ IF tbuf_full
       THEN /\ Pulse(ExpiredAt(now + d), {})
            /\ UNCHANGED txVars
       ELSE /\ tbuf' = TbufData(w)
            /\ IF StartsAtOnce
               THEN /\ LoadTSR(TbufData(w), tx_done_ev)
                    /\ Pulse(ExpiredAt(now + d), {"TBIR"})
               ELSE /\ tbuf_full' = TRUE
                    /\ Pulse(ExpiredAt(now + d), {})
                    /\ UNCHANGED <<tsr_busy, tsr, tx_done_ev, txd>>
            /\ UNCHANGED tir_fire_count
    /\ UNCHANGED <<regs, rxVars, now>>

\* txDoneMethod(): the frame on the line has ended.  A stopped module forgets
\* the event: m_tsr_busy stays set.
TxDone ==
    /\ tx_done_ev = now
    /\ IF "R" \notin con
       THEN /\ tx_done_ev' = Never
            /\ UNCHANGED <<tbuf_full, tsr_busy, tsr, tir_fire_count, txd,
                           irqVars>>
       ELSE /\ tir_fire_count' = tir_fire_count + 1
            /\ IF tbuf_full
               THEN /\ LoadTSR(tbuf, Never)
                    /\ Pulse({}, {"TIR", "TBIR"})
               ELSE /\ tsr_busy' = FALSE
                    /\ tx_done_ev' = Never
                    /\ Pulse({}, {"TIR"})
                    /\ UNCHANGED <<tbuf_full, tsr, txd>>
    /\ UNCHANGED <<regs, tbuf, rxVars, now, last_advance>>

-----------------------------------------------------------------------------
(* Receiver *)

\* The first test of rx_inject()
Receives == {"R", "REN"} \subseteq con

\* mutant: m_rbuf_full is not tested
RxInjectOverwrites(b) ==
    /\ Calls /\ Receives
    /\ rbuf' = RxPacked(mode, con, b)
    /\ rbuf_full' = TRUE
    /\ Pulse({}, {"RIR"})
    /\ UNCHANGED <<regs, txVars, now, last_advance>>

\* rx_inject(byte): dropped unless running and enabled, an overrun when the
\* last byte was not read, stored otherwise.
RxInject(b) ==
    /\ Calls
    /\ CASE ~Receives -> UNCHANGED <<con, rxVars, irqVars>>
         [] Receives /\ rbuf_full ->
              /\ con' = con \cup {"OE"}
              /\ Pulse({}, IF "OEN" \in con THEN {"EIR"} ELSE {})
              /\ UNCHANGED rxVars
         [] Receives /\ ~rbuf_full ->
              /\ rbuf' = RxPacked(mode, con, b)
              /\ rbuf_full' = TRUE
              /\ Pulse({}, {"RIR"})
              /\ UNCHANGED con
    /\ UNCHANGED <<mode, bg, clk, txVars, now, last_advance>>

\* A bus read of RBUF, and the byte-enabled write to it, which reads it first.
ReadRbuf(d) ==
    /\ Calls
    /\ StampAdvance(now + d)
    /\ Pulse(ExpiredAt(now + d), {})
    /\ rbuf_full' = FALSE
    /\ con' = con \ {"OE", "PE"}
    /\ UNCHANGED <<mode, bg, clk, rbuf, txVars, now>>

\* get_rbuf_raw() and clear_rbuf(), the wrapper's way to read RBUF: nothing
\* advances and CON keeps its flags.
ClearRbuf ==
    /\ Calls
    /\ rbuf_full' = FALSE /\ rbuf' = 0
    /\ UNCHANGED <<regs, txVars, irqVars, now, last_advance>>

-----------------------------------------------------------------------------
(* The other registers, the pins and the kernel *)

\* A bus write to CON: it reconfigures and nothing else; a waiting TBUF is not
\* loaded when R becomes 1, a running frame not stopped when R becomes 0.
WriteCon(c, d) ==
    /\ Calls
    /\ StampAdvance(now + d)
    /\ Pulse(ExpiredAt(now + d), {})
    /\ mode' = c[1]
    /\ con' = ConAfterWrite(con, c[2])
    /\ UNCHANGED <<bg, clk, txVars, rxVars, now>>

WriteBg(v, d) ==
    /\ Calls
    /\ StampAdvance(now + d)
    /\ Pulse(ExpiredAt(now + d), {})
    /\ bg' = v
    /\ UNCHANGED <<mode, con, clk, txVars, rxVars, now>>

\* Any other access (reads of CON, TBUF, BG and FDR, writes to FDR and RBUF,
\* offsets that do not exist) only advances; FDR is stored and never used.
OtherAccess(d) ==
    /\ Calls
    /\ StampAdvance(now + d)
    /\ Pulse(ExpiredAt(now + d), {})
    /\ UNCHANGED <<regs, txVars, rxVars, now>>

\* usartClkInMethod(): a frame on the line keeps its end.
SetClk(p) ==
    /\ Calls
    /\ clk' = p
    /\ StampAdvance(now)
    /\ Pulse(ExpiredAt(now), {})
    /\ UNCHANGED <<mode, con, bg, txVars, rxVars, now>>

EventsSurvive == UNCHANGED <<tx_done_ev, irq_deassert_ev>>     \* mutant

\* The cancel() calls of rstMethod()
CancelEvents == tx_done_ev' = Never /\ irq_deassert_ev' = FALSE

\* rstMethod()
Reset ==
    /\ Calls
    /\ Resets
    /\ mode' = 0 /\ con' = {} /\ bg' = 0
    /\ tbuf_full' = FALSE /\ tbuf' = 0 /\ tsr_busy' = FALSE /\ tsr' = 0
    /\ rbuf_full' = FALSE /\ rbuf' = 0
    /\ last_advance' = now
    /\ assert_time' = [i \in Irqs |-> 0] /\ line' = {}
    /\ tir_fire_count' = 0
    /\ CancelEvents
    /\ txd' = Mark
    /\ UNCHANGED <<clk, now>>

\* irqDeassertMethod(), in the delta cycle after assertIrq()
IrqDeassert ==
    /\ irq_deassert_ev
    /\ assert_time' = [i \in Irqs |-> 0]
    /\ line' = line \ {i \in Irqs : assert_time[i] # 0}
    /\ irq_deassert_ev' = FALSE
    /\ UNCHANGED <<regs, txVars, rxVars, now, last_advance>>

\* Time moves when nothing is left to run now, and never past an event.
AdvanceTime ==
    /\ ~irq_deassert_ev /\ tx_done_ev # now
    /\ tx_done_ev # Never \/ now < MaxTime
    /\ \E s \in TimeSteps :
          now' = IF tx_done_ev # Never /\ tx_done_ev < now + s
                 THEN tx_done_ev ELSE now + s
    /\ UNCHANGED <<regs, txVars, rxVars, irqVars, last_advance>>

Access(d) ==
    \/ \E w \in TxValues : WriteTbuf(w, d)
    \/ \E c \in ConWrites : WriteCon(c, d)
    \/ \E v \in BgValues : WriteBg(v, d)
    \/ ReadRbuf(d)
    \/ OtherAccess(d)

Next ==
    \/ \E d \in BusDelays : Access(d)
    \/ \E b \in RxBytes : RxInject(b)
    \/ ClearRbuf
    \/ \E p \in ClkPeriods : SetClk(p)
    \/ Reset
    \/ TxDone
    \/ IrqDeassert
    \/ AdvanceTime

Spec == Init /\ [][Next]_vars

\* The kernel dispatches what is due, and no process keeps it at one instant
\* for ever (a new delta cycle may always postpone the step of time).
FairSpec == /\ Spec
            /\ WF_vars(TxDone) /\ WF_vars(IrqDeassert) /\ SF_vars(AdvanceTime)

-----------------------------------------------------------------------------
(* Properties *)

Frames == [data : 0..511, startOrStop : BOOLEAN, parity : {0, 1}, stopBitCount : 0..2]

RegsType == mode \in Modes /\ con \in SUBSET ConFlags /\ bg \in 0..8191 /\ clk \in Nat

TxType == /\ tbuf_full \in BOOLEAN /\ tbuf \in 0..511
          /\ tsr_busy \in BOOLEAN /\ tsr \in 0..511
          /\ tir_fire_count \in Nat /\ tx_done_ev \in Nat \cup {Never}
          /\ txd \in Frames

RxType == rbuf_full \in BOOLEAN /\ rbuf \in 0..511

IrqType == /\ assert_time \in [Irqs -> Nat] /\ line \in SUBSET Irqs
           /\ irq_deassert_ev \in BOOLEAN

TimeType == now \in Nat /\ last_advance \in Nat

\* Type invariant of the core's registers, events and ports.
TypeOK == RegsType /\ TxType /\ RxType /\ IrqType /\ TimeType

\* No interrupt line sticks: a line is high exactly while its assert time is
\* recorded, a pulse belongs to the present instant, and whenever a line is
\* high the event that will lower it is pending (assertIrq, irqDeassertMethod,
\* updateIrqPulses and rstMethod together).
PulsesEnd ==
    /\ line = {i \in Irqs : assert_time[i] # 0}
    /\ line # {} => irq_deassert_ev
    /\ \A i \in line : assert_time[i] = AssertStamp

\* A frame that is due ends a frame: m_tx_done_ev is pending only while the
\* shift register is busy, and never for an instant that has passed.
DoneEventBelongsToFrame ==
    tx_done_ev # Never => tsr_busy /\ tx_done_ev >= now

\* A received byte is never overwritten or altered before it is read.
UnreadByteKept == [][rbuf_full /\ rbuf_full' => rbuf' = rbuf]_vars

\* For a driver that sets R before its first TBUF write and never clears it,
\* nothing strands: a byte in TBUF waits for a frame on the line, and a frame
\* on the line has its end scheduled.
NothingStranded ==
    /\ tbuf_full => tsr_busy
    /\ tsr_busy => tx_done_ev # Never

\* For the same driver, every frame ends, and a held byte reaches the line.
EveryFrameEnds ==
    /\ \A n \in 0..(MaxFrames + 1) :
          (tsr_busy /\ tir_fire_count = n) ~> (~tsr_busy \/ tir_fire_count # n)
    /\ tbuf_full ~> ~tbuf_full

\* The transmitter is the two-place FIFO of TxFifo over the seven bits that
\* every frame format carries: TSR is its head, TBUF its tail.
Payload(v) == v % 128

fifo == CASE tsr_busy /\ tbuf_full   -> <<Payload(tsr), Payload(tbuf)>>
          [] tsr_busy /\ ~tbuf_full  -> <<Payload(tsr)>>
          [] ~tsr_busy /\ tbuf_full  -> <<Payload(tbuf)>>
          [] ~tsr_busy /\ ~tbuf_full -> <<>>

Fifo == INSTANCE TxFifo WITH Payloads <- 0..127, done <- tir_fire_count

ImplementsFifo == Fifo!Spec

-----------------------------------------------------------------------------
(* What the comments say and the code does not do *)

\* "Reading RBUF clears CON.OE (if set)" (Usart_regdefs.h:157), so the overrun
\* flag would stand only while the byte that caused it is unread.  A bus read
\* of RBUF clears it; the wrapper reads RBUF through clear_rbuf().
OverrunImpliesUnread == "OE" \in con => rbuf_full

\* "0=clock gated, state frozen" (Usart_regdefs.h:82): a frame frozen by
\* clearing R ends once R is set again and stays set.
FrozenFrameEnds == <>[]("R" \in con) => (tsr_busy ~> ~tsr_busy)
=============================================================================
