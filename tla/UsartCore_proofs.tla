-------------------------- MODULE UsartCore_proofs ---------------------------
(* Theorems about UsartCore for every value of its constants.  PulsesEnd and  *)
(* DoneEventBelongsToFrame are each inductive on top of TypeOK, so the        *)
(* inductive invariant is their conjunction.                                  *)
EXTENDS Sequences, UsartCore, TLAPS

IInv == TypeOK /\ PulsesEnd /\ DoneEventBelongsToFrame

-----------------------------------------------------------------------------
(* The ranges of the register arithmetic *)

\* A TBUF value of any width is cut to nine bits, and the mask of loadTSR()
\* leaves the seven low bits that every frame format carries.
LEMMA FrameModulusFacts ==
    ASSUME NEW m \in Modes, NEW v \in Nat
    PROVE  /\ v % 512 \in 0..511
           /\ v % FrameModulus(m) \in 0..511
           /\ (v % FrameModulus(m)) % 128 = v % 128
<1>1. FrameModulus(m) \in {128, 256, 512}
  BY DEF FrameModulus, Modes
<1>2. CASE FrameModulus(m) = 128
  BY <1>2
<1>3. CASE FrameModulus(m) = 256
  BY <1>3
<1>4. CASE FrameModulus(m) = 512
  BY <1>4
<1> QED BY <1>1, <1>2, <1>3, <1>4

\* The parity bit is a bit.
LEMMA ParityBitType ==
    ASSUME NEW m, NEW c, NEW data
    PROVE  ParityBit(m, c, data) \in {0, 1}
  BY DEF ParityBit

\* rx_inject() loads RBUF with a nine-bit value.
LEMMA RxPackedType ==
    ASSUME NEW m \in Modes, NEW c, NEW byte \in 0..255
    PROVE  RxPacked(m, c, byte) \in 0..511
<1> DEFINE p == ParityBit(m, c, byte)
<1>1. p \in {0, 1}
  BY ParityBitType
<1>2. ((byte * 2) % 512) + p \in 0..511
  <2> HIDE DEF p
  <2> QED BY <1>1
<1> QED BY <1>2 DEF RxPacked

LEMMA StopBitsType ==
    ASSUME NEW m \in Modes, NEW c
    PROVE  StopBits(m, c) \in 0..2
  BY DEF StopBits, Modes

LEMMA ProductType ==
    ASSUME NEW a \in Nat, NEW b \in Nat
    PROVE  a * b \in Nat
  OBVIOUS

\* A frame lasts a natural number of ticks.
LEMMA FrameDurationType ==
    ASSUME NEW m \in Modes, NEW c, NEW g \in Nat, NEW k \in Nat
    PROVE  FrameDuration(m, c, g, k) \in Nat
<1>1. BaudFactor(m, c, g) \in Nat
  BY DEF BaudFactor
<1>2. FrameBits(m, c) \in Nat
  BY StopBitsType DEF FrameBits, DataBits, Modes
<1>3. k * BaudFactor(m, c, g) \in Nat
  BY <1>1, ProductType
<1>4. k * BaudFactor(m, c, g) * FrameBits(m, c) \in Nat
  BY <1>2, <1>3, ProductType
<1> QED BY <1>4 DEF FrameDuration

\* A write to CON leaves a set of CON flags.
LEMMA ConAfterWriteType ==
    ASSUME NEW c \in SUBSET ConFlags, NEW value \in SUBSET ConFlags
    PROVE  ConAfterWrite(c, value) \in SUBSET ConFlags
  BY DEF ConAfterWrite

-----------------------------------------------------------------------------
(* Lemmas on the parts the handlers share *)

\* Ending some pulses and firing others, in either order, within one instant
\* keeps every high line recorded and its falling edge scheduled.
LEMMA PulseLemma ==
    ASSUME IrqType, TimeType, PulsesEnd, UNCHANGED now,
           NEW ended \in SUBSET Irqs, NEW fired \in SUBSET Irqs,
           Pulse(ended, fired)
    PROVE  IrqType' /\ PulsesEnd'
<1>1. AssertStamp \in Nat \ {0} /\ AssertStamp' = AssertStamp
  BY DEF AssertStamp, TimeType
<1>2. \A i \in Irqs : assert_time'[i] = IF i \in fired THEN AssertStamp
                                        ELSE IF i \in ended THEN 0
                                        ELSE assert_time[i]
  BY DEF Pulse
<1>3. assert_time' \in [Irqs -> Nat]
  <2>1. assert_time' = [i \in Irqs |-> assert_time'[i]]
    BY DEF Pulse
  <2>2. \A i \in Irqs : assert_time'[i] \in Nat
    BY <1>1, <1>2 DEF IrqType
  <2> QED BY <2>1, <2>2
<1>4. line' = (line \ ended) \cup fired
  BY DEF Pulse
<1>5. irq_deassert_ev' = IF fired = {} THEN irq_deassert_ev ELSE TRUE
  BY DEF Pulse
<1>6. line' = {i \in Irqs : assert_time'[i] # 0}
  BY <1>1, <1>2, <1>4 DEF PulsesEnd, IrqType
<1>7. line' # {} => irq_deassert_ev'
  BY <1>4, <1>5 DEF PulsesEnd
<1>8. \A i \in line' : assert_time'[i] = AssertStamp'
  BY <1>1, <1>2, <1>4 DEF PulsesEnd, IrqType
<1>9. IrqType'
  BY <1>3, <1>4, <1>5 DEF IrqType
<1> QED BY <1>6, <1>7, <1>8, <1>9 DEF PulsesEnd

\* The pulses that a bus access expires are IRQs.
LEMMA ExpiredType ==
    ASSUME NEW t PROVE ExpiredAt(t) \in SUBSET Irqs
  BY DEF ExpiredAt, StalePulses

\* Every bus access begins with advance(): it keeps what no handler disturbs.
LEMMA AccessLemma ==
    ASSUME IInv, NEW d \in BusDelays, NEW fired \in SUBSET Irqs, UNCHANGED now,
           StampAdvance(now + d), Pulse(ExpiredAt(now + d), fired)
    PROVE  TimeType' /\ IrqType' /\ PulsesEnd'
<1>1. now + d \in Nat
  <2>1. d \in Nat
    BY TimeAssumption
  <2> QED BY <2>1 DEF IInv, TypeOK, TimeType
<1>2. TimeType'
  BY <1>1 DEF StampAdvance, IInv, TypeOK, TimeType
<1> QED BY <1>2, ExpiredType, PulseLemma DEF IInv, TypeOK

\* loadTSR() of a nine-bit value leaves a well-typed transmitter, and the end
\* of the frame lies ahead.
LEMMA LoadTSRLemma ==
    ASSUME RegsType, TimeType, NEW v \in 0..511, NEW ev \in Nat \cup {Never},
           ev = Never \/ ev >= now, LoadTSR(v, ev)
    PROVE  /\ tsr' \in 0..511 /\ tsr' % 128 = v % 128
           /\ tsr_busy' = TRUE /\ tbuf_full' = FALSE
           /\ txd' \in Frames
           /\ tx_done_ev' \in Nat /\ tx_done_ev' >= now
<1>1. v \in Nat /\ mode \in Modes /\ bg \in Nat /\ clk \in Nat /\ now \in Nat
  BY DEF RegsType, TimeType
<1>2. v % FrameModulus(mode) \in 0..511 /\ (v % FrameModulus(mode)) % 128 = v % 128
  BY <1>1, FrameModulusFacts
<1>3. FrameDuration(mode, con, bg, clk) \in Nat
  BY <1>1, FrameDurationType
<1>4. StopBits(mode, con) \in 0..2
  BY <1>1, StopBitsType
<1>5. txd' \in Frames
  BY <1>2, <1>4, ParityBitType DEF LoadTSR, Frames
<1>6. tx_done_ev' \in Nat /\ tx_done_ev' >= now
  BY <1>1, <1>3 DEF LoadTSR, Notified, Never
<1> QED BY <1>2, <1>5, <1>6 DEF LoadTSR

-----------------------------------------------------------------------------
(* The inductive invariant *)

LEMMA MarkType == Mark \in Frames
  BY DEF Mark, Frames

LEMMA InitIInv == Init => IInv
<1> SUFFICES ASSUME Init PROVE IInv
  OBVIOUS
<1> USE DEF Init
<1>0. tbuf_full \in BOOLEAN /\ tsr_busy \in BOOLEAN /\ rbuf_full \in BOOLEAN
  BY Zenon
<1>1. RegsType /\ RxType /\ TimeType
  BY <1>0 DEF RegsType, RxType, TimeType, Modes
<1>2. IrqType
  BY DEF IrqType
<1>5. TxType
  BY <1>0, MarkType DEF TxType
<1>3. PulsesEnd
  BY DEF PulsesEnd
<1>4. DoneEventBelongsToFrame
  BY DEF DoneEventBelongsToFrame
<1> QED BY <1>1, <1>2, <1>3, <1>4, <1>5 DEF IInv, TypeOK

\* The bus write to TBUF: ignored, loaded at once, or held.
LEMMA WriteTbufStep ==
    ASSUME IInv, NEW w \in TxValues, NEW d \in BusDelays, WriteTbuf(w, d)
    PROVE  IInv'
<1>0. w % 512 \in 0..511
  <2>1. w \in Nat
    BY DriverAssumption
  <2> QED BY <2>1
<1> DEFINE v == w % 512
<1>1. v \in 0..511
  BY <1>0
<1> HIDE DEF v
<1>2. UNCHANGED <<regs, rxVars, now>> /\ StampAdvance(now + d)
  BY DEF WriteTbuf, TbufData
<1>3. RegsType' /\ RxType'
  BY <1>2 DEF IInv, TypeOK, RegsType, RxType, regs, rxVars
<1>4. {} \in SUBSET Irqs /\ {"TBIR"} \in SUBSET Irqs
  BY DEF Irqs
<1>5. TimeType' /\ IrqType' /\ PulsesEnd'
  <2>1. Pulse(ExpiredAt(now + d), {}) \/ Pulse(ExpiredAt(now + d), {"TBIR"})
    BY DEF WriteTbuf, TbufData
  <2> QED BY <1>2, <1>4, <2>1, AccessLemma
<1>6. TxType' /\ DoneEventBelongsToFrame'
  <2>1. CASE tbuf_full
    BY <1>2, <2>1 DEF WriteTbuf, TbufData, IInv, TypeOK, TxType, DoneEventBelongsToFrame, txVars
  <2>2. CASE ~tbuf_full /\ StartsAtOnce
    <3>1. LoadTSR(v, tx_done_ev) /\ tbuf' = v /\ UNCHANGED tir_fire_count
      BY <2>2 DEF WriteTbuf, TbufData, v
    <3>2. tx_done_ev \in Nat \cup {Never} /\ (tx_done_ev = Never \/ tx_done_ev >= now)
      BY DEF IInv, TypeOK, TxType, DoneEventBelongsToFrame
    <3>3. /\ tsr' \in 0..511 /\ tsr_busy' = TRUE /\ tbuf_full' = FALSE
          /\ txd' \in Frames /\ tx_done_ev' \in Nat /\ tx_done_ev' >= now
      <4>1. RegsType /\ TimeType
        BY DEF IInv, TypeOK
      <4> QED BY <1>1, <3>1, <3>2, <4>1, LoadTSRLemma
    <3> QED BY <1>1, <1>2, <3>1, <3>3 DEF IInv, TypeOK, TxType, DoneEventBelongsToFrame
  <2>3. CASE ~tbuf_full /\ ~StartsAtOnce
    <3>1. /\ tbuf_full' = TRUE /\ tbuf' = v
          /\ UNCHANGED <<tsr_busy, tsr, tx_done_ev, txd, tir_fire_count>>
      BY <2>3 DEF WriteTbuf, TbufData, v
    <3> QED BY <1>1, <1>2, <3>1 DEF IInv, TypeOK, TxType, DoneEventBelongsToFrame
  <2> QED BY <2>1, <2>2, <2>3
<1> QED BY <1>3, <1>5, <1>6 DEF IInv, TypeOK

\* The end of a frame: forgotten while stopped, chained, or idle.
LEMMA TxDoneStep ==
    ASSUME IInv, TxDone
    PROVE  IInv'
<1>1. UNCHANGED <<regs, tbuf, rxVars, now, last_advance>>
  BY DEF TxDone
<1>2. RegsType' /\ RxType' /\ TimeType'
  BY <1>1 DEF IInv, TypeOK, RegsType, RxType, TimeType, regs, rxVars
<1>3. /\ {} \in SUBSET Irqs /\ {"TIR"} \in SUBSET Irqs
      /\ {"TIR", "TBIR"} \in SUBSET Irqs
  BY DEF Irqs
<1>4. CASE "R" \notin con
  <2>1. /\ tx_done_ev' = Never
        /\ UNCHANGED <<tbuf_full, tsr_busy, tsr, tir_fire_count, txd, irqVars>>
    BY <1>4 DEF TxDone
  <2>2. TxType' /\ DoneEventBelongsToFrame'
    BY <1>1, <2>1 DEF IInv, TypeOK, TxType, DoneEventBelongsToFrame
  <2>3. IrqType' /\ PulsesEnd'
    BY <1>1, <2>1 DEF IInv, TypeOK, IrqType, PulsesEnd, AssertStamp, irqVars
  <2> QED BY <1>2, <2>2, <2>3 DEF IInv, TypeOK
<1>5. CASE "R" \in con /\ tbuf_full
  <2>1. /\ LoadTSR(tbuf, Never) /\ Pulse({}, {"TIR", "TBIR"})
        /\ tir_fire_count' = tir_fire_count + 1
    BY <1>5 DEF TxDone
  <2>2. tbuf \in 0..511 /\ Never \in Nat \cup {Never} /\ tir_fire_count \in Nat
    BY DEF IInv, TypeOK, TxType
  <2>3. /\ tsr' \in 0..511 /\ tsr_busy' = TRUE /\ tbuf_full' = FALSE
        /\ txd' \in Frames /\ tx_done_ev' \in Nat /\ tx_done_ev' >= now
    BY <2>1, <2>2, LoadTSRLemma DEF IInv, TypeOK
  <2>4. TxType' /\ DoneEventBelongsToFrame'
    <3>1. tbuf' = tbuf /\ now' = now /\ tir_fire_count' \in Nat
      BY <1>1, <2>1, <2>2
    <3> QED BY <2>2, <2>3, <3>1 DEF TxType, DoneEventBelongsToFrame
  <2>5. IrqType' /\ PulsesEnd'
    BY <1>1, <1>3, <2>1, PulseLemma DEF IInv, TypeOK
  <2> QED BY <1>2, <2>4, <2>5 DEF IInv, TypeOK
<1>6. CASE "R" \in con /\ ~tbuf_full
  <2>1. /\ tsr_busy' = FALSE /\ tx_done_ev' = Never /\ Pulse({}, {"TIR"})
        /\ tir_fire_count' = tir_fire_count + 1
        /\ UNCHANGED <<tbuf_full, tsr, txd>>
    BY <1>6 DEF TxDone
  <2>2. TxType' /\ DoneEventBelongsToFrame'
    <3>1. tbuf' = tbuf /\ tir_fire_count' \in Nat
      BY <1>1, <2>1 DEF IInv, TypeOK, TxType
    <3> QED BY <2>1, <3>1 DEF IInv, TypeOK, TxType, DoneEventBelongsToFrame
  <2>3. IrqType' /\ PulsesEnd'
    BY <1>1, <1>3, <2>1, PulseLemma DEF IInv, TypeOK
  <2> QED BY <1>2, <2>2, <2>3 DEF IInv, TypeOK
<1> QED BY <1>4, <1>5, <1>6

LEMMA RxInjectStep ==
    ASSUME IInv, NEW b \in RxBytes, RxInject(b)
    PROVE  IInv'
<1>1. UNCHANGED <<mode, bg, clk, txVars, now, last_advance>>
  BY DEF RxInject
<1>2. TxType' /\ TimeType' /\ DoneEventBelongsToFrame'
  BY <1>1 DEF IInv, TypeOK, TxType, TimeType, DoneEventBelongsToFrame, txVars
<1>3. /\ {} \in SUBSET Irqs /\ {"EIR"} \in SUBSET Irqs
      /\ {"RIR"} \in SUBSET Irqs
  BY DEF Irqs
<1>4. CASE ~Receives
  <2>1. UNCHANGED <<con, rxVars, irqVars>>
    BY <1>4 DEF RxInject
  <2>2. RegsType' /\ RxType'
    BY <1>1, <2>1 DEF IInv, TypeOK, RegsType, RxType, rxVars
  <2>3. IrqType' /\ PulsesEnd'
    BY <1>1, <2>1 DEF IInv, TypeOK, IrqType, PulsesEnd, AssertStamp, irqVars
  <2> QED BY <1>2, <2>2, <2>3 DEF IInv, TypeOK
<1>5. CASE Receives /\ rbuf_full
  <2>1. con' = con \cup {"OE"} /\ UNCHANGED rxVars
    BY <1>5 DEF RxInject
  <2>2. Pulse({}, {"EIR"}) \/ Pulse({}, {})
    BY <1>5 DEF RxInject
  <2>3. RegsType' /\ RxType'
    BY <1>1, <1>5, <2>1
    DEF IInv, TypeOK, RegsType, RxType, rxVars, ConFlags
  <2>4. IrqType' /\ PulsesEnd'
    BY <1>1, <1>3, <2>2, PulseLemma DEF IInv, TypeOK
  <2> QED BY <1>2, <2>3, <2>4 DEF IInv, TypeOK
<1>6. CASE Receives /\ ~rbuf_full
  <2>1. /\ rbuf' = RxPacked(mode, con, b) /\ rbuf_full' = TRUE
        /\ Pulse({}, {"RIR"}) /\ UNCHANGED con
    BY <1>6 DEF RxInject
  <2>2. rbuf' \in 0..511
    <3>1. b \in 0..255 /\ mode \in Modes
      BY LineAssumption DEF IInv, TypeOK, RegsType
    <3> QED BY <2>1, <3>1, RxPackedType
  <2>3. RegsType' /\ RxType'
    BY <1>1, <2>1, <2>2 DEF IInv, TypeOK, RegsType, RxType
  <2>4. IrqType' /\ PulsesEnd'
    BY <1>1, <1>3, <2>1, PulseLemma DEF IInv, TypeOK
  <2> QED BY <1>2, <2>3, <2>4 DEF IInv, TypeOK
<1> QED BY <1>4, <1>5, <1>6

\* The wrapper's read of RBUF touches nothing but RBUF.
LEMMA ClearRbufStep ==
    ASSUME IInv, ClearRbuf
    PROVE  IInv'
<1>1. UNCHANGED <<regs, txVars, irqVars, now, last_advance>>
  BY DEF ClearRbuf
<1>2. RxType'
  <2>1. rbuf_full' \in BOOLEAN
    BY Zenon DEF ClearRbuf
  <2> QED BY <2>1 DEF ClearRbuf, RxType
<1>3. RegsType' /\ TxType' /\ TimeType' /\ IrqType'
  BY <1>1
  DEF IInv, TypeOK, RegsType, TxType, TimeType, IrqType, regs, txVars, irqVars
<1>4. PulsesEnd' /\ DoneEventBelongsToFrame'
  BY <1>1 DEF IInv, PulsesEnd, AssertStamp, DoneEventBelongsToFrame, txVars, irqVars
<1> QED BY <1>2, <1>3, <1>4 DEF IInv, TypeOK

\* The accesses that leave the transmitter alone.
LEMMA QuietAccessStep ==
    ASSUME IInv, NEW d \in BusDelays,
           \/ ReadRbuf(d)
           \/ \E c \in ConWrites : WriteCon(c, d)
           \/ \E x \in BgValues : WriteBg(x, d)
           \/ OtherAccess(d)
    PROVE  IInv'
<1>1. /\ UNCHANGED <<txVars, clk, now>>
      /\ StampAdvance(now + d) /\ Pulse(ExpiredAt(now + d), {})
  BY DEF ReadRbuf, WriteCon, WriteBg, OtherAccess, regs
<1>2. TxType' /\ DoneEventBelongsToFrame'
  BY <1>1 DEF IInv, TypeOK, TxType, DoneEventBelongsToFrame, txVars
<1>3. {} \in SUBSET Irqs
  OBVIOUS
<1>4. TimeType' /\ IrqType' /\ PulsesEnd'
  BY <1>1, <1>3, AccessLemma
<1>5. CASE ReadRbuf(d)
  <2>1. RegsType' /\ RxType'
    <3>1. rbuf_full' \in BOOLEAN
      BY <1>5, Zenon DEF ReadRbuf
    <3> QED BY <1>5, <3>1 DEF ReadRbuf, IInv, TypeOK, RegsType, RxType
  <2> QED BY <1>2, <1>4, <2>1 DEF IInv, TypeOK
<1>6. CASE \E c \in ConWrites : WriteCon(c, d)
  <2>1. PICK c \in ConWrites : WriteCon(c, d)
    BY <1>6
  <2>2. c[1] \in Modes /\ c[2] \in SUBSET ConFlags
    BY ConAssumption
  <2>3. con \in SUBSET ConFlags
    BY DEF IInv, TypeOK, RegsType
  <2>4. con' \in SUBSET ConFlags
    BY <2>1, <2>2, <2>3, ConAfterWriteType DEF WriteCon
  <2>5. RegsType' /\ RxType'
    BY <2>1, <2>2, <2>4 DEF WriteCon, IInv, TypeOK, RegsType, RxType, rxVars
  <2> QED BY <1>2, <1>4, <2>5 DEF IInv, TypeOK
<1>7. CASE \E x \in BgValues : WriteBg(x, d)
  <2>1. RegsType' /\ RxType'
    BY <1>7, BgAssumption
    DEF WriteBg, IInv, TypeOK, RegsType, RxType, rxVars
  <2> QED BY <1>2, <1>4, <2>1 DEF IInv, TypeOK
<1>8. CASE OtherAccess(d)
  <2>1. RegsType' /\ RxType'
    BY <1>8
    DEF OtherAccess, IInv, TypeOK, RegsType, RxType, regs, rxVars
  <2> QED BY <1>2, <1>4, <2>1 DEF IInv, TypeOK
<1> QED BY <1>5, <1>6, <1>7, <1>8

LEMMA KernelStep ==
    ASSUME IInv, (\E p \in ClkPeriods : SetClk(p)) \/ Reset \/ IrqDeassert \/ AdvanceTime
    PROVE  IInv'
<1>1. CASE \E p \in ClkPeriods : SetClk(p)
  <2>1. PICK p \in ClkPeriods : SetClk(p)
    BY <1>1
  <2>2. p \in Nat
    BY TimeAssumption
  <2>3. RegsType' /\ RxType' /\ TxType'
    BY <2>1, <2>2 DEF SetClk, IInv, TypeOK, RegsType, RxType, TxType, rxVars, txVars
  <2>4. TimeType'
    BY <2>1 DEF SetClk, StampAdvance, IInv, TypeOK, TimeType
  <2>5. IrqType' /\ PulsesEnd'
    <3>1. Pulse(ExpiredAt(now), {}) /\ UNCHANGED now /\ {} \in SUBSET Irqs
      BY <2>1 DEF SetClk
    <3> QED BY <3>1, ExpiredType, PulseLemma DEF IInv, TypeOK
  <2>6. DoneEventBelongsToFrame'
    BY <2>1 DEF SetClk, IInv, DoneEventBelongsToFrame, txVars, rxVars
  <2> QED BY <2>3, <2>4, <2>5, <2>6 DEF IInv, TypeOK
<1>2. CASE Reset
  <2>0. tbuf_full' \in BOOLEAN /\ tsr_busy' \in BOOLEAN /\ rbuf_full' \in BOOLEAN
    BY <1>2, Zenon DEF Reset, CancelEvents
  <2>1. RegsType' /\ RxType' /\ TimeType'
    BY <1>2, <2>0 DEF Reset, CancelEvents, IInv, TypeOK, RegsType, RxType, TimeType, Modes
  <2>4. IrqType'
    BY <1>2 DEF Reset, CancelEvents, IrqType
  <2>2. TxType'
    BY <1>2, <2>0, MarkType DEF Reset, CancelEvents, TxType
  <2>3. PulsesEnd' /\ DoneEventBelongsToFrame'
    BY <1>2 DEF Reset, CancelEvents, PulsesEnd, DoneEventBelongsToFrame
  <2> QED BY <2>1, <2>2, <2>3, <2>4 DEF IInv, TypeOK
<1>3. CASE IrqDeassert
  <2>1. RegsType' /\ RxType' /\ TxType' /\ TimeType'
    BY <1>3
    DEF IrqDeassert, IInv, TypeOK, RegsType, RxType, TxType, TimeType, regs, rxVars, txVars
  <2>2. IrqType'
    BY <1>3 DEF IrqDeassert, IInv, TypeOK, IrqType
  <2>3. line' = {}
    BY <1>3 DEF IrqDeassert, IInv, PulsesEnd
  <2>4. PulsesEnd'
    BY <1>3, <2>3 DEF IrqDeassert, PulsesEnd
  <2>5. DoneEventBelongsToFrame'
    BY <1>3
    DEF IrqDeassert, IInv, DoneEventBelongsToFrame, regs, rxVars, txVars
  <2> QED BY <2>1, <2>2, <2>4, <2>5 DEF IInv, TypeOK
<1>4. CASE AdvanceTime
  <2>1. UNCHANGED <<regs, txVars, rxVars, irqVars, last_advance>>
    BY <1>4 DEF AdvanceTime
  <2>2. now' \in Nat /\ (tx_done_ev = Never \/ tx_done_ev >= now')
    BY <1>4, TimeAssumption
    DEF AdvanceTime, IInv, TypeOK, TimeType, TxType, DoneEventBelongsToFrame, Never
  <2>3. RegsType' /\ RxType' /\ TxType' /\ TimeType' /\ IrqType'
    BY <2>1, <2>2
    DEF IInv, TypeOK, RegsType, RxType, TxType, TimeType, IrqType, regs, rxVars, txVars, irqVars
  <2>4. line = {}
    BY <1>4 DEF AdvanceTime, IInv, PulsesEnd
  <2>5. PulsesEnd'
    BY <2>1, <2>4 DEF IInv, PulsesEnd, irqVars
  <2>6. DoneEventBelongsToFrame'
    BY <2>1, <2>2
    DEF IInv, DoneEventBelongsToFrame, regs, rxVars, txVars
  <2> QED BY <2>3, <2>5, <2>6 DEF IInv, TypeOK
<1> QED BY <1>1, <1>2, <1>3, <1>4

LEMMA NextIInv == IInv /\ [Next]_vars => IInv'
<1> SUFFICES ASSUME IInv, [Next]_vars PROVE IInv'
  OBVIOUS
<1>1. CASE UNCHANGED vars
  <2> USE <1>1 DEF vars, regs, txVars, rxVars, irqVars
  <2>1. RegsType' /\ TxType' /\ RxType' /\ IrqType' /\ TimeType'
    BY DEF IInv, TypeOK, RegsType, TxType, RxType, IrqType, TimeType
  <2>2. PulsesEnd'
    BY DEF IInv, PulsesEnd, AssertStamp
  <2>3. DoneEventBelongsToFrame'
    BY DEF IInv, DoneEventBelongsToFrame
  <2> QED BY <2>1, <2>2, <2>3 DEF IInv, TypeOK
<1>2. ASSUME NEW d \in BusDelays, Access(d) PROVE IInv'
  BY <1>2, WriteTbufStep, QuietAccessStep DEF Access
<1>3. CASE \E b \in RxBytes : RxInject(b)
  BY <1>3, RxInjectStep
<1>4. CASE TxDone
  BY <1>4, TxDoneStep
<1>5. CASE (\E p \in ClkPeriods : SetClk(p)) \/ Reset \/ IrqDeassert \/ AdvanceTime
  BY <1>5, KernelStep
<1>6. CASE ClearRbuf
  BY <1>6, ClearRbufStep
<1> QED BY <1>1, <1>2, <1>3, <1>4, <1>5, <1>6 DEF Next

LEMMA Inductive == Spec => []IInv
  BY InitIInv, NextIInv, PTL DEF Spec

-----------------------------------------------------------------------------
(* Theorems *)

\* The registers, events and ports of the core stay in their types.
THEOREM TypeCorrect == Spec => []TypeOK
<1>1. IInv => TypeOK
  BY DEF IInv
<1> QED BY <1>1, Inductive, PTL

\* No interrupt line of the core is left high: whatever order the bus, the
\* receive path, the transmitter, the clock and the reset run in.
THEOREM PulsesAlwaysEnd == Spec => []PulsesEnd
<1>1. IInv => PulsesEnd
  BY DEF IInv
<1> QED BY <1>1, Inductive, PTL

\* The end-of-frame event never outlives its frame.
THEOREM DoneEventHasFrame == Spec => []DoneEventBelongsToFrame
<1>1. IInv => DoneEventBelongsToFrame
  BY DEF IInv
<1> QED BY <1>1, Inductive, PTL

\* A received byte is neither overwritten nor altered before it is read.
THEOREM UnreadByteIsKept == Spec => UnreadByteKept
<1>1. ASSUME [Next]_vars, rbuf_full, rbuf_full'
      PROVE  rbuf' = rbuf
  <2>1. CASE UNCHANGED vars
    BY <2>1 DEF vars, rxVars
  <2>2. CASE \E d \in BusDelays : Access(d)
    BY <1>1, <2>2 DEF Access, WriteTbuf, TbufData, WriteCon, WriteBg, ReadRbuf, OtherAccess, rxVars
  <2>3. CASE \E b \in RxBytes : RxInject(b)
    BY <1>1, <2>3 DEF RxInject, rxVars
  <2>4. CASE \E p \in ClkPeriods : SetClk(p)
    BY <2>4 DEF SetClk, rxVars
  <2>5. CASE Reset \/ ClearRbuf
    BY <1>1, <2>5 DEF Reset, CancelEvents, ClearRbuf
  <2>6. CASE TxDone \/ IrqDeassert \/ AdvanceTime
    BY <2>6 DEF TxDone, IrqDeassert, AdvanceTime, rxVars
  <2> QED BY <1>1, <2>1, <2>2, <2>3, <2>4, <2>5, <2>6 DEF Next
<1>2. [Next]_vars => [rbuf_full /\ rbuf_full' => rbuf' = rbuf]_vars
  BY <1>1
<1> QED BY <1>2, PTL DEF Spec, UnreadByteKept

-----------------------------------------------------------------------------
(* The driver that sets R before its first TBUF write and never clears it.    *)
(* NothingStranded alone is not inductive: a busy transmitter must also be    *)
(* known to run, or txDoneMethod() could drop the end of its frame.           *)

DriverDiscipline == EarlyTbuf = FALSE /\ \A c \in ConWrites : "R" \in c[2]

DriverInv == NothingStranded /\ (tsr_busy => "R" \in con)

LEMMA DriverTransmitterStep ==
    ASSUME DriverDiscipline, IInv, DriverInv,
           TxDone \/ \E w \in TxValues, d \in BusDelays : WriteTbuf(w, d)
    PROVE  DriverInv'
<1> USE DEF DriverInv, NothingStranded
<1>1. UNCHANGED con
  BY DEF TxDone, WriteTbuf, TbufData, regs
<1>2. CASE TxDone
  <2>1. "R" \in con
    BY <1>2 DEF TxDone, IInv, DoneEventBelongsToFrame, TypeOK, TimeType, Never
  <2>2. CASE tbuf_full
    <3>1. LoadTSR(tbuf, Never)
      BY <1>2, <2>1, <2>2 DEF TxDone
    <3>2. tbuf \in 0..511 /\ Never \in Nat \cup {Never}
      BY DEF IInv, TypeOK, TxType
    <3>3. tsr_busy' = TRUE /\ tbuf_full' = FALSE /\ tx_done_ev' \in Nat
      BY <3>1, <3>2, LoadTSRLemma DEF IInv, TypeOK
    <3> QED BY <1>1, <2>1, <3>3 DEF Never
  <2>3. CASE ~tbuf_full
    BY <1>2, <2>1, <2>3 DEF TxDone
  <2> QED BY <2>2, <2>3
<1>3. CASE \E w \in TxValues, d \in BusDelays : WriteTbuf(w, d)
  <2>1. PICK w \in TxValues, d \in BusDelays : WriteTbuf(w, d)
    BY <1>3
  <2>2. "R" \in con
    BY <2>1 DEF WriteTbuf, TbufData, DriverDiscipline
  <2>3. CASE tbuf_full
    BY <1>1, <2>1, <2>3 DEF WriteTbuf, TbufData, txVars
  <2>4. CASE ~tbuf_full /\ StartsAtOnce
    <3>1. LoadTSR(w % 512, tx_done_ev)
      BY <2>1, <2>4 DEF WriteTbuf, TbufData
    <3>2. w % 512 \in 0..511
      <4>1. w \in Nat
        BY DriverAssumption
      <4> QED BY <4>1
    <3>3. tx_done_ev \in Nat \cup {Never} /\ (tx_done_ev = Never \/ tx_done_ev >= now)
      BY DEF IInv, TypeOK, TxType, DoneEventBelongsToFrame
    <3>4. RegsType /\ TimeType
      BY DEF IInv, TypeOK
    <3>5. tsr_busy' = TRUE /\ tbuf_full' = FALSE /\ tx_done_ev' \in Nat
      <4>1. PICK v \in 0..511 : LoadTSR(v, tx_done_ev)
        BY <3>1, <3>2
      <4> QED BY <4>1, <3>3, <3>4, LoadTSRLemma
    <3> QED BY <1>1, <2>2, <3>5 DEF Never
  <2>5. CASE ~tbuf_full /\ ~StartsAtOnce
    BY <1>1, <2>1, <2>2, <2>5 DEF WriteTbuf, TbufData, StartsAtOnce
  <2> QED BY <2>3, <2>4, <2>5
<1> QED BY <1>2, <1>3

LEMMA DriverStep ==
    ASSUME DriverDiscipline, IInv, DriverInv, [Next]_vars
    PROVE  DriverInv'
<1> USE DEF DriverInv, NothingStranded
<1>1. CASE UNCHANGED vars
  BY <1>1 DEF vars, regs, txVars
<1>2. CASE TxDone \/ \E w \in TxValues, d \in BusDelays : WriteTbuf(w, d)
  BY <1>2, DriverTransmitterStep
<1>3. CASE Reset
  BY <1>3 DEF Reset, CancelEvents
<1>4. CASE \E d \in BusDelays : \E c \in ConWrites : WriteCon(c, d)
  BY <1>4 DEF WriteCon, ConAfterWrite, WritableFlags, ConFlags, DriverDiscipline, txVars
<1>5. CASE \E d \in BusDelays : \/ \E x \in BgValues : WriteBg(x, d)
                               \/ ReadRbuf(d)
                               \/ OtherAccess(d)
  BY <1>5 DEF WriteBg, ReadRbuf, OtherAccess, regs, txVars
<1>6. CASE \E b \in RxBytes : RxInject(b)
  <2>1. con' = con \/ con' = con \cup {"OE"}
    BY <1>6 DEF RxInject
  <2> QED BY <1>6, <2>1 DEF RxInject, txVars
<1>7. CASE (\E p \in ClkPeriods : SetClk(p)) \/ ClearRbuf \/ IrqDeassert \/ AdvanceTime
  BY <1>7 DEF SetClk, ClearRbuf, IrqDeassert, AdvanceTime, regs, txVars
<1> QED BY <1>1, <1>2, <1>3, <1>4, <1>5, <1>6, <1>7 DEF Next, Access

\* For a driver that sets R first and leaves it set, a byte in TBUF always
\* waits behind a frame on the line, and that frame has its end scheduled.
THEOREM NothingIsStranded == DriverDiscipline => (Spec => []NothingStranded)
<1> SUFFICES ASSUME DriverDiscipline PROVE Spec => []NothingStranded
  OBVIOUS
<1>1. Init => DriverInv
  BY DEF Init, DriverInv, NothingStranded
<1>2. IInv /\ DriverInv /\ [Next]_vars => DriverInv'
  BY DriverStep
<1>3. DriverInv => NothingStranded
  BY DEF DriverInv
<1> QED BY <1>1, <1>2, <1>3, Inductive, PTL DEF Spec

-----------------------------------------------------------------------------
(* The transmitter implements TxFifo                                          *)

LEMMA FifoWrite ==
    ASSUME IInv, NEW w \in TxValues, NEW d \in BusDelays, WriteTbuf(w, d)
    PROVE  [Fifo!Next]_(Fifo!vars)
<1>0. w % 512 \in 0..511
  <2>1. w \in Nat
    BY DriverAssumption
  <2> QED BY <2>1
<1> DEFINE v == w % 512
<1>1. v \in 0..511
  BY <1>0
<1> HIDE DEF v
<1>2. UNCHANGED tir_fire_count
  BY DEF WriteTbuf, TbufData, txVars
<1>3. Payload(v) \in 0..127
  BY <1>1 DEF Payload
<1>4. CASE tbuf_full
  BY <1>4 DEF WriteTbuf, TbufData, txVars, Fifo!vars, fifo, Payload
<1>5. ASSUME Len(fifo) < 2, fifo' = Append(fifo, Payload(v))
      PROVE  Fifo!Next
  BY <1>2, <1>3, <1>5 DEF Fifo!Next, Fifo!Accept
<1>6. CASE ~tbuf_full /\ StartsAtOnce
  <2>1. LoadTSR(v, tx_done_ev)
    BY <1>6 DEF WriteTbuf, TbufData, v
  <2>2. tx_done_ev \in Nat \cup {Never} /\ (tx_done_ev = Never \/ tx_done_ev >= now)
    BY DEF IInv, TypeOK, TxType, DoneEventBelongsToFrame
  <2>3. tsr' % 128 = v % 128 /\ tsr_busy' = TRUE /\ tbuf_full' = FALSE
    BY <1>1, <2>1, <2>2, LoadTSRLemma DEF IInv, TypeOK
  <2>4. fifo = << >> /\ fifo' = <<Payload(v)>>
    BY <1>6, <2>3 DEF fifo, Payload, StartsAtOnce
  <2> QED BY <1>5, <2>4
<1>7. CASE ~tbuf_full /\ ~StartsAtOnce
  <2>1. tbuf_full' = TRUE /\ tbuf' = v /\ UNCHANGED <<tsr_busy, tsr>>
    BY <1>7 DEF WriteTbuf, TbufData, v
  <2>2. CASE tsr_busy
    <3>1. fifo = <<Payload(tsr)>> /\ fifo' = <<Payload(tsr), Payload(v)>>
      BY <1>7, <2>1, <2>2 DEF fifo, Payload
    <3> QED BY <1>5, <3>1
  <2>3. CASE ~tsr_busy
    <3>1. fifo = << >> /\ fifo' = <<Payload(v)>>
      BY <1>7, <2>1, <2>3 DEF fifo, Payload
    <3> QED BY <1>5, <3>1
  <2> QED BY <2>2, <2>3
<1> QED BY <1>4, <1>6, <1>7

LEMMA FifoDone ==
    ASSUME IInv, TxDone
    PROVE  [Fifo!Next]_(Fifo!vars)
<1>1. tsr_busy /\ UNCHANGED tbuf
  BY DEF TxDone, IInv, DoneEventBelongsToFrame, TypeOK, TimeType, Never
<1>2. CASE "R" \notin con
  <2>1. UNCHANGED <<tbuf_full, tsr_busy, tsr, tir_fire_count>>
    BY <1>2 DEF TxDone
  <2> QED BY <1>1, <2>1 DEF Fifo!vars, fifo, Payload
<1>3. CASE "R" \in con /\ tbuf_full
  <2>1. LoadTSR(tbuf, Never) /\ tir_fire_count' = tir_fire_count + 1
    BY <1>3 DEF TxDone
  <2>2. tbuf \in 0..511 /\ Never \in Nat \cup {Never}
    BY DEF IInv, TypeOK, TxType
  <2>3. tsr' % 128 = tbuf % 128 /\ tsr_busy' = TRUE /\ tbuf_full' = FALSE
    <3>1. RegsType /\ TimeType
      BY DEF IInv, TypeOK
    <3> QED BY <2>1, <2>2, <3>1, LoadTSRLemma
  <2>4. fifo = <<Payload(tsr), Payload(tbuf)>> /\ fifo' = <<Payload(tbuf)>>
    BY <1>1, <1>3, <2>3 DEF fifo, Payload
  <2> QED BY <2>1, <2>4 DEF Fifo!Next, Fifo!Complete
<1>4. CASE "R" \in con /\ ~tbuf_full
  <2>1. /\ tsr_busy' = FALSE /\ tbuf_full' = tbuf_full
        /\ tir_fire_count' = tir_fire_count + 1
    BY <1>4 DEF TxDone
  <2>2. fifo = <<Payload(tsr)>> /\ fifo' = << >>
    BY <1>1, <1>4, <2>1 DEF fifo
  <2> QED BY <2>1, <2>2 DEF Fifo!Next, Fifo!Complete
<1> QED BY <1>2, <1>3, <1>4

LEMMA FifoOther ==
    ASSUME IInv, UNCHANGED txVars
    PROVE  [Fifo!Next]_(Fifo!vars)
  BY DEF Fifo!vars, fifo, Payload, txVars

\* Every behaviour of the core is, through TSR and TBUF, a behaviour of the
\* two-place FIFO: no accepted byte is lost, repeated or overtaken, and the
\* TIR counter counts the frames that ended.
THEOREM CoreImplementsFifo == Spec => ImplementsFifo
<1>1. Init => Fifo!Init
  BY DEF Init, Fifo!Init, fifo
<1>2. IInv /\ [Next]_vars => [Fifo!Next]_(Fifo!vars)
  <2> SUFFICES ASSUME IInv, [Next]_vars PROVE [Fifo!Next]_(Fifo!vars)
    OBVIOUS
  <2>1. CASE UNCHANGED vars
    BY <2>1, FifoOther DEF vars
  <2>2. ASSUME NEW d \in BusDelays, Access(d) PROVE [Fifo!Next]_(Fifo!vars)
    <3>1. CASE \E w \in TxValues : WriteTbuf(w, d)
      BY <3>1, FifoWrite
    <3>2. CASE \/ \E c \in ConWrites : WriteCon(c, d)
               \/ \E x \in BgValues : WriteBg(x, d)
               \/ ReadRbuf(d) \/ OtherAccess(d)
      BY <3>2, FifoOther DEF WriteCon, WriteBg, ReadRbuf, OtherAccess
    <3> QED BY <2>2, <3>1, <3>2 DEF Access
  <2>3. CASE (\E b \in RxBytes : RxInject(b)) \/ (\E p \in ClkPeriods : SetClk(p))
             \/ ClearRbuf \/ IrqDeassert \/ AdvanceTime
    BY <2>3, FifoOther DEF RxInject, SetClk, ClearRbuf, IrqDeassert, AdvanceTime
  <2>4. CASE Reset
    <3>1. fifo' = << >> /\ tir_fire_count' = 0
      BY <2>4 DEF Reset, CancelEvents, fifo
    <3> QED BY <3>1 DEF Fifo!Next, Fifo!Clear
  <2>5. CASE TxDone
    BY <2>5, FifoDone
  <2> QED BY <2>1, <2>2, <2>3, <2>4, <2>5 DEF Next
<1> QED BY <1>1, <1>2, Inductive, PTL DEF Spec, ImplementsFifo, Fifo!Spec
=============================================================================
