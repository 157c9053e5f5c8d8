-------------------------- MODULE Usart2Link_proofs ---------------------------
(* Theorems about the way of a byte from TBUF to the far receiver: Usart2     *)
(* implements SerialLink step by step, and update_status_from_core() reports  *)
(* the write or the byte it is called for where the two threads do not run it *)
(* together.  Both hold as long as the event counters do not wrap.            *)
EXTENDS Usart2_proofs, Usart2Events

\* No 32-bit counter of a USART comes to its end.
NoWrap == MaxWrites < CountMod

\* The bytes on their way to u.
Chan(u) == InFrame(u) \o rxd_pending_q[u] \o wire[u]

-----------------------------------------------------------------------------
(* Sequences *)

LEMMA Regroup ==
    ASSUME NEW s \in Seq(Nat), NEW t \in Seq(Nat), NEW u \in Seq(Nat)
    PROVE  (s \o t) \o u = s \o (t \o u)
  BY ConcatAssociative, SMTT(60)

LEMMA StartByte ==
    ASSUME NEW q \in Seq(Nat), NEW w \in Seq(Nat), q # <<>>
    PROVE  <<>> \o q \o w = <<Head(q)>> \o Tail(q) \o w
<1>1. Head(q) \in Nat /\ Tail(q) \in Seq(Nat) /\ Len(Tail(q)) = Len(q) - 1
      /\ \A i \in 1..Len(Tail(q)) : Tail(q)[i] = q[i + 1]
  BY HeadTailProperties
<1>2. <<Head(q)>> \in Seq(Nat) /\ Len(<<Head(q)>>) = 1 /\ <<Head(q)>>[1] = q[1]
  BY <1>1
<1>3. /\ <<Head(q)>> \o Tail(q) \in Seq(Nat)
      /\ Len(<<Head(q)>> \o Tail(q)) = Len(q)
      /\ \A i \in 1..Len(q) : (<<Head(q)>> \o Tail(q))[i] =
                                 IF i <= 1 THEN <<Head(q)>>[i] ELSE Tail(q)[i - 1]
  BY <1>1, <1>2, ConcatProperties, LenProperties
<1>4. ASSUME NEW i \in 1..Len(q) PROVE (<<Head(q)>> \o Tail(q))[i] = q[i]
  BY <1>1, <1>2, <1>3, LenProperties
<1>5. <<Head(q)>> \o Tail(q) = q
  BY <1>3, <1>4, SeqEqual
<1>6. <<>> \o q = q
  BY ConcatEmptySeq
<1> QED BY <1>5, <1>6

LEMMA TakeByte ==
    ASSUME NEW x \in Nat, NEW q \in Seq(Nat), NEW w \in Seq(Nat)
    PROVE  /\ <<x>> \o q \o w # <<>>
           /\ Tail(<<x>> \o q \o w) = <<>> \o q \o w
<1> DEFINE s == q \o w
           c == <<x>> \o s
<1>1. <<x>> \in Seq(Nat) /\ Len(<<x>>) = 1 /\ s \in Seq(Nat)
  BY ConcatProperties
<1>2. <<x>> \o q \o w = c /\ <<>> \o q \o w = s
  BY <1>1, ConcatAssociative, ConcatEmptySeq
<1> HIDE DEF s
<1>3. /\ c \in Seq(Nat) /\ Len(c) = Len(s) + 1
      /\ \A i \in 1..Len(s) : c[i + 1] = s[i]
  <2>1. /\ c \in Seq(Nat) /\ Len(c) = 1 + Len(s)
        /\ \A i \in 1..1 + Len(s) : c[i] = IF i <= 1 THEN <<x>>[i] ELSE s[i - 1]
    BY <1>1, ConcatProperties
  <2>2. Len(s) \in Nat
    BY <1>1, LenProperties
  <2> HIDE DEF c
  <2>3. ASSUME NEW i \in 1..Len(s) PROVE c[i + 1] = s[i]
    <3>1. i + 1 \in 1..1 + Len(s) /\ ~(i + 1 <= 1) /\ (i + 1) - 1 = i
      BY <2>2
    <3> QED BY <2>1, <3>1
  <2> QED BY <2>1, <2>2, <2>3
<1>4. c # <<>>
  BY <1>1, <1>3, LenProperties, EmptySeq
<1>5. Tail(c) \in Seq(Nat) /\ Len(Tail(c)) = Len(s)
      /\ \A i \in 1..Len(s) : Tail(c)[i] = s[i]
  <2> HIDE DEF c
  <2>1. /\ Tail(c) \in Seq(Nat) /\ Len(Tail(c)) = Len(c) - 1
        /\ \A i \in 1..Len(Tail(c)) : Tail(c)[i] = c[i + 1]
    BY <1>3, <1>4, HeadTailProperties
  <2>2. Len(s) \in Nat
    BY <1>1, LenProperties
  <2> QED BY <1>3, <2>1, <2>2
<1>6. Tail(c) = s
  BY <1>1, <1>5, SeqEqual
<1> QED BY <1>2, <1>4, <1>6

LEMMA SendByte ==
    ASSUME NEW f \in Seq(Nat), NEW q \in Seq(Nat), NEW w \in Seq(Nat), NEW b \in Nat
    PROVE  f \o q \o Append(w, b) = Append(f \o q \o w, b)
<1>1. f \o q \in Seq(Nat) /\ f \o q \o w \in Seq(Nat) /\ <<b>> \in Seq(Nat)
  BY ConcatProperties
<1> QED BY <1>1, AppendIsConcat, ConcatAssociative

LEMMA DeliverBytes ==
    ASSUME NEW f \in Seq(Nat), NEW q \in Seq(Nat), NEW w \in Seq(Nat), NEW n \in 1..Len(w)
    PROVE  f \o (q \o SubSeq(w, 1, n)) \o SubSeq(w, n + 1, Len(w)) = f \o q \o w
<1> DEFINE a == SubSeq(w, 1, n)
           z == SubSeq(w, n + 1, Len(w))
<1>1. Len(w) \in Nat
  BY LenProperties
<1>2. a \o z = SubSeq(w, 1, Len(w))
  <2>1. /\ 1 \in 1..Len(w)+1 /\ n \in (1-1)..Len(w) /\ Len(w) \in n..Len(w)
    BY <1>1
  <2> QED BY <2>1, ConcatAdjacentSubSeq
<1>3. a \o z = w
  <2>1. SubSeq(w, 1, Len(w)) = w
    BY SubSeqFull
  <2> QED BY <1>2, <2>1
<1>4. a \in Seq(Nat) /\ z \in Seq(Nat)
  BY <1>1, SubSeqProperties, ElementOfSeq
<1> HIDE DEF a, z
<1>5. f \o q \in Seq(Nat)
  BY ConcatProperties
<1>6. f \o (q \o a) = (f \o q) \o a
  BY <1>4, Regroup, Zenon
<1>7. ((f \o q) \o a) \o z = (f \o q) \o (a \o z)
  BY <1>4, <1>5, Regroup, Zenon
<1>8. f \o (q \o a) \o z = f \o q \o w
  BY <1>3, <1>6, <1>7, Zenon
<1> QED BY <1>8, Zenon DEF a, z

-----------------------------------------------------------------------------
(* What a step does to the bytes on their way *)

LEMMA ByteTypes ==
    ASSUME TypeInv, NEW u \in Usarts
    PROVE  /\ rxd_pending_q[u] \in Seq(Nat) /\ wire[u] \in Seq(Nat)
           /\ rxd_frame_byte[u] \in Nat /\ InFrame(u) \in Seq(Nat)
<1>1. Bytes \subseteq Nat
  BY BytesType
<1>2. Seq(Bytes) \subseteq Seq(Nat)
  BY <1>1, SeqMonotonic
<1>3. rxd_pending_q[u] \in Seq(Nat) /\ wire[u] \in Seq(Nat) /\ rxd_frame_byte[u] \in Nat
  <2>1. rxd_pending_q[u] \in Seq(Bytes) /\ wire[u] \in Seq(Bytes)
    BY DEF TypeInv, RxType
  <2>2. rxd_pending_q[u] \in Seq(Nat) /\ wire[u] \in Seq(Nat)
    BY <1>2, <2>1, Zenon
  <2>3. rxd_frame_byte[u] \in Bytes \cup {0}
    BY DEF TypeInv, RxType
  <2>4. rxd_frame_byte[u] \in Nat
    <3>1. CASE rxd_frame_byte[u] \in Bytes
      BY <1>1, <3>1, Zenon
    <3>2. CASE rxd_frame_byte[u] = 0
      BY <3>2
    <3> QED BY <2>3, <3>1, <3>2
  <2> QED BY <2>2, <2>4
<1>4. <<rxd_frame_byte[u]>> \in Seq(Nat)
  BY <1>3
<1> QED BY <1>3, <1>4, EmptySeq DEF InFrame

\* The bytes on their way stay where they are, or move on.
Keeps == UNCHANGED count /\ \A w \in Usarts : Chan(w)' = Chan(w)

\* A write of b to TBUF of v
Sends(v, b) ==
    /\ count[v]["TBIR"] < MaxWrites
    /\ count' = [count EXCEPT ![v]["TBIR"] = Incr(@)]
    /\ \A w \in Usarts : Chan(w)' = IF w = Peer[v] THEN Append(Chan(w), b) ELSE Chan(w)

\* rx_inject() takes the byte that has reached u, which counts it as k.
Takes(u, k) ==
    /\ Chan(u) # <<>>
    /\ count' = [count EXCEPT ![u][k] = Incr(@)]
    /\ \A w \in Usarts : Chan(w)' = IF w = u THEN Tail(Chan(u)) ELSE Chan(w)

Moves == \/ Keeps
         \/ \E v \in Usarts, b \in Bytes : Sends(v, b)
         \/ \E u \in Usarts, k \in {"RIR", "EIR"} : Takes(u, k)

LEMMA StaysOnItsWay ==
    ASSUME NEW w \in Usarts, UNCHANGED rxVars, Injecting(w)' <=> Injecting(w)
    PROVE  Chan(w)' = Chan(w)
<1>1. CASE rxd_busy[w] \/ Injecting(w)
  BY <1>1 DEF Chan, InFrame, rxVars
<1>2. CASE ~(rxd_busy[w] \/ Injecting(w))
  BY <1>2 DEF Chan, InFrame, rxVars
<1> QED BY <1>1, <1>2

LEMMA UpdateMoves == ASSUME TypeInv, NEW t \in Threads, Update(t) PROVE Moves
<1> USE DEF TypeInv, ThreadType, Locals, LocalsOf, Threads, UpdPlaces, Goto, Injecting, In
<1>1. UNCHANGED <<rxVars, count>>
  BY DEF Update, UpdTest, UpdLoad, UpdStore, UpdCount, UpdFired, UpdEnd, statVars
<1>2. ASSUME NEW w \in Usarts PROVE Injecting(w)' <=> Injecting(w)
  <2>1. CASE UpdTest(t) /\ Fires(at[t], Head(todo[t]))
    BY <2>1 DEF UpdTest
  <2>2. CASE UpdTest(t) /\ ~Fires(at[t], Head(todo[t]))
    BY <2>2 DEF UpdTest
  <2>3. CASE UpdLoad(t)
    BY <2>3 DEF UpdLoad
  <2>4. CASE UpdStore(t)
    BY <2>4 DEF UpdStore
  <2>5. CASE UpdCount(t)
    BY <2>5 DEF UpdCount
  <2>6. CASE UpdFired(t)
    BY <2>6 DEF UpdFired
  <2>7. CASE UpdEnd(t)
    BY <2>7 DEF UpdEnd
  <2> QED BY <2>1, <2>2, <2>3, <2>4, <2>5, <2>6, <2>7 DEF Update
<1> QED BY <1>1, <1>2, StaysOnItsWay DEF Moves, Keeps

LEMMA WriteTbufMoves ==
    ASSUME TypeInv, NEW v \in Usarts, NEW b \in Bytes, WriteTbuf(v, b) PROVE Moves
<1>1. /\ UNCHANGED <<rxd_pending_q, rxd_busy, rxd_frame_byte>>
      /\ \A w \in Usarts : wire'[w] = IF w = Peer[v] THEN Append(wire[w], b) ELSE wire[w]
  BY PeerType DEF WriteTbuf, TypeInv, RxType
<1>2. \A w \in Usarts : InFrame(w)' = InFrame(w)
  BY <1>1 DEF WriteTbuf, Start, InFrame, Injecting, In, TypeInv, ThreadType, Threads
<1>3. ASSUME NEW w \in Usarts
      PROVE  Chan(w)' = IF w = Peer[v] THEN Append(Chan(w), b) ELSE Chan(w)
  <2>1. /\ rxd_pending_q[w] \in Seq(Nat) /\ wire[w] \in Seq(Nat) /\ InFrame(w) \in Seq(Nat)
        /\ b \in Nat
    BY ByteTypes, BytesType
  <2>2. CASE w = Peer[v]
    <3>1. Chan(w)' = InFrame(w) \o rxd_pending_q[w] \o Append(wire[w], b)
      BY <1>1, <1>2, <2>2 DEF Chan
    <3>2. InFrame(w) \o rxd_pending_q[w] \o Append(wire[w], b)
            = Append(InFrame(w) \o rxd_pending_q[w] \o wire[w], b)
      BY <2>1, SendByte, Zenon
    <3> QED BY <2>2, <3>1, <3>2 DEF Chan
  <2>3. CASE w # Peer[v]
    BY <1>1, <1>2, <2>3 DEF Chan
  <2> QED BY <2>2, <2>3
<1>4. Sends(v, b)
  BY <1>3 DEF WriteTbuf, Sends
<1> QED BY <1>4 DEF Moves

LEMMA DriverMoves ==
    ASSUME TypeInv, (\E u \in Usarts : Driver(u)) \/ Access PROVE Moves
<1>1. CASE \E v \in Usarts, b \in Bytes : WriteTbuf(v, b)
  BY <1>1, WriteTbufMoves
<1>2. CASE ~\E v \in Usarts, b \in Bytes : WriteTbuf(v, b)
  <2>1. UNCHANGED <<rxVars, count>>
    BY <1>2 DEF Driver, RbufGet, WriteCon, OtherAccess, W1C, Access, TbufWrite, TbufTest,
       TbufLoad, RbufClearFull, RbufClearRaw, W1cLoad, W1cStore, statVars
  <2>2. \A w \in Usarts : Injecting(w)' <=> Injecting(w)
    BY BusLeavesS DEF Injecting, In
  <2> QED BY <2>1, <2>2, StaysOnItsWay DEF Moves, Keeps
<1> QED BY <1>1, <1>2

LEMMA DeliverMoves ==
    ASSUME TypeInv, NEW v \in Usarts, NEW n \in 1..Len(wire[v]), Deliver(v, n) PROVE Moves
<1>1. UNCHANGED <<rxd_busy, rxd_frame_byte, count>>
  BY DEF Deliver, statVars
<1>2. \A w \in Usarts : InFrame(w)' = InFrame(w)
  BY <1>1 DEF Deliver, Idle, Start, InFrame, Injecting, In, TypeInv, ThreadType, Threads
<1>3. /\ \A w \in Usarts \ {v} : UNCHANGED <<rxd_pending_q[w], wire[w]>>
      /\ rxd_pending_q'[v] = rxd_pending_q[v] \o SubSeq(wire[v], 1, n)
      /\ wire'[v] = SubSeq(wire[v], n + 1, Len(wire[v]))
  BY DEF Deliver, TypeInv, RxType
<1>4. Chan(v)' = Chan(v)
  <2>1. /\ rxd_pending_q[v] \in Seq(Nat) /\ wire[v] \in Seq(Nat) /\ InFrame(v) \in Seq(Nat)
    BY ByteTypes
  <2>2. InFrame(v) \o (rxd_pending_q[v] \o SubSeq(wire[v], 1, n))
                  \o SubSeq(wire[v], n + 1, Len(wire[v]))
          = InFrame(v) \o rxd_pending_q[v] \o wire[v]
    BY <2>1, DeliverBytes, Zenon
  <2> QED BY <1>2, <1>3, <2>2 DEF Chan
<1>5. \A w \in Usarts : Chan(w)' = Chan(w)
  BY <1>2, <1>3, <1>4 DEF Chan
<1> QED BY <1>1, <1>5 DEF Moves, Keeps

\* rxd_try_start() takes the first byte off the queue and into the frame.
LEMMA RxStartMoves == ASSUME TypeInv, RxInv, RxIdle \/ RxStart PROVE Moves
<1> DEFINE v == at["S"]
<1>1. v \in Usarts /\ pc["S"] = "rx_next"
  BY DEF TypeInv, ThreadType, Threads, RxIdle, RxStart
<1>2. CASE RxIdle
  <2>1. \A w \in Usarts : Injecting(w)' <=> Injecting(w)
    BY <1>1, <1>2 DEF RxIdle, Goto, Injecting, In, TypeInv, ThreadType, Threads
  <2> QED BY <1>2, <2>1, StaysOnItsWay DEF RxIdle, statVars, Moves, Keeps
<1>3. CASE RxStart
  <2>1. /\ UNCHANGED <<wire, count, at>> /\ rxd_pending_q[v] # <<>> /\ ~rxd_busy[v]
        /\ rxd_pending_q' = [rxd_pending_q EXCEPT ![v] = Tail(@)]
        /\ rxd_frame_byte' = [rxd_frame_byte EXCEPT ![v] = Head(rxd_pending_q[v])]
    BY <1>3 DEF RxStart, CanStartRx, statVars
  <2>2. /\ rxd_busy'[v] \/ Injecting(v)'
        /\ \A w \in Usarts \ {v} : /\ rxd_busy'[w] = rxd_busy[w]
                                   /\ Injecting(w)' <=> Injecting(w)
    <3>1. CASE "R" \in con[v]
      BY <1>1, <1>3, <3>1 DEF RxStart, Goto, Injecting, In, TypeInv, ThreadType, RxType, Threads
    <3>2. CASE "R" \notin con[v]
      BY <1>1, <1>3, <3>2 DEF RxStart, Goto, Injecting, In, TypeInv, ThreadType, RxType, Threads
    <3> QED BY <3>1, <3>2
  <2>3. ~Injecting(v)
    BY <1>1 DEF Injecting, In
  <2>4. Chan(v) = <<>> \o rxd_pending_q[v] \o wire[v]
    BY <2>1, <2>3 DEF Chan, InFrame
  <2>5. Chan(v)' = <<Head(rxd_pending_q[v])>> \o Tail(rxd_pending_q[v]) \o wire[v]
    BY <1>1, <2>1, <2>2 DEF Chan, InFrame, TypeInv, RxType
  <2>6. rxd_pending_q[v] \in Seq(Nat) /\ wire[v] \in Seq(Nat)
    BY <1>1, ByteTypes
  <2>7. <<>> \o rxd_pending_q[v] \o wire[v]
          = <<Head(rxd_pending_q[v])>> \o Tail(rxd_pending_q[v]) \o wire[v]
    BY <2>1, <2>6, StartByte, Zenon
  <2>8. \A w \in Usarts \ {v} : Chan(w)' = Chan(w)
    BY <2>1, <2>2 DEF Chan, InFrame, TypeInv, RxType
  <2> QED BY <2>1, <2>4, <2>5, <2>7, <2>8 DEF Moves, Keeps
<1> QED BY <1>2, <1>3

LEMMA RxDoneMoves == ASSUME TypeInv, RxInv, NEW v \in Usarts, RxDone(v) PROVE Moves
<1>1. /\ UNCHANGED <<rxd_pending_q, rxd_frame_byte, wire, count>>
      /\ rxd_busy' = [rxd_busy EXCEPT ![v] = FALSE] /\ rxd_busy[v] /\ Idle("S")
      /\ Injecting(v)' /\ \A w \in Usarts \ {v} : ~Injecting(w)'
  BY DEF RxDone, Dispatch, Start, statVars, RxInv, RxEv, Injecting, In, TypeInv, ThreadType,
         Threads
<1>2. \A w \in Usarts : ~Injecting(w)
  BY <1>1 DEF Injecting, In, Idle
<1>3. \A w \in Usarts : InFrame(w)' = InFrame(w)
  BY <1>1, <1>2 DEF InFrame, TypeInv, RxType
<1>4. \A w \in Usarts : Chan(w)' = Chan(w)
  BY <1>1, <1>3 DEF Chan
<1> QED BY <1>1, <1>4 DEF Moves, Keeps

\* A byte that rx_inject() has taken or refused leaves the frame.
LEMMA InjectMoves ==
    ASSUME TypeInv, RxInv,
           InjectDropped \/ InjectOverrun \/ OeStore \/ OeIrq \/ InjectByte \/ InjectFull
    PROVE  Moves
<1> DEFINE v == at["S"]
<1>1. v \in Usarts /\ UNCHANGED <<rxVars, at>>
  BY DEF TypeInv, ThreadType, Threads, InjectDropped, InjectOverrun, OeStore, OeIrq,
         InjectByte, InjectFull
<1>2. Injecting(v)
  BY DEF InjectDropped, InjectOverrun, OeStore, OeIrq, InjectByte, InjectFull, Injecting, In
<1>3. CASE InjectOverrun \/ OeStore \/ InjectByte
  <2>1. UNCHANGED count /\ \A w \in Usarts : Injecting(w)' <=> Injecting(w)
    BY <1>1, <1>2, <1>3 DEF InjectOverrun, OeStore, InjectByte, Goto, Injecting, In, statVars,
       TypeInv, ThreadType, Threads
  <2> QED BY <1>1, <2>1, StaysOnItsWay DEF Moves, Keeps
<1>4. CASE InjectDropped \/ OeIrq \/ InjectFull
  <2>1. \E k \in {"RIR", "EIR"} : count' = [count EXCEPT ![v][k] = Incr(@)]
    BY <1>4 DEF InjectDropped, OeIrq, InjectFull, Refused
  <2>2. \A w \in Usarts : ~Injecting(w)'
    BY <1>4 DEF InjectDropped, OeIrq, InjectFull, Refused, EnterUpdate, Injecting, In,
       TypeInv, ThreadType, Threads
  <2>3. \A w \in Usarts \ {v} : ~Injecting(w)
    BY DEF Injecting, In
  <2>4. ~rxd_busy[v]
    BY <1>1, <1>2 DEF RxInv
  <2>5. Chan(v) = <<rxd_frame_byte[v]>> \o rxd_pending_q[v] \o wire[v]
    BY <1>2 DEF Chan, InFrame
  <2>6. Chan(v)' = <<>> \o rxd_pending_q[v] \o wire[v]
    BY <1>1, <2>2, <2>4 DEF Chan, InFrame, rxVars
  <2>7. /\ rxd_pending_q[v] \in Seq(Nat) /\ wire[v] \in Seq(Nat)
        /\ rxd_frame_byte[v] \in Nat
    BY <1>1, ByteTypes
  <2>8. /\ <<rxd_frame_byte[v]>> \o rxd_pending_q[v] \o wire[v] # <<>>
        /\ Tail(<<rxd_frame_byte[v]>> \o rxd_pending_q[v] \o wire[v])
             = <<>> \o rxd_pending_q[v] \o wire[v]
    BY <2>7, TakeByte, Zenon
  <2>9. Chan(v) # <<>> /\ Chan(v)' = Tail(Chan(v))
    BY <2>5, <2>6, <2>8
  <2>10. \A w \in Usarts \ {v} : Chan(w)' = Chan(w)
    BY <1>1, <2>2, <2>3, StaysOnItsWay
  <2> QED BY <1>1, <2>1, <2>9, <2>10 DEF Moves, Takes
<1> QED BY <1>3, <1>4

LEMMA TransmitterMoves ==
    ASSUME TypeInv, TxdTest \/ TxdLoad \/ \E u \in Usarts : TxDone(u) \/ TirAuto(u)
    PROVE  Moves
<1>1. UNCHANGED <<rxVars, count>>
  BY DEF TxdTest, TxdLoad, TxDone, TirAuto, statVars
<1>2. pc["S"] \in {"idle", "txd_test", "txd_load"}
  BY DEF TxdTest, TxdLoad, TxDone, TirAuto, Dispatch, Idle
<1>3. pc'["S"] \in {"idle", "txd_test", "txd_load", "upd"}
  BY DEF TypeInv, ThreadType, Threads, TxdTest, TxdLoad, TxDone, TirAuto, Dispatch, Idle,
         EnterUpdate, Goto, Start
<1>4. \A w \in Usarts : Injecting(w)' <=> Injecting(w)
  BY <1>2, <1>3 DEF Injecting, In
<1> QED BY <1>1, <1>4, StaysOnItsWay DEF Moves, Keeps

LEMMA SchedulerMoves ==
    ASSUME \/ DeltaCycle \/ AdvanceTime
           \/ \E u \in Usarts : IrqDeassert(u) \/ IrqMethod(u) \/ IrqPulse(u)
    PROVE  Moves
<1>1. UNCHANGED <<rxVars, count, thVars>>
  BY DEF DeltaCycle, AdvanceTime, IrqDeassert, IrqMethod, IrqPulse, statVars
<1>2. \A w \in Usarts : Injecting(w)' <=> Injecting(w)
  BY <1>1 DEF Injecting, In, thVars
<1> QED BY <1>1, <1>2, StaysOnItsWay DEF Moves, Keeps

LEMMA EveryStepMoves == TypeInv /\ RxInv /\ [Next]_vars => Moves
<1> SUFFICES ASSUME TypeInv, RxInv, [Next]_vars PROVE Moves
  OBVIOUS
<1>1. CASE (\E u \in Usarts : Driver(u)) \/ Access
  BY <1>1, DriverMoves
<1>2. ASSUME NEW t \in Threads, Update(t) PROVE Moves
  BY <1>2, UpdateMoves
<1>3. CASE Process
  BY <1>3, RxDoneMoves, RxStartMoves, InjectMoves, TransmitterMoves, SchedulerMoves DEF Process
<1>4. CASE (\E u \in Usarts : Bridge(u)) \/ DeltaCycle \/ AdvanceTime
  BY <1>4, DeliverMoves, SchedulerMoves DEF Bridge
<1>5. CASE UNCHANGED vars
  <2>1. UNCHANGED <<rxVars, count, thVars>>
    BY <1>5 DEF vars, statVars
  <2>2. \A w \in Usarts : Injecting(w)' <=> Injecting(w)
    BY <2>1 DEF Injecting, In, thVars
  <2> QED BY <2>1, <2>2, StaysOnItsWay DEF Moves, Keeps
<1> QED BY <1>1, <1>2, <1>3, <1>4, <1>5 DEF Next, Kernel, Threads

-----------------------------------------------------------------------------
(* The account of the bytes *)

\* What was written to a USART is on its way to its peer or was counted there,
\* and nothing is on its way to a receiver that no one feeds.
FlowInv ==
    /\ \A v \in Usarts :
          /\ count[v]["TBIR"] <= MaxWrites
          /\ Len(Chan(Peer[v])) + count[Peer[v]]["RIR"] + count[Peer[v]]["EIR"]
               = count[v]["TBIR"]
    /\ \A u \in Usarts : (\A v \in Usarts : Peer[v] # u) => Chan(u) = <<>>

LEMMA ChanType == ASSUME TypeInv, NEW u \in Usarts PROVE Chan(u) \in Seq(Nat)
  BY ByteTypes, ConcatProperties DEF Chan

LEMMA CountsAreNat ==
    ASSUME TypeInv, NEW u \in Usarts, NEW b \in Counters PROVE count[u][b] \in Nat
  BY CountType DEF TypeInv, StatType

LEMMA IncrNoWrap ==
    ASSUME NEW n \in Nat, n + 1 < CountMod PROVE Incr(n) = n + 1
  BY CountType DEF Incr

LEMMA PeersDiffer ==
    ASSUME NEW u \in Usarts, NEW v \in Usarts, u # v PROVE Peer[u] # Peer[v]
  BY Usart2Assumption

LEMMA SendCounts ==
    ASSUME NoWrap, TypeInv, NEW v \in Usarts, count[v]["TBIR"] < MaxWrites
    PROVE  Incr(count[v]["TBIR"]) = count[v]["TBIR"] + 1
  BY CountsAreNat, IncrNoWrap, CountType DEF NoWrap, Counters

\* A byte that has arrived was written, and the writes are bounded.
LEMMA TakeCounts ==
    ASSUME NoWrap, TypeInv, FlowInv, NEW u \in Usarts, NEW k \in {"RIR", "EIR"},
           Chan(u) # <<>>
    PROVE  Incr(count[u][k]) = count[u][k] + 1
<1>1. PICK v \in Usarts : Peer[v] = u
  BY DEF FlowInv
<1>2. Chan(u) \in Seq(Nat)
  BY ChanType
<1>3. Len(Chan(u)) \in Nat /\ Len(Chan(u)) # 0
  BY <1>2, EmptySeq, LenProperties
<1>4. /\ count[u]["RIR"] \in Nat /\ count[u]["EIR"] \in Nat /\ count[v]["TBIR"] \in Nat
  BY CountsAreNat DEF Counters
<1>5. Len(Chan(u)) + count[u]["RIR"] + count[u]["EIR"] <= MaxWrites
  BY <1>1 DEF FlowInv
<1>6. count[u][k] \in Nat /\ count[u][k] + 1 < CountMod
  BY <1>3, <1>4, <1>5, CountType DEF NoWrap
<1> QED BY <1>6, IncrNoWrap

LEMMA FlowOfSend ==
    ASSUME NoWrap, TypeInv, FlowInv, NEW v \in Usarts, NEW b \in Bytes, Sends(v, b)
    PROVE  FlowInv'
<1>1. count' = [count EXCEPT ![v] = [count[v] EXCEPT !["TBIR"] = count[v]["TBIR"] + 1]]
  BY SendCounts DEF Sends
<1>2. /\ count'[v]["TBIR"] = count[v]["TBIR"] + 1
      /\ \A w \in Usarts \ {v} : count'[w]["TBIR"] = count[w]["TBIR"]
      /\ \A w \in Usarts : /\ count'[w]["RIR"] = count[w]["RIR"]
                           /\ count'[w]["EIR"] = count[w]["EIR"]
  BY <1>1 DEF TypeInv, StatType, Counters
<1>3. Chan(Peer[v])' = Append(Chan(Peer[v]), b) /\ Peer[v] \in Usarts
  BY PeerType DEF Sends
<1>4. Len(Chan(Peer[v])') = Len(Chan(Peer[v])) + 1
  BY <1>3, ChanType, BytesType, AppendProperties
<1>5. ASSUME NEW w \in Usarts
      PROVE  /\ count'[w]["TBIR"] <= MaxWrites
             /\ Len(Chan(Peer[w])') + count'[Peer[w]]["RIR"] + count'[Peer[w]]["EIR"]
                  = count'[w]["TBIR"]
  <2>0. Peer[w] \in Usarts /\ count[w]["TBIR"] \in Nat
    BY PeerType, CountsAreNat DEF Counters
  <2>1. Len(Chan(Peer[w])) \in Nat /\ count[Peer[w]]["RIR"] \in Nat /\ count[Peer[w]]["EIR"] \in Nat
    BY <2>0, ChanType, LenProperties, CountsAreNat DEF Counters
  <2>2. CASE w = v
    <3>1. Len(Chan(Peer[v])) + count[Peer[v]]["RIR"] + count[Peer[v]]["EIR"] = count[v]["TBIR"]
      BY DEF FlowInv
    <3>2. count[v]["TBIR"] + 1 <= MaxWrites
      BY <2>0, <2>2, CountType DEF Sends
    <3>3. count'[Peer[v]]["RIR"] = count[Peer[v]]["RIR"] /\ count'[Peer[v]]["EIR"] = count[Peer[v]]["EIR"]
      BY <1>2, <1>3
    <3>4. Len(Chan(Peer[v])') + count'[Peer[v]]["RIR"] + count'[Peer[v]]["EIR"]
            = count[v]["TBIR"] + 1
      BY <1>4, <2>1, <2>2, <3>1, <3>3
    <3> QED BY <1>2, <2>2, <3>2, <3>4
  <2>3. CASE w # v
    <3>1. Chan(Peer[w])' = Chan(Peer[w])
      BY <2>0, <2>3, PeersDiffer DEF Sends
    <3> QED BY <1>2, <2>0, <2>3, <3>1 DEF FlowInv
  <2> QED BY <2>2, <2>3
<1>6. ASSUME NEW u \in Usarts, \A w \in Usarts : Peer[w] # u PROVE Chan(u)' = <<>>
  BY <1>6 DEF FlowInv, Sends
<1> QED BY <1>5, <1>6 DEF FlowInv

LEMMA FlowOfTake ==
    ASSUME NoWrap, TypeInv, FlowInv, NEW u \in Usarts, NEW k \in {"RIR", "EIR"}, Takes(u, k)
    PROVE  FlowInv'
<1>1. count' = [count EXCEPT ![u] = [count[u] EXCEPT ![k] = count[u][k] + 1]]
  BY TakeCounts DEF Takes
<1>2. \A w \in Usarts : count'[w]["TBIR"] = count[w]["TBIR"]
  BY <1>1 DEF TypeInv, StatType, Counters
<1>3. \A w \in Usarts \ {u} : count'[w]["RIR"] = count[w]["RIR"] /\ count'[w]["EIR"] = count[w]["EIR"]
  BY <1>1 DEF TypeInv, StatType, Counters
<1>4. count'[u]["RIR"] + count'[u]["EIR"] = count[u]["RIR"] + count[u]["EIR"] + 1
  <2>1. count[u]["RIR"] \in Nat /\ count[u]["EIR"] \in Nat
    BY CountsAreNat DEF Counters
  <2>2. CASE k = "RIR"
    BY <1>1, <2>1, <2>2 DEF TypeInv, StatType, Counters
  <2>3. CASE k = "EIR"
    BY <1>1, <2>1, <2>3 DEF TypeInv, StatType, Counters
  <2> QED BY <2>2, <2>3
<1>5. Len(Chan(u)') = Len(Chan(u)) - 1
  BY ChanType, HeadTailProperties DEF Takes
<1>6. count'[u]["RIR"] \in Nat /\ count'[u]["EIR"] \in Nat
  BY <1>1, CountsAreNat DEF TypeInv, StatType, Counters
<1>7. ASSUME NEW w \in Usarts
      PROVE  Len(Chan(Peer[w])') + count'[Peer[w]]["RIR"] + count'[Peer[w]]["EIR"]
               = count'[w]["TBIR"]
  <2>1. Peer[w] \in Usarts
    BY PeerType
  <2>2. Len(Chan(Peer[w])) \in Nat /\ count[Peer[w]]["RIR"] \in Nat /\ count[Peer[w]]["EIR"] \in Nat
    BY <2>1, ChanType, LenProperties, CountsAreNat DEF Counters
  <2>3. CASE Peer[w] = u
    <3>1. Len(Chan(u)) + count[u]["RIR"] + count[u]["EIR"] = count[w]["TBIR"]
      BY <2>3 DEF FlowInv
    <3>2. Len(Chan(u)') + count'[u]["RIR"] + count'[u]["EIR"] = count[w]["TBIR"]
      <4>1. Len(Chan(u)) \in Nat /\ count[u]["RIR"] \in Nat /\ count[u]["EIR"] \in Nat
        BY <2>2, <2>3
      <4>2. Len(Chan(u)) + (count[u]["RIR"] + count[u]["EIR"]) = count[w]["TBIR"]
        BY <3>1, <4>1
      <4>3. Len(Chan(u)') + (count'[u]["RIR"] + count'[u]["EIR"])
              = Len(Chan(u)) + (count[u]["RIR"] + count[u]["EIR"])
        BY <1>4, <1>5, <4>1
      <4> QED BY <1>5, <1>6, <4>1, <4>2, <4>3
    <3> QED BY <1>2, <2>3, <3>2
  <2>4. CASE Peer[w] # u
    BY <1>2, <1>3, <2>1, <2>4 DEF FlowInv, Takes
  <2> QED BY <2>3, <2>4
<1>8. ASSUME NEW w \in Usarts, \A v \in Usarts : Peer[v] # w PROVE Chan(w)' = <<>>
  <2>1. Chan(w) = <<>> /\ w # u
    BY <1>8 DEF FlowInv, Takes
  <2> QED BY <2>1 DEF Takes
<1> QED BY <1>2, <1>7, <1>8 DEF FlowInv

LEMMA NextFlow ==
    ASSUME NoWrap, TypeInv, FlowInv, Moves PROVE FlowInv'
<1>1. CASE Keeps
  <2>1. \A v \in Usarts : Peer[v] \in Usarts
    BY PeerType
  <2> QED BY <1>1, <2>1 DEF Keeps, FlowInv
<1> QED BY <1>1, FlowOfSend, FlowOfTake DEF Moves

LEMMA InitChan == Init => \A u \in Usarts : Chan(u) = <<>>
<1> SUFFICES ASSUME Init, NEW u \in Usarts PROVE Chan(u) = <<>>
  OBVIOUS
<1>1. InFrame(u) = <<>> /\ rxd_pending_q[u] = <<>> /\ wire[u] = <<>>
  BY DEF Init, InFrame, Injecting, In, Threads
<1> QED BY <1>1 DEF Chan

LEMMA InitFlow == Init => FlowInv
<1> SUFFICES ASSUME Init PROVE FlowInv
  OBVIOUS
<1>1. \A u \in Usarts : Chan(u) = <<>> /\ \A b \in Counters : count[u][b] = 0
  BY InitChan DEF Init
<1>2. \A v \in Usarts : Peer[v] \in Usarts
  BY PeerType
<1>3. Len(<<>>) = 0
  OBVIOUS
<1> QED BY <1>1, <1>2, <1>3, CountType DEF FlowInv, Counters

-----------------------------------------------------------------------------
(* Usart2 implements SerialLink *)

LEMMA InitLink == Init => Link!Init
<1> SUFFICES ASSUME Init PROVE Link!Init
  OBVIOUS
<1>1. \A u \in Usarts : Chan(u) = <<>> /\ \A b \in Counters : count[u][b] = 0
  BY InitChan DEF Init
<1> QED BY <1>1 DEF Link!Init, Chan, Counters

LEMMA MovesRefine ==
    ASSUME NoWrap, TypeInv, FlowInv, Moves PROVE [Link!Next]_Link!vars
<1>1. CASE Keeps
  <2>1. [u \in Usarts |-> Chan(u)]' = [u \in Usarts |-> Chan(u)]
    BY <1>1 DEF Keeps
  <2> QED BY <1>1, <2>1 DEF Keeps, Chan, Link!vars
<1>2. ASSUME NEW v \in Usarts, NEW b \in Bytes, Sends(v, b) PROVE Link!Next
  <2>1. /\ \A w \in Usarts : /\ count'[w]["RIR"] = count[w]["RIR"]
                             /\ count'[w]["EIR"] = count[w]["EIR"]
        /\ Peer[v] \in Usarts
    BY <1>2, PeerType DEF Sends, TypeInv, StatType, Counters
  <2>2. [u \in Usarts |-> Chan(u)]'
          = [[u \in Usarts |-> Chan(u)] EXCEPT ![Peer[v]] = Append(@, b)]
    BY <1>2, <2>1 DEF Sends
  <2>3. Link!Send(Peer[v], b)
    BY <2>1, <2>2 DEF Link!Send, Chan
  <2> QED BY <2>1, <2>3 DEF Link!Next
<1>3. ASSUME NEW v \in Usarts, Takes(v, "RIR") PROVE Link!Next
  <2>1. /\ count'[v]["RIR"] = count[v]["RIR"] + 1
        /\ \A w \in Usarts \ {v} : count'[w]["RIR"] = count[w]["RIR"]
        /\ \A w \in Usarts : count'[w]["EIR"] = count[w]["EIR"]
    BY <1>3, TakeCounts DEF Takes, TypeInv, StatType, Counters
  <2>2. [u \in Usarts |-> Chan(u)]' = [[u \in Usarts |-> Chan(u)] EXCEPT ![v] = Tail(@)]
    BY <1>3 DEF Takes
  <2>3. [u \in Usarts |-> count[u]["RIR"]]'
          = [[u \in Usarts |-> count[u]["RIR"]] EXCEPT ![v] = @ + 1]
    BY <2>1
  <2>4. [u \in Usarts |-> count[u]["EIR"]]' = [u \in Usarts |-> count[u]["EIR"]]
    BY <2>1
  <2>5. [u \in Usarts |-> Chan(u)][v] # <<>>
    BY <1>3 DEF Takes
  <2>6. Link!Accept(v)
    BY <2>2, <2>3, <2>4, <2>5 DEF Link!Accept, Chan
  <2> QED BY <2>6 DEF Link!Next
<1>4. ASSUME NEW v \in Usarts, Takes(v, "EIR") PROVE Link!Next
  <2>1. /\ count'[v]["EIR"] = count[v]["EIR"] + 1
        /\ \A w \in Usarts \ {v} : count'[w]["EIR"] = count[w]["EIR"]
        /\ \A w \in Usarts : count'[w]["RIR"] = count[w]["RIR"]
    BY <1>4, TakeCounts DEF Takes, TypeInv, StatType, Counters
  <2>2. [u \in Usarts |-> Chan(u)]' = [[u \in Usarts |-> Chan(u)] EXCEPT ![v] = Tail(@)]
    BY <1>4 DEF Takes
  <2>3. [u \in Usarts |-> count[u]["EIR"]]'
          = [[u \in Usarts |-> count[u]["EIR"]] EXCEPT ![v] = @ + 1]
    BY <2>1
  <2>4. [u \in Usarts |-> count[u]["RIR"]]' = [u \in Usarts |-> count[u]["RIR"]]
    BY <2>1
  <2>5. [u \in Usarts |-> Chan(u)][v] # <<>>
    BY <1>4 DEF Takes
  <2>6. Link!Refuse(v)
    BY <2>2, <2>3, <2>4, <2>5 DEF Link!Refuse, Chan
  <2> QED BY <2>6 DEF Link!Next
<1> QED BY <1>1, <1>2, <1>3, <1>4 DEF Moves

\* The bytes written to a USART travel to its peer in order, and each is
\* accepted or refused and counted there exactly once, whatever the two threads
\* interleave: every step of Usart2 is a step of SerialLink or leaves it alone
\* (b_transport() to rx_inject()).
THEOREM BytesTravelInOrder == NoWrap => (Spec => ImplementsLink)
<1> SUFFICES ASSUME NoWrap PROVE Spec => ImplementsLink
  OBVIOUS
<1>1. TypeInv /\ RxInv /\ FlowInv /\ [Next]_vars => FlowInv' /\ [Link!Next]_Link!vars
  BY EveryStepMoves, NextFlow, MovesRefine
<1> QED BY InitTypeInv, NextTypeInv, InitRx, NextRx, InitFlow, InitLink, <1>1, PTL
        DEF Spec, ImplementsLink, Link!Spec

-----------------------------------------------------------------------------
(* The counters of update_status_from_core() *)

\* No event has fired that was not counted, also in the copy of its count that
\* either thread is about to store.
CountInv ==
    /\ \A u \in Usarts : \A b \in Counters : fired[u][b] <= count[u][b]
    /\ \A t \in Threads : pc[t] = "upd_fired" /\ Head(todo[t]) \in Counters
                              => ld_count[t] <= count[at[t]][Head(todo[t])]

LEMMA FiredAreNat ==
    ASSUME TypeInv, NEW u \in Usarts, NEW b \in StatusBits PROVE fired[u][b] \in Nat
  BY CountType DEF TypeInv, StatType

\* The counters never go back.
LEMMA CountsGrow ==
    ASSUME NoWrap, TypeInv, FlowInv, Moves, NEW u \in Usarts, NEW b \in Counters
    PROVE  count[u][b] <= count'[u][b] /\ count'[u][b] \in Nat
<1>1. \A v \in Usarts, c \in Counters : count[v][c] \in Nat
  BY CountsAreNat
<1>2. CASE Keeps
  BY <1>1, <1>2 DEF Keeps
<1>3. ASSUME NEW v \in Usarts, NEW x \in Bytes, Sends(v, x)
      PROVE  count[u][b] <= count'[u][b] /\ count'[u][b] \in Nat
  <2>1. count' = [count EXCEPT ![v] = [count[v] EXCEPT !["TBIR"] = count[v]["TBIR"] + 1]]
    BY <1>3, SendCounts DEF Sends
  <2> QED BY <1>1, <2>1 DEF TypeInv, StatType, Counters
<1>4. ASSUME NEW v \in Usarts, NEW k \in {"RIR", "EIR"}, Takes(v, k)
      PROVE  count[u][b] <= count'[u][b] /\ count'[u][b] \in Nat
  <2>1. count' = [count EXCEPT ![v] = [count[v] EXCEPT ![k] = count[v][k] + 1]]
    BY <1>4, TakeCounts DEF Takes
  <2> QED BY <1>1, <2>1 DEF TypeInv, StatType, Counters
<1> QED BY <1>2, <1>3, <1>4 DEF Moves

\* No step but these two of update_status_from_core() concerns what has fired.
LEMMA OthersFireNothing ==
    ASSUME TypeInv, [Next]_vars, \A t \in Threads : ~UpdCount(t) /\ ~UpdFired(t)
    PROVE  /\ fired' = fired
           /\ \A t \in Threads : pc'[t] = "upd_fired" =>
                 pc[t] = "upd_fired" /\ UNCHANGED <<at[t], todo[t], ld_count[t]>>
<1> USE DEF TypeInv, ThreadType, Threads, Goto, Start, EnterUpdate
<1>1. ASSUME NEW u \in Usarts, Driver(u) PROVE fired' = fired /\ pc["Q"] = "idle"
             /\ UNCHANGED <<pc["S"], at["S"], todo["S"], ld_count>> /\ pc'["Q"] # "upd_fired"
  BY <1>1 DEF Driver, WriteTbuf, RbufGet, WriteCon, OtherAccess, W1C, Idle, statVars
<1>2. CASE Access
  <2>1. CASE TbufWrite \/ TbufTest
    BY <2>1 DEF TbufWrite, TbufTest, statVars
  <2>2. CASE ~(TbufWrite \/ TbufTest)
    BY <1>2, <2>2 DEF Access, TbufLoad, RbufClearFull, RbufClearRaw, W1cLoad, W1cStore,
       statVars
  <2> QED BY <2>1, <2>2
<1>3. ASSUME NEW t \in Threads, Update(t)
      PROVE  /\ fired' = fired /\ pc'[t] # "upd_fired"
             /\ \A r \in Threads \ {t} : UNCHANGED <<pc[r], at[r], todo[r], ld_count[r]>>
  <2>1. CASE UpdTest(t)
    BY <2>1 DEF UpdTest, statVars
  <2>2. CASE UpdLoad(t) \/ UpdStore(t)
    BY <2>2 DEF UpdLoad, UpdStore, statVars
  <2>3. CASE UpdEnd(t)
    BY <2>3 DEF UpdEnd, statVars
  <2> QED BY <1>3, <2>1, <2>2, <2>3 DEF Update
<1>4. CASE RxIdle \/ RxStart \/ InjectDropped \/ InjectOverrun \/ OeStore \/ OeIrq
           \/ InjectByte \/ InjectFull \/ TxdTest \/ TxdLoad
  <2>1. CASE RxIdle \/ RxStart
    BY <2>1 DEF RxIdle, RxStart, statVars
  <2>2. CASE InjectDropped \/ InjectOverrun \/ OeStore \/ OeIrq
    BY <2>2 DEF InjectDropped, InjectOverrun, OeStore, OeIrq, Refused, statVars
  <2>3. CASE InjectByte \/ InjectFull
    BY <2>3 DEF InjectByte, InjectFull, statVars
  <2>4. CASE TxdTest \/ TxdLoad
    BY <2>4 DEF TxdTest, TxdLoad, statVars
  <2> QED BY <1>4, <2>1, <2>2, <2>3, <2>4
<1>5. ASSUME NEW u \in Usarts, \/ RxDone(u) \/ TxDone(u) \/ TirAuto(u)
                               \/ IrqDeassert(u) \/ IrqMethod(u) \/ IrqPulse(u)
      PROVE  /\ fired' = fired /\ pc["S"] = "idle" /\ pc'["S"] # "upd_fired"
             /\ UNCHANGED <<pc["Q"], at["Q"], todo["Q"], ld_count>>
  <2>1. CASE RxDone(u) \/ IrqDeassert(u) \/ IrqMethod(u) \/ IrqPulse(u)
    BY <2>1 DEF RxDone, IrqDeassert, IrqMethod, IrqPulse, Dispatch, Idle, statVars, thVars
  <2>2. CASE TxDone(u)
    BY <2>2 DEF TxDone, Dispatch, Idle, statVars
  <2>3. CASE TirAuto(u)
    BY <2>3 DEF TirAuto, Dispatch, Idle, statVars
  <2> QED BY <1>5, <2>1, <2>2, <2>3
<1>6. CASE (\E u \in Usarts : Bridge(u)) \/ DeltaCycle \/ AdvanceTime
  BY <1>6 DEF Bridge, Deliver, DeltaCycle, AdvanceTime, statVars, thVars
<1>7. CASE UNCHANGED vars
  BY <1>7 DEF vars, statVars, thVars
<1> QED BY <1>1, <1>2, <1>3, <1>4, <1>5, <1>6, <1>7 DEF Next, Kernel, Process

LEMMA NextCounts ==
    NoWrap /\ TypeInv /\ RxInv /\ FlowInv /\ CountInv /\ [Next]_vars => CountInv'
<1> SUFFICES ASSUME NoWrap, TypeInv, RxInv, FlowInv, CountInv, [Next]_vars PROVE CountInv'
  OBVIOUS
<1>1. \A u \in Usarts, b \in Counters : /\ count[u][b] <= count'[u][b]
                                        /\ count[u][b] \in Nat /\ count'[u][b] \in Nat
  BY EveryStepMoves, CountsGrow, CountsAreNat
<1>2. \A u \in Usarts, b \in StatusBits : fired[u][b] \in Nat
  BY FiredAreNat
<1>3. /\ \A t \in Threads : at[t] \in Usarts /\ ld_count[t] \in Nat
      /\ Counters \subseteq StatusBits
  BY CountType DEF TypeInv, ThreadType, Counters, StatusBits
<1>4. CASE \A t \in Threads : ~UpdCount(t) /\ ~UpdFired(t)
  <2>1. /\ fired' = fired
        /\ \A t \in Threads : pc'[t] = "upd_fired" =>
              pc[t] = "upd_fired" /\ UNCHANGED <<at[t], todo[t], ld_count[t]>>
    BY <1>4, OthersFireNothing
  <2>2. ASSUME NEW u \in Usarts, NEW b \in Counters PROVE fired'[u][b] <= count'[u][b]
    BY <1>1, <1>2, <1>3, <2>1 DEF CountInv
  <2>3. ASSUME NEW t \in Threads, pc'[t] = "upd_fired", Head(todo'[t]) \in Counters
        PROVE  ld_count'[t] <= count'[at'[t]][Head(todo'[t])]
    BY <1>1, <1>3, <2>1, <2>3 DEF CountInv
  <2> QED BY <2>2, <2>3 DEF CountInv
<1>5. ASSUME NEW t \in Threads, UpdCount(t) PROVE CountInv'
  <2>1. /\ UNCHANGED <<count, fired, at, todo>>
        /\ pc' = [pc EXCEPT ![t] = "upd_fired"]
        /\ ld_count' = [ld_count EXCEPT ![t] = CountOf(at[t], Head(todo[t]))]
    BY <1>5 DEF UpdCount, Goto, statVars
  <2>2. Head(todo[t]) \in Counters => CountOf(at[t], Head(todo[t])) = count[at[t]][Head(todo[t])]
    BY DEF CountOf, Counters
  <2> QED BY <1>1, <1>3, <2>1, <2>2 DEF CountInv, TypeInv, ThreadType
<1>6. ASSUME NEW t \in Threads, UpdFired(t) PROVE CountInv'
  <2> DEFINE u == at[t]
             b == Head(todo[t])
  <2>1. /\ UNCHANGED <<count, at>> /\ pc[t] = "upd_fired" /\ pc' = [pc EXCEPT ![t] = "upd"]
        /\ todo' = [todo EXCEPT ![t] = Tail(@)] /\ ld_count' = [ld_count EXCEPT ![t] = 0]
        /\ fired' = [fired EXCEPT ![u] = [fired[u] EXCEPT ![b] = ld_count[t]]]
    BY <1>6 DEF UpdFired, Goto
  <2>2. \A v \in Usarts : \A c \in StatusBits :
            fired'[v][c] = fired[v][c] \/ (v = u /\ c = b /\ fired'[v][c] = ld_count[t])
    BY <1>3, <2>1 DEF TypeInv, StatType
  <2>3. \A v \in Usarts, c \in Counters : fired'[v][c] <= count'[v][c]
    BY <1>3, <2>1, <2>2 DEF CountInv
  <2>4. \A r \in Threads : pc'[r] = "upd_fired" =>
            pc[r] = "upd_fired" /\ UNCHANGED <<at[r], todo[r], ld_count[r]>>
    BY <2>1 DEF TypeInv, ThreadType
  <2> QED BY <2>1, <2>3, <2>4 DEF CountInv
<1> QED BY <1>4, <1>5, <1>6

LEMMA InitCounts == Init => CountInv
<1> SUFFICES ASSUME Init PROVE CountInv
  OBVIOUS
<1>1. \A u \in Usarts : /\ \A b \in Counters : count[u][b] = 0
                        /\ \A b \in StatusBits : fired[u][b] = 0
  BY DEF Init
<1>2. \A t \in Threads : pc[t] = "idle"
  BY DEF Init
<1> QED BY <1>1, <1>2 DEF CountInv, Counters, StatusBits

-----------------------------------------------------------------------------
(* Where the two threads do not overlap, no event is missed *)

TbufPlaces == {"tbuf", "tbuf_test", "tbuf_load"}

\* What is counted on u and not yet in STATUS is still before the thread that
\* counted it, and nobody has taken it for reported.
Settled(u) ==
    /\ ~Overlap(u)
    /\ \A b \in unreported[u] : fired[u][b] < count[u][b]
    /\ \A t \in Threads : In(t, u, {"upd_count", "upd_fired"}) => Head(todo[t]) \notin unreported[u]
    /\ "TBIR" \in unreported[u] => \/ In("Q", u, TbufPlaces)
                                   \/ In("Q", u, UpdPlaces) /\ todo["Q"] = UpdateOrder
    /\ "RIR" \in unreported[u] => /\ In("S", u, UpdPlaces) /\ "RIR" \in asserted[u]
                                  /\ todo["S"] \in {UpdateOrder, <<"RIR", "EIR">>}
    /\ In("S", u, UpdPlaces) /\ ret["S"] = "rx_next" =>
           /\ todo["S"] # <<"TIR">>
           /\ todo["S"] = <<>> => "EIR" \notin unreported[u] \cap asserted[u]

EventInv ==
    /\ unreported \in [Usarts -> SUBSET Counters] /\ overlapped \subseteq Usarts
    /\ \A u \in Usarts \ overlapped : Settled(u)

LEMMA TodosDiffer ==
    /\ UpdateOrder # <<>> /\ <<"RIR", "EIR">> # <<>> /\ <<"TIR">> # <<>>
    /\ UpdateOrder # <<"TIR">> /\ <<"RIR", "EIR">> # <<"TIR">>
  BY DEF UpdateOrder

\* The bits that are left of the loop, one after the other.
LEMMA TodoOrder ==
    ASSUME NEW td \in Todos, td # <<>>
    PROVE  /\ td = UpdateOrder => Head(td) = "TBIR" /\ Tail(td) = <<"RIR", "EIR">>
           /\ td = <<"RIR", "EIR">> => Head(td) = "RIR" /\ Tail(td) = <<"EIR">>
           /\ td # <<"TIR">> /\ Tail(td) = <<>> => Head(td) = "EIR"
           /\ Tail(td) # <<"TIR">> /\ Tail(td) # UpdateOrder
           /\ Tail(td) = <<"RIR", "EIR">> => Head(td) = "TBIR"
<1>1. CASE td = <<"EIR">>
  <2>1. Tail(td) = <<>> /\ Head(td) = "EIR" /\ td # <<"RIR", "EIR">> /\ td # UpdateOrder
    BY <1>1 DEF UpdateOrder
  <2> QED BY <2>1, TodosDiffer
<1>2. CASE td = <<"TIR">>
  <2>1. Tail(td) = <<>> /\ td # <<"RIR", "EIR">> /\ td # UpdateOrder
    BY <1>2 DEF UpdateOrder
  <2> QED BY <1>2, <2>1, TodosDiffer
<1>3. CASE td = <<"RIR", "EIR">>
  <2>1. Tail(td) = <<"EIR">> /\ Head(td) = "RIR" /\ td # UpdateOrder
    BY <1>3 DEF UpdateOrder
  <2>2. <<"EIR">> # <<>> /\ <<"EIR">> # <<"TIR">> /\ <<"EIR">> # UpdateOrder
        /\ <<"EIR">> # <<"RIR", "EIR">>
    BY DEF UpdateOrder
  <2> QED BY <2>1, <2>2
<1>4. CASE td = <<"TBIR", "RIR", "EIR">>
  <2>1. Tail(td) = <<"RIR", "EIR">> /\ Head(td) = "TBIR" /\ td # <<"RIR", "EIR">>
    BY <1>4
  <2>2. <<"RIR", "EIR">> # UpdateOrder
    BY DEF UpdateOrder
  <2> QED BY <2>1, <2>2, TodosDiffer
<1> QED BY <1>1, <1>2, <1>3, <1>4 DEF Todos

\* The bus thread outside its update: a TBUF write is counted and goes on to it.
LEMMA BusEvents ==
    ASSUME TypeInv, (\E u \in Usarts : Driver(u)) \/ Access
    PROVE  /\ fired' = fired /\ pc["Q"] \notin UpdPlaces
           /\ UNCHANGED <<pc["S"], at["S"], todo["S"], ret["S"]>>
           /\ pc'["Q"] \in UpdPlaces => pc'["Q"] = "upd"
           /\ \A u \in Usarts : In("Q", u, TbufPlaces) =>
                 \/ In("Q", u, TbufPlaces)'
                 \/ In("Q", u, UpdPlaces)' /\ todo'["Q"] = UpdateOrder
           /\ \A u \in Usarts, b \in Counters : count'[u][b] # count[u][b] =>
                 b = "TBIR" /\ In("Q", u, TbufPlaces)'
<1> USE DEF TypeInv, ThreadType, StatType, Threads, UpdPlaces, TbufPlaces, Goto, Start,
            EnterUpdate, In
<1>1. ASSUME NEW v \in Usarts, Driver(v) PROVE fired' = fired /\ pc["Q"] = "idle"
             /\ UNCHANGED <<pc["S"], at["S"], todo["S"], ret["S"]>>
             /\ (pc'["Q"] \in UpdPlaces => pc'["Q"] = "upd")
             /\ \A u \in Usarts, b \in Counters : count'[u][b] # count[u][b] =>
                   b = "TBIR" /\ pc'["Q"] = "tbuf" /\ at'["Q"] = u
  <2>1. ASSUME NEW x \in Bytes, WriteTbuf(v, x)
        PROVE  /\ fired' = fired /\ pc["Q"] = "idle" /\ pc'["Q"] = "tbuf" /\ at'["Q"] = v
               /\ UNCHANGED <<pc["S"], at["S"], todo["S"], ret["S"]>>
               /\ \A u \in Usarts, b \in Counters : count'[u][b] # count[u][b] =>
                     b = "TBIR" /\ u = v
    BY <2>1 DEF WriteTbuf, Idle
  <2>2. CASE ~\E x \in Bytes : WriteTbuf(v, x)
    BY <1>1, <2>2 DEF Driver, RbufGet, WriteCon, OtherAccess, W1C, Idle, statVars
  <2> QED BY <2>1, <2>2
<1>2. CASE TbufWrite
  <2>1. CASE tbuf_full[at["Q"]]
    BY <1>2, <2>1 DEF TbufWrite, statVars
  <2>2. CASE ~tbuf_full[at["Q"]]
    BY <1>2, <2>2 DEF TbufWrite, statVars
  <2> QED BY <2>1, <2>2
<1>3. CASE TbufTest
  <2>1. CASE StartsAtOnce(at["Q"])
    BY <1>3, <2>1 DEF TbufTest, statVars
  <2>2. CASE ~StartsAtOnce(at["Q"])
    BY <1>3, <2>2 DEF TbufTest, statVars
  <2> QED BY <2>1, <2>2
<1>4. CASE TbufLoad
  BY <1>4 DEF TbufLoad, statVars
<1>5. CASE RbufClearFull \/ RbufClearRaw \/ W1cLoad \/ W1cStore
  BY <1>5 DEF RbufClearFull, RbufClearRaw, W1cLoad, W1cStore, statVars
<1> QED BY <1>1, <1>2, <1>3, <1>4, <1>5 DEF Access

\* An access that is less than two clocks ahead of the kernel ends no pulse.
LEMMA BusKeepsPulses ==
    ASSUME TypeInv, ~LateBus, (\E u \in Usarts : Driver(u)) \/ Access, NEW u \in Usarts
    PROVE  asserted'[u] = asserted[u] \/ asserted'[u] = asserted[u] \cup {"TBIR"}
<1>1. ASSUME NEW v \in Usarts, \E x \in Stale(v) : Expire(v, x) PROVE asserted' = asserted
  BY <1>1 DEF Stale, Expire, TypeInv, CoreType
<1>2. CASE TbufLoad
  BY <1>2 DEF TbufLoad, LoadTSR, TypeInv, CoreType
<1>3. ASSUME NEW v \in Usarts, Driver(v) PROVE asserted' = asserted
  BY <1>1, <1>3 DEF Driver, WriteTbuf, RbufGet, WriteCon, OtherAccess, W1C, coreVars
<1>4. CASE TbufWrite
  BY <1>1, <1>4 DEF TbufWrite, TypeInv, ThreadType, Threads
<1>5. CASE TbufTest \/ RbufClearFull \/ RbufClearRaw \/ W1cLoad \/ W1cStore
  BY <1>5 DEF TbufTest, RbufClearFull, RbufClearRaw, W1cLoad, W1cStore, coreVars
<1> QED BY <1>2, <1>3, <1>4, <1>5 DEF Access

\* The scheduler outside its update: a received byte is counted, its pulse
\* raised if it is accepted, and the update is next.
LEMMA KernelEvents ==
    ASSUME TypeInv, Process \/ (\E u \in Usarts : Bridge(u)) \/ DeltaCycle \/ AdvanceTime
    PROVE  /\ fired' = fired /\ pc["S"] \notin UpdPlaces
           /\ UNCHANGED <<pc["Q"], at["Q"], todo["Q"]>>
           /\ pc'["S"] \in UpdPlaces =>
                 /\ pc'["S"] = "upd" /\ todo'["S"] \in {UpdateOrder, <<"TIR">>}
                 /\ ret'["S"] = "rx_next" => todo'["S"] = UpdateOrder
           /\ \A u \in Usarts, b \in Counters : count'[u][b] # count[u][b] =>
                 /\ b # "TBIR" /\ In("S", u, UpdPlaces)' /\ todo'["S"] = UpdateOrder
                 /\ b = "RIR" => "RIR" \in asserted'[u]
<1> USE DEF TypeInv, ThreadType, StatType, Threads, UpdPlaces, Goto, Start, EnterUpdate, In
<1>1. CASE RxIdle \/ RxStart \/ InjectOverrun \/ OeStore \/ InjectByte \/ TxdTest \/ TxdLoad
  <2>1. CASE RxIdle \/ RxStart
    BY <2>1 DEF RxIdle, RxStart, statVars
  <2>2. CASE InjectOverrun \/ OeStore \/ InjectByte
    BY <2>2 DEF InjectOverrun, OeStore, InjectByte, statVars
  <2>3. CASE TxdTest \/ TxdLoad
    BY <2>3 DEF TxdTest, TxdLoad, statVars
  <2> QED BY <1>1, <2>1, <2>2, <2>3
<1>2. CASE InjectDropped \/ OeIrq
  <2>1. /\ UNCHANGED <<fired, at>> /\ pc["S"] \in {"inject", "oe_irq"} /\ at["S"] \in Usarts
        /\ count' = [count EXCEPT ![at["S"]] = [count[at["S"]] EXCEPT !["EIR"] = Incr(@)]]
        /\ pc' = [pc EXCEPT !["S"] = "upd"] /\ todo' = [todo EXCEPT !["S"] = UpdateOrder]
    BY <1>2 DEF InjectDropped, OeIrq, Refused
  <2> QED BY <2>1
<1>3. CASE InjectFull
  <2>1. "RIR" \in asserted'[at["S"]]
    BY <1>3 DEF InjectFull, AssertIrq, CoreType
  <2> QED BY <1>3, <2>1 DEF InjectFull
<1>4. ASSUME NEW v \in Usarts, RxDone(v) \/ TxDone(v) \/ IrqDeassert(v) \/ IrqMethod(v)
                               \/ IrqPulse(v) \/ Bridge(v)
      PROVE  /\ UNCHANGED <<fired, count, pc["Q"], at["Q"], todo["Q"]>>
             /\ pc["S"] = "idle" /\ pc'["S"] \notin UpdPlaces
  <2>1. CASE RxDone(v) \/ IrqDeassert(v) \/ IrqMethod(v) \/ IrqPulse(v)
    BY <2>1 DEF RxDone, IrqDeassert, IrqMethod, IrqPulse, Dispatch, Idle, statVars, thVars
  <2>2. CASE TxDone(v)
    BY <2>2 DEF TxDone, Dispatch, Idle, statVars
  <2>3. CASE Bridge(v)
    BY <2>3 DEF Bridge, Deliver, Idle, statVars
  <2> QED BY <1>4, <2>1, <2>2, <2>3
<1>5. ASSUME NEW v \in Usarts, TirAuto(v)
      PROVE  /\ UNCHANGED <<fired, count, pc["Q"], at["Q"], todo["Q"]>> /\ pc["S"] = "idle"
             /\ pc'["S"] \in UpdPlaces =>
                   pc'["S"] = "upd" /\ todo'["S"] = <<"TIR">> /\ ret'["S"] = "idle"
  BY <1>5 DEF TirAuto, Dispatch, Idle, statVars
<1>6. CASE DeltaCycle \/ AdvanceTime
  BY <1>6 DEF DeltaCycle, AdvanceTime, Idle, statVars, thVars
<1> QED BY <1>1, <1>2, <1>3, <1>4, <1>5, <1>6 DEF Process

\* A step of the program with its history is a step of the program.
LEMMA HistoryOfAStep == EvNext => Next /\ Remember
  BY DEF EvNext, EvDriver, EvAccess, EvKernel, Next

\* What history keeps of a step that stores no event into STATUS
LEMMA HistoryGrows ==
    ASSUME EventInv, EvNext, NEW u \in Usarts,
           \A t \in Threads : pc[t] = "upd_store" => pc'[t] = pc[t]
    PROVE  \A b : b \in unreported'[u] <=>
              \/ b \in unreported[u]
              \/ b \in Counters /\ count'[u][b] # count[u][b]
<1>1. Stored(u) = {}
  BY DEF Stored, In
<1> QED BY <1>1, HistoryOfAStep DEF EventInv, Remember, Counted

LEMMA BusSettled ==
    ASSUME NoWrap, ~LateBus, TypeInv, RxInv, FlowInv, CountInv, EventInv, EvNext,
           (\E v \in Usarts : Driver(v)) \/ Access,
           NEW u \in Usarts \ overlapped, ~Overlap(u)'
    PROVE  Settled(u)'
<1>1. Settled(u) /\ Counters \subseteq StatusBits
  BY DEF EventInv, Counters, StatusBits
<1>2. \A b \in Counters : /\ fired'[u][b] = fired[u][b] /\ fired[u][b] <= count[u][b]
                          /\ count[u][b] <= count'[u][b] /\ count[u][b] \in Nat
                          /\ count'[u][b] \in Nat /\ fired[u][b] \in Nat
  <2>1. [Next]_vars
    BY HistoryOfAStep
  <2> QED BY <1>1, <2>1, BusEvents, EveryStepMoves, CountsGrow, CountsAreNat, FiredAreNat
         DEF CountInv
<1>3. \A b : b \in unreported'[u] <=> \/ b \in unreported[u]
                                      \/ b \in Counters /\ count'[u][b] # count[u][b]
  <2>1. \A t \in Threads : pc[t] = "upd_store" => pc'[t] = pc[t]
    BY BusEvents DEF Threads, UpdPlaces
  <2> QED BY <2>1, HistoryGrows
<1>4. \A b \in unreported'[u] : fired'[u][b] < count'[u][b]
  <2>1. \A b \in unreported[u] : b \in Counters /\ fired[u][b] < count[u][b]
    BY <1>1 DEF EventInv, Settled
  <2> QED BY <1>2, <1>3, <2>1
<1>5. \A b \in unreported'[u] : b \in unreported[u] \/ b = "TBIR"
  BY <1>3, BusEvents
<1>6. "TBIR" \in unreported'[u] => \/ In("Q", u, TbufPlaces)'
                                   \/ In("Q", u, UpdPlaces)' /\ todo'["Q"] = UpdateOrder
  <2>1. CASE "TBIR" \in unreported[u] /\ In("Q", u, TbufPlaces)
    BY <2>1, BusEvents
  <2>2. CASE "TBIR" \notin unreported[u]
    BY <1>3, <2>2, BusEvents
  <2> QED BY <1>1, <2>1, <2>2, BusEvents DEF Settled, In
<1>7. \A t \in Threads : In(t, u, {"upd_count", "upd_fired"})' =>
          Head(todo'[t]) \notin unreported'[u]
  <2>1. pc'["Q"] \notin {"upd_count", "upd_fired"}
    BY BusEvents DEF UpdPlaces
  <2>2. ASSUME In("S", u, {"upd_count", "upd_fired"})' PROVE Head(todo'["S"]) \notin unreported'[u]
    <3>1. In("S", u, {"upd_count", "upd_fired"}) /\ Head(todo["S"]) \notin unreported[u]
          /\ todo'["S"] = todo["S"] /\ In("S", u, UpdPlaces)'
      BY <1>1, <2>2, BusEvents DEF Settled, In, Threads, UpdPlaces
    <3>2. count'[u]["TBIR"] = count[u]["TBIR"]
      BY <3>1, BusEvents DEF Overlap, In, Counters, TbufPlaces, UpdPlaces
    <3> QED BY <1>3, <1>5, <3>1, <3>2
  <2> QED BY <2>1, <2>2 DEF In, Threads
<1>8. \A b \in {"RIR", "EIR"} : /\ b \in unreported'[u] => b \in unreported[u]
                                /\ b \in asserted'[u] <=> b \in asserted[u]
  BY <1>5, BusKeepsPulses
<1>9. In("S", u, UpdPlaces)' <=> In("S", u, UpdPlaces)
  BY BusEvents DEF In, UpdPlaces
<1> QED BY <1>1, <1>4, <1>6, <1>7, <1>8, <1>9, BusEvents DEF Settled

LEMMA KernelSettled ==
    ASSUME NoWrap, TypeInv, RxInv, FlowInv, CountInv, EventInv, EvNext,
           Process \/ (\E v \in Usarts : Bridge(v)) \/ DeltaCycle \/ AdvanceTime,
           NEW u \in Usarts \ overlapped, ~Overlap(u)'
    PROVE  Settled(u)'
<1>1. Settled(u) /\ Counters \subseteq StatusBits
  BY DEF EventInv, Counters, StatusBits
<1>2. \A b \in Counters : /\ fired'[u][b] = fired[u][b] /\ fired[u][b] <= count[u][b]
                          /\ count[u][b] <= count'[u][b] /\ count[u][b] \in Nat
                          /\ count'[u][b] \in Nat /\ fired[u][b] \in Nat
  <2>1. [Next]_vars
    BY HistoryOfAStep
  <2> QED BY <1>1, <2>1, KernelEvents, EveryStepMoves, CountsGrow, CountsAreNat, FiredAreNat
         DEF CountInv
<1>3. \A b : b \in unreported'[u] <=> \/ b \in unreported[u]
                                      \/ b \in Counters /\ count'[u][b] # count[u][b]
  <2>1. \A t \in Threads : pc[t] = "upd_store" => pc'[t] = pc[t]
    BY KernelEvents DEF Threads, UpdPlaces
  <2> QED BY <2>1, HistoryGrows
<1>4. \A b \in unreported'[u] : fired'[u][b] < count'[u][b]
  <2>1. \A b \in unreported[u] : b \in Counters /\ fired[u][b] < count[u][b]
    BY <1>1 DEF EventInv, Settled
  <2> QED BY <1>2, <1>3, <2>1
<1>5. ASSUME NEW b \in unreported'[u]
      PROVE  \/ b \in unreported[u]
             \/ /\ b # "TBIR" /\ In("S", u, UpdPlaces)' /\ todo'["S"] = UpdateOrder
                /\ b = "RIR" => "RIR" \in asserted'[u]
  BY <1>3, KernelEvents
<1>6. "RIR" \notin unreported[u]
  BY <1>1, KernelEvents DEF Settled, In
<1>7. ASSUME NEW t \in Threads, In(t, u, {"upd_count", "upd_fired"})'
      PROVE  Head(todo'[t]) \notin unreported'[u]
  <2>1. t = "Q" /\ In("Q", u, {"upd_count", "upd_fired"}) /\ todo'[t] = todo[t]
        /\ In("Q", u, UpdPlaces)'
    BY <1>7, KernelEvents DEF In, UpdPlaces, Threads
  <2>2. ~In("S", u, UpdPlaces)'
    BY <2>1 DEF Overlap, In
  <2> QED BY <1>1, <1>5, <2>1, <2>2 DEF Settled
<1>8. In("S", u, UpdPlaces)' /\ ret'["S"] = "rx_next" =>
          todo'["S"] # <<"TIR">> /\ todo'["S"] # <<>>
  BY KernelEvents, TodosDiffer DEF In
<1>9. "TBIR" \in unreported'[u] => \/ In("Q", u, TbufPlaces)'
                                   \/ In("Q", u, UpdPlaces)' /\ todo'["Q"] = UpdateOrder
  BY <1>1, <1>5, KernelEvents DEF Settled, In, UpdPlaces, TbufPlaces
<1> QED BY <1>4, <1>5, <1>6, <1>7, <1>8, <1>9 DEF Settled

\* What an update is about stays with its thread, step by step.
LEMMA UpdTestSettled ==
    ASSUME TypeInv, EventInv, EvNext, NEW t \in Threads, UpdTest(t),
           NEW u \in Usarts \ overlapped, ~Overlap(u)'
    PROVE  Settled(u)'
<1> DEFINE b == Head(todo[t])
<1>1. Settled(u) /\ u \in Usarts
  BY DEF EventInv
<1>2. /\ UNCHANGED <<count, fired, asserted, at, ret>>
      /\ pc[t] = "upd" /\ todo[t] # <<>> /\ todo[t] \in Todos /\ Threads = {"Q", "S"}
  BY DEF UpdTest, coreVars, statVars, TypeInv, ThreadType, Threads
<1>3. unreported'[u] = unreported[u] /\ unreported[u] \subseteq Counters
  <2>1. \A s \in Threads : pc[s] = "upd_store" => pc'[s] = pc[s]
    BY <1>2 DEF UpdTest, Goto, TypeInv, ThreadType
  <2>2. Stored(u) = {} /\ Counted(u) = {}
    BY <1>2, <2>1 DEF Stored, In, Counted
  <2> QED BY <2>2, HistoryOfAStep DEF Remember, EventInv
<1>4. \A c \in Counters : CountOf(u, c) = count[u][c] /\ count[u][c] \in Nat /\ fired[u][c] \in Nat
  BY <1>1, CountsAreNat, FiredAreNat DEF CountOf, Counters, StatusBits
<1>5. CASE Fires(at[t], b)
  <2>1. todo' = todo /\ pc' = [pc EXCEPT ![t] = "upd_load"]
    BY <1>5 DEF UpdTest, Goto
  <2>2. \A s \in Threads : /\ In(s, u, UpdPlaces)' <=> In(s, u, UpdPlaces)
                           /\ In(s, u, {"upd_count", "upd_fired"})' => In(s, u, {"upd_count", "upd_fired"})
    BY <1>2, <2>1 DEF In, UpdPlaces, TypeInv, ThreadType
  <2>3. In("Q", u, TbufPlaces)' <=> In("Q", u, TbufPlaces)
    BY <1>2, <2>1 DEF In, TbufPlaces, TypeInv, ThreadType
  <2> QED BY <1>1, <1>2, <1>3, <2>1, <2>2, <2>3 DEF Settled
<1>6. CASE ~Fires(at[t], b)
  <2>1. pc' = pc /\ todo'[t] = Tail(todo[t]) /\ \A s \in Threads \ {t} : todo'[s] = todo[s]
    BY <1>6 DEF UpdTest, TypeInv, ThreadType
  <2>2. \A s \in Threads : \A ps : In(s, u, ps)' <=> In(s, u, ps)
    BY <1>2, <2>1 DEF In
  <2>3. /\ \A s \in Threads : In(s, u, UpdPlaces)' <=> In(s, u, UpdPlaces)
        /\ In("Q", u, TbufPlaces)' <=> In("Q", u, TbufPlaces)
    BY <1>2, <2>1 DEF In, UpdPlaces, TbufPlaces
  <2>4. \A c \in {"TBIR", "RIR", "EIR"} :
            at[t] = u /\ b = c /\ c \in unreported[u] => c # "TBIR" /\ c \notin asserted[u]
    BY <1>1, <1>4, <1>6 DEF Settled, Fires, Counters
  <2>5. "TBIR" \in unreported'[u] => \/ In("Q", u, TbufPlaces)'
                                     \/ In("Q", u, UpdPlaces)' /\ todo'["Q"] = UpdateOrder
    <3>1. CASE In("Q", u, UpdPlaces) /\ todo["Q"] = UpdateOrder /\ t = "Q" /\ "TBIR" \in unreported[u]
      BY <1>2, <2>4, <3>1, TodoOrder DEF In
    <3>2. CASE ~(In("Q", u, UpdPlaces) /\ todo["Q"] = UpdateOrder /\ t = "Q")
      BY <1>1, <1>2, <1>3, <2>1, <2>3, <3>2 DEF Settled
    <3> QED BY <1>3, <3>1, <3>2
  <2>6. "RIR" \in unreported'[u] => /\ In("S", u, UpdPlaces)' /\ "RIR" \in asserted'[u]
                                    /\ todo'["S"] \in {UpdateOrder, <<"RIR", "EIR">>}
    <3>1. CASE t = "S" /\ "RIR" \in unreported[u]
      <4>1. at[t] = u /\ "RIR" \in asserted[u] /\ todo[t] \in {UpdateOrder, <<"RIR", "EIR">>}
            /\ In("S", u, UpdPlaces)
        BY <1>1, <3>1 DEF Settled, In
      <4>2. b # "RIR"
        BY <2>4, <3>1, <4>1
      <4> QED BY <1>2, <2>1, <2>3, <3>1, <4>1, <4>2, TodoOrder
    <3>2. CASE t # "S"
      BY <1>1, <1>2, <1>3, <2>1, <2>3, <3>2 DEF Settled
    <3> QED BY <1>3, <3>1, <3>2
  <2>7. In("S", u, UpdPlaces)' /\ ret'["S"] = "rx_next" =>
            /\ todo'["S"] # <<"TIR">>
            /\ todo'["S"] = <<>> => "EIR" \notin unreported'[u] \cap asserted'[u]
    <3>1. CASE t = "S" /\ In("S", u, UpdPlaces) /\ ret["S"] = "rx_next"
      <4>1. at[t] = u /\ todo[t] # <<"TIR">>
        BY <1>1, <3>1 DEF Settled, In
      <4>2. Tail(todo[t]) = <<>> => b = "EIR"
        BY <1>2, <4>1, TodoOrder
      <4>3. b = "EIR" => "EIR" \notin unreported[u] \cap asserted[u]
        BY <2>4, <4>1
      <4> QED BY <1>2, <1>3, <2>1, <3>1, <4>2, <4>3, TodoOrder
    <3>2. CASE ~(t = "S" /\ In("S", u, UpdPlaces) /\ ret["S"] = "rx_next")
      BY <1>1, <1>2, <1>3, <2>1, <2>3, <3>2 DEF Settled
    <3> QED BY <3>1, <3>2
  <2>8. \A s \in Threads : In(s, u, {"upd_count", "upd_fired"})' => Head(todo'[s]) \notin unreported'[u]
    BY <1>1, <1>2, <1>3, <2>1 DEF Settled, In
  <2> QED BY <1>1, <1>2, <1>3, <2>5, <2>6, <2>7, <2>8 DEF Settled
<1> QED BY <1>5, <1>6

LEMMA UpdStoreSettled ==
    ASSUME TypeInv, EventInv, EvNext, NEW t \in Threads,
           UpdLoad(t) \/ UpdStore(t) \/ UpdCount(t),
           NEW u \in Usarts \ overlapped, ~Overlap(u)'
    PROVE  Settled(u)'
<1>1. Settled(u) /\ u \in Usarts
  BY DEF EventInv
<1>2. UNCHANGED <<count, fired, asserted, at, ret, todo>>
  BY DEF UpdLoad, UpdStore, UpdCount, coreVars, statVars
<1>3. /\ unreported[u] \subseteq Counters /\ unreported'[u] \subseteq unreported[u]
      /\ In(t, u, {"upd_store"}) => Head(todo[t]) \notin unreported'[u]
  <2>1. Counted(u) = {}
    BY <1>2 DEF Counted
  <2>2. In(t, u, {"upd_store"}) => Head(todo[t]) \in Stored(u)
    <3>1. pc[t] = "upd_store" => pc'[t] # pc[t]
      BY DEF UpdLoad, UpdStore, UpdCount, Goto, TypeInv, ThreadType
    <3> QED BY <3>1 DEF Stored, In
  <2> QED BY <2>1, <2>2, HistoryOfAStep DEF Remember, EventInv
<1>4. /\ pc[t] \in UpdPlaces /\ pc'[t] \in UpdPlaces
      /\ pc'[t] \in {"upd_count", "upd_fired"} => pc[t] \in {"upd_store", "upd_count"}
      /\ \A s \in Threads \ {t} : pc'[s] = pc[s]
  BY DEF UpdLoad, UpdStore, UpdCount, Goto, TypeInv, ThreadType, UpdPlaces
<1>5. /\ \A s \in Threads : In(s, u, UpdPlaces)' <=> In(s, u, UpdPlaces)
      /\ In("Q", u, TbufPlaces)' <=> In("Q", u, TbufPlaces)
  BY <1>2, <1>4 DEF In, UpdPlaces, TbufPlaces, Threads
<1>6. ASSUME NEW s \in Threads, In(s, u, {"upd_count", "upd_fired"})'
      PROVE  Head(todo'[s]) \notin unreported'[u]
  <2>1. Head(todo[s]) \notin unreported'[u]
    <3>1. CASE s = t
      BY <1>1, <1>2, <1>3, <1>4, <1>6, <3>1 DEF Settled, In
    <3>2. CASE s # t
      BY <1>1, <1>2, <1>3, <1>4, <1>6, <3>2 DEF Settled, In
    <3> QED BY <3>1, <3>2
  <2> QED BY <1>2, <2>1
<1>7. \A b \in unreported'[u] : fired'[u][b] < count'[u][b]
  BY <1>1, <1>2, <1>3 DEF Settled
<1>8. \A b : b \in unreported'[u] => b \in unreported[u]
  BY <1>3
<1>9. /\ "TBIR" \in unreported'[u] => \/ In("Q", u, TbufPlaces)'
                                      \/ In("Q", u, UpdPlaces)' /\ todo'["Q"] = UpdateOrder
      /\ "RIR" \in unreported'[u] => /\ In("S", u, UpdPlaces)' /\ "RIR" \in asserted'[u]
                                     /\ todo'["S"] \in {UpdateOrder, <<"RIR", "EIR">>}
  BY <1>1, <1>2, <1>5, <1>8 DEF Settled, Threads
<1>10. In("S", u, UpdPlaces)' /\ ret'["S"] = "rx_next" =>
           /\ todo'["S"] # <<"TIR">>
           /\ todo'["S"] = <<>> => "EIR" \notin unreported'[u] \cap asserted'[u]
  BY <1>1, <1>2, <1>5, <1>8 DEF Settled, Threads
<1> QED BY <1>6, <1>7, <1>9, <1>10 DEF Settled

LEMMA UpdFiredSettled ==
    ASSUME TypeInv, EventInv, EvNext, NEW t \in Threads, UpdFired(t),
           NEW u \in Usarts \ overlapped, ~Overlap(u)'
    PROVE  Settled(u)'
<1> DEFINE b == Head(todo[t])
<1>1. Settled(u) /\ u \in Usarts
  BY DEF EventInv
<1>2. /\ UNCHANGED <<count, asserted, at, ret>>
      /\ pc[t] = "upd_fired" /\ pc'[t] = "upd" /\ \A s \in Threads \ {t} : pc'[s] = pc[s]
      /\ todo'[t] = Tail(todo[t]) /\ \A s \in Threads \ {t} : todo'[s] = todo[s]
      /\ todo[t] # <<>> /\ todo[t] \in Todos /\ b \in StatusBits /\ at[t] \in Usarts
      /\ fired' = [fired EXCEPT ![at[t]] = [fired[at[t]] EXCEPT ![b] = ld_count[t]]]
  <2>1. /\ todo[t] # <<>> /\ todo[t] \in Todos
    BY DEF UpdFired, TypeInv, ThreadType, Locals, LocalsOf, UpdPlaces
  <2>2. b \in StatusBits
    BY <2>1, TodosFacts
  <2> QED BY <2>1, <2>2 DEF UpdFired, Goto, coreVars, TypeInv, ThreadType
<1>3. unreported'[u] = unreported[u] /\ unreported[u] \subseteq Counters
  <2>1. \A s \in Threads : pc[s] = "upd_store" => pc'[s] = pc[s]
    BY <1>2
  <2>2. Stored(u) = {} /\ Counted(u) = {}
    BY <1>2, <2>1 DEF Stored, In, Counted
  <2> QED BY <2>2, HistoryOfAStep DEF Remember, EventInv
<1>4. /\ \A s \in Threads : In(s, u, UpdPlaces)' <=> In(s, u, UpdPlaces)
      /\ In("Q", u, TbufPlaces)' <=> In("Q", u, TbufPlaces)
      /\ \A s \in Threads : In(s, u, {"upd_count", "upd_fired"})' =>
             s # t /\ In(s, u, {"upd_count", "upd_fired"})
  BY <1>2 DEF In, UpdPlaces, TbufPlaces, Threads
<1>5. at[t] = u => b \notin unreported[u]
  BY <1>1, <1>2 DEF Settled, In
<1>6. \A c \in unreported'[u] : fired'[u][c] < count'[u][c]
  <2>1. \A c \in unreported[u] : fired'[u][c] = fired[u][c]
    BY <1>1, <1>2, <1>3, <1>5 DEF TypeInv, StatType, Counters, StatusBits
  <2> QED BY <1>1, <1>2, <1>3, <2>1 DEF Settled
<1>7. "TBIR" \in unreported'[u] => \/ In("Q", u, TbufPlaces)'
                                   \/ In("Q", u, UpdPlaces)' /\ todo'["Q"] = UpdateOrder
  <2>1. CASE In("Q", u, UpdPlaces) /\ todo["Q"] = UpdateOrder /\ t = "Q" /\ "TBIR" \in unreported[u]
    BY <1>2, <1>5, <2>1, TodoOrder DEF In
  <2>2. CASE ~(In("Q", u, UpdPlaces) /\ todo["Q"] = UpdateOrder /\ t = "Q")
    BY <1>1, <1>2, <1>3, <1>4, <2>2 DEF Settled, Threads
  <2> QED BY <1>3, <2>1, <2>2
<1>8. "RIR" \in unreported'[u] => /\ In("S", u, UpdPlaces)' /\ "RIR" \in asserted'[u]
                                  /\ todo'["S"] \in {UpdateOrder, <<"RIR", "EIR">>}
  <2>1. CASE t = "S" /\ "RIR" \in unreported[u]
    <3>1. at[t] = u /\ "RIR" \in asserted[u] /\ todo[t] \in {UpdateOrder, <<"RIR", "EIR">>}
          /\ In("S", u, UpdPlaces)
      BY <1>1, <2>1 DEF Settled, In
    <3> QED BY <1>2, <1>4, <1>5, <2>1, <3>1, TodoOrder
  <2>2. CASE t # "S"
    BY <1>1, <1>2, <1>3, <1>4, <2>2 DEF Settled, Threads
  <2> QED BY <1>3, <2>1, <2>2
<1>9. In("S", u, UpdPlaces)' /\ ret'["S"] = "rx_next" =>
          /\ todo'["S"] # <<"TIR">>
          /\ todo'["S"] = <<>> => "EIR" \notin unreported'[u] \cap asserted'[u]
  <2>1. CASE t = "S" /\ In("S", u, UpdPlaces) /\ ret["S"] = "rx_next"
    <3>1. at[t] = u /\ todo[t] # <<"TIR">>
      BY <1>1, <2>1 DEF Settled, In
    <3>2. Tail(todo[t]) = <<>> => b = "EIR"
      BY <1>2, <3>1, TodoOrder
    <3> QED BY <1>2, <1>3, <1>5, <2>1, <3>1, <3>2, TodoOrder
  <2>2. CASE ~(t = "S" /\ In("S", u, UpdPlaces) /\ ret["S"] = "rx_next")
    BY <1>1, <1>2, <1>3, <1>4, <2>2 DEF Settled, Threads
  <2> QED BY <2>1, <2>2
<1>10. \A s \in Threads : In(s, u, {"upd_count", "upd_fired"})' => Head(todo'[s]) \notin unreported'[u]
  BY <1>1, <1>2, <1>3, <1>4 DEF Settled
<1> QED BY <1>6, <1>7, <1>8, <1>9, <1>10 DEF Settled

LEMMA UpdEndSettled ==
    ASSUME TypeInv, EventInv, EvNext, NEW t \in Threads, UpdEnd(t),
           NEW u \in Usarts \ overlapped, ~Overlap(u)'
    PROVE  Settled(u)'
<1>1. Settled(u) /\ u \in Usarts
  BY DEF EventInv
<1>2. /\ UNCHANGED <<count, fired, asserted, at, todo>> /\ todo[t] = <<>> /\ pc[t] = "upd"
      /\ pc'[t] \in {"idle", "rx_next"}
      /\ \A s \in Threads \ {t} : pc'[s] = pc[s] /\ ret'[s] = ret[s]
  BY DEF UpdEnd, Goto, coreVars, statVars, TypeInv, ThreadType
<1>3. unreported'[u] = unreported[u]
  <2>1. \A s \in Threads : pc[s] = "upd_store" => pc'[s] = pc[s]
    BY <1>2
  <2>2. Stored(u) = {} /\ Counted(u) = {}
    BY <1>2, <2>1 DEF Stored, In, Counted
  <2> QED BY <2>2, HistoryOfAStep DEF Remember, EventInv
<1>4. /\ \A s \in Threads \ {t} : In(s, u, UpdPlaces)' <=> In(s, u, UpdPlaces)
      /\ ~In(t, u, UpdPlaces)' /\ ~In(t, u, TbufPlaces)
      /\ t # "Q" => (In("Q", u, TbufPlaces)' <=> In("Q", u, TbufPlaces))
      /\ \A s \in Threads : In(s, u, {"upd_count", "upd_fired"})' =>
             In(s, u, {"upd_count", "upd_fired"})
  BY <1>2 DEF In, UpdPlaces, TbufPlaces, Threads
<1>5. "TBIR" \in unreported[u] => t # "Q"
  BY <1>1, <1>2, <1>4, TodosDiffer DEF Settled
<1>6. "RIR" \in unreported[u] => t # "S"
  BY <1>1, <1>2, TodosDiffer DEF Settled
<1> QED BY <1>1, <1>2, <1>3, <1>4, <1>5, <1>6 DEF Settled, Threads

LEMMA NextEvents ==
    /\ NoWrap /\ ~LateBus /\ TypeInv /\ RxInv /\ FlowInv /\ CountInv /\ EventInv
    /\ [EvNext]_evVars
    => EventInv'
<1> SUFFICES ASSUME NoWrap, ~LateBus, TypeInv, RxInv, FlowInv, CountInv, EventInv,
                    [EvNext]_evVars
             PROVE  EventInv'
  OBVIOUS
<1>1. CASE EvNext
  <2>1. /\ unreported' \in [Usarts -> SUBSET Counters]
        /\ overlapped' = overlapped \cup {u \in Usarts : Overlap(u)'}
    BY <1>1, HistoryOfAStep DEF Remember, EventInv, Counted
  <2>2. overlapped' \subseteq Usarts
    BY <2>1 DEF EventInv
  <2>3. ASSUME NEW u \in Usarts \ overlapped' PROVE Settled(u)'
    <3>1. u \in Usarts \ overlapped /\ ~Overlap(u)'
      BY <2>1
    <3>2. CASE (\E v \in Usarts : Driver(v)) \/ Access
      BY <1>1, <3>1, <3>2, BusSettled
    <3>3. CASE Process \/ (\E v \in Usarts : Bridge(v)) \/ DeltaCycle \/ AdvanceTime
      BY <1>1, <3>1, <3>3, KernelSettled
    <3>4. ASSUME NEW t \in Threads, Update(t) PROVE Settled(u)'
      BY <1>1, <3>1, <3>4, UpdTestSettled, UpdStoreSettled, UpdFiredSettled, UpdEndSettled
         DEF Update
    <3> QED BY <1>1, HistoryOfAStep, <3>2, <3>3, <3>4 DEF Next, Kernel, Threads
  <2> QED BY <2>1, <2>2, <2>3 DEF EventInv
<1>2. CASE UNCHANGED evVars
  <2>1. UNCHANGED <<pc, at, todo, ret, count, fired, asserted, unreported, overlapped>>
    BY <1>2 DEF evVars, vars, coreVars, statVars, thVars
  <2> QED BY <2>1 DEF EventInv, Settled, Overlap, In, UpdPlaces, TbufPlaces
<1> QED BY <1>1, <1>2

LEMMA InitEvents == EvInit => EventInv
<1> SUFFICES ASSUME EvInit PROVE EventInv
  OBVIOUS
<1>1. \A u \in Usarts, t \in Threads, ps \in {UpdPlaces, {"upd_count", "upd_fired"}} : ~In(t, u, ps)
  BY DEF EvInit, Init, In, UpdPlaces
<1> QED BY <1>1 DEF EvInit, EventInv, Settled, Overlap, Threads

\* Each call of update_status_from_core() reports the event it was made for: the
\* TBUF write on the bus thread, the received byte or overrun on the scheduler's,
\* unless the other thread has run its own update of that USART meanwhile.  Where
\* it has, where a bus access runs far ahead of the kernel's time or where a
\* counter wraps, the event can stay unreported (usart2.h:296-346).
THEOREM EventsAreReported == NoWrap /\ ~LateBus => (EvSpec => []EventsReported)
<1> SUFFICES ASSUME NoWrap, ~LateBus PROVE EvSpec => []EventsReported
  OBVIOUS
<1>1. EventInv => EventsReported
  <2> SUFFICES ASSUME EventInv, NEW u \in Usarts \ overlapped
               PROVE  /\ Ends("Q", u) => "TBIR" \notin unreported[u]
                      /\ EndsReceive(u) => /\ "RIR" \notin unreported[u]
                                           /\ "EIR" \notin unreported[u] \cap asserted[u]
    BY DEF EventsReported
  <2>1. Settled(u)
    BY DEF EventInv
  <2>2. Ends("Q", u) => todo["Q"] # UpdateOrder /\ ~In("Q", u, TbufPlaces)
    BY TodosDiffer DEF Ends, In, TbufPlaces
  <2>3. EndsReceive(u) => /\ todo["S"] \notin {UpdateOrder, <<"RIR", "EIR">>}
                          /\ todo["S"] = <<>> /\ In("S", u, UpdPlaces) /\ ret["S"] = "rx_next"
    BY TodosDiffer DEF EndsReceive, Ends, In, UpdPlaces
  <2> QED BY <2>1, <2>2, <2>3 DEF Settled
<1>2. TypeInv /\ RxInv /\ FlowInv /\ CountInv /\ EventInv /\ [EvNext]_evVars
         => TypeInv' /\ RxInv' /\ FlowInv' /\ CountInv' /\ EventInv'
  <2>1. [EvNext]_evVars => [Next]_vars
    BY HistoryOfAStep DEF evVars
  <2> QED BY <2>1, NextTypeInv, NextRx, EveryStepMoves, NextFlow, NextCounts, NextEvents
<1>3. EvInit => TypeInv /\ RxInv /\ FlowInv /\ CountInv /\ EventInv
  BY InitTypeInv, InitRx, InitFlow, InitCounts, InitEvents DEF EvInit
<1> QED BY <1>1, <1>2, <1>3, PTL DEF EvSpec

=============================================================================
