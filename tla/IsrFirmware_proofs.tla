------------------------- MODULE IsrFirmware_proofs --------------------------
(* Theorems about IsrFirmware for every set of TEST_MASKs, every log that     *)
(* holds the suite's events, and every limit of wait_n() above its wakes: what *)
(* holds for as long as the two threads have not met in STATUS.               *)
EXTENDS IsrFirmware, FiniteSetTheorems, SequenceTheorems, TLAPS

Bits == {"TBIR", "TIR", "RIR", "EIR"}

-----------------------------------------------------------------------------
(* The scripts, by position *)

\* The program's test, and where it is in it; before the first it has none.
Script(n) == IF n = 0 THEN <<>> ELSE Tests[n]
Pos == Len(Script(test)) - Len(todo) + 1

\* The store to TBUF counts as done as soon as the byte is on its way, before Q
\* has reported its TBIR.
Sending == main \in {"tbir_load", "tbir_store"}
Cur == IF Sending THEN Pos + 1 ELSE Pos

OpAt(n, i) == IF i \in DOMAIN Script(n) THEN Script(n)[i].op ELSE "end"

\* Test 3 sends its second byte to a receiver whose RBUF is full.
Overruns(n, i) == n = 3 /\ i > 6

\* What the receiver says of the byte that is sent last before position i, and
\* the three events of that byte
Outcome(n, i) == IF Overruns(n, i) THEN "EIR" ELSE "RIR"
Awaited(n, i, u) == {<<u, "TBIR">>, <<u, "TIR">>, <<Peer(u), Outcome(n, i)>>}

\* The bytes sent by the tests before n, and by test n before its position i
SentBefore(n) == CASE n = 1 -> 0 [] n = 2 -> 1 [] n = 3 -> 2 [] n = 4 -> 4 [] OTHER -> 8
SentBy(n, i) == CASE n = 0 -> 0
                  [] n = 3 -> IF i < 5 THEN 0 ELSE IF i < 9 THEN 1 ELSE 2
                  [] OTHER -> i \div 5
SentSoFar == IF test = 0 THEN 0 ELSE SentBefore(test) + SentBy(test, Cur)

\* What a position of a script implies of its neighbours
Neighbours(n, i) ==
    LET s == Script(n) IN
    /\ s[i].op \in {"clear", "base", "send", "wait", "find", "read", "drain"}
    /\ s[i].op = "clear" <=> i \in {1, 2}
    /\ s[i].op = "clear" => /\ s[i].usart \in Usarts
                            /\ OpAt(n, i + 1) = IF i = 1 THEN "clear" ELSE "base"
    /\ s[i].op = "base" => OpAt(n, i + 1) = "send" /\ (n = 3 => i \in {3, 7})
    /\ s[i].op = "send" =>
          /\ OpAt(n, i + 1) = "wait"
          /\ s[i].usart \in Usarts /\ s[i].byte \in Nat \ {0}
          /\ n = 3 => (i = 4 \/ i = 8) /\ s[i].usart = "A" /\ (i = 4 => s[i].byte = 17)
    /\ s[i].op = "wait" =>
          /\ OpAt(n, i - 1) = "send" /\ OpAt(n, i + 1) = "find"
          /\ n = 3 => i \in {5, 9}
    /\ s[i].op = "find" =>
          /\ i > 2 /\ OpAt(n, i - 1) = "wait" /\ OpAt(n, i - 2) = "send"
          /\ s[i].events \subseteq Awaited(n, i, s[i - 2].usart)
          /\ OpAt(n, i + 1) \in {"read", "base", "drain", "end"}
          /\ OpAt(n, i + 1) = "read" <=> n \in {1, 2, 4}
          /\ OpAt(n, i + 1) = "base" <=> n = 3 /\ i = 6
          /\ OpAt(n, i + 1) = "drain" <=> n = 3 /\ i = 10
    /\ s[i].op = "read" =>
          /\ i > 3 /\ OpAt(n, i - 1) = "find"
          /\ s[i].usart = Peer(s[i - 3].usart) /\ s[i].byte = s[i - 3].byte
          /\ OpAt(n, i + 1) \in {"base", "end"} /\ n \in {1, 2, 4}
    /\ s[i].op = "drain" => OpAt(n, i + 1) = "end" /\ s[i].usart = "B" /\ n = 3
    /\ SentBy(n, i + 1) = SentBy(n, i) + (IF s[i].op = "send" THEN 1 ELSE 0)

-----------------------------------------------------------------------------
(* The inductive invariant *)

\* S's report in progress
Reports == [usart : Usarts, bit : Bits, copy : SUBSET Bits, stored : BOOLEAN]

TypeInv ==
    /\ status \in [Usarts -> SUBSET Bits] /\ rbuf \in [Usarts -> Nat]
    /\ sending \subseteq Usarts /\ arriving \in [Usarts -> Nat]
    /\ gic \subseteq Usarts /\ notified \subseteq Usarts /\ ld \subseteq Bits
    /\ update = {} \/ \E r \in Reports : update = {r}
    /\ main \in {"run", "clearing", "tbir_load", "tbir_store", "send", "wfi", "asleep", "done"}
    /\ mask \subseteq 1..5 /\ test \in 0..5
    /\ base \in Nat /\ waits \in Nat /\ g_log_count \in Nat
    /\ isr \in {"none", "read", "clear", "store"} /\ isr_usart \in Usarts

\* The program: the tests still to run come later, the rest of the script is
\* what todo holds, and only a bus access or wait_n() holds the program up.
ProgramInv ==
    /\ \A k \in mask : test < k
    /\ Pos \in 1..Len(Script(test)) + 1
    /\ todo = SubSeq(Script(test), Pos, Len(Script(test)))
    /\ main \in {"send", "wfi", "asleep"} => OpAt(test, Pos) = "wait"
    /\ Sending => OpAt(test, Pos) = "send"
    /\ main = "clearing" => OpAt(test, Pos) = "clear"
    /\ failed = {}

\* An interrupt of u is pending, or S will make it so.
Announced(u) == \/ u \in gic \cup notified
                \/ \E r \in update : r.usart = u /\ r.stored

\* irq_handler() holds bits that are still set, and every bit that is set has
\* an interrupt on its way or a handler that has or will read it.
HandlerInv ==
    /\ isr_status \subseteq status[isr_usart]
    /\ isr \in {"none", "read"} => isr_status = {}
    /\ isr # "none" => main \in {"run", "wfi", "done"}
    /\ \A u \in Usarts : \A b \in status[u] :
          \/ Announced(u)
          \/ isr_usart = u /\ (isr = "read" \/ b \in isr_status)

\* Nothing is on the line, and no event waits to be stored or logged.
Calm == /\ sending = {} /\ arriving = [u \in Usarts |-> 0]
        /\ status = [u \in Usarts |-> {}]
        /\ \A r \in update : r.stored

One(p) == IF p THEN 1 ELSE 0

\* What can still wake wait_n(): pending interrupts, and events to come.
Pending(S) == One("A" \in S) + One("B" \in S)
ToCome == One(Sending) + One(sending # {}) + One(\E u \in Usarts : arriving[u] # 0)
Wakes == Pending(gic) + Pending(notified) + One(update # {}) + ToCome

\* S has loaded STATUS for this event and not yet stored it.
Loaded == {r \in update : ~r.stored}
InStore(e) == \E r \in Loaded : e = <<r.usart, r.bit>>

\* The events of the byte that u has sent: each is logged, in STATUS or to
\* come, one and only one of these, and no other event is.
Accounted(u, out) ==
    LET p == Peer(u)
        n(e) == One(e \in logged) + One(e[2] \in status[e[1]])
        mine == {<<u, "TIR">>, <<p, out>>}
    IN  /\ n(<<u, "TBIR">>) + One(Sending) = 1
        /\ n(<<u, "TIR">>) + One(InStore(<<u, "TIR">>)) + One(u \in sending) = 1
        /\ n(<<p, out>>) + One(InStore(<<p, out>>)) + One(arriving[p] # 0) = 1
        /\ \A r \in Loaded : <<r.usart, r.bit>> \in mine
        /\ sending \subseteq {u} /\ arriving[u] = 0
        /\ status[u] \subseteq {"TBIR", "TIR"} /\ status[p] \subseteq {out}
        /\ logged \subseteq {<<u, "TBIR">>} \cup mine
        /\ g_log_count = base + One(<<u, "TBIR">> \in logged)
                              + One(<<u, "TIR">> \in logged) + One(<<p, out>> \in logged)

\* The byte b that u has sent is on its way or in the peer's RBUF, or refused
\* by the byte that test 3 has left there.
Carried(u, b, over) ==
    LET p == Peer(u) IN
    /\ rbuf[u] = 0 /\ arriving[p] \in {0, b}
    /\ rbuf[p] = IF over THEN 17 ELSE IF arriving[p] # 0 THEN 0 ELSE b

\* RBUF between two bytes
KeptInv(n, i) == rbuf = [u \in Usarts |-> IF u = "B" /\ Overruns(n, i) THEN 17 ELSE 0]

\* The instruction the program is at, and what it finds there
StageInv ==
    LET op == OpAt(test, Cur)
        at(k) == Script(test)[Cur - k]
    IN  /\ op # "wait" =>
              Calm /\ (op \in {"clear", "base", "send"} => KeptInv(test, Cur))
        /\ op = "send" => logged = {} /\ base = g_log_count
        /\ op = "wait" =>
              /\ Accounted(at(1).usart, Outcome(test, Cur))
              /\ Carried(at(1).usart, at(1).byte, Overruns(test, Cur))
              /\ base + 3 <= 3 * SentSoFar
              /\ waits + Wakes <= 8
        /\ op = "find" =>
              /\ logged = Awaited(test, Cur, at(2).usart)
              /\ Carried(at(2).usart, at(2).byte, Overruns(test, Cur))
        /\ op = "read" => Carried(at(3).usart, at(3).byte, FALSE)
        /\ op = "drain" => Carried("A", 34, TRUE)
        /\ op = "end" /\ test # 5 => KeptInv(0, 0)
        /\ g_log_count <= 3 * SentSoFar

IInv == TypeInv /\ ProgramInv /\ HandlerInv /\ StageInv

\* Once the threads have met in STATUS nothing more is claimed.
UntilRaced == raced \/ IInv

-----------------------------------------------------------------------------
(* The scripts are what the invariant takes them for *)

LEMMA Script1 ==
    LET s == Script(1) IN
    /\ DOMAIN s = 1..7
    /\ s[1] = Clear("A") /\ s[2] = Clear("B")
    /\ s[3] = Base
    /\ s[4] = Send("A", 85)
    /\ s[5] = Wait
    /\ s[6] = Find(Sent("A"))
    /\ s[7] = ReadRbuf(Peer("A"), 85)
  BY DEF Script, Tests, Begin, Exchange

LEMMA Script2 ==
    LET s == Script(2) IN
    /\ DOMAIN s = 1..7
    /\ s[1] = Clear("A") /\ s[2] = Clear("B")
    /\ s[3] = Base
    /\ s[4] = Send("B", 170)
    /\ s[5] = Wait
    /\ s[6] = Find(Sent("B"))
    /\ s[7] = ReadRbuf(Peer("B"), 170)
  BY DEF Script, Tests, Begin, Exchange

LEMMA Script3 ==
    LET s == Script(3) IN
    /\ DOMAIN s = 1..11
    /\ s[1] = Clear("A") /\ s[2] = Clear("B")
    /\ s[3] = Base /\ s[7] = Base
    /\ s[4] = Send("A", 17) /\ s[8] = Send("A", 34)
    /\ s[5] = Wait /\ s[9] = Wait
    /\ s[6] = Find({<<"B", "RIR">>}) /\ s[10] = Find({<<"B", "EIR">>})
    /\ s[11] = Drain("B")
  BY DEF Script, Tests, Begin

LEMMA Script4 ==
    LET s == Script(4) IN
    /\ DOMAIN s = 1..22
    /\ s[1] = Clear("A") /\ s[2] = Clear("B")
    /\ s[3] = Base /\ s[8] = Base /\ s[13] = Base /\ s[18] = Base
    /\ s[4] = Send("A", 222) /\ s[9] = Send("A", 173)
    /\ s[14] = Send("A", 190) /\ s[19] = Send("A", 239)
    /\ s[5] = Wait /\ s[10] = Wait /\ s[15] = Wait /\ s[20] = Wait
    /\ s[6] = Find(Sent("A")) /\ s[11] = Find(Sent("A"))
    /\ s[16] = Find(Sent("A")) /\ s[21] = Find(Sent("A"))
    /\ s[7] = ReadRbuf(Peer("A"), 222) /\ s[12] = ReadRbuf(Peer("A"), 173)
    /\ s[17] = ReadRbuf(Peer("A"), 190) /\ s[22] = ReadRbuf(Peer("A"), 239)
  BY DEF Script, Tests, Begin, Exchange

LEMMA Script5 ==
    LET s == Script(5) IN
    /\ DOMAIN s = 1..6
    /\ s[1] = Clear("A") /\ s[2] = Clear("B") /\ s[3] = Base
    /\ s[4] = Send("A", 90) /\ s[5] = Wait /\ s[6] = Find(Sent("A"))
  BY DEF Script, Tests, Begin

LEMMA ScriptShape ==
    ASSUME NEW n \in 1..5, NEW i \in DOMAIN Script(n) PROVE Neighbours(n, i)
<1> USE DEF Neighbours, OpAt, Clear, Base, Send, Wait, Find, ReadRbuf, Drain, Sent, Awaited,
            Outcome, Overruns, SentBy, Peer, Usarts
<1>1. CASE n = 1
  BY <1>1, Script1
<1>2. CASE n = 2
  BY <1>2, Script2
<1>3. CASE n = 3
  BY <1>3, Script3
<1>4. CASE n = 4
  BY <1>4, Script4
<1>5. CASE n = 5
  BY <1>5, Script5
<1> QED BY <1>1, <1>2, <1>3, <1>4, <1>5

Instructions ==
    {Base, Wait} \cup {Clear(u) : u \in Usarts} \cup {Send(u, b) : u \in Usarts, b \in Nat}
      \cup {Find(E) : E \in SUBSET (Usarts \X Bits)}
      \cup {ReadRbuf(u, b) : u \in Usarts, b \in Nat} \cup {Drain(u) : u \in Usarts}

LEMMA InstructionType ==
    /\ Base \in Instructions /\ Wait \in Instructions
    /\ \A u \in Usarts : Clear(u) \in Instructions
    /\ \A u \in Usarts, b \in Nat : Send(u, b) \in Instructions
    /\ \A u \in Usarts, b \in Nat : ReadRbuf(u, b) \in Instructions
    /\ \A E \in SUBSET (Usarts \X Bits) : Find(E) \in Instructions
    /\ \A u \in Usarts : Find(Sent(u)) \in Instructions
    /\ \A u \in Usarts : Drain(u) \in Instructions
<1>1. \A u \in Usarts : Sent(u) \in SUBSET (Usarts \X Bits)
  BY DEF Sent, Peer, Usarts, Bits
<1> QED BY <1>1 DEF Instructions

LEMMA ExchangeType ==
    ASSUME NEW u \in Usarts, NEW b \in Nat PROVE Exchange(u, b) \in Seq(Instructions)
<1>1. Peer(u) \in Usarts
  BY DEF Peer, Usarts
<1> QED BY <1>1, InstructionType DEF Exchange

LEMMA TupleType ==
    ASSUME NEW S, NEW a \in S, NEW b \in S, NEW c \in S, NEW d \in S
    PROVE  /\ <<a, b, c, d>> \in Seq(S)
           /\ \A e, f, g, h, i \in S : <<a, b, c, d, e, f, g, h, i>> \in Seq(S)
  OBVIOUS

LEMMA ScriptType ==
    ASSUME NEW n \in 0..5 PROVE Script(n) \in Seq(Instructions)
<1>1. Begin \in Seq(Instructions) /\ "A" \in Usarts /\ "B" \in Usarts
  BY InstructionType DEF Usarts, Begin
<1>2. \A b \in Nat : Exchange("A", b) \in Seq(Instructions) /\ Exchange("B", b) \in Seq(Instructions)
  BY <1>1, ExchangeType
<1>3. CASE n = 0
  BY <1>3 DEF Script
<1>4. CASE n = 1 \/ n = 2
  <2>1. ASSUME NEW e \in Seq(Instructions), Script(n) = Begin \o e
        PROVE  Script(n) \in Seq(Instructions)
    BY <1>1, <2>1
  <2>2. CASE n = 1
    <3>1. Script(n) = Begin \o Exchange("A", 85)
      BY <2>2 DEF Script, Tests
    <3>2. Exchange("A", 85) \in Seq(Instructions)
      BY <1>2
    <3> QED BY <2>1, <3>1, <3>2
  <2>3. CASE n = 2
    <3>1. Script(n) = Begin \o Exchange("B", 170)
      BY <2>3 DEF Script, Tests
    <3>2. Exchange("B", 170) \in Seq(Instructions)
      BY <1>2
    <3> QED BY <2>1, <3>1, <3>2
  <2> QED BY <1>4, <2>2, <2>3
<1>5. CASE n = 3
  <2> DEFINE rir == {<<"B", "RIR">>}
             eir == {<<"B", "EIR">>}
             e == <<Base, Send("A", 17), Wait, Find(rir),
                    Base, Send("A", 34), Wait, Find(eir), Drain("B")>>
  <2>1. rir \in SUBSET (Usarts \X Bits) /\ eir \in SUBSET (Usarts \X Bits)
    BY <1>1 DEF Bits
  <2>2. Script(3) = Begin \o e
    BY DEF Script, Tests
  <2> HIDE DEF rir, eir
  <2>3. Find(rir) \in Instructions /\ Find(eir) \in Instructions
    BY <2>1, InstructionType
  <2>4. Send("A", 17) \in Instructions /\ Send("A", 34) \in Instructions
        /\ Drain("B") \in Instructions
    BY <1>1, InstructionType
  <2>5. e \in Seq(Instructions)
    BY <2>3, <2>4, InstructionType, TupleType
  <2> HIDE DEF e
  <2>6. Begin \o e \in Seq(Instructions)
    BY <1>1, <2>5
  <2> QED BY <1>5, <2>2, <2>6
<1>6. CASE n = 4
  <2>1. Script(n) = Begin \o Exchange("A", 222) \o Exchange("A", 173)
                        \o Exchange("A", 190) \o Exchange("A", 239)
    BY <1>6 DEF Script, Tests
  <2> QED BY <1>1, <1>2, <2>1
<1>7. CASE n = 5
  <2> DEFINE e == <<Base, Send("A", 90), Wait, Find(Sent("A"))>>
  <2>1. Send("A", 90) \in Instructions /\ Find(Sent("A")) \in Instructions
    BY <1>1, InstructionType
  <2>2. e \in Seq(Instructions)
    BY <2>1, InstructionType, TupleType
  <2>3. Script(n) = Begin \o e
    BY <1>7 DEF Script, Tests
  <2> HIDE DEF e
  <2> QED BY <1>1, <2>2, <2>3
<1> QED BY <1>3, <1>4, <1>5, <1>6, <1>7

-----------------------------------------------------------------------------
(* Where the program is *)

LEMMA Arrived ==
    ASSUME TypeInv, ProgramInv, todo = <<>> PROVE OpAt(test, Pos) = "end"
<1>1. Script(test) \in Seq(Instructions)
  BY ScriptType DEF TypeInv
<1>2. Pos = Len(Script(test)) + 1
  BY <1>1 DEF Pos
<1> QED BY <1>1, <1>2 DEF OpAt

LEMMA UnderWay ==
    ASSUME TypeInv, ProgramInv, todo # <<>>
    PROVE  /\ test \in 1..5 /\ Pos \in DOMAIN Script(test)
           /\ Head(todo) = Script(test)[Pos] /\ OpAt(test, Pos) = Head(todo).op
           /\ Neighbours(test, Pos)
<1> DEFINE s == Script(test)
<1>1. s \in Seq(Instructions) /\ Pos \in 1..Len(s) + 1 /\ todo = SubSeq(s, Pos, Len(s))
  BY ScriptType DEF TypeInv, ProgramInv
<1>2. Pos \in 1..Len(s) /\ Head(todo) = s[Pos]
  <2> HIDE DEF s
  <2> QED BY <1>1
<1>3. test # 0
  BY <1>2 DEF Script
<1> QED BY <1>1, <1>2, <1>3, ScriptShape DEF TypeInv, OpAt

LEMMA MovesOn ==
    ASSUME TypeInv, ProgramInv, todo # <<>>, todo' = Tail(todo), test' = test
    PROVE  /\ Pos' = Pos + 1 /\ Pos' \in 1..Len(Script(test)) + 1
           /\ todo' = SubSeq(Script(test'), Pos', Len(Script(test')))
<1> DEFINE s == Script(test)
<1>1. s \in Seq(Instructions) /\ Pos \in 1..Len(s) + 1 /\ todo = SubSeq(s, Pos, Len(s))
  BY ScriptType DEF TypeInv, ProgramInv
<1>2. Len(todo) = Len(s) - Pos + 1 /\ Len(todo) > 0 /\ Len(todo') = Len(todo) - 1
  BY <1>1
<1>3. Pos' = Pos + 1
  BY <1>1, <1>2 DEF Pos
<1>4. Tail(todo) = SubSeq(s, Pos + 1, Len(s))
  <2> HIDE DEF s
  <2> QED BY <1>1, <1>2
<1> QED BY <1>1, <1>2, <1>3, <1>4

LEMMA HereStays ==
    ASSUME UNCHANGED <<test, todo>>, Sending' = Sending
    PROVE  Pos' = Pos /\ Cur' = Cur
  BY DEF Pos, Cur

LEMMA CurRange ==
    ASSUME TypeInv, ProgramInv
    PROVE  /\ Pos \in Nat /\ Cur \in Nat /\ Cur \in 1..Len(Script(test)) + 1
           /\ OpAt(test, Pos) # "send" => ~Sending /\ Cur = Pos
<1>1. Script(test) \in Seq(Instructions) /\ Pos \in 1..Len(Script(test)) + 1
  BY ScriptType DEF TypeInv, ProgramInv
<1>2. Sending => Pos \in DOMAIN Script(test)
  BY DEF ProgramInv, OpAt
<1> QED BY <1>1, <1>2 DEF Cur, ProgramInv

LEMMA SentStays ==
    ASSUME test' = test, Cur' = Cur PROVE SentSoFar' = SentSoFar
  BY DEF SentSoFar

LEMMA SentType == TypeInv /\ ProgramInv => SentSoFar \in Nat
<1>1. TypeInv /\ ProgramInv => Cur \in Nat /\ test \in 0..5
  BY CurRange DEF TypeInv
<1> QED BY <1>1 DEF SentSoFar, SentBefore, SentBy

LEMMA SentByMost ==
    ASSUME NEW n \in 0..5, NEW i \in 1..Len(Script(n)) + 1
    PROVE  /\ SentBy(n, i) \in Nat
           /\ SentBy(n, i) <= (IF n = 4 THEN 4 ELSE IF n = 3 THEN 2 ELSE 1)
<1>1. Len(Script(1)) = 7 /\ Len(Script(2)) = 7 /\ Len(Script(4)) = 22 /\ Len(Script(5)) = 6
  BY ScriptType, Script1, Script2, Script4, Script5
<1>2. CASE n = 1
  <2>1. Len(Script(n)) = 7
    BY <1>1, <1>2
  <2>2. i \in 1..8
    BY <2>1
  <2>3. i \div 5 \in Nat /\ i \div 5 <= 1
    BY <2>2
  <2> QED BY <1>2, <2>3 DEF SentBy
<1>3. CASE n = 2
  <2>1. Len(Script(n)) = 7
    BY <1>1, <1>3
  <2>2. i \in 1..8
    BY <2>1
  <2>3. i \div 5 \in Nat /\ i \div 5 <= 1
    BY <2>2
  <2> QED BY <1>3, <2>3 DEF SentBy
<1>4. CASE n = 4
  <2>1. Len(Script(n)) = 22
    BY <1>1, <1>4
  <2>2. i \in 1..23
    BY <2>1
  <2>3. i \div 5 \in Nat /\ i \div 5 <= 4
    BY <2>2
  <2> QED BY <1>4, <2>3 DEF SentBy
<1>5. CASE n = 5
  <2>1. Len(Script(n)) = 6
    BY <1>1, <1>5
  <2>2. i \in 1..7
    BY <2>1
  <2>3. i \div 5 \in Nat /\ i \div 5 <= 1
    BY <2>2
  <2> QED BY <1>5, <2>3 DEF SentBy
<1>6. CASE n \in {0, 3}
  BY <1>6 DEF SentBy
<1> QED BY <1>2, <1>3, <1>4, <1>5, <1>6

\* A test sends no more bytes than are counted before its successors.
LEMMA SentMost ==
    TypeInv /\ ProgramInv =>
        /\ SentSoFar <= 9
        /\ \A n \in 1..5 : test < n => SentSoFar <= SentBefore(n)
<1> SUFFICES ASSUME TypeInv, ProgramInv
             PROVE  /\ SentSoFar <= 9
                    /\ \A n \in 1..5 : test < n => SentSoFar <= SentBefore(n)
  OBVIOUS
<1>1. test \in 0..5 /\ Cur \in 1..Len(Script(test)) + 1
  BY CurRange DEF TypeInv
<1>2. /\ SentBy(test, Cur) \in Nat
      /\ SentBy(test, Cur) <= (IF test = 4 THEN 4 ELSE IF test = 3 THEN 2 ELSE 1)
  BY <1>1, SentByMost
<1> QED BY <1>1, <1>2 DEF SentSoFar, SentBefore

\* SentSoFar counts the bytes: one more after a send.
LEMMA SentMovesOn ==
    ASSUME TypeInv, ProgramInv, todo # <<>>, test' = test, Cur = Pos, Cur' = Pos + 1
    PROVE  SentSoFar' = SentSoFar + (IF Head(todo).op = "send" THEN 1 ELSE 0)
<1>1. /\ test \in 1..5 /\ Head(todo) = Script(test)[Pos]
      /\ SentBy(test, Pos + 1)
            = SentBy(test, Pos) + (IF Head(todo).op = "send" THEN 1 ELSE 0)
  BY UnderWay DEF Neighbours
<1>2. SentBefore(test) \in Nat /\ SentBy(test, Pos) \in Nat
  <2>1. Pos \in Nat
    BY CurRange
  <2> QED BY <1>1, <2>1 DEF SentBefore, SentBy
<1> QED BY <1>1, <1>2 DEF SentSoFar

-----------------------------------------------------------------------------
(* The log *)

LEMMA PairCard ==
    ASSUME NEW a, NEW b, a # b, NEW S \in SUBSET {a, b}
    PROVE  Cardinality(S) = One(a \in S) + One(b \in S)
<1>1. CASE S = {}
  BY <1>1, FS_EmptySet DEF One
<1>2. CASE S = {a}
  BY <1>2, FS_Singleton DEF One
<1>3. CASE S = {b}
  BY <1>3, FS_Singleton DEF One
<1>4. CASE S = {a, b}
  <2>1. IsFiniteSet({a}) /\ Cardinality({a}) = 1
    BY FS_Singleton
  <2>2. Cardinality({a} \cup {b}) = 2
    BY <2>1, FS_AddElement
  <2>3. S = {a} \cup {b}
    BY <1>4
  <2> QED BY <1>4, <2>2, <2>3 DEF One
<1> QED BY <1>1, <1>2, <1>3, <1>4

\* A read of STATUS that fits into the log is logged as a whole.
LEMMA AllLogged ==
    ASSUME NEW bits, bits \subseteq {"TBIR", "TIR"} \/ bits \subseteq {"RIR", "EIR"},
           NEW n \in Int, Cardinality(bits) <= n
    PROVE  FirstOf(bits, n) = bits
<1> DEFINE K(i) == {k \in 1..i : BITS[k] \in bits}
<1>0. DOMAIN BITS = 1..4
  BY DEF BITS
<1>1. CASE bits \subseteq {"TBIR", "TIR"}
  <2>1. Cardinality(bits) = One("TBIR" \in bits) + One("TIR" \in bits)
    BY <1>1, PairCard
  <2>2. ASSUME NEW i \in 1..4
        PROVE  /\ K(i) \in SUBSET {1, 2}
               /\ 1 \in K(i) => "TBIR" \in bits
               /\ 2 \in K(i) => "TIR" \in bits
    BY <1>1 DEF BITS
  <2>3. ASSUME NEW i \in 1..4 PROVE Cardinality(K(i)) <= n
    <3> HIDE DEF K
    <3>1. Cardinality(K(i)) = One(1 \in K(i)) + One(2 \in K(i))
      BY <2>2, PairCard
    <3>2. /\ One(1 \in K(i)) \in 0..One("TBIR" \in bits)
          /\ One(2 \in K(i)) \in 0..One("TIR" \in bits)
      BY <2>2 DEF One
    <3>3. One("TBIR" \in bits) \in {0, 1} /\ One("TIR" \in bits) \in {0, 1}
      BY DEF One
    <3> QED BY <2>1, <3>1, <3>2, <3>3
  <2>4. ASSUME NEW b \in bits PROVE \E i \in 1..4 : BITS[i] = b
    BY <1>1 DEF BITS
  <2> QED BY <2>3, <2>4, <1>0 DEF FirstOf
<1>2. CASE bits \subseteq {"RIR", "EIR"}
  <2>1. Cardinality(bits) = One("RIR" \in bits) + One("EIR" \in bits)
    BY <1>2, PairCard
  <2>2. ASSUME NEW i \in 1..4
        PROVE  /\ K(i) \in SUBSET {3, 4}
               /\ 3 \in K(i) => "RIR" \in bits
               /\ 4 \in K(i) => "EIR" \in bits
    BY <1>2 DEF BITS
  <2>3. ASSUME NEW i \in 1..4 PROVE Cardinality(K(i)) <= n
    <3> HIDE DEF K
    <3>1. Cardinality(K(i)) = One(3 \in K(i)) + One(4 \in K(i))
      BY <2>2, PairCard
    <3>2. /\ One(3 \in K(i)) \in 0..One("RIR" \in bits)
          /\ One(4 \in K(i)) \in 0..One("EIR" \in bits)
      BY <2>2 DEF One
    <3>3. One("RIR" \in bits) \in {0, 1} /\ One("EIR" \in bits) \in {0, 1}
      BY DEF One
    <3> QED BY <2>1, <3>1, <3>2, <3>3
  <2>4. ASSUME NEW b \in bits PROVE \E i \in 1..4 : BITS[i] = b
    BY <1>2 DEF BITS
  <2> QED BY <2>3, <2>4, <1>0 DEF FirstOf
<1> QED BY <1>1, <1>2

-----------------------------------------------------------------------------
(* The devices and the handler: the program stays where it is *)

\* The byte that wait_n() waits for.
WaitUsart == Script(test)[Cur - 1].usart
WaitByte == Script(test)[Cur - 1].byte

AtWait ==
    /\ Accounted(WaitUsart, Outcome(test, Cur))
    /\ Carried(WaitUsart, WaitByte, Overruns(test, Cur))
    /\ base + 3 <= 3 * SentSoFar
    /\ waits + Wakes <= 8

LEMMA WaitFacts ==
    ASSUME TypeInv, ProgramInv, OpAt(test, Cur) = "wait"
    PROVE  /\ test \in 1..5
           /\ WaitUsart \in Usarts /\ WaitByte \in Nat \ {0}
           /\ test = 3 => WaitUsart = "A" /\ (~Overruns(test, Cur) => WaitByte = 17)
<1>1. Cur \in DOMAIN Script(test) /\ Script(test)[Cur].op = "wait" /\ test \in 0..5
  BY DEF OpAt, TypeInv
<1>2. test \in 1..5
  BY <1>1 DEF Script
<1>3. Neighbours(test, Cur)
  BY <1>1, <1>2, ScriptShape
<1>4. /\ Cur - 1 \in DOMAIN Script(test) /\ Script(test)[Cur - 1].op = "send"
      /\ test = 3 => Cur \in {5, 9}
  BY <1>1, <1>3 DEF Neighbours, OpAt
<1>5. Neighbours(test, Cur - 1)
  BY <1>2, <1>4, ScriptShape
<1> QED BY <1>2, <1>4, <1>5 DEF Neighbours, WaitUsart, WaitByte, Overruns

\* Between two bytes nothing but a spurious interrupt can happen.
LEMMA CalmOrWait ==
    ASSUME TypeInv, ProgramInv, HandlerInv, StageInv
    PROVE  \/ Calm /\ isr_status = {} /\ OpAt(test, Cur) # "wait"
           \/ AtWait /\ OpAt(test, Cur) = "wait"
  BY DEF StageInv, AtWait, WaitUsart, WaitByte, Calm, HandlerInv, TypeInv, Usarts

\* What a step has to keep that leaves the program where it is
LEMMA StageStays ==
    ASSUME StageInv, test' = test, Cur' = Cur,
           \/ /\ OpAt(test, Cur) # "wait" /\ \A r \in update' : r \in update
              /\ UNCHANGED <<sending, arriving, status, rbuf, logged, base, g_log_count>>
           \/ OpAt(test, Cur) = "wait" /\ AtWait' /\ g_log_count' <= 3 * SentSoFar
    PROVE  StageInv'
<1>1. SentSoFar' = SentSoFar
  BY SentStays
<1>2. CASE OpAt(test, Cur) # "wait"
  BY <1>1, <1>2 DEF StageInv, Calm, KeptInv, Carried
<1>3. CASE OpAt(test, Cur) = "wait"
  BY <1>1, <1>3 DEF StageInv, AtWait, WaitUsart, WaitByte
<1> QED BY <1>2, <1>3

\* A byte on its way: b, sent by u, that its receiver will answer with out
Awaiting(u, b, out) ==
    /\ Accounted(u, out) /\ Carried(u, b, out = "EIR")
    /\ waits + Wakes <= 8

LEMMA WaitStays ==
    ASSUME IInv, OpAt(test, Cur) = "wait", test' = test, Cur' = Cur, base' = base,
           ASSUME NEW u \in Usarts, NEW b \in Nat \ {0}, NEW out \in {"RIR", "EIR"},
                  Awaiting(u, b, out)
           PROVE  Awaiting(u, b, out)'
    PROVE  StageInv'
<1>1. AtWait /\ WaitUsart \in Usarts /\ WaitByte \in Nat \ {0}
  BY CalmOrWait, WaitFacts DEF IInv
<1>2. PICK u \in Usarts : u = WaitUsart
  BY <1>1
<1>3. PICK b \in Nat \ {0} : b = WaitByte
  BY <1>1
<1>4. PICK out \in {"RIR", "EIR"} : out = Outcome(test, Cur)
  BY DEF Outcome
<1>5. (out = "EIR") = Overruns(test, Cur)
  BY <1>4 DEF Outcome, Overruns
<1>6. Awaiting(u, b, out)
  BY <1>1, <1>2, <1>3, <1>4, <1>5 DEF AtWait, Awaiting
<1>7. Awaiting(u, b, out)'
  BY <1>6
<1>8. SentSoFar' = SentSoFar
  BY SentStays
<1>9. WaitUsart' = u /\ WaitByte' = b
  BY <1>2, <1>3 DEF WaitUsart, WaitByte
<1>10. AtWait'
  BY <1>1, <1>4, <1>5, <1>7, <1>8, <1>9 DEF AtWait, Awaiting
<1>11. g_log_count' <= 3 * SentSoFar
  <2>1. /\ g_log_count' = base + One(<<u, "TBIR">> \in logged')
                    + One(<<u, "TIR">> \in logged') + One(<<Peer(u), out>> \in logged')
    BY <1>7 DEF Awaiting, Accounted
  <2> QED BY <1>1, <2>1, SentType DEF One, AtWait, IInv, TypeInv
<1> QED BY <1>10, <1>11, StageStays DEF IInv

\* A step that neither adds to what is to come nor takes an event from it.
LEMMA KeepsStage ==
    ASSUME IInv, UNCHANGED <<test, base, logged, g_log_count, sending, arriving, status, rbuf>>,
           Cur' = Cur, Sending' = Sending,
           \A r \in update' : r \in update, Loaded' = Loaded,
           waits + Wakes <= 8 => waits' + Wakes' <= 8
    PROVE  StageInv'
<1>1. CASE OpAt(test, Cur) = "wait"
  <2>1. ASSUME NEW u \in Usarts, NEW b \in Nat \ {0}, NEW out \in {"RIR", "EIR"},
               Awaiting(u, b, out)
        PROVE  Awaiting(u, b, out)'
    <3>1. Accounted(u, out)'
      BY <2>1 DEF Awaiting, Accounted, InStore
    <3>2. Carried(u, b, out = "EIR")'
      BY <2>1 DEF Awaiting, Carried
    <3> QED BY <2>1, <3>1, <3>2 DEF Awaiting
  <2> QED BY <1>1, <2>1, WaitStays
<1>2. CASE OpAt(test, Cur) # "wait"
  BY <1>2, StageStays DEF IInv
<1> QED BY <1>1, <1>2

LEMMA PendingType ==
    ASSUME NEW S
    PROVE  /\ Pending(S) \in 0..2
           /\ \A u \in Usarts : Pending(S \cup {u}) <= Pending(S) + 1
           /\ \A u \in Usarts : u \in S => Pending(S \ {u}) = Pending(S) - 1
  BY DEF Pending, One, Usarts

LEMMA WakesType == Wakes \in Nat /\ ToCome \in 0..3
<1>1. ToCome \in 0..3 /\ One(update # {}) \in {0, 1}
  BY DEF ToCome, One
<1>2. Pending(gic) \in 0..2 /\ Pending(notified) \in 0..2
  BY PendingType
<1> QED BY <1>1, <1>2 DEF Wakes

LEMMA TirLoadStage ==
    ASSUME IInv, NEW v \in Usarts, TirLoad(v) PROVE StageInv'
<1>1. OpAt(test, Cur) = "wait"
  BY CalmOrWait DEF IInv, TirLoad, Calm
<1>2. /\ UNCHANGED <<test, todo, base, logged, g_log_count, arriving, rbuf, waits, main>>
      /\ UNCHANGED <<status, gic, notified>> /\ update = {}
      /\ v \in sending /\ sending' = sending \ {v}
  BY DEF TirLoad, program, log
<1>3. Sending' = Sending /\ Cur' = Cur
  BY <1>2, HereStays DEF Sending
<1>4. PICK r : update' = {r} /\ r.usart = v /\ r.bit = "TIR" /\ ~r.stored
  <2>1. PICK r : r = Update(v, "TIR")
    OBVIOUS
  <2>2. update' = {r}
    BY <2>1 DEF TirLoad
  <2>3. r.usart = v /\ r.bit = "TIR" /\ ~r.stored
    BY <2>1 DEF Update
  <2> QED BY <2>2, <2>3
<1>5. ASSUME NEW u \in Usarts, NEW b \in Nat \ {0}, NEW out \in {"RIR", "EIR"},
             Awaiting(u, b, out)
      PROVE  Awaiting(u, b, out)'
  <2>1. v = u /\ Peer(u) \in Usarts \ {u} /\ sending' = {} /\ u \in sending /\ u \notin sending'
    BY <1>2, <1>5 DEF Awaiting, Accounted, Peer, Usarts
  <2>2. /\ InStore(<<u, "TIR">>)' /\ ~InStore(<<u, "TIR">>)
        /\ ~InStore(<<Peer(u), out>>)' /\ ~InStore(<<Peer(u), out>>)
        /\ \A q \in Loaded' : <<q.usart, q.bit>> = <<u, "TIR">>
    BY <1>2, <1>4, <2>1 DEF InStore, Loaded
  <2>3. Accounted(u, out)'
    BY <1>2, <1>3, <1>5, <2>1, <2>2 DEF Awaiting, Accounted, One
  <2>4. waits' + Wakes' <= 8
    <3>1. One(sending' # {}) = 0 /\ One(sending # {}) = 1
      BY <2>1 DEF One
    <3>2. One(update' # {}) = 1 /\ One(update # {}) = 0
      BY <1>2, <1>4 DEF One
    <3>3. ToCome' = ToCome - 1 /\ ToCome \in Int
      BY <1>2, <1>3, <3>1 DEF ToCome, One
    <3>4. Wakes' = Wakes
      BY <1>2, <3>2, <3>3, PendingType DEF Wakes
    <3> QED BY <1>2, <1>5, <3>4 DEF Awaiting
  <2> QED BY <1>2, <1>5, <2>3, <2>4 DEF Awaiting, Carried
<1> QED BY <1>1, <1>2, <1>3, <1>5, WaitStays

LEMMA RxLoadStage ==
    ASSUME IInv, NEW v \in Usarts, RxLoad(v) PROVE StageInv'
<1>1. OpAt(test, Cur) = "wait"
  BY CalmOrWait DEF IInv, RxLoad, Calm
<1>2. /\ UNCHANGED <<test, todo, base, logged, g_log_count, sending, waits, main>>
      /\ UNCHANGED <<status, gic, notified>> /\ update = {}
      /\ arriving[v] # 0 /\ arriving' = [arriving EXCEPT ![v] = 0]
  BY DEF RxLoad, program, log
<1>3. Sending' = Sending /\ Cur' = Cur
  BY <1>2, HereStays DEF Sending
<1>4. PICK r : /\ update' = {r} /\ r.usart = v /\ ~r.stored
               /\ r.bit = IF rbuf[v] = 0 THEN "RIR" ELSE "EIR"
  <2>1. PICK r : r = Update(v, IF rbuf[v] = 0 THEN "RIR" ELSE "EIR")
    OBVIOUS
  <2>2. update' = {r}
    BY <2>1 DEF RxLoad
  <2>3. r.usart = v /\ ~r.stored /\ r.bit = IF rbuf[v] = 0 THEN "RIR" ELSE "EIR"
    BY <2>1 DEF Update
  <2> QED BY <2>2, <2>3
<1>5. ASSUME NEW u \in Usarts, NEW b \in Nat \ {0}, NEW out \in {"RIR", "EIR"},
             Awaiting(u, b, out)
      PROVE  Awaiting(u, b, out)'
  <2>1. v = Peer(u) /\ Peer(u) \in Usarts \ {u} /\ (rbuf[v] = 0 <=> out = "RIR")
    BY <1>2, <1>5 DEF Awaiting, Accounted, Carried, Peer, Usarts
  <2>2. rbuf' = IF out = "RIR" THEN [rbuf EXCEPT ![v] = arriving[v]] ELSE rbuf
    BY <2>1 DEF RxLoad, IInv, TypeInv
  <2>3. /\ InStore(<<v, out>>)' /\ ~InStore(<<v, out>>) /\ r.bit = out
        /\ ~InStore(<<u, "TIR">>)' /\ ~InStore(<<u, "TIR">>)
        /\ \A q \in Loaded' : <<q.usart, q.bit>> = <<Peer(u), out>>
    BY <1>2, <1>4, <2>1 DEF InStore, Loaded
  <2>4. arriving'[v] = 0 /\ arriving'[u] = arriving[u]
    BY <1>2, <2>1 DEF IInv, TypeInv
  <2>5. Accounted(u, out)'
    BY <1>2, <1>3, <1>5, <2>1, <2>3, <2>4 DEF Awaiting, Accounted, One
  <2>6. waits' + Wakes' <= 8
    <3>1. Usarts = {u, v} /\ arriving[u] = 0
      BY <1>5, <2>1 DEF Awaiting, Accounted, Usarts
    <3>2. \A w \in Usarts : arriving'[w] = 0
      BY <2>4, <3>1
    <3>3. /\ One(\E w \in Usarts : arriving'[w] # 0) = 0
          /\ One(\E w \in Usarts : arriving[w] # 0) = 1
      BY <1>2, <3>2 DEF One
    <3>4. One(update' # {}) = 1 /\ One(update # {}) = 0
      BY <1>2, <1>4 DEF One
    <3>5. ToCome' = ToCome - 1 /\ ToCome \in Int
      BY <1>2, <1>3, <3>3 DEF ToCome, One
    <3>6. Wakes' = Wakes
      BY <1>2, <3>4, <3>5, PendingType DEF Wakes
    <3> QED BY <1>2, <1>5, <3>6 DEF Awaiting
  <2>7. Carried(u, b, out = "EIR")'
    BY <1>2, <1>5, <2>1, <2>2, <2>4 DEF IInv, TypeInv, Awaiting, Carried
  <2> QED BY <2>5, <2>6, <2>7 DEF Awaiting
<1> QED BY <1>1, <1>2, <1>3, <1>5, WaitStays

\* S stores what it has loaded: unless the threads meet, one bit more.
LEMMA StoreBitFacts ==
    ASSUME TypeInv, StoreBit, ~raced'
    PROVE  \E r \in Reports :
              /\ update = {r} /\ ~r.stored /\ update' = {[r EXCEPT !.stored = TRUE]}
              /\ status' = [status EXCEPT ![r.usart] = status[r.usart] \cup {r.bit}]
              /\ UNCHANGED <<rbuf, sending, arriving, notified, gic, ld, program, log, handler>>
<1>1. PICK r \in update :
        /\ ~r.stored
        /\ status' = [status EXCEPT ![r.usart] = r.copy \cup {r.bit}]
        /\ raced' = (raced \/ status[r.usart] # r.copy)
        /\ update' = {[r EXCEPT !.stored = TRUE]}
        /\ UNCHANGED <<rbuf, sending, arriving, notified, gic, ld, program, log, handler>>
  BY DEF StoreBit
<1>2. r \in Reports /\ update = {r} /\ status[r.usart] = r.copy
  BY <1>1 DEF TypeInv
<1> QED BY <1>1, <1>2

LEMMA PairEq ==
    ASSUME NEW a, NEW b, NEW c, NEW d, <<a, b>> = <<c, d>> PROVE a = c /\ b = d
  OBVIOUS

LEMMA StoreBitStage ==
    ASSUME IInv, StoreBit, ~raced' PROVE StageInv'
<1>1. PICK r \in Reports :
        /\ update = {r} /\ ~r.stored /\ update' = {[r EXCEPT !.stored = TRUE]}
        /\ status' = [status EXCEPT ![r.usart] = status[r.usart] \cup {r.bit}]
        /\ UNCHANGED <<rbuf, sending, arriving, notified, gic, ld, program, log, handler>>
  BY StoreBitFacts DEF IInv
<1>2. PICK q : update' = {q} /\ q.stored
  <2>1. [r EXCEPT !.stored = TRUE].stored
    BY DEF Reports
  <2> QED BY <1>1, <2>1
<1>3. OpAt(test, Cur) = "wait"
  BY <1>1, CalmOrWait DEF IInv, Calm
<1>4. UNCHANGED <<test, todo, base, logged, g_log_count, waits, main>>
  BY <1>1 DEF program, log
<1>5. Sending' = Sending /\ Cur' = Cur
  BY <1>4, HereStays DEF Sending
<1>6. ASSUME NEW u \in Usarts, NEW b \in Nat \ {0}, NEW out \in {"RIR", "EIR"},
             Awaiting(u, b, out)
      PROVE  Awaiting(u, b, out)'
  <2>1. Loaded' = {} /\ \A e : ~InStore(e)'
    BY <1>2 DEF InStore, Loaded
  <2>2. Accounted(u, out) /\ Peer(u) \in Usarts \ {u}
    BY <1>6 DEF Awaiting, Peer, Usarts
  <2>3. (r.usart = u /\ r.bit = "TIR") \/ (r.usart = Peer(u) /\ r.bit = out)
    <3>1. <<r.usart, r.bit>> = <<u, "TIR">> \/ <<r.usart, r.bit>> = <<Peer(u), out>>
      BY <1>1, <2>2 DEF Accounted, Loaded
    <3> QED BY <3>1, PairEq
  <2>4. CASE r.usart = u /\ r.bit = "TIR"
    <3>1. InStore(<<u, "TIR">>) /\ ~InStore(<<Peer(u), out>>)
      BY <1>1, <2>2, <2>4 DEF InStore, Loaded
    <3>2. status'[u] = status[u] \cup {"TIR"} /\ status'[Peer(u)] = status[Peer(u)]
      BY <1>1, <2>2, <2>4 DEF IInv, TypeInv
    <3>3. Accounted(u, out)'
      BY <1>1, <1>2, <1>4, <1>5, <2>1, <2>2, <3>1, <3>2 DEF Accounted, One
    <3> QED BY <1>1, <1>2, <1>4, <1>5, <1>6, <3>3 DEF Awaiting, Carried, Wakes, ToCome
  <2>5. CASE r.usart = Peer(u) /\ r.bit = out
    <3>1. InStore(<<Peer(u), out>>) /\ ~InStore(<<u, "TIR">>)
      BY <1>1, <2>2, <2>5 DEF InStore, Loaded
    <3>2. status'[Peer(u)] = status[Peer(u)] \cup {out} /\ status'[u] = status[u]
      BY <1>1, <2>2, <2>5 DEF IInv, TypeInv
    <3>3. Accounted(u, out)'
      BY <1>1, <1>2, <1>4, <1>5, <2>1, <2>2, <3>1, <3>2 DEF Accounted, One
    <3> QED BY <1>1, <1>2, <1>4, <1>5, <1>6, <3>3 DEF Awaiting, Carried, Wakes, ToCome
  <2> QED BY <2>3, <2>4, <2>5
<1> QED BY <1>3, <1>4, <1>5, <1>6, WaitStays

LEMMA EndUpdateStage ==
    ASSUME IInv, EndUpdate PROVE StageInv'
<1>1. PICK r \in update :
        /\ r.stored /\ update' = {} /\ notified' = notified \cup {r.usart}
        /\ UNCHANGED <<status, rbuf, sending, arriving, gic, program, log>>
  BY DEF EndUpdate
<1>2. update = {r} /\ r.usart \in Usarts
  BY <1>1 DEF IInv, TypeInv, Reports
<1>3. UNCHANGED <<test, todo, base, waits, main, logged, g_log_count>>
  BY <1>1 DEF program, log
<1>4. Sending' = Sending /\ Cur' = Cur
  BY <1>3, HereStays DEF Sending
<1>5. Loaded' = Loaded
  BY <1>1, <1>2 DEF Loaded
<1>6. Wakes' <= Wakes /\ Wakes \in Int /\ Wakes' \in Int
  <2>1. ToCome' = ToCome /\ ToCome \in Int
    BY <1>1, <1>4, WakesType DEF ToCome, One
  <2>2. One(update # {}) = 1 /\ One(update' # {}) = 0
    BY <1>1, <1>2 DEF One
  <2>3. Pending(notified') <= Pending(notified) + 1
    BY <1>1, <1>2, PendingType
  <2>4. Pending(gic) \in Int /\ Pending(notified) \in Int /\ Pending(notified') \in Int
    BY PendingType
  <2> QED BY <1>1, <2>1, <2>2, <2>3, <2>4 DEF Wakes
<1>7. waits' = waits /\ waits \in Int
  BY <1>3 DEF IInv, TypeInv
<1>8. waits + Wakes <= 8 => waits' + Wakes' <= 8
  <2>1. PICK m \in Int, n \in Int : m = Wakes /\ n = Wakes'
    BY <1>6
  <2>2. waits + m <= 8 => waits' + n <= 8
    <3>1. n <= m
      BY <1>6, <2>1
    <3> QED BY <1>7, <3>1
  <2> QED BY <2>1, <2>2
<1>9. \A q \in update' : q \in update
  BY <1>1
<1> QED BY <1>1, <1>3, <1>4, <1>5, <1>8, <1>9, KeepsStage

LEMMA IrqEdgeStage ==
    ASSUME IInv, NEW v \in Usarts, IrqEdge(v) PROVE StageInv'
<1>1. /\ UNCHANGED <<test, todo, base, waits, main, logged, g_log_count>>
      /\ UNCHANGED <<status, rbuf, sending, arriving, update>>
      /\ v \in notified /\ notified' = notified \ {v} /\ gic' = gic \cup {v}
  BY DEF IrqEdge, program, log
<1>2. Sending' = Sending /\ Cur' = Cur
  BY <1>1, HereStays DEF Sending
<1>3. Loaded' = Loaded
  BY <1>1 DEF Loaded
<1>4. Wakes' <= Wakes /\ Wakes \in Int /\ Wakes' \in Int
  <2>1. ToCome' = ToCome /\ ToCome \in Int /\ One(update # {}) \in Int
    BY <1>1, <1>2, WakesType DEF ToCome, One
  <2>2. Pending(gic') <= Pending(gic) + 1 /\ Pending(notified') = Pending(notified) - 1
    BY <1>1, PendingType
  <2>3. /\ Pending(gic) \in Int /\ Pending(notified) \in Int
        /\ Pending(gic') \in Int /\ Pending(notified') \in Int
    BY PendingType
  <2> QED BY <1>1, <2>1, <2>2, <2>3 DEF Wakes
<1>5. waits' = waits /\ waits \in Int
  BY <1>1 DEF IInv, TypeInv
<1>6. waits + Wakes <= 8 => waits' + Wakes' <= 8
  <2>1. PICK m \in Int, n \in Int : m = Wakes /\ n = Wakes'
    BY <1>4
  <2>2. waits + m <= 8 => waits' + n <= 8
    <3>1. n <= m
      BY <1>4, <2>1
    <3> QED BY <1>5, <3>1
  <2> QED BY <2>1, <2>2
<1>7. \A q \in update' : q \in update
  BY <1>1
<1> QED BY <1>1, <1>2, <1>3, <1>6, <1>7, KeepsStage

LEMMA TakeIrqStage ==
    ASSUME IInv, NEW v \in Usarts, TakeIrq(v) PROVE StageInv'
<1>1. /\ UNCHANGED <<test, todo, base, logged, g_log_count>>
      /\ UNCHANGED <<status, rbuf, sending, arriving, update, notified>>
      /\ v \in gic /\ gic' = gic \ {v}
      /\ main' = (IF main = "asleep" THEN "run" ELSE main)
  BY DEF TakeIrq, log, device
<1>2. Sending' = Sending
  BY <1>1 DEF Sending
<1>3. Cur' = Cur
  BY <1>1, <1>2, HereStays
<1>4. Loaded' = Loaded
  BY <1>1 DEF Loaded
<1>5. Wakes' = Wakes - 1 /\ Wakes \in Int /\ Wakes' \in Int
  <2>1. ToCome' = ToCome /\ ToCome \in Int /\ One(update # {}) \in Int
    BY <1>1, <1>2, WakesType DEF ToCome, One
  <2>2. Pending(gic') = Pending(gic) - 1
    BY <1>1, PendingType
  <2>3. Pending(gic) \in Int /\ Pending(notified) \in Int
    BY PendingType
  <2> QED BY <1>1, <2>1, <2>2, <2>3 DEF Wakes
<1>6. waits' <= waits + 1 /\ waits \in Int /\ waits' \in Int
  BY DEF TakeIrq, IInv, TypeInv
<1>7. waits + Wakes <= 8 => waits' + Wakes' <= 8
  <2>1. PICK m \in Int, n \in Int : m = Wakes /\ n = Wakes'
    BY <1>5
  <2>2. PICK k \in Int, l \in Int : k = waits /\ l = waits'
    BY <1>6
  <2>3. n = m - 1 /\ l <= k + 1
    BY <1>5, <1>6, <2>1, <2>2
  <2>4. k + m <= 8 => l + n <= 8
    BY <2>3
  <2> QED BY <2>1, <2>2, <2>4
<1>8. \A q \in update' : q \in update
  BY <1>1
<1> QED BY <1>1, <1>2, <1>3, <1>4, <1>7, <1>8, KeepsStage

\* A step of one thread that shows nothing to the other
LEMMA LocalStage ==
    ASSUME IInv, UNCHANGED <<device, gic, test, todo, base, waits, log>>, Sending' = Sending
    PROVE  StageInv'
<1>1. /\ UNCHANGED <<test, todo, base, waits, logged, g_log_count, gic>>
      /\ UNCHANGED <<status, rbuf, sending, arriving, update, notified>>
  BY DEF device, log
<1>2. Cur' = Cur
  BY HereStays
<1>3. Loaded' = Loaded
  BY <1>1 DEF Loaded
<1>4. Wakes' = Wakes /\ Wakes \in Int
  BY <1>1, WakesType DEF Wakes, ToCome, One
<1> QED BY <1>1, <1>2, <1>3, <1>4, KeepsStage

\* The bits that the handler holds are in the log, and there is room for them.
LEMMA LoggedAll ==
    ASSUME IInv, LogSize >= 27, NEW u \in Usarts, NEW out \in {"RIR", "EIR"},
           Accounted(u, out), base + 3 <= 27
    PROVE  /\ Logged(isr_status) = isr_status
           /\ Cardinality(isr_status) =
                 IF isr_usart = u
                 THEN One("TBIR" \in isr_status) + One("TIR" \in isr_status)
                 ELSE One(out \in isr_status)
<1>1. CASE isr_usart = u
  <2>1. isr_status \in SUBSET {"TBIR", "TIR"}
    BY <1>1 DEF IInv, HandlerInv, Accounted
  <2>2. Cardinality(isr_status) = One("TBIR" \in isr_status) + One("TIR" \in isr_status)
    BY <2>1, PairCard
  <2>3. Cardinality(isr_status) <= LogSize - g_log_count
    BY <1>1, <2>1, <2>2, IsrFirmwareAssumption
       DEF IInv, TypeInv, HandlerInv, Accounted, One
  <2>4. LogSize - g_log_count \in Int
    BY IsrFirmwareAssumption DEF IInv, TypeInv
  <2>5. isr_status \subseteq {"TBIR", "TIR"} \/ isr_status \subseteq {"RIR", "EIR"}
    BY <2>1
  <2>6. Logged(isr_status) = isr_status
    BY <2>3, <2>4, <2>5, AllLogged DEF Logged
  <2> QED BY <1>1, <2>2, <2>6
<1>2. CASE isr_usart # u
  <2>1. isr_status \in SUBSET {out, "TIR"} /\ isr_status \subseteq {out}
    BY <1>2 DEF IInv, TypeInv, HandlerInv, Accounted, Peer, Usarts
  <2>2. Cardinality(isr_status) = One(out \in isr_status)
    <3>1. Cardinality(isr_status) = One(out \in isr_status) + One("TIR" \in isr_status)
      BY <2>1, PairCard
    <3> QED BY <2>1, <3>1 DEF One
  <2>3. Cardinality(isr_status) <= LogSize - g_log_count
    BY <1>2, <2>1, <2>2, IsrFirmwareAssumption
       DEF IInv, TypeInv, HandlerInv, Accounted, One, Peer, Usarts
  <2>4. LogSize - g_log_count \in Int
    BY IsrFirmwareAssumption DEF IInv, TypeInv
  <2>5. isr_status \subseteq {"TBIR", "TIR"} \/ isr_status \subseteq {"RIR", "EIR"}
    BY <2>1
  <2>6. Logged(isr_status) = isr_status
    BY <2>3, <2>4, <2>5, AllLogged DEF Logged
  <2> QED BY <1>2, <2>2, <2>6
<1> QED BY <1>1, <1>2

LEMMA IsrStoreStage ==
    ASSUME IInv, LogSize >= 27, IsrStore, ~raced' PROVE StageInv'
<1>1. UNCHANGED <<test, todo, base, arriving, rbuf, sending, gic, notified, update, waits, main>>
  BY DEF IsrStore, program
<1>2. Sending' = Sending /\ Cur' = Cur
  BY <1>1, HereStays DEF Sending
<1>3. Loaded' = Loaded
  BY <1>1 DEF Loaded
<1>4. status' = [status EXCEPT ![isr_usart] = status[isr_usart] \ isr_status]
  BY DEF IsrStore
<1>5. CASE OpAt(test, Cur) = "wait"
  <2>1. ASSUME NEW u \in Usarts, NEW b \in Nat \ {0}, NEW out \in {"RIR", "EIR"},
               Awaiting(u, b, out)
        PROVE  Awaiting(u, b, out)'
    <3>1. base + 3 <= 27
      BY <1>5, CalmOrWait, SentMost, SentType DEF AtWait, IInv, TypeInv
    <3>2. Accounted(u, out)
      BY <2>1 DEF Awaiting
    <3>3. /\ logged' = logged \cup {<<isr_usart, x>> : x \in isr_status}
          /\ g_log_count' = g_log_count +
                 IF isr_usart = u
                 THEN One("TBIR" \in isr_status) + One("TIR" \in isr_status)
                 ELSE One(out \in isr_status)
      BY <3>1, <3>2, LoggedAll DEF IsrStore
    <3>4. Accounted(u, out)'
      <4>1. \A e : InStore(e)' = InStore(e)
        BY <1>3 DEF InStore
      <4>2. CASE isr_usart = u
        BY <1>1, <1>2, <1>3, <1>4, <3>2, <3>3, <4>1, <4>2
           DEF IInv, TypeInv, HandlerInv, Accounted, One, Peer, Usarts
      <4>3. CASE isr_usart # u
        BY <1>1, <1>2, <1>3, <1>4, <3>2, <3>3, <4>1, <4>3
           DEF IInv, TypeInv, HandlerInv, Accounted, One, Peer, Usarts
      <4> QED BY <4>2, <4>3
    <3> QED BY <1>1, <1>2, <2>1, <3>4 DEF Awaiting, Carried, Wakes, ToCome
  <2> QED BY <1>1, <1>2, <1>5, <2>1, WaitStays
<1>6. CASE OpAt(test, Cur) # "wait"
  <2>1. isr_status = {} /\ status = [w \in Usarts |-> {}]
    BY <1>6, CalmOrWait DEF IInv, Calm
  <2>2. Logged(isr_status) = {} /\ Cardinality(Logged(isr_status)) = 0
    BY <2>1, FS_EmptySet DEF Logged, FirstOf
  <2>3. UNCHANGED <<logged, g_log_count>>
    BY <2>2 DEF IsrStore, IInv, TypeInv
  <2>4. UNCHANGED status
    BY <1>4, <2>1 DEF IInv, TypeInv
  <2> QED BY <1>1, <1>2, <1>6, <2>3, <2>4, StageStays DEF IInv
<1> QED BY <1>5, <1>6

-----------------------------------------------------------------------------
(* The program: from one instruction to the next *)

LEMMA Advances ==
    ASSUME IInv, todo # <<>>, Continue, test' = test, ~Sending, ~Sending'
    PROVE  /\ test \in 1..5 /\ Pos \in DOMAIN Script(test) /\ Pos' = Pos + 1
           /\ Cur = Pos /\ Cur' = Pos + 1
           /\ Head(todo) = Script(test)[Pos] /\ OpAt(test, Pos) = Head(todo).op
           /\ Neighbours(test, Pos) /\ Pos \in Nat /\ SentSoFar \in Nat
           /\ SentSoFar' = SentSoFar + (IF Head(todo).op = "send" THEN 1 ELSE 0)
<1>1. TypeInv /\ ProgramInv
  BY DEF IInv
<1>2. Pos' = Pos + 1 /\ Cur = Pos /\ Cur' = Pos + 1
  BY <1>1, MovesOn DEF Continue, Cur
<1>3. Pos \in Nat
  BY <1>1, CurRange
<1> QED BY <1>1, <1>2, <1>3, UnderWay, SentMovesOn, SentType

\* The program is at its next instruction.
LEMMA AtPos ==
    ASSUME IInv, todo # <<>>, ~Sending
    PROVE  /\ test \in 1..5 /\ Pos \in DOMAIN Script(test) /\ Cur = Pos
           /\ Head(todo) = Script(test)[Pos] /\ OpAt(test, Cur) = Head(todo).op
           /\ Neighbours(test, Pos)
  BY UnderWay DEF IInv, Cur

\* There is nothing for test_begin() to clear.
LEMMA ClearStoreStage ==
    ASSUME IInv, ClearStore PROVE StageInv'
<1>1. todo # <<>> /\ ~Sending /\ ~Sending' /\ test' = test
  <2>1. OpAt(test, Pos) = "clear" /\ TypeInv /\ ProgramInv
    BY DEF IInv, ProgramInv, ClearStore
  <2> QED BY <2>1, Arrived DEF ClearStore, Sending
<1>2. /\ Pos \in Nat /\ Cur = Pos /\ Cur' = Pos + 1 /\ Head(todo) = Script(test)[Pos]
      /\ Neighbours(test, Pos) /\ OpAt(test, Cur) = "clear" /\ Script(test)[Pos].op = "clear"
      /\ SentSoFar' = SentSoFar /\ SentSoFar \in Nat
  <2>1. OpAt(test, Pos) = "clear"
    BY DEF IInv, ProgramInv, ClearStore
  <2> QED BY <1>1, <2>1, Advances DEF ClearStore
<1>3. Calm /\ KeptInv(test, Cur) /\ g_log_count <= 3 * SentSoFar
  BY <1>2 DEF IInv, StageInv
<1>4. Pos \in {1, 2} /\ OpAt(test, Pos + 1) \in {"clear", "base"}
  BY <1>2 DEF Neighbours
<1>5. UNCHANGED <<sending, arriving, rbuf, status, update, g_log_count>>
  BY <1>3 DEF ClearStore, Calm, log
<1>6. OpAt(test, Cur)' \in {"clear", "base"} /\ Calm' /\ KeptInv(test, Cur)'
  BY <1>1, <1>2, <1>3, <1>4, <1>5 DEF Calm, KeptInv, Overruns
<1> QED BY <1>1, <1>2, <1>3, <1>5, <1>6 DEF StageInv

LEMMA SetBaseStage ==
    ASSUME IInv, SetBase PROVE StageInv'
<1>1. todo # <<>> /\ Continue /\ ~Sending /\ ~Sending' /\ test' = test /\ Head(todo).op = "base"
  BY DEF SetBase, At, Runs, Sending
<1>2. /\ test \in 1..5 /\ Cur = Pos /\ Cur' = Pos + 1 /\ OpAt(test, Cur) = "base"
      /\ Neighbours(test, Pos) /\ Pos \in Nat /\ SentSoFar' = SentSoFar
      /\ Script(test)[Pos].op = "base" /\ SentSoFar \in Nat
  BY <1>1, Advances
<1>3. OpAt(test, Pos + 1) = "send" /\ (test = 3 => Pos \in {3, 7})
  BY <1>2 DEF Neighbours
<1>4. Calm /\ KeptInv(test, Cur) /\ g_log_count <= 3 * SentSoFar
  BY <1>2 DEF IInv, StageInv
<1>5. /\ UNCHANGED <<sending, arriving, rbuf, status, update, g_log_count>>
      /\ logged' = {} /\ base' = g_log_count
  BY DEF SetBase, device
<1>6. OpAt(test, Cur)' = "send" /\ Calm' /\ KeptInv(test, Cur)'
  BY <1>1, <1>2, <1>3, <1>4, <1>5 DEF Calm, KeptInv, Overruns
<1> QED BY <1>2, <1>4, <1>5, <1>6 DEF StageInv

LEMMA SendByteStage ==
    ASSUME IInv, SendByte PROVE StageInv'
<1>0. todo # <<>> /\ ~Sending /\ Sending' /\ test' = test /\ todo' = todo /\ Head(todo).op = "send"
  BY DEF SendByte, At, Runs, Sending
<1>1. /\ test \in 1..5 /\ Pos \in Nat /\ Cur = Pos /\ Cur' = Pos + 1 /\ OpAt(test, Cur) = "send"
      /\ Neighbours(test, Pos) /\ SentSoFar' = SentSoFar + 1
      /\ Script(test)[Pos].op = "send" /\ Head(todo) = Script(test)[Pos]
      /\ SentSoFar \in Nat
  <2>1. TypeInv /\ ProgramInv
    BY DEF IInv
  <2>2. Pos' = Pos /\ Cur' = Pos + 1 /\ Cur = Pos
    BY <1>0 DEF Pos, Cur
  <2> QED BY <1>0, <2>1, <2>2, AtPos, CurRange, SentMovesOn, SentType
<1>2. PICK u \in Usarts : u = Script(test)[Pos].usart
  BY <1>1 DEF Neighbours
<1>3. PICK b \in Nat \ {0} : b = Script(test)[Pos].byte
  BY <1>1 DEF Neighbours
<1>4. PICK over \in BOOLEAN : over <=> Overruns(test, Cur)
  BY DEF Overruns
<1>5. PICK out \in {"RIR", "EIR"} : out = IF over THEN "EIR" ELSE "RIR"
  OBVIOUS
<1>6. OpAt(test, Pos + 1) = "wait" /\ (test = 3 => (Pos = 4 \/ Pos = 8) /\ u = "A")
  BY <1>1, <1>2 DEF Neighbours
<1>7. (Overruns(test, Cur') <=> over) /\ Outcome(test, Cur') = out
  <2>1. Overruns(test, Cur') <=> Overruns(test, Cur)
    BY <1>1, <1>6 DEF Overruns
  <2> QED BY <1>4, <1>5, <2>1 DEF Outcome
<1>8. /\ Calm /\ KeptInv(test, Cur) /\ g_log_count <= 3 * SentSoFar
      /\ logged = {} /\ base = g_log_count
  BY <1>1 DEF IInv, StageInv
<1>9. /\ sending' = {u} /\ arriving' = [arriving EXCEPT ![Peer(u)] = b]
      /\ waits' = 0 /\ UNCHANGED <<base, logged, g_log_count, rbuf, status, update>>
  BY <1>1, <1>2, <1>3, <1>8 DEF SendByte, log, Calm
<1>10. Peer(u) \in Usarts \ {u} /\ Usarts = {u, Peer(u)}
  BY DEF Peer, Usarts
<1>11. /\ arriving'[u] = 0 /\ arriving'[Peer(u)] = b
       /\ status'[u] = {} /\ status'[Peer(u)] = {}
  BY <1>8, <1>9, <1>10 DEF Calm
<1>12. Accounted(u, out)'
  <2>1. Loaded' = {} /\ ~InStore(<<u, "TIR">>)' /\ ~InStore(<<Peer(u), out>>)'
    BY <1>8, <1>9 DEF Calm, Loaded, InStore
  <2> QED BY <1>0, <1>3, <1>5, <1>8, <1>9, <1>10, <1>11, <2>1 DEF Accounted, One, IInv, TypeInv
<1>13. Carried(u, b, over)'
  <2>1. rbuf[u] = 0 /\ rbuf[Peer(u)] = IF over THEN 17 ELSE 0
    BY <1>4, <1>6, <1>8, <1>10 DEF KeptInv, Overruns, Peer, Usarts
  <2> QED BY <1>3, <1>9, <1>11, <2>1 DEF Carried
<1>14. waits' + Wakes' <= 8
  <2>1. PICK a \in 0..2 : a = Pending(gic')
    BY PendingType
  <2>2. PICK c \in 0..2 : c = Pending(notified')
    BY PendingType
  <2>3. PICK d \in 0..1 : d = One(update' # {})
    BY DEF One
  <2>4. PICK e \in 0..3 : e = ToCome'
    BY DEF ToCome, One
  <2>5. Wakes' = a + c + d + e
    BY <2>1, <2>2, <2>3, <2>4 DEF Wakes
  <2>6. 0 + (a + c + d + e) <= 8
    OBVIOUS
  <2> QED BY <1>9, <2>5, <2>6
<1>15. Script(test)[Cur' - 1].usart = u /\ Script(test)[Cur' - 1].byte = b
  BY <1>1, <1>2, <1>3
<1>16. AtWait'
  <2>1. WaitUsart' = u /\ WaitByte' = b
    BY <1>0, <1>15 DEF WaitUsart, WaitByte
  <2>2. base' + 3 <= 3 * SentSoFar'
    BY <1>1, <1>8, <1>9 DEF IInv, TypeInv
  <2>3. Carried(u, b, Overruns(test, Cur))'
    BY <1>0, <1>7, <1>13 DEF Carried
  <2> QED BY <1>0, <1>7, <1>12, <1>14, <2>1, <2>2, <2>3 DEF AtWait
<1>17. g_log_count' <= 3 * SentSoFar'
  BY <1>1, <1>8, <1>9 DEF IInv, TypeInv
<1>18. OpAt(test, Cur)' = "wait"
  BY <1>0, <1>1, <1>6
<1> QED BY <1>16, <1>17, <1>18 DEF StageInv, AtWait, WaitUsart, WaitByte

\* Q's report of TBIR, for the byte that is already on its way
LEMMA TbirStoreFacts ==
    ASSUME IInv, TbirStore
    PROVE  /\ todo # <<>> /\ OpAt(test, Pos) = "send" /\ test' = test /\ Continue
           /\ Pos' = Pos + 1 /\ Cur = Pos + 1 /\ Cur' = Cur /\ OpAt(test, Cur) = "wait"
           /\ Sending /\ ~Sending' /\ Head(todo).usart = WaitUsart /\ WaitUsart \in Usarts
<1>1. TypeInv /\ ProgramInv /\ Sending /\ ~Sending' /\ test' = test /\ Continue
  BY DEF IInv, TbirStore, Sending
<1>2. OpAt(test, Pos) = "send"
  BY <1>1 DEF ProgramInv
<1>3. todo # <<>>
  BY <1>1, <1>2, Arrived
<1>4. Pos' = Pos + 1 /\ Cur = Pos + 1 /\ Cur' = Cur
  BY <1>1, <1>3, MovesOn DEF Cur, Continue
<1>5. Neighbours(test, Pos) /\ Head(todo) = Script(test)[Pos] /\ Script(test)[Pos].op = "send"
  BY <1>1, <1>2, <1>3, UnderWay
<1>6. OpAt(test, Cur) = "wait" /\ Script(test)[Pos].usart \in Usarts
  BY <1>4, <1>5 DEF Neighbours
<1>7. Cur - 1 = Pos
  BY <1>1, <1>4, CurRange
<1> QED BY <1>1, <1>2, <1>3, <1>4, <1>5, <1>6, <1>7 DEF WaitUsart

LEMMA TbirStoreStage ==
    ASSUME IInv, TbirStore, ~raced' PROVE StageInv'
<1>1. /\ test' = test /\ Cur' = Cur /\ OpAt(test, Cur) = "wait"
      /\ Sending /\ ~Sending' /\ Head(todo).usart = WaitUsart
  BY TbirStoreFacts
<1>2. /\ UNCHANGED <<base, logged, g_log_count, sending, arriving, rbuf, update, gic, waits>>
      /\ status' = [status EXCEPT ![WaitUsart] = status[WaitUsart] \cup {"TBIR"}]
      /\ notified' = notified \cup {WaitUsart}
  BY <1>1 DEF TbirStore, log
<1>3. TypeInv /\ AtWait /\ WaitUsart \in Usarts /\ WaitByte \in Nat \ {0}
  BY <1>1, CalmOrWait, WaitFacts DEF IInv
<1>4. PICK u \in Usarts : u = WaitUsart
  BY <1>3
<1>5. PICK out \in {"RIR", "EIR"} : out = Outcome(test, Cur)
  BY DEF Outcome
<1>6. Accounted(u, out) /\ Peer(u) \in Usarts \ {u}
  BY <1>3, <1>4, <1>5 DEF AtWait, Peer, Usarts
<1>7. Loaded' = Loaded /\ \A e : InStore(e)' = InStore(e)
  BY <1>2 DEF Loaded, InStore
<1>8. status'[u] = status[u] \cup {"TBIR"} /\ status'[Peer(u)] = status[Peer(u)]
  BY <1>2, <1>3, <1>4, <1>6 DEF TypeInv
<1>9. Accounted(u, out)'
  BY <1>1, <1>2, <1>6, <1>7, <1>8 DEF Accounted, One
<1>10. waits' + Wakes' <= 8
  <2>1. PICK k \in Nat : k = waits
    BY <1>3 DEF TypeInv
  <2>2. PICK g \in Int, n \in Int, c \in Int, p \in Int :
          g = Pending(gic) /\ n = Pending(notified) /\ c = ToCome /\ p = Pending(notified')
    BY PendingType, WakesType
  <2>3. p <= n + 1
    BY <1>2, <1>3, <2>2, PendingType
  <2>4. ToCome' = c - 1
    <3>1. ToCome = 1 + One(sending # {}) + One(\E w \in Usarts : arriving[w] # 0)
      BY <1>1 DEF ToCome, One
    <3>2. ToCome' = 0 + One(sending # {}) + One(\E w \in Usarts : arriving[w] # 0)
      BY <1>1, <1>2 DEF ToCome, One
    <3> QED BY <2>2, <3>1, <3>2 DEF One
  <2>5. PICK z \in {0, 1} : z = One(update # {})
    BY DEF One
  <2>6. Wakes = g + n + z + c
    BY <2>2, <2>5 DEF Wakes
  <2>7. Wakes' = g + p + z + (c - 1)
    BY <1>2, <2>2, <2>4, <2>5 DEF Wakes, One
  <2>8. k + (g + n + z + c) <= 8
    BY <1>3, <2>1, <2>6 DEF AtWait
  <2>9. k + (g + p + z + (c - 1)) <= 8
    BY <2>3, <2>8
  <2> QED BY <1>2, <2>1, <2>7, <2>9
<1>11. SentSoFar' = SentSoFar
  BY <1>1, SentStays
<1>12. AtWait'
  <2>1. WaitUsart' = WaitUsart /\ WaitByte' = WaitByte
    BY <1>1 DEF WaitUsart, WaitByte
  <2>2. Carried(WaitUsart, WaitByte, Overruns(test, Cur))
    BY <1>3 DEF AtWait
  <2>3. Carried(WaitUsart, WaitByte, Overruns(test, Cur))'
    BY <1>1, <1>2, <2>1, <2>2 DEF Carried
  <2>4. Accounted(WaitUsart, Outcome(test, Cur))'
    BY <1>1, <1>4, <1>5, <1>9, <2>1
  <2>5. base' + 3 <= 3 * SentSoFar'
    BY <1>2, <1>3, <1>11 DEF AtWait
  <2> QED BY <1>10, <2>3, <2>4, <2>5 DEF AtWait
<1> QED BY <1>1, <1>2, <1>12, StageStays DEF IInv, StageInv

\* wait_n() returns with the byte's three events in the log.
LEMMA WaitCheckStage ==
    ASSUME IInv, WaitLimit >= 9, WaitCheck PROVE StageInv' /\ UNCHANGED failed
<1>1. /\ TypeInv /\ ProgramInv /\ todo # <<>> /\ Head(todo).op = "wait" /\ ~Sending
      /\ UNCHANGED <<device, gic, test, base, waits, log>>
  BY DEF IInv, WaitCheck, At, Runs, Sending
<1>2. /\ Cur = Pos /\ OpAt(test, Cur) = "wait" /\ AtWait
      /\ WaitUsart \in Usarts /\ WaitByte \in Nat \ {0}
  BY <1>1, AtPos, CalmOrWait, WaitFacts DEF IInv
<1>3. waits < WaitLimit
  <2>1. PICK k \in Nat : k = waits
    BY <1>1 DEF TypeInv
  <2>2. PICK m \in Nat : m = Wakes
    BY WakesType
  <2>3. k + m <= 8
    BY <1>2, <2>1, <2>2 DEF AtWait
  <2>4. k < WaitLimit
    BY <2>3, IsrFirmwareAssumption
  <2> QED BY <2>1, <2>4
<1>4. CASE ~Enough
  <2>1. UNCHANGED <<todo, failed>> /\ Sending' = Sending
    BY <1>3, <1>4 DEF WaitCheck, At, Runs, Sending
  <2> QED BY <1>1, <2>1, LocalStage
<1>5. CASE Enough
  <2>1. Continue /\ ~Sending'
    BY <1>1, <1>3, <1>5 DEF WaitCheck, Advance, Sending
  <2>2. /\ test \in 1..5 /\ Cur = Pos /\ Cur' = Pos + 1 /\ test' = test
        /\ Neighbours(test, Pos) /\ Pos \in Nat /\ SentSoFar' = SentSoFar
        /\ Script(test)[Pos].op = "wait"
    BY <1>1, <2>1, Advances
  <2>3. OpAt(test, Cur)' = "find" /\ (test = 3 => Pos \in {5, 9})
    BY <2>2 DEF Neighbours
  <2>4. Outcome(test, Cur') = Outcome(test, Cur) /\ (Overruns(test, Cur') <=> Overruns(test, Cur))
    BY <2>2, <2>3 DEF Outcome, Overruns
  <2>5. /\ sending = {} /\ arriving[WaitUsart] = 0 /\ arriving[Peer(WaitUsart)] = 0
        /\ status[WaitUsart] = {} /\ status[Peer(WaitUsart)] = {}
        /\ logged = Awaited(test, Cur, WaitUsart) /\ Loaded = {}
    <3> DEFINE u == WaitUsart
               out == Outcome(test, Cur)
    <3>1. Accounted(u, out) /\ g_log_count >= base + 3 /\ base \in Nat
      BY <1>1, <1>2, <1>5 DEF AtWait, Enough, TypeInv
    <3> HIDE DEF u, out
    <3>2. <<u, "TBIR">> \in logged /\ <<u, "TIR">> \in logged /\ <<Peer(u), out>> \in logged
      BY <3>1 DEF Accounted, One
    <3>3. /\ "TBIR" \notin status[u] /\ "TIR" \notin status[u] /\ out \notin status[Peer(u)]
          /\ u \notin sending /\ arriving[Peer(u)] = 0
          /\ ~InStore(<<u, "TIR">>) /\ ~InStore(<<Peer(u), out>>)
      BY <3>1, <3>2 DEF Accounted, One
    <3>4. /\ sending = {} /\ arriving[u] = 0 /\ status[u] = {} /\ status[Peer(u)] = {}
          /\ logged = {<<u, "TBIR">>, <<u, "TIR">>, <<Peer(u), out>>}
      BY <3>1, <3>2, <3>3 DEF Accounted
    <3>5. Loaded = {}
      <4> SUFFICES ASSUME NEW r \in Loaded PROVE FALSE
        OBVIOUS
      <4>1. <<r.usart, r.bit>> \in {<<u, "TIR">>, <<Peer(u), out>>}
        BY <3>1 DEF Accounted
      <4> QED BY <3>3, <4>1 DEF InStore
    <3> QED BY <3>3, <3>4, <3>5 DEF u, out, Awaited
  <2>6. Calm'
    <3>1. \A w \in Usarts : arriving[w] = 0 /\ status[w] = {}
      BY <1>2, <2>5 DEF Peer, Usarts
    <3>2. UNCHANGED <<sending, arriving, status, update>>
      BY <1>1 DEF device
    <3>3. \A r \in update' : r.stored
      BY <2>5, <3>2 DEF Loaded
    <3> QED BY <1>1, <2>5, <3>1, <3>2, <3>3 DEF Calm, TypeInv
  <2>7. /\ Script(test)[Cur' - 2].usart = WaitUsart
        /\ Script(test)[Cur' - 2].byte = WaitByte
    <3>1. Cur' - 2 = Cur - 1
      BY <2>2
    <3> QED BY <3>1 DEF WaitUsart, WaitByte
  <2>8. logged' = Awaited(test, Cur', WaitUsart)
    BY <1>1, <2>4, <2>5 DEF log, Awaited
  <2>9. Carried(WaitUsart, WaitByte, Overruns(test, Cur))
    BY <1>2 DEF AtWait
  <2>10. PICK u \in Usarts : u = WaitUsart
    BY <1>2
  <2>11. PICK b \in Nat \ {0} : b = WaitByte
    BY <1>2
  <2>12. Carried(u, b, Overruns(test, Cur))'
    BY <1>1, <2>2, <2>4, <2>9, <2>10, <2>11 DEF Carried, device
  <2>13. g_log_count' <= 3 * SentSoFar'
    BY <1>1, <2>2 DEF log, IInv, StageInv
  <2>14. UNCHANGED failed
    BY <2>1 DEF Continue
  <2> QED BY <2>2, <2>3, <2>6, <2>7, <2>8, <2>10, <2>11, <2>12, <2>13, <2>14 DEF StageInv
<1> QED BY <1>4, <1>5

\* find_event() finds the events that the test asks for.
LEMMA FindEventsStage ==
    ASSUME IInv, FindEvents PROVE StageInv' /\ Continue
<1>1. /\ TypeInv /\ ProgramInv /\ todo # <<>> /\ Head(todo).op = "find"
      /\ ~Sending /\ ~Sending' /\ UNCHANGED <<device, gic, test, base, waits, log>>
  BY DEF IInv, FindEvents, At, Runs, Sending
<1>2. /\ test \in 1..5 /\ Pos \in DOMAIN Script(test) /\ Neighbours(test, Pos) /\ Cur = Pos
      /\ Script(test)[Pos].op = "find" /\ Head(todo) = Script(test)[Pos]
      /\ OpAt(test, Cur) = "find" /\ OpAt(test, Pos) = "find"
  BY <1>1, AtPos
<1>3. PICK u : u = Script(test)[Pos - 2].usart
  OBVIOUS
<1>4. PICK b : b = Script(test)[Pos - 2].byte
  OBVIOUS
<1>5. /\ Calm /\ logged = Awaited(test, Cur, u) /\ Carried(u, b, Overruns(test, Cur))
      /\ g_log_count <= 3 * SentSoFar
  BY <1>2, <1>3, <1>4 DEF IInv, StageInv
<1>6. Continue
  BY <1>2, <1>3, <1>5 DEF FindEvents, Advance, Neighbours
<1>7. Cur' = Pos + 1 /\ Pos \in Nat /\ SentSoFar' = SentSoFar /\ test' = test
  BY <1>1, <1>2, <1>6, Advances
<1>8. Calm' /\ g_log_count' <= 3 * SentSoFar'
  BY <1>1, <1>5, <1>7 DEF Calm, device, log
<1>9. u \in Usarts /\ b \in Nat \ {0}
      /\ (test = 3 => u = "A" /\ Pos \in {6, 10} /\ (Pos = 6 => b = 17))
  <2>1. /\ Pos - 1 \in DOMAIN Script(test) /\ Script(test)[Pos - 1].op = "wait"
        /\ Pos - 2 \in DOMAIN Script(test) /\ Script(test)[Pos - 2].op = "send"
    BY <1>2 DEF Neighbours, OpAt
  <2>2. Neighbours(test, Pos - 1) /\ Neighbours(test, Pos - 2)
    BY <1>2, <2>1, ScriptShape
  <2> QED BY <1>3, <1>4, <1>7, <2>1, <2>2 DEF Neighbours
<1>10. rbuf'[u] = 0 /\ rbuf'[Peer(u)] = (IF Overruns(test, Cur) THEN 17 ELSE b) /\ rbuf' = rbuf
  BY <1>1, <1>5, <1>9 DEF Carried, Calm, device, Peer, Usarts
<1>11. OpAt(test, Cur)' = OpAt(test, Pos + 1) /\ OpAt(test, Pos + 1) \in {"read", "base", "drain", "end"}
  BY <1>2, <1>7 DEF Neighbours
<1>12. CASE OpAt(test, Pos + 1) = "read"
  <2>1. test \in {1, 2, 4}
    BY <1>2, <1>12 DEF Neighbours
  <2>2. ~Overruns(test, Cur)
    BY <2>1 DEF Overruns
  <2>3. Carried(u, b, FALSE)'
    BY <1>8, <1>9, <1>10, <2>2 DEF Carried, Calm, Peer, Usarts
  <2>4. Cur' - 3 = Pos - 2
    BY <1>7
  <2> QED BY <1>3, <1>4, <1>6, <1>7, <1>8, <1>11, <1>12, <2>3, <2>4 DEF StageInv
<1>13. CASE OpAt(test, Pos + 1) = "base"
  <2>1. test = 3 /\ Pos = 6
    BY <1>2, <1>13 DEF Neighbours
  <2>2. rbuf'["A"] = 0 /\ rbuf'["B"] = 17
    BY <1>2, <1>9, <1>10, <2>1 DEF Overruns, Peer
  <2>3. KeptInv(test, Cur)'
    BY <1>1, <1>7, <1>10, <2>1, <2>2 DEF KeptInv, Overruns, TypeInv, Usarts
  <2> QED BY <1>6, <1>7, <1>8, <1>11, <1>13, <2>3 DEF StageInv
<1>14. CASE OpAt(test, Pos + 1) = "drain"
  <2>1. test = 3 /\ Pos = 10
    BY <1>2, <1>14 DEF Neighbours
  <2>2. Carried("A", 34, TRUE)'
    BY <1>2, <1>8, <1>9, <1>10, <2>1 DEF Carried, Calm, Overruns, Peer, Usarts
  <2> QED BY <1>6, <1>7, <1>8, <1>11, <1>14, <2>2 DEF StageInv
<1>15. CASE OpAt(test, Pos + 1) = "end"
  <2>1. test = 5
    BY <1>2, <1>9, <1>15 DEF Neighbours
  <2> QED BY <1>6, <1>7, <1>8, <1>11, <1>15, <2>1 DEF StageInv
<1> QED BY <1>11, <1>12, <1>13, <1>14, <1>15

\* The byte read is the one that was sent.
LEMMA ReadByteStage ==
    ASSUME IInv, ReadByte PROVE StageInv' /\ Continue
<1>1. /\ TypeInv /\ ProgramInv /\ todo # <<>> /\ Head(todo).op \in {"read", "drain"}
      /\ ~Sending /\ ~Sending'
      /\ UNCHANGED <<status, sending, arriving, update, gic, test, base, waits, log>>
  BY DEF IInv, ReadByte, At, Runs, Sending
<1>2. /\ test \in 1..5 /\ Pos \in DOMAIN Script(test) /\ Neighbours(test, Pos)
      /\ Head(todo) = Script(test)[Pos] /\ OpAt(test, Cur) = Head(todo).op /\ Cur = Pos
  BY <1>1, AtPos
<1>3. Calm /\ g_log_count <= 3 * SentSoFar
  BY <1>1, <1>2 DEF IInv, StageInv
<1>4. CASE Head(todo).op = "read"
  <2>1. PICK u : u = Script(test)[Pos - 3].usart
    OBVIOUS
  <2>2. PICK b : b = Script(test)[Pos - 3].byte
    OBVIOUS
  <2>3. Carried(u, b, FALSE)
    BY <1>2, <1>4, <2>1, <2>2 DEF IInv, StageInv
  <2>4. /\ Head(todo).usart = Peer(u) /\ Head(todo).byte = b
        /\ OpAt(test, Pos + 1) \in {"base", "end"} /\ test \in {1, 2, 4}
    BY <1>2, <1>4, <2>1, <2>2 DEF Neighbours
  <2>5. Peer(u) \in Usarts
    BY DEF Peer, Usarts
  <2>6. rbuf[Peer(u)] = b /\ rbuf[u] = 0
    BY <1>3, <2>3, <2>5 DEF Carried, Calm
  <2>7. Continue
    BY <2>4, <2>6 DEF ReadByte, Advance
  <2>8. Cur' = Pos + 1 /\ Pos \in Nat /\ SentSoFar' = SentSoFar /\ test' = test
    BY <1>1, <1>4, <2>7, Advances
  <2>9. rbuf' = [w \in Usarts |-> 0]
    <3>1. rbuf' = [rbuf EXCEPT ![Peer(u)] = 0]
      BY <2>4 DEF ReadByte
    <3>2. u \in Usarts => Usarts = {u, Peer(u)}
      BY DEF Peer, Usarts
    <3>3. u \in Usarts
      <4>1. /\ Pos - 1 \in DOMAIN Script(test) /\ Script(test)[Pos - 1].op = "find"
        BY <1>2, <1>4 DEF Neighbours, OpAt
      <4>2. /\ Pos - 3 \in DOMAIN Script(test) /\ Script(test)[Pos - 3].op = "send"
        <5>1. Neighbours(test, Pos - 1)
          BY <1>2, <4>1, ScriptShape
        <5>2. OpAt(test, (Pos - 1) - 2) = "send"
          BY <4>1, <5>1 DEF Neighbours
        <5>3. (Pos - 1) - 2 = Pos - 3
          BY <2>8
        <5> QED BY <5>2, <5>3 DEF OpAt
      <4>3. Neighbours(test, Pos - 3)
        BY <1>2, <4>2, ScriptShape
      <4> QED BY <2>1, <4>2, <4>3 DEF Neighbours
    <3> QED BY <1>1, <2>6, <3>1, <3>2, <3>3 DEF TypeInv
  <2>10. KeptInv(test, Cur)' /\ KeptInv(0, 0)'
    BY <2>4, <2>8, <2>9 DEF KeptInv, Overruns
  <2>11. OpAt(test, Cur)' \in {"base", "end"}
    BY <2>4, <2>8
  <2>12. Calm' /\ g_log_count' <= 3 * SentSoFar'
    BY <1>1, <1>3, <2>8 DEF Calm, log
  <2> QED BY <2>7, <2>10, <2>11, <2>12 DEF StageInv
<1>5. CASE Head(todo).op = "drain"
  <2>1. Carried("A", 34, TRUE) /\ Head(todo).usart = "B" /\ OpAt(test, Pos + 1) = "end"
    BY <1>2, <1>5 DEF IInv, StageInv, Neighbours
  <2>2. Continue
    BY <1>5 DEF ReadByte, Advance
  <2>3. Cur' = Pos + 1 /\ SentSoFar' = SentSoFar /\ test' = test
    BY <1>1, <1>5, <2>2, Advances
  <2>4. rbuf' = [w \in Usarts |-> 0]
    BY <1>1, <2>1 DEF ReadByte, Carried, TypeInv, Usarts
  <2>5. KeptInv(0, 0)' /\ OpAt(test, Cur)' = "end"
    BY <2>1, <2>3, <2>4 DEF KeptInv, Overruns
  <2>6. Calm' /\ g_log_count' <= 3 * SentSoFar'
    BY <1>1, <1>3, <2>3 DEF Calm, log
  <2> QED BY <2>2, <2>5, <2>6 DEF StageInv
<1> QED BY <1>1, <1>4, <1>5

\* The smallest of the tests in the mask
LEMMA FirstTest ==
    ASSUME NEW S \in SUBSET (1..5), S # {}
    PROVE  LET m == CHOOSE n \in S : \A k \in S : n <= k
           IN  m \in S /\ \A k \in S : m <= k
<1>1. \E n \in S : \A k \in S : n <= k
  <2>1. CASE 1 \in S
    BY <2>1
  <2>2. CASE 1 \notin S /\ 2 \in S
    BY <2>2
  <2>3. CASE 1 \notin S /\ 2 \notin S /\ 3 \in S
    BY <2>3
  <2>4. CASE 1 \notin S /\ 2 \notin S /\ 3 \notin S /\ 4 \in S
    BY <2>4
  <2>5. CASE 1 \notin S /\ 2 \notin S /\ 3 \notin S /\ 4 \notin S
    <3>1. \A k \in S : k = 5
      BY <2>5
    <3>2. PICK n \in S : TRUE
      OBVIOUS
    <3>3. \A k \in S : n <= k
      BY <3>1, <3>2
    <3> QED BY <3>3
  <2> QED BY <2>1, <2>2, <2>3, <2>4, <2>5
<1> QED BY <1>1

LEMMA NextTestFacts ==
    ASSUME IInv, NextTest
    PROVE  /\ OpAt(test, Cur) = "end" /\ test' \in 1..5 /\ test < test'
           /\ \A k \in mask' : test' < k
           /\ todo' = Script(test') /\ Pos' = 1 /\ Cur' = 1 /\ OpAt(test, Cur)' = "clear"
<1>1. TypeInv /\ ProgramInv /\ todo = <<>> /\ mask \in SUBSET (1..5) /\ mask # {}
  BY DEF IInv, NextTest, TypeInv
<1>2. test' \in mask /\ \A k \in mask : test' <= k
  BY <1>1, FirstTest DEF NextTest
<1>3. test' \in 1..5 /\ test < test' /\ mask' = mask \ {test'}
  BY <1>1, <1>2 DEF NextTest, ProgramInv
<1>4. todo' = Script(test')
  <2>1. todo' = Tests[test']
    BY DEF NextTest
  <2>2. test' # 0
    BY <1>3
  <2> QED BY <2>1, <2>2 DEF Script
<1>5. PICK n \in 1..5 : n = test'
  BY <1>3
<1>6. Script(n) \in Seq(Instructions)
  BY ScriptType
<1>7. Pos' = 1
  <2>1. Pos' = Len(Script(n)) - Len(Script(n)) + 1
    BY <1>4, <1>5 DEF Pos
  <2> QED BY <1>6, <2>1
<1>8. 1 \in DOMAIN Script(n)
  BY Script1, Script2, Script3, Script4, Script5
<1>9. OpAt(n, 1) = "clear"
  BY <1>8, ScriptShape DEF Neighbours, OpAt
<1>10. \A k \in mask' : test' < k
  BY <1>1, <1>2, <1>3
<1>11. Cur = Pos /\ Cur' = Pos'
  BY DEF NextTest, Runs, Cur, Sending
<1> QED BY <1>1, <1>3, <1>4, <1>5, <1>7, <1>9, <1>10, <1>11, Arrived

LEMMA NextTestStage ==
    ASSUME IInv, NextTest PROVE StageInv'
<1>1. /\ OpAt(test, Cur) = "end" /\ test' \in 1..5 /\ test < test' /\ Cur' = 1
      /\ OpAt(test, Cur)' = "clear" /\ TypeInv /\ ProgramInv
  BY NextTestFacts DEF IInv
<1>2. Calm /\ KeptInv(0, 0) /\ g_log_count <= 3 * SentSoFar
  BY <1>1 DEF IInv, StageInv, TypeInv
<1>3. UNCHANGED <<device, g_log_count>>
  BY DEF NextTest, log
<1>4. Calm' /\ KeptInv(test, Cur)'
  BY <1>1, <1>2, <1>3 DEF Calm, KeptInv, Overruns, device
<1>5. SentSoFar' = SentBefore(test')
  <2>1. \A n \in 1..5 : SentBy(n, 1) = 0 /\ SentBefore(n) \in Nat
    BY DEF SentBy, SentBefore
  <2> QED BY <1>1, <2>1 DEF SentSoFar
<1>6. SentSoFar \in Nat /\ SentSoFar' \in Nat /\ SentSoFar <= SentSoFar'
  BY <1>1, <1>5, SentType, SentMost DEF SentBefore
<1>7. g_log_count' <= 3 * SentSoFar'
  <2>1. g_log_count \in Nat /\ g_log_count' = g_log_count
    BY <1>1, <1>3 DEF TypeInv
  <2>2. PICK k \in Nat, m \in Nat : k = SentSoFar /\ m = SentSoFar'
    BY <1>6
  <2>3. k <= m /\ g_log_count <= 3 * k
    BY <1>2, <1>6, <2>2
  <2>4. g_log_count <= 3 * m
    BY <2>1, <2>3
  <2> QED BY <2>1, <2>2, <2>4
<1> QED BY <1>1, <1>4, <1>7 DEF StageInv

-----------------------------------------------------------------------------
(* The other parts of the invariant *)

\* What a bus access of the program writes to
LEMMA AccessFacts ==
    ASSUME TypeInv, ProgramInv, OpAt(test, Pos) \in {"clear", "send"}
    PROVE  /\ todo # <<>> /\ Head(todo).usart \in Usarts
           /\ OpAt(test, Pos) = "send" => Head(todo).byte \in Nat
<1>1. todo # <<>>
  BY Arrived
<1>2. Neighbours(test, Pos) /\ Head(todo) = Script(test)[Pos] /\ OpAt(test, Pos) = Head(todo).op
  BY <1>1, UnderWay
<1> QED BY <1>1, <1>2 DEF Neighbours

\* The same, when its next instruction is one
LEMMA AtAccess ==
    ASSUME IInv, At("clear") \/ At("send")
    PROVE  /\ OpAt(test, Pos) = Head(todo).op /\ Head(todo).usart \in Usarts
           /\ At("send") => Head(todo).byte \in Nat
  BY UnderWay, AccessFacts DEF IInv, At

LEMMA ReportType ==
    ASSUME TypeInv, NEW u \in Usarts, NEW b \in Bits PROVE Update(u, b) \in Reports
  BY DEF TypeInv, Update, Reports

LEMMA SchedulerType ==
    ASSUME TypeInv, Scheduler, ~raced' PROVE TypeInv'
<1> USE DEF TypeInv
<1>1. ASSUME NEW u \in Usarts, TirLoad(u) PROVE TypeInv'
  <2>1. \E r \in Reports : update' = {r}
    BY <1>1, ReportType DEF TirLoad, Bits
  <2> QED BY <1>1, <2>1 DEF TirLoad, program, log, handler
<1>2. ASSUME NEW u \in Usarts, RxLoad(u) PROVE TypeInv'
  <2>1. \E r \in Reports : update' = {r}
    BY <1>2, ReportType DEF RxLoad, Bits
  <2>2. rbuf' \in [Usarts -> Nat] /\ arriving' \in [Usarts -> Nat]
    BY <1>2 DEF RxLoad
  <2> QED BY <1>2, <2>1, <2>2 DEF RxLoad, program, log, handler
<1>3. CASE StoreBit
  <2>1. PICK r \in Reports :
          /\ update' = {[r EXCEPT !.stored = TRUE]}
          /\ status' = [status EXCEPT ![r.usart] = status[r.usart] \cup {r.bit}]
          /\ UNCHANGED <<rbuf, sending, arriving, notified, gic, ld, program, log, handler>>
    BY <1>3, StoreBitFacts
  <2>2. [r EXCEPT !.stored = TRUE] \in Reports
    BY DEF Reports
  <2>3. status' \in [Usarts -> SUBSET Bits]
    BY <2>1 DEF Reports
  <2> QED BY <2>1, <2>2, <2>3 DEF program, log, handler
<1>4. CASE EndUpdate
  <2>1. PICK r \in update : update' = {} /\ notified' = notified \cup {r.usart}
    BY <1>4 DEF EndUpdate
  <2>2. r.usart \in Usarts
    BY <2>1 DEF Reports
  <2> QED BY <1>4, <2>1, <2>2 DEF EndUpdate, program, log, handler
<1>5. ASSUME NEW u \in Usarts, IrqEdge(u) PROVE TypeInv'
  BY <1>5 DEF IrqEdge, program, log, handler
<1> QED BY <1>1, <1>2, <1>3, <1>4, <1>5 DEF Scheduler

LEMMA HandlerType ==
    ASSUME IInv, Handler, ~raced' PROVE TypeInv'
<1> USE DEF TypeInv
<1>0. TypeInv
  BY DEF IInv
<1>1. ASSUME NEW u \in Usarts, TakeIrq(u) PROVE TypeInv'
  BY <1>0, <1>1 DEF TakeIrq, device, log
<1>2. CASE IsrRead
  BY <1>0, <1>2 DEF IsrRead, device, program, log
<1>3. CASE IsrLoad
  BY <1>0, <1>3 DEF IsrLoad, device, program, log
<1>4. CASE IsrStore
  <2>1. Cardinality(Logged(isr_status)) \in Nat
    <3>1. isr_status \in SUBSET Bits
      BY <1>0 DEF IInv, HandlerInv
    <3>2. Logged(isr_status) \in SUBSET Bits
      BY <3>1 DEF Logged, FirstOf
    <3>3. IsFiniteSet(Bits)
      <4>1. /\ IsFiniteSet({}) /\ IsFiniteSet({"EIR"}) /\ IsFiniteSet({"RIR", "EIR"})
            /\ IsFiniteSet({"TIR", "RIR", "EIR"})
        <5>1. IsFiniteSet({"EIR"})
          BY FS_Singleton
        <5>2. IsFiniteSet({"EIR"} \cup {"RIR"})
          BY <5>1, FS_AddElement
        <5>3. IsFiniteSet(({"EIR"} \cup {"RIR"}) \cup {"TIR"})
          BY <5>2, FS_AddElement
        <5>4. /\ {"EIR"} \cup {"RIR"} = {"RIR", "EIR"}
              /\ ({"EIR"} \cup {"RIR"}) \cup {"TIR"} = {"TIR", "RIR", "EIR"}
          OBVIOUS
        <5> QED BY <5>1, <5>2, <5>3, <5>4, FS_EmptySet
      <4>2. IsFiniteSet({"TIR", "RIR", "EIR"} \cup {"TBIR"})
        BY <4>1, FS_AddElement
      <4>3. {"TIR", "RIR", "EIR"} \cup {"TBIR"} = Bits
        BY DEF Bits
      <4> QED BY <4>2, <4>3
    <3> QED BY <3>2, <3>3, FS_Subset, FS_CardinalityType
  <2>2. status' \in [Usarts -> SUBSET Bits]
    <3>1. ld \ isr_status \in SUBSET Bits
      BY <1>0
    <3> QED BY <1>0, <1>4, <3>1 DEF IsrStore
  <2>3. g_log_count' \in Nat
    BY <1>0, <1>4, <2>1 DEF IsrStore
  <2> QED BY <1>0, <1>4, <2>2, <2>3 DEF IsrStore, program
<1> QED BY <1>1, <1>2, <1>3, <1>4 DEF Handler

LEMMA ProgramType ==
    ASSUME IInv, Program PROVE TypeInv'
<1> USE DEF TypeInv
<1>0. TypeInv /\ ProgramInv
  BY DEF IInv
<1>1. CASE NextTest
  <2>1. test' \in 1..5 /\ mask' \subseteq mask
    BY <1>1, NextTestFacts DEF NextTest
  <2>2. UNCHANGED <<device, gic, ld, main, base, waits, log, handler>>
    BY <1>1 DEF NextTest
  <2> QED BY <1>0, <2>1, <2>2 DEF device, log, handler
<1>2. CASE ClearLoad
  <2>1. ld' \subseteq Bits
    BY <1>0, <1>2, AtAccess DEF ClearLoad
  <2> QED BY <1>0, <1>2, <2>1 DEF ClearLoad, device, log, handler
<1>3. CASE ClearStore
  <2>1. status' \in [Usarts -> SUBSET Bits]
    BY <1>0, <1>3 DEF ClearStore
  <2> QED BY <1>0, <1>3, <2>1 DEF ClearStore, log, handler
<1>4. CASE SetBase
  BY <1>0, <1>4 DEF SetBase, device, handler
<1>5. CASE SendByte
  <2>1. PICK u \in Usarts, b \in Nat : u = Head(todo).usart /\ b = Head(todo).byte
    BY <1>5, AtAccess DEF SendByte
  <2>2. sending' = sending \cup {u} /\ arriving' = [arriving EXCEPT ![Peer(u)] = b]
    BY <1>5, <2>1 DEF SendByte
  <2>3. sending' \subseteq Usarts /\ arriving' \in [Usarts -> Nat]
    BY <1>0, <2>2
  <2> QED BY <1>0, <1>5, <2>3 DEF SendByte, log, handler
<1>6. CASE TbirLoad
  <2>1. ld' \subseteq Bits
    BY <1>0, <1>6, AccessFacts DEF TbirLoad, ProgramInv, Sending
  <2> QED BY <1>0, <1>6, <2>1 DEF TbirLoad, device, log, handler
<1>7. CASE TbirStore
  <2>1. PICK u \in Usarts : u = Head(todo).usart
    BY <1>0, <1>7, AccessFacts DEF TbirStore, ProgramInv, Sending
  <2>2. status' \in [Usarts -> SUBSET Bits] /\ notified' \subseteq Usarts
    BY <1>0, <1>7, <2>1 DEF TbirStore, Bits
  <2> QED BY <1>0, <1>7, <2>2 DEF TbirStore, log, handler
<1>8. CASE Exit \/ SendReturns \/ WaitCheck \/ Wfi
  BY <1>0, <1>8 DEF Exit, SendReturns, WaitCheck, Wfi, device, log, handler
<1>9. CASE FindEvents
  BY <1>0, <1>9 DEF FindEvents, device, log, handler
<1>10. CASE ReadByte
  <2>1. rbuf' \in [Usarts -> Nat]
    BY <1>0, <1>10 DEF ReadByte
  <2> QED BY <1>0, <1>10, <2>1 DEF ReadByte, log, handler
<1> QED BY <1>1, <1>2, <1>3, <1>4, <1>5, <1>6, <1>7, <1>8, <1>9, <1>10 DEF Program

LEMMA TypeStep ==
    ASSUME IInv, [Next]_vars, ~raced' PROVE TypeInv'
<1>1. CASE UNCHANGED vars
  BY <1>1 DEF vars, device, program, log, handler, IInv, TypeInv
<1> QED BY <1>1, SchedulerType, HandlerType, ProgramType DEF Next, IInv

\* A step within a script keeps the program's place or moves it on by one.
LEMMA PlaceStays ==
    ASSUME IInv, UNCHANGED <<test, mask, todo, failed>>,
           main' \in {"send", "wfi", "asleep"} => OpAt(test, Pos) = "wait",
           Sending' => OpAt(test, Pos) = "send",
           main' = "clearing" => OpAt(test, Pos) = "clear"
    PROVE  ProgramInv'
<1>1. Pos' = Pos
  BY DEF Pos
<1> QED BY <1>1 DEF IInv, ProgramInv

LEMMA PlaceMoves ==
    ASSUME IInv, todo # <<>>, Continue, UNCHANGED <<test, mask>>,
           \/ main' = "run"
           \/ main' = "send" /\ OpAt(test, Pos) = "send"
    PROVE  ProgramInv'
<1>1. TypeInv /\ ProgramInv
  BY DEF IInv
<1>2. /\ Pos' = Pos + 1 /\ Pos' \in 1..Len(Script(test)) + 1
      /\ todo' = SubSeq(Script(test'), Pos', Len(Script(test')))
  BY <1>1, MovesOn DEF Continue
<1>3. Neighbours(test, Pos) /\ OpAt(test, Pos) = Script(test)[Pos].op
  BY <1>1, UnderWay
<1>4. OpAt(test, Pos) = "send" => OpAt(test, Pos + 1) = "wait"
  BY <1>3 DEF Neighbours
<1>5. ~Sending' /\ main' # "clearing"
  BY DEF Sending
<1> QED BY <1>1, <1>2, <1>4, <1>5 DEF ProgramInv, Continue

LEMMA ProgramStep ==
    ASSUME IInv, WaitLimit >= 9, [Next]_vars PROVE ProgramInv'
<1>0. /\ main \in {"send", "wfi", "asleep"} => OpAt(test, Pos) = "wait"
      /\ Sending => OpAt(test, Pos) = "send"
      /\ main = "clearing" => OpAt(test, Pos) = "clear"
      /\ TypeInv /\ ProgramInv
  BY DEF IInv, ProgramInv
<1>1. ASSUME UNCHANGED program PROVE ProgramInv'
  BY <1>0, <1>1, PlaceStays DEF program, Sending
<1>2. CASE Scheduler \/ IsrRead \/ IsrLoad \/ IsrStore \/ UNCHANGED vars
  BY <1>1, <1>2
     DEF Scheduler, TirLoad, RxLoad, StoreBit, EndUpdate, IrqEdge, IsrRead, IsrLoad, IsrStore, vars
<1>3. ASSUME NEW u \in Usarts, TakeIrq(u) PROVE ProgramInv'
  BY <1>0, <1>3, PlaceStays DEF TakeIrq, Sending
<1>4. CASE Exit \/ SendReturns \/ Wfi
  BY <1>0, <1>4, PlaceStays DEF Exit, SendReturns, Wfi, Sending
<1>5. CASE NextTest
  <2>1. /\ test' \in 1..5 /\ \A k \in mask' : test' < k
        /\ todo' = Script(test') /\ Pos' = 1
    BY <1>5, NextTestFacts
  <2>2. PICK n \in 1..5 : n = test'
    BY <2>1
  <2>3. Script(n) \in Seq(Instructions)
    BY ScriptType
  <2>4. SubSeq(Script(n), 1, Len(Script(n))) = Script(n) /\ 1 \in 1..Len(Script(n)) + 1
    BY <2>3, SubSeqFull
  <2>5. main' = "run" /\ failed' = {} /\ ~Sending'
    BY <1>5 DEF NextTest, Runs, IInv, ProgramInv, Sending
  <2> QED BY <2>1, <2>2, <2>4, <2>5 DEF ProgramInv
<1>6. CASE ClearLoad \/ SendByte
  <2>1. OpAt(test, Pos) = Head(todo).op
    BY <1>6, AtAccess DEF ClearLoad, SendByte
  <2>2. CASE ClearLoad
    BY <2>1, <2>2, PlaceStays DEF ClearLoad, At, Sending
  <2>3. CASE SendByte
    BY <2>1, <2>3, PlaceStays DEF SendByte, At, Sending
  <2> QED BY <1>6, <2>2, <2>3
<1>7. CASE TbirLoad
  BY <1>0, <1>7, PlaceStays DEF TbirLoad, Sending
<1>8. CASE ClearStore \/ TbirStore
  <2>1. todo # <<>>
    BY <1>0, <1>8, AccessFacts DEF ClearStore, TbirStore, Sending
  <2> QED BY <1>0, <1>8, <2>1, PlaceMoves DEF ClearStore, TbirStore, Sending
<1>9. CASE SetBase
  BY <1>9, PlaceMoves DEF SetBase, At, Runs
<1>10. CASE FindEvents
  <2>1. Continue
    BY <1>10, FindEventsStage
  <2> QED BY <1>10, <2>1, PlaceMoves DEF FindEvents, At, Runs
<1>11. CASE ReadByte
  <2>1. Continue
    BY <1>11, ReadByteStage
  <2> QED BY <1>11, <2>1, PlaceMoves DEF ReadByte, At, Runs
<1>12. CASE WaitCheck
  <2>1. Runs /\ todo # <<>> /\ Head(todo).op = "wait" /\ UNCHANGED <<test, mask>>
    BY <1>12 DEF WaitCheck, At
  <2>2. OpAt(test, Pos) = "wait"
    BY <1>0, <2>1, UnderWay
  <2>3. UNCHANGED failed /\ failed = {}
    BY <1>0, <1>12, WaitCheckStage DEF ProgramInv
  <2>4. \/ UNCHANGED todo /\ main' = "wfi"
        \/ (Continue \/ FailTest) /\ main' = "run"
    BY <1>12, <2>1 DEF WaitCheck, Advance, Runs
  <2>5. ~FailTest
    BY <2>3 DEF FailTest
  <2>6. CASE UNCHANGED todo /\ main' = "wfi"
    BY <2>1, <2>2, <2>3, <2>6, PlaceStays DEF Sending
  <2>7. CASE Continue /\ main' = "run"
    BY <2>1, <2>7, PlaceMoves
  <2> QED BY <2>4, <2>5, <2>6, <2>7
<1> QED BY <1>2, <1>3, <1>4, <1>5, <1>6, <1>7, <1>8, <1>9, <1>10, <1>11, <1>12
        DEF Next, Handler, Program

LEMMA HandlerStep ==
    ASSUME IInv, [Next]_vars, ~raced' PROVE HandlerInv'
<1> USE DEF HandlerInv
<1>0. TypeInv /\ HandlerInv /\ ProgramInv
  BY DEF IInv
<1>1. ASSUME NEW u \in Usarts, TirLoad(u) \/ RxLoad(u) PROVE HandlerInv'
  <2>1. update = {} /\ UNCHANGED <<status, gic, notified, handler, main>>
    BY <1>1 DEF TirLoad, RxLoad, program
  <2> QED BY <1>0, <2>1 DEF Announced, handler
<1>2. CASE StoreBit
  <2>1. PICK r \in Reports :
          /\ update = {r} /\ ~r.stored /\ update' = {[r EXCEPT !.stored = TRUE]}
          /\ status' = [status EXCEPT ![r.usart] = status[r.usart] \cup {r.bit}]
          /\ UNCHANGED <<notified, gic, program, handler>>
    BY <1>0, <1>2, StoreBitFacts
  <2>2. PICK q \in Reports : update' = {q} /\ q.stored /\ q.usart = r.usart /\ q.usart \in Usarts
    <3>1. PICK q : q = [r EXCEPT !.stored = TRUE]
      OBVIOUS
    <3>2. q \in Reports /\ q.stored /\ q.usart = r.usart /\ q.usart \in Usarts
      BY <3>1 DEF Reports
    <3> QED BY <2>1, <3>1, <3>2
  <2>3. /\ status'[r.usart] = status[r.usart] \cup {r.bit}
        /\ \A u \in Usarts : u # r.usart => status'[u] = status[u]
    BY <1>0, <2>1, <2>2 DEF TypeInv
  <2>4. \A u \in Usarts : Announced(u) => Announced(u)'
    BY <2>1 DEF Announced
  <2>5. Announced(r.usart)'
    BY <2>2 DEF Announced
  <2>6. UNCHANGED <<isr, isr_usart, isr_status, main>> /\ isr_usart \in Usarts
    BY <1>0, <2>1 DEF handler, program, TypeInv
  <2>7. isr_status' \subseteq status'[isr_usart']
    BY <1>0, <2>3, <2>6
  <2>8. \A u \in Usarts : \A b \in status'[u] :
          Announced(u)' \/ (isr_usart' = u /\ (isr' = "read" \/ b \in isr_status'))
    BY <1>0, <2>3, <2>4, <2>5, <2>6
  <2> QED BY <1>0, <2>6, <2>7, <2>8
<1>3. CASE EndUpdate
  <2>1. PICK r \in update : /\ r.stored /\ update' = {} /\ notified' = notified \cup {r.usart}
                            /\ UNCHANGED <<status, gic, program, handler>>
    BY <1>3 DEF EndUpdate
  <2>2. \A u \in Usarts : Announced(u) => Announced(u)'
    BY <1>0, <2>1 DEF Announced, TypeInv
  <2> QED BY <1>0, <2>1, <2>2 DEF handler, program
<1>4. ASSUME NEW v \in Usarts, IrqEdge(v) PROVE HandlerInv'
  <2>1. \A u \in Usarts : Announced(u) => Announced(u)'
    BY <1>4 DEF IrqEdge, Announced
  <2> QED BY <1>0, <1>4, <2>1 DEF IrqEdge, handler, program
<1>5. ASSUME NEW v \in Usarts, TakeIrq(v) PROVE HandlerInv'
  <2>1. /\ UNCHANGED <<status, notified, update, isr_status>> /\ isr = "none" /\ isr_status = {}
        /\ gic' = gic \ {v} /\ isr' = "read" /\ isr_usart' = v
        /\ main' \in {"run", "wfi", "done"}
    BY <1>0, <1>5 DEF TakeIrq, device, InAccess, TypeInv
  <2>2. \A u \in Usarts : u # v /\ Announced(u) => Announced(u)'
    BY <2>1 DEF Announced
  <2> QED BY <1>0, <2>1, <2>2
<1>6. CASE IsrRead \/ IsrLoad
  <2>1. /\ UNCHANGED <<status, gic, notified, update, main, isr_usart>>
        /\ isr \in {"read", "clear"} /\ isr' \in {"clear", "store"}
        /\ isr_status' = IF isr = "read" THEN status[isr_usart] ELSE isr_status
    BY <1>0, <1>6 DEF IsrRead, IsrLoad, device, program
  <2>2. \A u \in Usarts : Announced(u) => Announced(u)'
    BY <2>1 DEF Announced
  <2> QED BY <1>0, <2>1, <2>2
<1>7. CASE IsrStore
  <2>1. /\ UNCHANGED <<gic, notified, update, main, isr_usart>>
        /\ isr = "store" /\ isr' = "none" /\ isr_status' = {}
        /\ status' = [status EXCEPT ![isr_usart] = status[isr_usart] \ isr_status]
    BY <1>7 DEF IsrStore, program
  <2>2. \A u \in Usarts : Announced(u) => Announced(u)'
    BY <2>1 DEF Announced
  <2> QED BY <1>0, <2>1, <2>2 DEF TypeInv
<1>8. CASE ClearStore
  <2>1. PICK v \in Usarts : v = Head(todo).usart
    BY <1>0, <1>8, AccessFacts DEF ClearStore, ProgramInv
  <2>2. /\ UNCHANGED <<gic, notified, update, handler>> /\ isr = "none" /\ isr_status = {}
        /\ status' = [status EXCEPT ![v] = {}]
    BY <1>0, <1>8, <2>1 DEF ClearStore
  <2>3. \A u \in Usarts : Announced(u) => Announced(u)'
    BY <2>2 DEF Announced
  <2> QED BY <1>0, <2>2, <2>3 DEF handler, TypeInv
<1>9. CASE TbirStore
  <2>1. PICK v \in Usarts : v = Head(todo).usart
    BY <1>0, <1>9, AccessFacts DEF TbirStore, ProgramInv, Sending
  <2>2. /\ UNCHANGED <<gic, update, handler>> /\ isr = "none" /\ isr_status = {}
        /\ status' = [status EXCEPT ![v] = status[v] \cup {"TBIR"}]
        /\ notified' = notified \cup {v}
    BY <1>0, <1>9, <2>1 DEF TbirStore
  <2>3. \A u \in Usarts : Announced(u) \/ u = v => Announced(u)'
    BY <2>2 DEF Announced
  <2> QED BY <1>0, <2>2, <2>3 DEF handler, TypeInv
<1>10. ASSUME UNCHANGED <<status, gic, notified, update, handler>>, isr = "none" \/ UNCHANGED main
       PROVE  HandlerInv'
  BY <1>0, <1>10 DEF handler, Announced
<1>11. CASE NextTest \/ Exit \/ SetBase \/ SendByte \/ ClearLoad \/ WaitCheck \/ Wfi
  BY <1>10, <1>11
     DEF NextTest, Exit, SetBase, SendByte, ClearLoad, WaitCheck, Wfi, At, Runs, device
<1>12. CASE SendReturns \/ TbirLoad
  <2>1. isr = "none"
    BY <1>0, <1>12 DEF SendReturns, TbirLoad
  <2> QED BY <1>10, <1>12, <2>1 DEF SendReturns, TbirLoad, device
<1>13. CASE FindEvents \/ ReadByte
  BY <1>10, <1>13 DEF FindEvents, ReadByte, At, Runs, device
<1>14. CASE UNCHANGED vars
  BY <1>10, <1>14 DEF vars, device, program
<1> QED BY <1>1, <1>2, <1>3, <1>4, <1>5, <1>6, <1>7, <1>8, <1>9, <1>11, <1>12, <1>13, <1>14
        DEF Next, Scheduler, Handler, Program

LEMMA StageStep ==
    ASSUME IInv, LogSize >= 27, WaitLimit >= 9, [Next]_vars, ~raced' PROVE StageInv'
<1>1. CASE UNCHANGED vars \/ IsrRead \/ IsrLoad
  BY <1>1, LocalStage DEF vars, program, log, Sending, IsrRead, IsrLoad
<1>2. CASE ClearLoad \/ SendReturns \/ Exit
  BY <1>2, LocalStage DEF ClearLoad, SendReturns, Exit, At, Runs, Sending
<1>3. CASE TbirLoad
  BY <1>3, LocalStage DEF TbirLoad, Sending
<1>4. CASE Wfi
  BY <1>4, LocalStage DEF Wfi, Sending
<1> QED BY <1>1, <1>2, <1>3, <1>4, TirLoadStage, RxLoadStage, StoreBitStage, EndUpdateStage,
        IrqEdgeStage, TakeIrqStage, IsrStoreStage, NextTestStage, ClearStoreStage, SetBaseStage,
        SendByteStage, TbirStoreStage, WaitCheckStage, FindEventsStage, ReadByteStage
        DEF Next, Scheduler, Handler, Program

-----------------------------------------------------------------------------
(* The theorems *)

LEMMA InitIInv == Init => UntilRaced
<1> SUFFICES ASSUME Init PROVE IInv
  BY DEF UntilRaced
<1>1. TypeInv
  <2>1. mask \in SUBSET (1..5)
    BY IsrFirmwareAssumption DEF Init
  <2> QED BY <2>1 DEF Init, TypeInv, Usarts
<1>2. Pos = 1 /\ Cur = 1 /\ Script(test) = <<>> /\ OpAt(test, Pos) = "end" /\ ~Sending
  BY DEF Init, Pos, Cur, Script, OpAt, Sending
<1>3. ProgramInv
  <2>1. \A k \in mask : test < k
    BY IsrFirmwareAssumption DEF Init
  <2> QED BY <1>2, <2>1 DEF Init, ProgramInv
<1>4. HandlerInv
  BY DEF Init, HandlerInv
<1>5. StageInv
  <2>1. g_log_count <= 3 * SentSoFar
    <3>1. SentSoFar = 0 /\ g_log_count = 0
      BY DEF Init, SentSoFar
    <3> QED BY <3>1
  <2>2. Calm /\ KeptInv(0, 0)
    BY DEF Init, Calm, KeptInv, Overruns
  <2> QED BY <1>2, <2>1, <2>2 DEF StageInv
<1> QED BY <1>1, <1>3, <1>4, <1>5 DEF IInv

\* That the threads have met is not forgotten.
LEMMA RacedStays == raced /\ [Next]_vars => raced'
  BY DEF Next, Scheduler, Handler, Program, TirLoad, RxLoad, StoreBit, EndUpdate, IrqEdge,
         TakeIrq, IsrRead, IsrLoad, IsrStore, NextTest, Exit, ClearLoad, ClearStore, SetBase,
         SendByte, TbirLoad, TbirStore, SendReturns, WaitCheck, Wfi, FindEvents, ReadByte, vars

LEMMA Invariance == LogSize >= 27 /\ WaitLimit >= 9 => (Spec => []UntilRaced)
<1> SUFFICES ASSUME LogSize >= 27, WaitLimit >= 9 PROVE Spec => []UntilRaced
  OBVIOUS
<1>1. UntilRaced /\ [Next]_vars => UntilRaced'
  <2> SUFFICES ASSUME UntilRaced, [Next]_vars, ~raced' PROVE IInv'
    BY DEF UntilRaced
  <2>1. IInv
    BY RacedStays DEF UntilRaced
  <2> QED BY <2>1, TypeStep, ProgramStep, HandlerStep, StageStep DEF IInv
<1> QED BY InitIInv, <1>1, PTL DEF Spec

\* Under every TEST_MASK a test of hello_isr.c fails only after the scheduler
\* and the vCPU thread have met in STATUS or in the counts: the suite sends nine
\* bytes, so a log of 27 records holds their events, and a byte's reports and
\* what is left over from the test before wake wait_n() at most eight times.
THEOREM TestsFailOnlyAfterARace ==
    LogSize >= 27 /\ WaitLimit >= 9 => (Spec => []FailuresNeedARace)
<1>1. UntilRaced => FailuresNeedARace
  BY DEF UntilRaced, IInv, ProgramInv, FailuresNeedARace
<1> QED BY <1>1, Invariance, PTL

\* Until the threads meet in STATUS, a vCPU that sleeps in wait_n() for events
\* that are missing has a wake coming: what irq_handler() clears it has read,
\* and a test clears nothing that was to come.
THEOREM SleeperIsOwedUntilARace ==
    LogSize >= 27 /\ WaitLimit >= 9 => (Spec => []SleeperIsOwed)
<1>1. ASSUME UntilRaced PROVE SleeperIsOwed
  <2> SUFFICES ASSUME IInv, main = "asleep", gic = {}, notified = {}, update = {}, sending = {},
                      \A u \in Usarts : arriving[u] = 0
               PROVE  Enough
    BY <1>1 DEF SleeperIsOwed, UntilRaced
  <2>1. OpAt(test, Pos) = "wait" /\ isr = "none" /\ isr_status = {} /\ ~Sending
    BY DEF IInv, TypeInv, ProgramInv, HandlerInv, Sending
  <2>2. OpAt(test, Cur) = "wait"
    BY <2>1 DEF Cur
  <2>3. AtWait /\ WaitUsart \in Usarts
    BY <2>2, CalmOrWait, WaitFacts DEF IInv
  <2>4. \A u \in Usarts : status[u] = {}
    BY <2>1 DEF IInv, TypeInv, HandlerInv, Announced
  <2>5. PICK u \in Usarts : u = WaitUsart
    BY <2>3
  <2>6. Accounted(u, Outcome(test, Cur)) /\ Peer(u) \in Usarts
    BY <2>3, <2>5 DEF AtWait, Peer, Usarts
  <2>7. \A e : ~InStore(e)
    BY DEF InStore, Loaded
  <2> QED BY <2>1, <2>4, <2>6, <2>7 DEF Accounted, One, Enough, IInv, TypeInv
<1> QED BY <1>1, Invariance, PTL
=============================================================================
