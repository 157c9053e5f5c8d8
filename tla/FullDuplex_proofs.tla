-------------------------- MODULE FullDuplex_proofs ---------------------------
(* Theorems about FullDuplex for every driver alphabet that has the program's *)
(* accesses, every bound on the writes and every counter that does not wrap.  *)
EXTENDS FullDuplex, Usart2Link_proofs

-----------------------------------------------------------------------------
(* The program, by position *)

Prog(n) == CASE n = 0 -> SetUp [] n \in 1..5 -> Script[n] [] OTHER -> <<>>
Pos == Len(Prog(test)) - Len(todo_main) + 1

OpAt(n, i) == IF i \in DOMAIN Prog(n) THEN Prog(n)[i].op ELSE "end"

\* Who sends and who receives in test n
From(n) == IF n = 2 THEN "B" ELSE "A"
To(n) == IF n = 2 THEN "A" ELSE "B"

\* The byte on its way, or in RBUF, before position i of test n
ByteOf(n, i) == CASE n = 1 -> 85 [] n = 2 -> 170
                  [] n = 4 -> (IF i < 8 THEN 222 ELSE IF i < 14 THEN 173
                               ELSE IF i < 20 THEN 190 ELSE 239)
                  [] OTHER -> 0

\* The scheduler has nothing to do from the text that the program puts out after
\* a byte to the next one.
Rests(n, i) == CASE n \in {1, 2} -> i \notin {3, 4}
                 [] n = 3 -> i \notin {3, 4, 5, 7, 8, 9}
                 [] n = 4 -> i \in {1, 2, 8, 14, 20, 26}
                 [] n = 5 -> i \notin {4, 5}
                 [] OTHER -> TRUE

\* The bytes that A has been sent before position i of test n
SentByA(n, i) == CASE n = 0 -> 0
                   [] n = 1 -> (IF i <= 2 THEN 0 ELSE 1)
                   [] n = 2 -> 1
                   [] n = 3 -> (IF i <= 2 THEN 1 ELSE IF i <= 6 THEN 2 ELSE 3)
                   [] n = 4 -> 3 + (i + 3) \div 6
                   [] n = 5 -> (IF i <= 3 THEN 7 ELSE 8)
                   [] OTHER -> 8

\* Where test 4 stands with its byte
Stage(n, i) == IF n # 4 THEN "none"
               ELSE IF i = 1 THEN "clear"
               ELSE LET k == (i - 2) % 6 IN
                    CASE k = 0 -> "clear" [] k = 1 -> "flying" [] k = 2 -> "seen"
                      [] k = 3 -> "taken" [] k = 4 -> "clearing" [] OTHER -> "clear"

-----------------------------------------------------------------------------
(* The inductive invariant *)

One(p) == IF p THEN 1 ELSE 0

ProgType ==
    /\ test \in 0..6 /\ ok \in BOOLEAN
    /\ Pos \in 1..Len(Prog(test)) + 1
    /\ todo_main = SubSeq(Prog(test), Pos, Len(Prog(test)))

StartPlaces == {"tbuf", "tbuf_test", "tbuf_load"}
Starting(u) == In("Q", u, StartPlaces)

\* The bus access in progress belongs to the instruction before Pos.
Doing(ins) ==
    /\ at["Q"] = ins.usart
    /\ \/ ins.op = "con" /\ pc["Q"] \in UpdPlaces
       \/ ins.op = "send" /\ pc["Q"] \in UpdPlaces \cup StartPlaces
       \/ ins.op = "clr" /\ pc["Q"] \in {"w1c_load", "w1c_store"} /\ arg = ins.bits
       \/ ins.op \in {"read", "drain"} /\ pc["Q"] \in {"rbuf_full", "rbuf_raw"}

BusInv ==
    /\ pc["Q"] # "idle" => Pos > 1 /\ Doing(Prog(test)[Pos - 1])
    /\ todo["Q"] # <<"TIR">>

RestInv == Rests(test, Pos) => Quiet

\* u's receiver, and u's transmitter, have nothing to do.
RxStill(u) == /\ Chan(u) = <<>>
              /\ at["S"] = u => pc["S"] # "rx_next" /\ ret["S"] # "rx_next"

TxStill(u) == /\ ~tsr_busy[u] /\ ~Starting(u)
              /\ "tir" \notin written[u] \cup level[u] /\ <<"TirAuto", u>> \notin ready
              /\ ~In("S", u, {"txd_test"})
              /\ In("S", u, UpdPlaces) => ret["S"] = "rx_next"

LinkInv == RxStill(From(test)) /\ TxStill(To(test))

ConInv ==
    /\ \A u \in Usarts : \/ CON_INIT \subseteq con[u]
                         \/ test = 0 /\ Pos <= (IF u = "A" THEN 2 ELSE 3)
    /\ pc["S"] = "oe_store" => CON_INIT \subseteq ld["S"]

\* A pulse has its end pending, and a rising TIR runs tir_auto_method() at once.
PulseInv ==
    \A u \in Usarts :
        /\ asserted[u] # {} => <<"IrqDeassert", u>> \in delta \cup ready
        /\ "tir" \in written[u] => "TIR" \in asserted[u]
        /\ <<"TirAuto", u>> \notin delta \cup timed

\* One byte at a time: none is ever held in TBUF behind another.
TxOne ==
    /\ pc["S"] # "txd_load"
    /\ todo["S"] = <<"TIR">> => ret["S"] = "idle"
    /\ \A u \in Usarts :
        /\ tbuf_full[u] <=> In("Q", u, {"tbuf_test", "tbuf_load"})
        /\ TxEv(u) \in timed \cup ready <=> tsr_busy[u]
        /\ TxEv(u) \notin timed \cap ready
        /\ Starting(u) => ~tsr_busy[u] /\ ~In("S", u, {"txd_test"})

\* Every byte sent has had its TIR or will have it.
TirAccount ==
    /\ count["A"]["TBIR"] = SentByA(test, Pos)
    /\ \A u \in Usarts :
          tir_fire_count[u] + One(Starting(u) \/ tsr_busy[u]) = count[u]["TBIR"]

Steps(bit) == IF bit = "RIR" THEN {UpdateOrder, <<"RIR", "EIR">>}
              ELSE {UpdateOrder, <<"RIR", "EIR">>, <<"EIR">>}

\* The scheduler has set the bit and has yet to write down up to where it has counted.
Closing(u, bit) == In("S", u, {"upd_count", "upd_fired"}) /\ Head(todo["S"]) = bit

\* The scheduler is about to report that u took or refused a byte.
Owed(u, bit) ==
    /\ In("S", u, UpdPlaces) /\ todo["S"] \in Steps(bit) /\ ret["S"] = "rx_next"
    /\ ~Closing(u, bit)
    /\ bit \in asserted[u] /\ fired[u][bit] < count[u][bit]

ReportInv ==
    \A u \in Usarts :
        /\ \A bit \in {"RIR", "EIR"} :
              fired[u][bit] = count[u][bit] \/ Owed(u, bit) \/ Closing(u, bit)
        /\ \/ fired[u]["TBIR"] = count[u]["TBIR"]
           \/ Starting(u)
           \/ In("Q", u, UpdPlaces) /\ todo["Q"] = UpdateOrder

\* No event is counted between the load of a count and its store as fired.
LoadInv ==
    \A t \in Threads, b \in Counters :
        pc[t] = "upd_fired" /\ Head(todo[t]) = b => ld_count[t] = count[at[t]][b]

\* What rx_inject() has found in RBUF, or put there, is still so.
InjectInv ==
    \A u \in Usarts :
        /\ In("S", u, {"oe_store", "oe_irq"}) => rbuf_full[u]
        /\ In("S", u, {"inj_full"}) => ~rbuf_full[u] /\ rbuf[u] = rxd_frame_byte[u]

\* No copy of STATUS that a thread will write back lacks the bit, or has it.
Sticky(u, bit) ==
    /\ bit \in status[u]
    /\ \A t \in Threads : In(t, u, {"upd_store", "w1c_store"}) => bit \in ld[t]

Silent(u, bit) ==
    /\ fired[u][bit] = count[u][bit] \/ Closing(u, bit)
    /\ \A t \in Threads : In(t, u, {"upd_load", "upd_store"}) => Head(todo[t]) # bit

Absent(u, bit) ==
    /\ Silent(u, bit) /\ bit \notin status[u]
    /\ \A t \in Threads : In(t, u, {"upd_store", "w1c_store"}) => bit \notin ld[t]

Told(u, bit) == Owed(u, bit) \/ Sticky(u, bit)

Box(u) == rbuf_full[u] => Told(u, "RIR")

Coming(u, b) == Chan(u) = <<b>> /\ ~rbuf_full[u]
Here(u, b) == Chan(u) = <<>> /\ rbuf_full[u] /\ rbuf[u] = b
Carried(u, b) == Coming(u, b) \/ (Here(u, b) /\ Told(u, "RIR"))

\* Before the tests
SetUpInv ==
    /\ \A u \in Usarts : ~rbuf_full[u] /\ count[u]["TBIR"] = 0
    /\ pc["Q"] \notin {"upd_load", "upd_store", "upd_count", "upd_fired"} /\ ~new_irq["Q"]

\* Before position i of tests 1 and 2
ExchangeAt(n, i) ==
    LET v == To(n) IN
    /\ i = 1 => ~rbuf_full["A"]
    /\ i = 2 => ~rbuf_full[v]
    /\ i \in 3..8 => Carried(v, ByteOf(n, i))
    /\ i = 9 => Here(v, ByteOf(n, i))
    /\ n = 1 => /\ ~rbuf_full["A"]
                /\ i = 1 => ~rbuf_full["B"]
                /\ i = 10 => pc["Q"] = "rbuf_full" \/ Box("B")
    /\ n = 2 => Box("B")

\* Before position i of test 3
OverrunAt(i) ==
    /\ i <= 5 => Box("B")
    /\ i \in 3..5 => Chan("B") # <<>> \/ rbuf_full["B"]
    /\ i \in 6..10 => rbuf_full["B"]
    /\ i \in 7..10 => Chan("B") # <<>> \/ Told("B", "EIR")
    /\ i = 11 => pc["Q"] = "rbuf_full" \/ ~rbuf_full["B"]
    /\ i >= 12 => ~rbuf_full["B"]
    /\ i = 12 => pc["Q"] \in {"w1c_load", "w1c_store"} \/ "RIR" \notin status["B"]
    /\ i = 13 => "RIR" \notin status["B"]

\* The stages of test 4, with byte b
Clear == Chan("B") = <<>> /\ ~rbuf_full["B"] /\ Absent("B", "RIR")

Flying(b) == \/ Coming("B", b) /\ Absent("B", "RIR")
             \/ Here("B", b) /\ Owed("B", "RIR") /\ "RIR" \notin status["B"]
             \/ Here("B", b) /\ Silent("B", "RIR") /\ Sticky("B", "RIR")

Seen(b) == Here("B", b) /\ Silent("B", "RIR")

Taken == /\ Chan("B") = <<>> /\ Silent("B", "RIR")
         /\ pc["Q"] = "rbuf_full" \/ ~rbuf_full["B"]

Clearing == /\ Chan("B") = <<>> /\ ~rbuf_full["B"] /\ Silent("B", "RIR")
            /\ pc["Q"] \in {"w1c_load", "w1c_store"} \/ Absent("B", "RIR")

StreamAt(st, b) ==
    /\ Silent("B", "TBIR") /\ Silent("B", "EIR")
    /\ st = "clear" => Clear
    /\ st = "flying" => Flying(b)
    /\ st = "seen" => Seen(b)
    /\ st = "taken" => Taken
    /\ st = "clearing" => Clearing

\* Before position i of test 5
NoTir ==
    /\ "TIR" \notin status["A"]
    /\ In("Q", "A", {"upd_store", "w1c_store"}) => "TIR" \notin ld["Q"]
    /\ "tir" \notin written["A"] \cup level["A"] /\ <<"TirAuto", "A">> \notin ready
    /\ ~In("S", "A", UpdPlaces)

CompleteAt(i) ==
    /\ i = 3 => pc["Q"] \in {"w1c_load", "w1c_store"} \/ NoTir
    /\ i = 4 => tir_fire_count["A"] = 8 \/ NoTir
    /\ i >= 5 /\ ok => tir_fire_count["A"] = 8

StageAt(n, i) ==
    /\ n = 0 => SetUpInv
    /\ n \in {1, 2} => ExchangeAt(n, i)
    /\ n = 3 => OverrunAt(i)
    /\ n = 4 => StreamAt(Stage(4, i), ByteOf(4, i))
    /\ n = 5 => CompleteAt(i)

StageInv == StageAt(test, Pos)

MayMiss == {<<1, "A", "TBIR">>, <<2, "B", "TBIR">>, <<5, "A", "TIR">>}

VerdictInv ==
    /\ missed \subseteq MayMiss
    /\ \A m \in missed : m[1] <= test
    /\ ok <=> \A m \in missed : m[1] # test
    /\ failed = {m[1] : m \in missed} \ {5, test}

IInv == /\ ProgType /\ BusInv /\ RestInv /\ LinkInv /\ ConInv /\ PulseInv /\ TxOne
        /\ TirAccount /\ ReportInv /\ LoadInv /\ InjectInv /\ StageInv /\ VerdictInv

-----------------------------------------------------------------------------
(* The program is what the invariant takes it for *)

LEMMA Names == Usarts = {"A", "B"} /\ Peer["A"] = "B" /\ Peer["B"] = "A"
<1>1. Usarts = {"A", "B"} /\ \A u \in Usarts : Peer[u] # u /\ Peer[u] \in Usarts
  BY FullDuplexAssumption, Usart2Assumption
<1> QED BY <1>1

LEMMA Prog0 ==
    Prog(0) = <<PutStr, Con("A"), Con("B"), Clr("A", StatusBits), Clr("B", StatusBits)>>
  BY DEF Prog, SetUp

LEMMA Prog1 ==
    Prog(1) = <<PutStr, Send("A", 85), Wait("A", "TBIR"), PutStr, Clr("A", {"TBIR"}),
                Wait("B", "RIR"), PutStr, Clr("B", {"RIR"}), Read("B", 85)>>
  BY DEF Prog, Script, Exchange

LEMMA Prog2 ==
    Prog(2) = <<PutStr, Send("B", 170), Wait("B", "TBIR"), PutStr, Clr("B", {"TBIR"}),
                Wait("A", "RIR"), PutStr, Clr("A", {"RIR"}), Read("A", 170)>>
  BY DEF Prog, Script, Exchange

LEMMA Prog3 ==
    Prog(3) = <<PutStr, Send("A", 17), Clr("A", {"TBIR"}), Wait("B", "RIR"), PutStr,
                Send("A", 34), Clr("A", {"TBIR"}), Wait("B", "EIR"), PutStr,
                Drain("B"), Clr("B", StatusBits), Clr("A", StatusBits)>>
  BY DEF Prog, Script, Overrun

LEMMA Prog4 ==
    LET s == Prog(4) IN
    /\ DOMAIN s = 1..25
    /\ s[1] = PutStr
    /\ s[2] = Send("A", 222) /\ s[8] = Send("A", 173)
    /\ s[14] = Send("A", 190) /\ s[20] = Send("A", 239)
    /\ \A i \in {3, 9, 15, 21} : s[i] = Wait("B", "RIR")
    /\ s[4] = Read("B", 222) /\ s[10] = Read("B", 173)
    /\ s[16] = Read("B", 190) /\ s[22] = Read("B", 239)
    /\ \A i \in {5, 11, 17, 23} : s[i] = Clr("B", {"RIR"})
    /\ \A i \in {6, 12, 18, 24} : s[i] = Clr("A", {"TBIR"})
    /\ \A i \in {7, 13, 19, 25} : s[i] = PutStr
  BY DEF Prog, Script, Stream, Streamed

LEMMA Prog5 ==
    Prog(5) = <<PutStr, Clr("A", StatusBits), Send("A", 90), Wait("A", "TIR"), PutStr,
                Clr("A", StatusBits)>>
  BY DEF Prog, Script, TxComplete

\* What a position of the program implies of its neighbours
Neighbours(n, i) ==
    LET ins == Prog(n)[i] IN
    /\ ins.op \in {"put", "con", "send", "clr", "read", "drain", "wait"}
    /\ ins.op # "put" => ins.usart \in Usarts
    /\ Rests(n, i + 1) => Rests(n, i) \/ ins.op = "put"
    /\ SentByA(n, i + 1) = SentByA(n, i) + One(ins.op = "send" /\ ins.usart = "A")
    /\ n = 0 => ins.op \in {"put", "con", "clr"}
    /\ ins.op = "con" => n = 0 /\ i = IF ins.usart = "A" THEN 2 ELSE 3
    /\ ins.op = "send" => /\ ins.usart = From(n) /\ ins.byte \in Bytes
                          /\ Rests(n, i) /\ ~Rests(n, i + 1)
    /\ ins.op = "clr" => ins.bits \in {{"TBIR"}, {"RIR"}, StatusBits}
    /\ ins.op = "clr" /\ ins.usart = "B" /\ n = 2 => ins.bits = {"TBIR"}
    /\ ins.op \in {"clr", "read", "drain"} /\ ins.usart = To(n) =>
           (Rests(n, i) /\ Rests(n, i + 1)) \/ n = 4
    /\ ins.op = "read" => n \in {1, 2, 4} /\ ins.usart = To(n)
    /\ ins.op = "drain" => n = 3 /\ ins.usart = "B"
    /\ ins.op = "wait" => n \in 1..5 /\ ins.bit \in StatusBits

LEMMA ProgShape ==
    ASSUME NEW n \in 0..6, NEW i \in DOMAIN Prog(n) PROVE Neighbours(n, i)
<1> USE Names, ProgramAssumption DEF Neighbours, PutStr, Con, Clr, Wait, Read, Drain, Send,
            Rests, SentByA, From, To, StatusBits, One
<1>0. CASE n = 0
  BY <1>0, Prog0
<1>1. CASE n = 1
  BY <1>1, Prog1
<1>2. CASE n = 2
  BY <1>2, Prog2
<1>3. CASE n = 3
  BY <1>3, Prog3
<1>4. CASE n = 4
  <2>1. i \in 1..25
    BY <1>4, Prog4
  <2> QED BY <1>4, <2>1, Prog4
<1>5. CASE n = 5
  BY <1>5, Prog5
<1>6. CASE n = 6
  BY <1>6 DEF Prog
<1> QED BY <1>0, <1>1, <1>2, <1>3, <1>4, <1>5, <1>6

\* Prog(n) is a sequence, of whatever its instructions are.
LEMMA SequenceOf ==
    ASSUME NEW s, NEW k \in Nat, s = [i \in 1..k |-> s[i]]
    PROVE  s \in Seq({s[i] : i \in 1..k})
<1>1. s \in [1..k -> {s[i] : i \in 1..k}]
  OBVIOUS
<1> QED BY <1>1

LEMMA ProgIsSeq == ASSUME NEW n \in 0..6 PROVE \E S : Prog(n) \in Seq(S)
<1>1. ASSUME NEW s, NEW k \in Nat, s = [i \in 1..k |-> s[i]] PROVE \E S : s \in Seq(S)
  BY <1>1, SequenceOf
<1>0. CASE n = 0
  <2>1. Prog(0) = [i \in 1..5 |-> Prog(0)[i]]
    BY Prog0
  <2> QED BY <1>0, <1>1, <2>1
<1>2. CASE n = 1
  <2>1. Prog(1) = [i \in 1..9 |-> Prog(1)[i]]
    BY Prog1
  <2> QED BY <1>2, <1>1, <2>1
<1>3. CASE n = 2
  <2>1. Prog(2) = [i \in 1..9 |-> Prog(2)[i]]
    BY Prog2
  <2> QED BY <1>3, <1>1, <2>1
<1>4. CASE n = 3
  <2>1. Prog(3) = [i \in 1..12 |-> Prog(3)[i]]
    BY Prog3
  <2> QED BY <1>4, <1>1, <2>1
<1>5. CASE n = 4
  <2>1. Prog(4) = [i \in 1..25 |-> Prog(4)[i]]
    BY DEF Prog, Script, Stream, Streamed
  <2> QED BY <1>5, <1>1, <2>1
<1>6. CASE n = 5
  <2>1. Prog(5) = [i \in 1..6 |-> Prog(5)[i]]
    BY Prog5
  <2> QED BY <1>6, <1>1, <2>1
<1>7. CASE n = 6
  <2>1. Prog(6) = <<>>
    BY DEF Prog
  <2>2. <<>> \in Seq({})
    OBVIOUS
  <2> QED BY <1>7, <2>1, <2>2
<1> QED BY <1>0, <1>2, <1>3, <1>4, <1>5, <1>6, <1>7

LEMMA Lengths ==
    /\ Len(Prog(0)) = 5 /\ Len(Prog(1)) = 9 /\ Len(Prog(2)) = 9 /\ Len(Prog(3)) = 12
    /\ Len(Prog(4)) = 25 /\ Len(Prog(5)) = 6 /\ Len(Prog(6)) = 0
<1>1. Len(Prog(4)) = 25
  BY DEF Prog, Script, Stream, Streamed
<1>2. Len(Prog(6)) = 0
  BY DEF Prog
<1> QED BY <1>1, <1>2, Prog0, Prog1, Prog2, Prog3, Prog5

-----------------------------------------------------------------------------
(* Where the program is *)

LEMMA Arrived ==
    ASSUME ProgType, todo_main = <<>>
    PROVE  Pos = Len(Prog(test)) + 1 /\ OpAt(test, Pos) = "end"
<1>1. PICK S : Prog(test) \in Seq(S)
  BY ProgIsSeq DEF ProgType
<1>2. Pos = Len(Prog(test)) + 1
  BY <1>1 DEF Pos
<1> QED BY <1>1, <1>2 DEF OpAt

LEMMA UnderWay ==
    ASSUME ProgType, todo_main # <<>>
    PROVE  /\ test \in 0..5 /\ Pos \in DOMAIN Prog(test) /\ Pos \in 1..Len(Prog(test))
           /\ Ins = Prog(test)[Pos] /\ Neighbours(test, Pos)
<1>1. PICK S : Prog(test) \in Seq(S)
  BY ProgIsSeq DEF ProgType
<1> DEFINE s == Prog(test)
<1>2. Pos \in 1..Len(s) + 1 /\ todo_main = SubSeq(s, Pos, Len(s))
  BY DEF ProgType
<1>3. Pos \in 1..Len(s) /\ Head(todo_main) = s[Pos]
  <2> HIDE DEF s
  <2> QED BY <1>1, <1>2
<1>4. test # 6
  BY <1>3, Lengths
<1>5. Pos \in DOMAIN s
  BY <1>1, <1>3
<1> QED BY <1>3, <1>4, <1>5, ProgShape DEF ProgType, Ins

LEMMA MovesOn ==
    ASSUME ProgType, todo_main # <<>>, todo_main' = Tail(todo_main), test' = test, ok' \in BOOLEAN
    PROVE  Pos' = Pos + 1 /\ ProgType'
<1>1. PICK S : Prog(test) \in Seq(S)
  BY ProgIsSeq DEF ProgType
<1> DEFINE s == Prog(test)
<1>2. s \in Seq(S) /\ Pos \in 1..Len(s) + 1 /\ todo_main = SubSeq(s, Pos, Len(s))
  BY <1>1 DEF ProgType
<1>3. Len(todo_main) = Len(s) - Pos + 1 /\ Len(todo_main) > 0 /\ Len(todo_main') = Len(todo_main) - 1
  <2> HIDE DEF s
  <2> QED BY <1>2
<1>4. Pos' = Pos + 1
  BY <1>2, <1>3 DEF Pos
<1>5. todo_main' = SubSeq(s, Pos + 1, Len(s)) /\ Pos + 1 \in 1..Len(s) + 1
  <2> HIDE DEF s
  <2> QED BY <1>2, <1>3
<1> QED BY <1>4, <1>5 DEF ProgType

LEMMA Stops ==
    ASSUME ProgType, todo_main' = <<>>, test' = test, ok' \in BOOLEAN
    PROVE  Pos' = Len(Prog(test)) + 1 /\ ProgType'
<1>1. PICK S : Prog(test) \in Seq(S)
  BY ProgIsSeq DEF ProgType
<1> DEFINE s == Prog(test)
<1>2. Pos' = Len(s) + 1 /\ Len(s) \in Nat
  BY <1>1 DEF Pos
<1>3. SubSeq(s, Len(s) + 1, Len(s)) = <<>>
  <2> HIDE DEF s
  <2> QED BY <1>1
<1> QED BY <1>2, <1>3 DEF ProgType

LEMMA Begins ==
    ASSUME test' \in 0..6, todo_main' = Prog(test'), ok' \in BOOLEAN
    PROVE  Pos' = 1 /\ ProgType'
<1>1. PICK n \in 0..6 : test' = n
  OBVIOUS
<1>2. PICK S : Prog(n) \in Seq(S)
  BY ProgIsSeq
<1>3. Pos' = 1 /\ Len(Prog(n)) \in Nat
  BY <1>1, <1>2 DEF Pos
<1>4. SubSeq(Prog(n), 1, Len(Prog(n))) = Prog(n)
  BY <1>2, SubSeqFull
<1> QED BY <1>1, <1>3, <1>4 DEF ProgType

LEMMA InitProgType == FdInit => ProgType
<1> SUFFICES ASSUME FdInit PROVE ProgType
  OBVIOUS
<1>1. PICK S : Prog(0) \in Seq(S)
  BY ProgIsSeq
<1>2. test = 0 /\ ok = TRUE /\ todo_main = Prog(0)
  BY DEF FdInit, Prog
<1>3. Pos = 1
  BY <1>2, Lengths DEF Pos
<1>4. SubSeq(Prog(0), 1, Len(Prog(0))) = Prog(0)
  BY <1>1, SubSeqFull
<1> QED BY <1>2, <1>3, <1>4, Lengths DEF ProgType

\* The instructions that go on to the next one
Straight == DoPutStr \/ DoCon \/ DoSend \/ DoClr \/ DoRead \/ DoDrain \/ DoWait

LEMMA StraightMoves ==
    ASSUME ProgType, Straight
    PROVE  /\ Idle("Q") /\ todo_main # <<>>
           /\ Pos' = Pos + 1 /\ test' = test /\ missed' = missed /\ failed' = failed
           /\ ProgType' /\ ok' \in BOOLEAN
<1>1. /\ Idle("Q") /\ todo_main # <<>> /\ Continue
  BY DEF Straight, DoPutStr, DoCon, DoSend, DoClr, DoRead, DoDrain, DoWait, At
<1>2. ok' \in BOOLEAN
  <2>1. CASE DoRead
    BY <2>1 DEF DoRead, ProgType
  <2>2. CASE ~DoRead
    BY <2>2 DEF Straight, DoPutStr, DoCon, DoSend, DoClr, DoDrain, DoWait, ProgType
  <2> QED BY <2>1, <2>2
<1> QED BY <1>1, <1>2, MovesOn DEF Continue

LEMMA NextTestMoves ==
    ASSUME ProgType, NextTest
    PROVE  /\ Pos = Len(Prog(test)) + 1 /\ test \in 0..5 /\ test' = test + 1 /\ Pos' = 1 /\ ProgType'
           /\ ok' = TRUE /\ Idle("Q") /\ UNCHANGED <<vars, missed>>
<1>1. /\ todo_main = <<>> /\ test \in 0..5 /\ test' = test + 1 /\ ok' = TRUE
      /\ todo_main' = IF test < 5 THEN Script[test + 1] ELSE <<>>
      /\ Idle("Q") /\ UNCHANGED <<vars, missed>>
  BY DEF NextTest, ProgType
<1>2. PICK n \in 1..6 : test' = n
  BY <1>1
<1>3. todo_main' = Prog(n)
  BY <1>1, <1>2 DEF Prog
<1> QED BY <1>1, <1>2, <1>3, Arrived, Begins

LEMMA TimeOutMoves ==
    ASSUME ProgType, TimeOut
    PROVE  /\ ProgType' /\ test' = test /\ todo_main # <<>> /\ ok' = FALSE
           /\ Pos' = IF test = 5 THEN Pos + 1 ELSE Len(Prog(test)) + 1
           /\ Idle("Q") /\ UNCHANGED <<vars, failed>>
<1>1. /\ todo_main # <<>> /\ test' = test /\ ok' = FALSE /\ UNCHANGED <<vars, failed>>
      /\ Idle("Q") /\ todo_main' = IF test = 5 THEN Tail(todo_main) ELSE <<>>
  BY DEF TimeOut, At
<1>2. CASE test = 5
  BY <1>1, <1>2, MovesOn
<1>3. CASE test # 5
  BY <1>1, <1>3, Stops
<1> QED BY <1>1, <1>2, <1>3

\* A wait that times out does so when the scheduler has nothing left to do.
Settles == TimeOut => Quiet

LEMMA PosStays ==
    ASSUME UNCHANGED progVars
    PROVE  Pos' = Pos /\ (ProgType => ProgType')
  BY DEF progVars, ProgType, Pos

LEMMA NextProgType == ProgType /\ [FdNext]_fdVars => ProgType'
<1> SUFFICES ASSUME ProgType, [FdNext]_fdVars PROVE ProgType'
  OBVIOUS
<1>1. CASE Straight
  BY <1>1, StraightMoves
<1>2. CASE TimeOut \/ NextTest
  BY <1>2, TimeOutMoves, NextTestMoves
<1>3. CASE UNCHANGED progVars
  BY <1>3, PosStays
<1> QED BY <1>1, <1>2, <1>3 DEF FdNext, Main, Straight, BusAccess, KernelStep, fdVars

-----------------------------------------------------------------------------
(* The program is one of Usart2's drivers *)

LEMMA StraightDrives ==
    ASSUME ProgType, Straight
    PROVE  (\E u \in Usarts : Driver(u)) \/ UNCHANGED vars
<1>1. todo_main # <<>>
  BY StraightMoves
<1>2. /\ Ins.op # "put" => Ins.usart \in Usarts
      /\ Ins.op = "send" => Ins.byte \in Bytes
      /\ Ins.op = "clr" => Ins.bits \in W1cValues
  BY <1>1, UnderWay, ProgramAssumption DEF Neighbours
<1>3. CON_INIT \in ConValues
      /\ \A u \in Usarts : {"TBUF", "RBUF", "CON", "STATUS"} \subseteq Driven[u]
  BY ProgramAssumption
<1>4. CASE DoPutStr \/ DoWait
  BY <1>4 DEF DoPutStr, DoWait
<1>5. CASE DoCon
  BY <1>2, <1>3, <1>5 DEF DoCon, At, Driver
<1>6. CASE DoSend
  BY <1>2, <1>3, <1>6 DEF DoSend, At, Driver
<1>7. CASE DoClr
  BY <1>2, <1>3, <1>7 DEF DoClr, At, Driver
<1>8. CASE DoRead \/ DoDrain
  BY <1>2, <1>3, <1>8 DEF DoRead, DoDrain, At, Driver
<1> QED BY <1>4, <1>5, <1>6, <1>7, <1>8 DEF Straight

LEMMA FdStep == ProgType /\ [FdNext]_fdVars => [Next]_vars
<1> SUFFICES ASSUME ProgType, [FdNext]_fdVars PROVE [Next]_vars
  OBVIOUS
<1>1. CASE Straight
  BY <1>1, StraightDrives DEF Next
<1>2. CASE TimeOut \/ NextTest \/ UNCHANGED fdVars
  BY <1>2 DEF TimeOut, NextTest, fdVars
<1>3. CASE BusAccess \/ KernelStep
  BY <1>3 DEF BusAccess, KernelStep, Next
<1> QED BY <1>1, <1>2, <1>3 DEF FdNext, Main, Straight

\* The firmware makes no access that the nondeterministic driver of Usart2 does
\* not make (fullduplex_main()), so what is proved of Usart2 holds of the
\* USARTs under it.
THEOREM ProgramIsADriver == FdSpec => Spec
<1>1. FdInit => Init
  BY DEF FdInit
<1> QED BY <1>1, InitProgType, NextProgType, FdStep, PTL DEF FdSpec, Spec

-----------------------------------------------------------------------------
(* What is proved of Usart2 *)

\* A TBUF write, however late, finds no pulse that its advance() could end.
StartInv == pc["Q"] = "tbuf" => asserted[at["Q"]] = {}

\* A STATUS read, a text or a wait lets the kernel end what was pulsing: a bus access
\* takes no pulse back.
Prompt == Kernel \/ \A u \in Usarts : asserted[u] \subseteq asserted'[u]

\* The invariants of Usart2 hold of the two devices under any driver, but TxInv only
\* under one that keeps R set.  The program is such a driver, by ConInv.
DeviceInv == TypeInv /\ RxInv /\ TxInv /\ FlowInv /\ CountInv /\ StartInv

LEMMA InitDeviceInv == Init => DeviceInv
<1> SUFFICES ASSUME Init PROVE DeviceInv
  OBVIOUS
<1>1. StartInv
  BY DEF Init, StartInv, Threads
<1> QED BY <1>1, InitTypeInv, InitRx, InitTx, InitFlow, InitCounts DEF DeviceInv

-----------------------------------------------------------------------------
(* Rest *)

LEMMA ConcatEmpty ==
    ASSUME NEW f \in Seq(Nat), NEW q \in Seq(Nat), NEW w \in Seq(Nat), f \o q \o w = <<>>
    PROVE  f = <<>> /\ q = <<>> /\ w = <<>>
<1>1. f \o q \in Seq(Nat) /\ Len(f \o q) = Len(f) + Len(q)
  BY ConcatProperties
<1>2. Len(f \o q \o w) = Len(f \o q) + Len(w)
  BY <1>1, ConcatProperties
<1>3. Len(f) \in Nat /\ Len(q) \in Nat /\ Len(w) \in Nat /\ Len(<<>>) = 0
  BY LenProperties
<1>4. Len(f) = 0 /\ Len(q) = 0 /\ Len(w) = 0
  BY <1>1, <1>2, <1>3
<1> QED BY <1>4, EmptySeq

LEMMA ChanEmpty ==
    ASSUME TypeInv, NEW u \in Usarts, Chan(u) = <<>>
    PROVE  /\ ~rxd_busy[u] /\ ~Injecting(u) /\ InFrame(u) = <<>>
           /\ rxd_pending_q[u] = <<>> /\ wire[u] = <<>>
<1>1. rxd_pending_q[u] \in Seq(Nat) /\ wire[u] \in Seq(Nat) /\ InFrame(u) \in Seq(Nat)
  BY ByteTypes
<1>2. InFrame(u) = <<>> /\ rxd_pending_q[u] = <<>> /\ wire[u] = <<>>
  BY <1>1, ConcatEmpty DEF Chan
<1>3. ~(rxd_busy[u] \/ Injecting(u))
  BY <1>2 DEF InFrame
<1> QED BY <1>2, <1>3

LEMMA QuietRx ==
    ASSUME TypeInv, RxInv, Quiet, NEW u \in Usarts
    PROVE  RxStill(u)
<1>1. pc["S"] = "idle" /\ ret["S"] = "idle"
  BY DEF Quiet, Idle, TypeInv, Locals, LocalsOf, Threads, UpdPlaces
<1>2. ~rxd_busy[u] /\ ~Injecting(u) /\ rxd_pending_q[u] = <<>> /\ wire[u] = <<>>
  BY <1>1 DEF Quiet, RxInv, Injecting, In
<1>3. Chan(u) = <<>>
  BY <1>2 DEF Chan, InFrame
<1> QED BY <1>1, <1>3 DEF RxStill

LEMMA QuietTx ==
    ASSUME TypeInv, TxInv, PulseInv, Quiet, NEW u \in Usarts, ~Starting(u)
    PROVE  TxStill(u)
  BY DEF Quiet, Idle, TxInv, PulseInv, TxStill, In, UpdPlaces

LEMMA QuietKernel == ASSUME TypeInv, Quiet PROVE ~Kernel
<1>1. pc["S"] = "idle" /\ ready = {} /\ delta = {} /\ timed = {} /\ written = level
      /\ \A u \in Usarts : wire[u] = <<>>
  BY DEF Quiet, Idle
<1>2. ~Process
  BY <1>1 DEF Process, RxIdle, RxStart, InjectDropped, InjectOverrun, OeStore, OeIrq, InjectByte,
     InjectFull, TxdTest, TxdLoad, RxDone, TxDone, TirAuto, IrqDeassert, IrqMethod, IrqPulse,
     Dispatch
<1>3. ~Update("S")
  BY <1>1 DEF Update, UpdTest, UpdLoad, UpdStore, UpdCount, UpdFired, UpdEnd
<1>4. ~\E u \in Usarts : Bridge(u)
  BY <1>1 DEF Bridge
<1>5. ~DeltaCycle
  BY <1>1 DEF DeltaCycle
<1>6. ~AdvanceTime
  BY <1>1 DEF AdvanceTime
<1> QED BY <1>2, <1>3, <1>4, <1>5, <1>6 DEF Kernel

-----------------------------------------------------------------------------
(* What the one thread leaves of the other's *)

LEMMA KernelLeavesQ ==
    ASSUME TypeInv, Kernel
    PROVE  /\ pc'["Q"] = pc["Q"] /\ at'["Q"] = at["Q"] /\ todo'["Q"] = todo["Q"]
           /\ ld'["Q"] = ld["Q"] /\ ld_count'["Q"] = ld_count["Q"]
           /\ new_irq'["Q"] = new_irq["Q"] /\ arg' = arg
<1> USE DEF TypeInv, ThreadType, Threads, Goto, Start, EnterUpdate, thVars
<1>1. CASE Process
  <2>1. CASE RxIdle \/ InjectDropped \/ InjectOverrun \/ OeStore \/ OeIrq
             \/ InjectByte \/ InjectFull \/ TxdTest \/ TxdLoad
    BY <2>1 DEF RxIdle, InjectDropped, InjectOverrun, OeStore, OeIrq, InjectByte, InjectFull,
       TxdTest, TxdLoad, Refused
  <2>2. CASE RxStart
    <3>1. CASE "R" \in con[at["S"]]
      BY <2>2, <3>1 DEF RxStart
    <3>2. CASE "R" \notin con[at["S"]]
      BY <2>2, <3>2 DEF RxStart
    <3> QED BY <3>1, <3>2
  <2>3. ASSUME NEW u \in Usarts, RxDone(u) \/ IrqDeassert(u) \/ IrqMethod(u) \/ IrqPulse(u)
        PROVE  /\ pc'["Q"] = pc["Q"] /\ at'["Q"] = at["Q"] /\ todo'["Q"] = todo["Q"]
               /\ ld'["Q"] = ld["Q"] /\ ld_count'["Q"] = ld_count["Q"]
               /\ new_irq'["Q"] = new_irq["Q"] /\ arg' = arg
    BY <2>3 DEF RxDone, IrqDeassert, IrqMethod, IrqPulse
  <2>4. ASSUME NEW u \in Usarts, TxDone(u)
        PROVE  /\ pc'["Q"] = pc["Q"] /\ at'["Q"] = at["Q"] /\ todo'["Q"] = todo["Q"]
               /\ ld'["Q"] = ld["Q"] /\ ld_count'["Q"] = ld_count["Q"]
               /\ new_irq'["Q"] = new_irq["Q"] /\ arg' = arg
    <3>1. CASE "R" \in con[u]
      BY <2>4, <3>1 DEF TxDone
    <3>2. CASE "R" \notin con[u]
      BY <2>4, <3>2 DEF TxDone
    <3> QED BY <3>1, <3>2
  <2>5. ASSUME NEW u \in Usarts, TirAuto(u)
        PROVE  /\ pc'["Q"] = pc["Q"] /\ at'["Q"] = at["Q"] /\ todo'["Q"] = todo["Q"]
               /\ ld'["Q"] = ld["Q"] /\ ld_count'["Q"] = ld_count["Q"]
               /\ new_irq'["Q"] = new_irq["Q"] /\ arg' = arg
    <3>1. CASE "tir" \in level[u]
      BY <2>5, <3>1 DEF TirAuto
    <3>2. CASE "tir" \notin level[u]
      BY <2>5, <3>2 DEF TirAuto
    <3> QED BY <3>1, <3>2
  <2> QED BY <1>1, <2>1, <2>2, <2>3, <2>4, <2>5 DEF Process
<1>2. CASE Update("S")
  <2>1. CASE UpdTest("S") /\ Fires(at["S"], Head(todo["S"]))
    BY <2>1 DEF UpdTest
  <2>2. CASE UpdTest("S") /\ ~Fires(at["S"], Head(todo["S"]))
    BY <2>2 DEF UpdTest
  <2>3. CASE UpdLoad("S") \/ UpdStore("S") \/ UpdCount("S") \/ UpdFired("S") \/ UpdEnd("S")
    BY <2>3 DEF UpdLoad, UpdStore, UpdCount, UpdFired, UpdEnd
  <2> QED BY <1>2, <2>1, <2>2, <2>3 DEF Update
<1>3. CASE (\E u \in Usarts : Bridge(u)) \/ DeltaCycle \/ AdvanceTime
  BY <1>3 DEF Bridge, Deliver, DeltaCycle, AdvanceTime
<1> QED BY <1>1, <1>2, <1>3 DEF Kernel

LEMMA BusLeavesLocalsOfS ==
    ASSUME TypeInv, (\E u \in Usarts : Driver(u)) \/ Access \/ Update("Q")
    PROVE  /\ pc'["S"] = pc["S"] /\ at'["S"] = at["S"] /\ ret'["S"] = ret["S"]
           /\ todo'["S"] = todo["S"] /\ ld'["S"] = ld["S"] /\ ld_count'["S"] = ld_count["S"]
<1> USE DEF TypeInv, ThreadType, Threads, Goto, Start, EnterUpdate, thVars
<1>1. CASE Update("Q")
  <2>1. CASE UpdTest("Q") /\ Fires(at["Q"], Head(todo["Q"]))
    BY <2>1 DEF UpdTest
  <2>2. CASE UpdTest("Q") /\ ~Fires(at["Q"], Head(todo["Q"]))
    BY <2>2 DEF UpdTest
  <2>3. CASE UpdLoad("Q") \/ UpdStore("Q") \/ UpdCount("Q") \/ UpdFired("Q") \/ UpdEnd("Q")
    BY <2>3 DEF UpdLoad, UpdStore, UpdCount, UpdFired, UpdEnd
  <2> QED BY <1>1, <2>1, <2>2, <2>3 DEF Update
<1>2. CASE (\E u \in Usarts : Driver(u)) \/ Access
  <2>1. pc'["S"] = pc["S"] /\ at'["S"] = at["S"] /\ ret'["S"] = ret["S"]
    BY <1>2, BusLeavesS
  <2>2. CASE \E u \in Usarts : Driver(u)
    BY <2>1, <2>2 DEF Driver, WriteTbuf, RbufGet, WriteCon, OtherAccess, W1C
  <2>3. CASE TbufWrite
    <3>1. CASE tbuf_full[at["Q"]]
      BY <2>1, <2>3, <3>1 DEF TbufWrite
    <3>2. CASE ~tbuf_full[at["Q"]]
      BY <2>1, <2>3, <3>2 DEF TbufWrite
    <3> QED BY <3>1, <3>2
  <2>4. CASE TbufTest
    <3>1. CASE StartsAtOnce(at["Q"])
      BY <2>1, <2>4, <3>1 DEF TbufTest
    <3>2. CASE ~StartsAtOnce(at["Q"])
      BY <2>1, <2>4, <3>2 DEF TbufTest
    <3> QED BY <3>1, <3>2
  <2>5. CASE TbufLoad \/ RbufClearFull \/ RbufClearRaw \/ W1cLoad \/ W1cStore
    BY <2>1, <2>5 DEF TbufLoad, RbufClearFull, RbufClearRaw, W1cLoad, W1cStore
  <2> QED BY <1>2, <2>2, <2>3, <2>4, <2>5 DEF Access
<1> QED BY <1>1, <1>2

-----------------------------------------------------------------------------
(* What becomes of a STATUS bit *)

SamePlace(t) == /\ pc'[t] = pc[t] /\ at'[t] = at[t] /\ ld'[t] = ld[t]
                /\ todo'[t] = todo[t] /\ ld_count'[t] = ld_count[t]

RmwPlaces == {"upd_load", "upd_store", "upd_count", "upd_fired", "w1c_store"}

\* The steps that have no part in a read-modify-write of STATUS
Apart == ~Update("Q") /\ ~Update("S") /\ ~W1cLoad /\ ~W1cStore

LEMMA ApartS ==
    ASSUME TypeInv, Kernel, ~Update("S")
    PROVE  /\ UNCHANGED <<status, fired>>
           /\ pc'["S"] \in RmwPlaces => SamePlace("S")
<1> USE DEF TypeInv, ThreadType, Threads, Goto, Start, EnterUpdate, thVars, RmwPlaces, SamePlace,
            statVars
<1>1. CASE RxIdle \/ InjectDropped \/ InjectOverrun \/ OeStore \/ OeIrq
           \/ InjectByte \/ InjectFull
  BY <1>1 DEF RxIdle, InjectDropped, InjectOverrun, OeStore, OeIrq, InjectByte, InjectFull, Refused
<1>2. CASE RxStart
  <2>1. CASE "R" \in con[at["S"]]
    BY <1>2, <2>1 DEF RxStart
  <2>2. CASE "R" \notin con[at["S"]]
    BY <1>2, <2>2 DEF RxStart
  <2> QED BY <2>1, <2>2
<1>3. CASE TxdTest \/ TxdLoad
  BY <1>3 DEF TxdTest, TxdLoad
<1>4. CASE \E u \in Usarts : RxDone(u) \/ IrqDeassert(u) \/ IrqMethod(u) \/ IrqPulse(u)
  BY <1>4 DEF RxDone, IrqDeassert, IrqMethod, IrqPulse
<1>5. CASE \E u \in Usarts : TxDone(u)
  <2>1. PICK u \in Usarts : TxDone(u)
    BY <1>5
  <2>2. CASE "R" \in con[u]
    BY <2>1, <2>2 DEF TxDone
  <2>3. CASE "R" \notin con[u]
    BY <2>1, <2>3 DEF TxDone
  <2> QED BY <2>2, <2>3
<1>6. CASE \E u \in Usarts : TirAuto(u)
  <2>1. PICK u \in Usarts : TirAuto(u)
    BY <1>6
  <2>2. CASE "tir" \in level[u]
    BY <2>1, <2>2 DEF TirAuto
  <2>3. CASE "tir" \notin level[u]
    BY <2>1, <2>3 DEF TirAuto
  <2> QED BY <2>2, <2>3
<1>7. CASE (\E u \in Usarts : Bridge(u)) \/ DeltaCycle \/ AdvanceTime
  BY <1>7 DEF Bridge, Deliver, DeltaCycle, AdvanceTime
<1> QED BY <1>1, <1>2, <1>3, <1>4, <1>5, <1>6, <1>7 DEF Kernel, Process

LEMMA ApartQ ==
    ASSUME TypeInv, (\E u \in Usarts : Driver(u)) \/ (Access /\ ~W1cLoad /\ ~W1cStore)
    PROVE  /\ UNCHANGED <<status, fired>>
           /\ pc'["Q"] \in RmwPlaces => SamePlace("Q")
<1> USE DEF TypeInv, ThreadType, Threads, Goto, Start, EnterUpdate, RmwPlaces, SamePlace, statVars
<1>1. CASE \E u \in Usarts : Driver(u)
  BY <1>1 DEF Driver, WriteTbuf, RbufGet, WriteCon, OtherAccess, W1C
<1>2. CASE TbufWrite
  <2>1. CASE tbuf_full[at["Q"]]
    BY <1>2, <2>1 DEF TbufWrite
  <2>2. CASE ~tbuf_full[at["Q"]]
    BY <1>2, <2>2 DEF TbufWrite
  <2> QED BY <2>1, <2>2
<1>3. CASE TbufTest
  <2>1. CASE StartsAtOnce(at["Q"])
    BY <1>3, <2>1 DEF TbufTest
  <2>2. CASE ~StartsAtOnce(at["Q"])
    BY <1>3, <2>2 DEF TbufTest
  <2> QED BY <2>1, <2>2
<1>4. CASE TbufLoad \/ RbufClearFull \/ RbufClearRaw
  BY <1>4 DEF TbufLoad, RbufClearFull, RbufClearRaw
<1> QED BY <1>1, <1>2, <1>3, <1>4 DEF Access

LEMMA ApartStep ==
    ASSUME TypeInv, [Next]_vars, Apart
    PROVE  /\ UNCHANGED <<status, fired>>
           /\ \A t \in Threads : pc'[t] \in RmwPlaces => SamePlace(t)
<1>1. CASE (\E u \in Usarts : Driver(u)) \/ Access
  BY <1>1, ApartQ, BusLeavesLocalsOfS DEF Apart, Threads, SamePlace
<1>2. CASE Kernel
  BY <1>2, ApartS, KernelLeavesQ DEF Apart, Threads, SamePlace
<1>3. CASE UNCHANGED vars
  BY <1>3 DEF vars, statVars, thVars, SamePlace
<1> QED BY <1>1, <1>2, <1>3 DEF Next, Apart

\* A bit that no copy lacks stays until a write of 1 clears it.
LEMMA StickyStays ==
    ASSUME TypeInv, [Next]_vars, NEW u \in Usarts, NEW bit, Sticky(u, bit),
           ~(W1cStore /\ at["Q"] = u /\ bit \in arg)
    PROVE  Sticky(u, bit)'
<1> USE DEF TypeInv, StatType, ThreadType, Threads, Goto, Sticky, In
<1>1. CASE Apart
  BY <1>1, ApartStep DEF RmwPlaces, SamePlace
<1>2. ASSUME NEW t \in Threads, UpdTest(t) PROVE Sticky(u, bit)'
  BY <1>2 DEF UpdTest, statVars
<1>3. ASSUME NEW t \in Threads, UpdLoad(t) PROVE Sticky(u, bit)'
  BY <1>3 DEF UpdLoad, statVars
<1>4. ASSUME NEW t \in Threads, UpdStore(t) PROVE Sticky(u, bit)'
  BY <1>4 DEF UpdStore
<1>5. ASSUME NEW t \in Threads, UpdCount(t) \/ UpdFired(t) \/ UpdEnd(t) PROVE Sticky(u, bit)'
  BY <1>5 DEF UpdCount, UpdFired, UpdEnd, statVars
<1>6. CASE W1cLoad
  BY <1>6 DEF W1cLoad, statVars
<1>7. CASE W1cStore
  BY <1>7 DEF W1cStore
<1> QED BY <1>1, <1>2, <1>3, <1>4, <1>5, <1>6, <1>7 DEF Apart, Update

LEMMA UpdateFirst ==
    ASSUME pc["S"] \in UpdPlaces, Kernel
    PROVE  Update("S")
<1>1. ~Process /\ ~(\E v \in Usarts : Bridge(v)) /\ ~DeltaCycle /\ ~AdvanceTime
  BY DEF UpdPlaces, Process, RxIdle, RxStart, InjectDropped, InjectOverrun, OeStore, OeIrq,
     InjectByte, InjectFull, TxdTest, TxdLoad, RxDone, TxDone, TirAuto, IrqDeassert,
     IrqMethod, IrqPulse, Dispatch, Idle, Bridge, Deliver, DeltaCycle, AdvanceTime
<1> QED BY <1>1 DEF Kernel

\* The scheduler writes down the count that it has found, which has not grown since.
LEMMA ClosingServed ==
    ASSUME TypeInv, LoadInv, [Next]_vars, NEW u \in Usarts, NEW bit \in Counters,
           Closing(u, bit)
    PROVE  /\ Kernel => count' = count
           /\ pc'["S"] \notin {"upd_load", "upd_store"}
           /\ \/ Closing(u, bit)'
              \/ fired'[u][bit] = count[u][bit] /\ pc'["S"] = "upd"
<1> USE DEF TypeInv, ThreadType, Threads, Goto, Closing, In
<1>1. CASE Kernel
  <2>1. UpdCount("S") \/ UpdFired("S")
    BY <1>1, UpdateFirst DEF UpdPlaces, Update, UpdTest, UpdLoad, UpdStore, UpdEnd
  <2>2. CASE UpdCount("S")
    BY <2>2 DEF UpdCount, statVars
  <2>3. CASE UpdFired("S")
    <3>1. ld_count["S"] = count[u][bit]
      BY <2>3 DEF UpdFired, LoadInv
    <3>2. /\ pc'["S"] = "upd" /\ fired' = [fired EXCEPT ![u][bit] = ld_count["S"]]
          /\ count' = count
      BY <2>3 DEF UpdFired
    <3> QED BY <3>1, <3>2 DEF StatType, Counters, StatusBits
  <2> QED BY <2>1, <2>2, <2>3
<1>2. CASE ~Kernel /\ ((\E v \in Usarts : Driver(v)) \/ Access \/ Update("Q"))
  BY <1>2, BusLeavesLocalsOfS
<1>3. CASE UNCHANGED vars
  BY <1>3 DEF vars, thVars, statVars
<1> QED BY <1>1, <1>2, <1>3 DEF Next

\* A bit whose counter stands still is not reported again.
LEMMA SilentStays ==
    ASSUME TypeInv, LoadInv, [Next]_vars, NEW u \in Usarts, NEW bit \in Counters,
           Silent(u, bit), count'[u][bit] = count[u][bit], ~In("Q", u, UpdPlaces)
    PROVE  Silent(u, bit)'
<1> USE DEF TypeInv, ThreadType, Threads, Goto, In
<1>0. /\ fired[u][bit] = count[u][bit] \/ Closing(u, bit)
      /\ \A t \in Threads : at[t] = u /\ pc[t] \in {"upd_load", "upd_store"} => Head(todo[t]) # bit
  BY DEF Silent
<1>a. pc["Q"] \in UpdPlaces => at["Q"] # u
  OBVIOUS
<1>1. fired'[u][bit] = count'[u][bit] \/ Closing(u, bit)'
  <2>1. CASE Closing(u, bit)
    BY <2>1, ClosingServed
  <2>2. CASE ~Closing(u, bit) /\ \E t \in Threads : UpdFired(t)
    <3>1. PICK t \in Threads : UpdFired(t)
      BY <2>2
    <3>2. fired' = [fired EXCEPT ![at[t]][Head(todo[t])] = ld_count[t]] /\ pc[t] = "upd_fired"
      BY <3>1 DEF UpdFired
    <3>3. CASE at[t] = u /\ Head(todo[t]) = bit
      <4>1. ld_count[t] = count[u][bit]
        BY <3>2, <3>3 DEF LoadInv
      <4> QED BY <3>2, <3>3, <4>1 DEF StatType, Counters, StatusBits
    <3>4. CASE ~(at[t] = u /\ Head(todo[t]) = bit)
      BY <1>0, <2>2, <3>2, <3>4 DEF StatType, Counters, StatusBits
    <3> QED BY <3>3, <3>4
  <2>3. CASE ~Closing(u, bit) /\ ~\E t \in Threads : UpdFired(t)
    <3>1. fired' = fired
      <4>1. CASE Apart
        BY <4>1, ApartStep
      <4>2. CASE W1cLoad \/ W1cStore
        BY <4>2 DEF W1cLoad, W1cStore, statVars
      <4>3. CASE Update("Q") \/ Update("S")
        BY <2>3, <4>3 DEF Update, UpdTest, UpdLoad, UpdStore, UpdCount, UpdEnd, statVars
      <4> QED BY <4>1, <4>2, <4>3 DEF Apart
    <3> QED BY <1>0, <2>3, <3>1
  <2> QED BY <2>1, <2>2, <2>3
<1>2. ASSUME NEW t \in Threads, at'[t] = u, pc'[t] \in {"upd_load", "upd_store"}
      PROVE  Head(todo'[t]) # bit
  <2>1. CASE Apart
    BY <1>0, <1>2, <2>1, ApartStep DEF RmwPlaces, SamePlace
  <2>2. CASE W1cLoad \/ W1cStore
    BY <1>0, <1>2, <2>2 DEF W1cLoad, W1cStore
  <2>3. ASSUME NEW x \in Threads, UpdTest(x) PROVE Head(todo'[t]) # bit
    <3>1. CASE Fires(at[x], Head(todo[x]))
      <4>1. at[x] = u => Head(todo[x]) # bit
        <5>1. CASE fired[u][bit] = count[u][bit]
          BY <3>1, <5>1, FiredAreNat, CountsAreNat DEF Fires, CountOf, Counters, StatusBits
        <5>2. CASE Closing(u, bit)
          BY <1>a, <2>3, <5>2 DEF UpdTest, Closing, UpdPlaces
        <5> QED BY <1>0, <5>1, <5>2
      <4> QED BY <1>0, <1>2, <2>3, <3>1, <4>1 DEF UpdTest
    <3>2. CASE ~Fires(at[x], Head(todo[x]))
      BY <1>0, <1>2, <2>3, <3>2 DEF UpdTest
    <3> QED BY <3>1, <3>2
  <2>4. ASSUME NEW x \in Threads, UpdLoad(x) PROVE Head(todo'[t]) # bit
    BY <1>0, <1>2, <2>4 DEF UpdLoad
  <2>5. ASSUME NEW x \in Threads, UpdStore(x) \/ UpdCount(x) PROVE Head(todo'[t]) # bit
    BY <1>0, <1>2, <2>5 DEF UpdStore, UpdCount
  <2>6. ASSUME NEW x \in Threads, UpdFired(x) PROVE Head(todo'[t]) # bit
    BY <1>0, <1>2, <2>6 DEF UpdFired
  <2>7. ASSUME NEW x \in Threads, UpdEnd(x) PROVE Head(todo'[t]) # bit
    <3>1. ret[x] \notin {"upd_load", "upd_store"}
      BY <2>7
    <3> QED BY <1>0, <1>2, <2>7, <3>1 DEF UpdEnd
  <2> QED BY <2>1, <2>2, <2>3, <2>4, <2>5, <2>6, <2>7 DEF Apart, Update
<1> QED BY <1>1, <1>2 DEF Silent

LEMMA AbsentStays ==
    ASSUME TypeInv, LoadInv, [Next]_vars, NEW u \in Usarts, NEW bit \in Counters,
           Absent(u, bit), count'[u][bit] = count[u][bit], ~In("Q", u, UpdPlaces)
    PROVE  Absent(u, bit)'
<1> USE DEF TypeInv, StatType, ThreadType, Threads, Goto, In
<1>0. Silent(u, bit)'
  BY SilentStays DEF Absent
<1> SUFFICES /\ bit \notin status'[u]
             /\ \A t \in Threads :
                   at'[t] = u /\ pc'[t] \in {"upd_store", "w1c_store"} => bit \notin ld'[t]
  BY <1>0 DEF Absent
<1> USE DEF Absent
<1>1. CASE Apart
  BY <1>1, ApartStep DEF RmwPlaces, SamePlace
<1>2. CASE \E t \in Threads : UpdTest(t) \/ UpdCount(t) \/ UpdFired(t) \/ UpdEnd(t)
  BY <1>2 DEF UpdTest, UpdCount, UpdFired, UpdEnd, statVars
<1>3. CASE \E t \in Threads : UpdLoad(t)
  BY <1>3 DEF UpdLoad, statVars
<1>4. CASE \E t \in Threads : UpdStore(t)
  BY <1>4 DEF UpdStore, Silent
<1>5. CASE W1cLoad
  BY <1>5 DEF W1cLoad, statVars
<1>6. CASE W1cStore
  BY <1>6 DEF W1cStore
<1> QED BY <1>1, <1>2, <1>3, <1>4, <1>5, <1>6 DEF Apart, Update

-----------------------------------------------------------------------------
(* What a step of the kernel does to a receiver *)

LEMMA CountsStandStill ==
    ASSUME NoWrap, TypeInv, FlowInv, Moves, count' = count, NEW w \in Usarts
    PROVE  Chan(w)' = Chan(w)
<1>1. ASSUME NEW v \in Usarts, NEW b \in Bytes, Sends(v, b) PROVE FALSE
  <2>1. count'[v]["TBIR"] = count[v]["TBIR"] + 1
    BY <1>1, SendCounts DEF Sends, TypeInv, StatType, Counters
  <2> QED BY <2>1, CountsAreNat DEF Counters
<1>2. ASSUME NEW v \in Usarts, NEW k \in {"RIR", "EIR"}, Takes(v, k) PROVE FALSE
  <2>1. count'[v][k] = count[v][k] + 1
    BY <1>2, TakeCounts DEF Takes, TypeInv, StatType, Counters
  <2> QED BY <2>1, CountsAreNat DEF Counters
<1> QED BY <1>1, <1>2 DEF Moves, Keeps

LEMMA CountMoves ==
    ASSUME TypeInv, Moves, NEW u \in Usarts, NEW k \in {"RIR", "EIR"},
           count'[u][k] # count[u][k]
    PROVE  Takes(u, k)
<1> USE DEF TypeInv, StatType, Counters
<1>1. ASSUME NEW v \in Usarts, NEW b \in Bytes, Sends(v, b) PROVE FALSE
  BY <1>1 DEF Sends
<1>2. ASSUME NEW v \in Usarts, NEW j \in {"RIR", "EIR"}, Takes(v, j) PROVE v = u /\ j = k
  BY <1>2 DEF Takes
<1> QED BY <1>1, <1>2 DEF Moves, Keeps

LEMMA HeadOfFrame ==
    ASSUME TypeInv, NEW u \in Usarts, Injecting(u)
    PROVE  Chan(u) # <<>> /\ Head(Chan(u)) = rxd_frame_byte[u]
<1> DEFINE x == rxd_frame_byte[u]  q == rxd_pending_q[u]  w == wire[u]
<1>1. q \in Seq(Nat) /\ w \in Seq(Nat) /\ x \in Nat /\ InFrame(u) = <<x>>
  BY ByteTypes DEF InFrame
<1>2. <<x>> \in Seq(Nat) /\ Len(<<x>>) = 1 /\ <<x>>[1] = x
  BY <1>1
<1>3. Chan(u) # <<>>
  BY ChanEmpty
<1>4. Chan(u) = <<x>> \o q \o w
  BY <1>1 DEF Chan
<1>7. Chan(u) \in Seq(Nat)
  BY ChanType
<1> HIDE DEF x, q, w
<1>5. <<x>> \o q \in Seq(Nat) /\ (<<x>> \o q)[1] = x /\ Len(<<x>> \o q) = 1 + Len(q)
  BY <1>1, <1>2, ConcatProperties, LenProperties
<1>6. (<<x>> \o q \o w)[1] = x
  BY <1>1, <1>5, ConcatProperties, LenProperties
<1>8. ASSUME NEW s \in Seq(Nat), s # <<>> PROVE Head(s) = s[1]
  BY <1>8
<1> QED BY <1>3, <1>4, <1>6, <1>7, <1>8 DEF x

ReceiverStays(v) ==
    /\ Chan(v)' = Chan(v) /\ rbuf_full'[v] = rbuf_full[v]
    /\ rbuf'[v] = rbuf[v] \/ (Chan(v) # <<>> /\ ~rbuf_full[v])
    /\ count'[v]["RIR"] = count[v]["RIR"] /\ count'[v]["EIR"] = count[v]["EIR"]

ReceiverRefuses(v) ==
    /\ Chan(v) # <<>> /\ Chan(v)' = Tail(Chan(v))
    /\ rbuf_full[v] /\ rbuf_full'[v] /\ rbuf'[v] = rbuf[v]
    /\ count'[v]["RIR"] = count[v]["RIR"] /\ Owed(v, "EIR")'

ReceiverAccepts(v) ==
    /\ Chan(v) # <<>> /\ Chan(v)' = Tail(Chan(v))
    /\ ~rbuf_full[v] /\ rbuf_full'[v] /\ rbuf'[v] = Head(Chan(v))
    /\ count'[v]["EIR"] = count[v]["EIR"] /\ status'[v] = status[v] /\ Owed(v, "RIR")'

LEMMA InjectReceives ==
    ASSUME NoWrap, DeviceInv, InjectInv, OeIrq \/ InjectFull, NEW v \in Usarts,
           CON_INIT \subseteq con[at["S"]], Moves
    PROVE  ReceiverStays(v) \/ ReceiverRefuses(v) \/ ReceiverAccepts(v)
<1> USE DEF DeviceInv
<1> DEFINE u == at["S"]
           k == IF OeIrq THEN "EIR" ELSE "RIR"
<1>1. u \in Usarts /\ Injecting(u) /\ pc["S"] = IF OeIrq THEN "oe_irq" ELSE "inj_full"
  BY DEF TypeInv, ThreadType, Threads, Injecting, In, OeIrq, InjectFull
<1>2. Chan(u) # <<>> /\ Head(Chan(u)) = rxd_frame_byte[u]
  BY <1>1, HeadOfFrame
<1>3. count' = [count EXCEPT ![u][k] = Incr(@)]
  BY DEF OeIrq, InjectFull, Refused
<1>4. Incr(count[u][k]) = count[u][k] + 1 /\ count[u][k] \in Nat
  BY <1>1, <1>2, TakeCounts, CountsAreNat DEF Counters
<1>5. /\ count'[u][k] = count[u][k] + 1
      /\ \A w \in Usarts : \A j \in Counters :
            <<w, j>> # <<u, k>> => count'[w][j] = count[w][j]
  BY <1>1, <1>3, <1>4 DEF TypeInv, StatType, Counters
<1>6. Takes(u, k)
  <2>1. count'[u][k] # count[u][k]
    BY <1>4, <1>5
  <2> QED BY <1>1, <2>1, CountMoves
<1>7. CASE v # u
  <2>1. Chan(v)' = Chan(v)
    BY <1>6, <1>7 DEF Takes
  <2>2. rbuf_full'[v] = rbuf_full[v] /\ rbuf'[v] = rbuf[v]
    BY <1>1, <1>7 DEF OeIrq, InjectFull, TypeInv, CoreType
  <2> QED BY <1>5, <1>7, <2>1, <2>2 DEF ReceiverStays, Counters
<1>8. CASE v = u
  <2>1. Chan(v)' = Tail(Chan(v))
    BY <1>1, <1>6, <1>8 DEF Takes
  <2>2. fired' = fired /\ status' = status /\ fired[v][k] <= count[v][k] /\ fired[v][k] \in Nat
    BY <1>1, <1>8, FiredAreNat DEF OeIrq, InjectFull, CountInv, Counters, StatusBits
  <2>3. /\ pc'["S"] = "upd" /\ at'["S"] = v /\ ret'["S"] = "rx_next"
        /\ todo'["S"] = UpdateOrder
    BY <1>1, <1>8 DEF OeIrq, InjectFull, Refused, EnterUpdate, TypeInv, ThreadType, Threads
  <2>4. k \in asserted'[v]
    BY <1>1, <1>8 DEF OeIrq, InjectFull, AssertIrq, CON_INIT, TypeInv, CoreType
  <2>5. In("S", v, UpdPlaces)' /\ k \in asserted'[v] /\ fired'[v][k] < count'[v][k]
    BY <1>5, <1>8, <2>2, <2>3, <2>4, <1>4 DEF In, UpdPlaces
  <2>6. CASE OeIrq
    <3>1. rbuf_full[u]
      BY <1>1, <2>6 DEF InjectInv, In
    <3>2. rbuf_full' = rbuf_full /\ rbuf' = rbuf
      BY <2>6 DEF OeIrq
    <3>3. Owed(v, "EIR")'
      BY <2>3, <2>5, <2>6 DEF Owed, Closing, In, Steps
    <3> QED BY <1>2, <1>5, <1>8, <2>1, <2>6, <3>1, <3>2, <3>3 DEF ReceiverRefuses, Counters
  <2>7. CASE InjectFull /\ ~OeIrq
    <3>1. ~rbuf_full[u] /\ rbuf[u] = rxd_frame_byte[u]
      BY <1>1, <2>7 DEF InjectInv, In
    <3>2. rbuf_full'[v] = TRUE /\ rbuf' = rbuf
      BY <1>1, <1>8, <2>7 DEF InjectFull, TypeInv, CoreType
    <3>3. Owed(v, "RIR")'
      BY <2>3, <2>5, <2>7 DEF Owed, Closing, In, Steps
    <3> QED BY <1>2, <1>5, <1>8, <2>1, <2>2, <2>7, <3>1, <3>2, <3>3 DEF ReceiverAccepts, Counters
  <2> QED BY <2>6, <2>7
<1> QED BY <1>7, <1>8

LEMMA KernelReceives ==
    ASSUME NoWrap, DeviceInv, InjectInv, Kernel, NEW v \in Usarts,
           \A u \in Usarts : CON_INIT \subseteq con[u]
    PROVE  ReceiverStays(v) \/ ReceiverRefuses(v) \/ ReceiverAccepts(v)
<1> USE DEF DeviceInv
<1>0. at["S"] \in Usarts
  BY DEF TypeInv, ThreadType, Threads
<1>1. Moves
  BY EveryStepMoves DEF Next
<1>2. CASE OeIrq \/ InjectFull
  BY <1>0, <1>1, <1>2, InjectReceives
<1>3. CASE InjectDropped
  BY <1>0, <1>3 DEF InjectDropped, Receives, CON_INIT
<1>4. ASSUME UNCHANGED <<rbuf_full, count>>, rbuf'[v] = rbuf[v] \/ (Injecting(v) /\ ~rbuf_full[v])
      PROVE  ReceiverStays(v)
  <2>1. Chan(v)' = Chan(v)
    BY <1>1, <1>4, CountsStandStill
  <2>2. Injecting(v) => Chan(v) # <<>>
    BY ChanEmpty
  <2> QED BY <1>4, <2>1, <2>2 DEF ReceiverStays
<1>5. CASE InjectByte
  <2>1. UNCHANGED <<rbuf_full, count>>
    BY <1>5 DEF InjectByte, statVars
  <2>2. rbuf'[v] = rbuf[v] \/ (Injecting(v) /\ ~rbuf_full[v])
    BY <1>5, <1>0 DEF InjectByte, Injecting, In, TypeInv, CoreType
  <2> QED BY <1>4, <2>1, <2>2
<1>6. CASE RxIdle \/ RxStart \/ InjectOverrun \/ OeStore \/ TxdTest \/ TxdLoad
           \/ Update("S") \/ DeltaCycle \/ AdvanceTime
  <2>1. UNCHANGED <<rbuf_full, count, rbuf>>
    BY <1>6 DEF RxIdle, RxStart, InjectOverrun, OeStore, TxdTest, TxdLoad, LoadTSR, Update,
       UpdTest, UpdLoad, UpdStore, UpdCount, UpdFired, UpdEnd, DeltaCycle, AdvanceTime, coreVars, statVars
  <2> QED BY <1>4, <2>1
<1>7. ASSUME NEW u \in Usarts, RxDone(u) \/ TxDone(u) \/ TirAuto(u) \/ IrqDeassert(u)
                               \/ IrqMethod(u) \/ IrqPulse(u) \/ Bridge(u)
      PROVE  ReceiverStays(v)
  <2>1. UNCHANGED <<rbuf_full, count, rbuf>>
    BY <1>7 DEF RxDone, TxDone, TirAuto, IrqDeassert, IrqMethod, IrqPulse, Bridge, Deliver,
       coreVars, statVars
  <2> QED BY <1>4, <2>1
<1> QED BY <1>2, <1>3, <1>5, <1>6, <1>7 DEF Kernel, Process

-----------------------------------------------------------------------------
(* What becomes of a report that is owed *)

Calm(u) == ~In("Q", u, {"upd_load", "upd_store", "upd_count", "upd_fired", "w1c_load",
                        "w1c_store"})

Heads(bit) == IF bit = "RIR" THEN {"TBIR", "RIR"} ELSE {"TBIR", "RIR", "EIR"}

LEMMA StepsOrder ==
    ASSUME NEW td \in Todos, NEW bit \in {"RIR", "EIR"}, td \in Steps(bit)
    PROVE  /\ td # <<>> /\ Head(td) \in Heads(bit) /\ Head(td) # "TIR"
           /\ Head(td) # bit => Tail(td) \in Steps(bit)
<1> USE DEF Steps, Heads, UpdateOrder
<1>1. CASE td = <<"TBIR", "RIR", "EIR">>
  BY <1>1
<1>2. CASE td = <<"RIR", "EIR">>
  BY <1>2
<1>3. CASE td = <<"EIR">>
  BY <1>3
<1> QED BY <1>1, <1>2, <1>3

LEMMA OwedServed ==
    ASSUME TypeInv, Kernel, NEW u \in Usarts, NEW bit \in {"RIR", "EIR"}, Owed(u, bit)
    PROVE  \/ /\ Owed(u, bit)'
              /\ \/ status'[u] = status[u]
                 \/ pc["S"] = "upd_store" /\ Head(todo["S"]) # bit
           \/ bit \in status'[u] /\ Closing(u, bit)' /\ pc'["S"] = "upd_count"
<1> USE DEF Owed, Closing, In
<1> DEFINE b == Head(todo["S"])
<1>1. /\ pc["S"] \in UpdPlaces /\ at["S"] = u /\ todo["S"] \in Steps(bit)
      /\ ret["S"] = "rx_next" /\ bit \in asserted[u] /\ fired[u][bit] < count[u][bit]
      /\ todo["S"] \in Todos /\ (b = bit => pc["S"] \notin {"upd_count", "upd_fired"})
  BY DEF TypeInv, ThreadType, Threads
<1>2. /\ todo["S"] # <<>> /\ b \in Heads(bit) /\ b \in StatusBits /\ b # "TIR"
      /\ b # bit => Tail(todo["S"]) \in Steps(bit)
  BY <1>1, StepsOrder, TodosFacts
<1>3. UpdTest("S") \/ UpdLoad("S") \/ UpdStore("S") \/ UpdCount("S") \/ UpdFired("S")
  <2>1. ~UpdEnd("S")
    BY <1>2 DEF UpdEnd
  <2> QED BY <1>1, <2>1, UpdateFirst DEF Update
<1>4. UNCHANGED <<asserted, count>> /\ at' = at /\ ret' = ret
  BY <1>3 DEF UpdTest, UpdLoad, UpdStore, UpdCount, UpdFired, coreVars, statVars
<1>5. CASE UpdTest("S")
  <2>1. status' = status /\ fired' = fired /\ pc["S"] = "upd"
    BY <1>5 DEF UpdTest, statVars
  <2>2. CASE Fires(u, b)
    <3>1. pc'["S"] = "upd_load" /\ todo'["S"] = todo["S"]
      BY <1>1, <1>5, <2>2 DEF UpdTest, Goto, TypeInv, ThreadType, Threads
    <3> QED BY <1>1, <1>4, <2>1, <3>1 DEF UpdPlaces
  <2>3. CASE ~Fires(u, b)
    <3>1. b # bit
      <4>1. CASE b = bit
        <5>1. CountOf(u, b) = count[u][bit]
          BY <4>1 DEF CountOf
        <5> QED BY <1>1, <2>3, <4>1, <5>1 DEF Fires
      <4> QED BY <4>1
    <3>2. pc'["S"] = "upd" /\ todo'["S"] = Tail(todo["S"])
      BY <1>1, <1>5, <2>3 DEF UpdTest, TypeInv, ThreadType, Threads
    <3> QED BY <1>1, <1>2, <1>4, <2>1, <3>1, <3>2 DEF UpdPlaces
  <2> QED BY <2>2, <2>3
<1>6. CASE UpdLoad("S")
  <2>1. /\ status' = status /\ fired' = fired /\ pc'["S"] = "upd_store"
        /\ todo'["S"] = todo["S"]
    BY <1>6 DEF UpdLoad, statVars, Goto, TypeInv, ThreadType, Threads
  <2> QED BY <1>1, <1>4, <2>1 DEF UpdPlaces
<1>7. CASE UpdStore("S")
  <2>1. /\ pc["S"] = "upd_store" /\ pc'["S"] = "upd_count" /\ todo'["S"] = todo["S"]
        /\ status'[u] = ld["S"] \cup {b} /\ fired' = fired
    BY <1>1, <1>7 DEF UpdStore, Goto, TypeInv, ThreadType, Threads, StatType
  <2>2. CASE b = bit
    BY <1>1, <1>4, <2>1, <2>2
  <2>3. CASE b # bit
    BY <1>1, <1>4, <2>1, <2>3 DEF UpdPlaces
  <2> QED BY <2>2, <2>3
<1>8. CASE UpdCount("S")
  <2>1. /\ status' = status /\ fired' = fired /\ pc'["S"] = "upd_fired"
        /\ todo'["S"] = todo["S"] /\ pc["S"] = "upd_count"
    BY <1>8 DEF UpdCount, statVars, Goto, TypeInv, ThreadType, Threads
  <2> QED BY <1>1, <1>4, <2>1 DEF UpdPlaces
<1>9. CASE UpdFired("S")
  <2>1. /\ status' = status /\ pc'["S"] = "upd" /\ todo'["S"] = Tail(todo["S"])
        /\ pc["S"] = "upd_fired" /\ fired' = [fired EXCEPT ![u][b] = ld_count["S"]]
    BY <1>1, <1>9 DEF UpdFired, Goto, TypeInv, ThreadType, Threads
  <2>2. b # bit
    BY <1>1, <2>1
  <2>3. fired'[u][bit] = fired[u][bit]
    BY <2>1, <2>2 DEF TypeInv, StatType, StatusBits
  <2> QED BY <1>1, <1>2, <1>4, <2>1, <2>2, <2>3 DEF UpdPlaces
<1> QED BY <1>3, <1>5, <1>6, <1>7, <1>8, <1>9

LEMMA OwedMoves ==
    ASSUME TypeInv, Kernel, NEW u \in Usarts, NEW bit \in {"RIR", "EIR"}, Owed(u, bit), Calm(u)
    PROVE  \/ /\ Owed(u, bit)'
              /\ \/ status'[u] = status[u]
                 \/ pc["S"] = "upd_store" /\ Head(todo["S"]) # bit
           \/ Sticky(u, bit)' /\ Silent(u, bit)'
<1>1. pc'["Q"] = pc["Q"] /\ at'["Q"] = at["Q"]
  BY KernelLeavesQ
<1>2. CASE bit \in status'[u] /\ Closing(u, bit)' /\ pc'["S"] = "upd_count"
  BY <1>1, <1>2 DEF Sticky, Silent, Calm, In, Threads
<1> QED BY <1>2, OwedServed

\* The bus thread's steps, and the program's
QStep == (\E u \in Usarts : Driver(u)) \/ Access \/ Update("Q")

LEMMA BusKeepsReceived ==
    ASSUME TypeInv, QStep, NEW u \in Usarts, NEW k \in {"RIR", "EIR"}
    PROVE  count'[u][k] = count[u][k]
<1>1. CASE \E v \in Usarts : \E b \in Bytes : WriteTbuf(v, b)
  BY <1>1 DEF WriteTbuf, TypeInv, StatType, Counters
<1>2. CASE ~\E v \in Usarts : \E b \in Bytes : WriteTbuf(v, b)
  BY <1>2 DEF QStep, Driver, Access, RbufGet, WriteCon, OtherAccess, W1C, TbufWrite, TbufTest,
     TbufLoad, RbufClearFull, RbufClearRaw, W1cLoad, W1cStore, Update, UpdTest, UpdLoad,
     UpdStore, UpdCount, UpdFired, UpdEnd, statVars
<1> QED BY <1>1, <1>2

\* What the bus thread does to a counter of reports
LEMMA BusReports ==
    ASSUME TypeInv, LoadInv, QStep, NEW u \in Usarts, NEW b \in Counters
    PROVE  \/ fired'[u][b] = fired[u][b]
           \/ In("Q", u, {"upd_fired"}) /\ count' = count /\ fired'[u][b] = count[u][b]
<1>1. CASE UpdFired("Q")
  <2> DEFINE v == at["Q"]  h == Head(todo["Q"])
  <2>1. /\ pc["Q"] = "upd_fired" /\ count' = count /\ v \in Usarts
        /\ fired' = [fired EXCEPT ![v][h] = ld_count["Q"]]
    BY <1>1 DEF UpdFired, TypeInv, ThreadType, Threads
  <2>2. CASE u = v /\ b = h
    <3>1. ld_count["Q"] = count[u][b]
      BY <2>1, <2>2 DEF LoadInv, Threads
    <3> QED BY <2>1, <2>2, <3>1 DEF In, Counters, StatusBits, TypeInv, StatType
  <2>3. CASE ~(u = v /\ b = h)
    BY <2>1, <2>3 DEF TypeInv, StatType, Counters, StatusBits
  <2> QED BY <2>2, <2>3
<1>2. CASE ~UpdFired("Q")
  BY <1>2 DEF QStep, Driver, Access, WriteTbuf, RbufGet, WriteCon, OtherAccess, W1C, TbufWrite,
     TbufTest, TbufLoad, RbufClearFull, RbufClearRaw, W1cLoad, W1cStore, Update, UpdTest,
     UpdLoad, UpdStore, UpdCount, UpdEnd, statVars
<1> QED BY <1>1, <1>2

LEMMA OwedStays ==
    ASSUME TypeInv, LoadInv, QStep, NEW u \in Usarts, asserted[u] \subseteq asserted'[u],
           NEW bit \in {"RIR", "EIR"}, Owed(u, bit)
    PROVE  Owed(u, bit)' \/ (fired'[u][bit] = count'[u][bit] /\ ~Calm(u))
<1>1. /\ pc'["S"] = pc["S"] /\ at'["S"] = at["S"] /\ ret'["S"] = ret["S"]
      /\ todo'["S"] = todo["S"]
  BY BusLeavesLocalsOfS DEF QStep
<1>2. bit \in asserted'[u] /\ count'[u][bit] = count[u][bit]
  BY BusKeepsReceived DEF Owed
<1>3. CASE fired'[u][bit] = fired[u][bit]
  BY <1>1, <1>2, <1>3 DEF Owed, Closing, In
<1>4. CASE fired'[u][bit] # fired[u][bit]
  BY <1>2, <1>4, BusReports DEF Counters, Calm, In
<1> QED BY <1>3, <1>4

\* A report that is owed or made stays so, unless the program clears the bit.
LEMMA ToldStays ==
    ASSUME TypeInv, LoadInv, [Next]_vars, Prompt, NEW u \in Usarts, NEW bit \in {"RIR", "EIR"},
           Told(u, bit), Owed(u, bit) => Calm(u),
           ~(W1cStore /\ at["Q"] = u /\ bit \in arg)
    PROVE  Told(u, bit)'
<1>1. CASE Sticky(u, bit)
  BY <1>1, StickyStays DEF Told
<1>2. CASE Owed(u, bit)
  <2>1. CASE Kernel
    BY <1>2, <2>1, OwedMoves DEF Told
  <2>2. CASE QStep /\ ~Kernel
    BY <1>2, <2>2, OwedStays DEF Told, Prompt
  <2>3. CASE UNCHANGED vars
    BY <1>2, <2>3 DEF Owed, Closing, In, Told, vars, coreVars, statVars, thVars
  <2> QED BY <2>1, <2>2, <2>3 DEF Next, QStep
<1> QED BY <1>1, <1>2 DEF Told

-----------------------------------------------------------------------------
(* Where the threads are *)

Stages4(i) ==
    LET ins == Prog(4)[i]
        b == ByteOf(4, i + 1)
    IN  \/ ins.op = "put" /\ Stage(4, i) = "clear" /\ Stage(4, i + 1) = "clear"
        \/ /\ ins.op = "send" /\ ins.usart = "A" /\ ins.byte = b
           /\ Stage(4, i) = "clear" /\ Stage(4, i + 1) = "flying"
        \/ /\ ins.op = "wait" /\ ins.usart = "B" /\ ins.bit = "RIR" /\ ByteOf(4, i) = b
           /\ Stage(4, i) = "flying" /\ Stage(4, i + 1) = "seen"
        \/ /\ ins.op = "read" /\ ins.usart = "B" /\ ins.byte = ByteOf(4, i)
           /\ Stage(4, i) = "seen" /\ Stage(4, i + 1) = "taken"
        \/ /\ ins.op = "clr" /\ ins.usart = "B" /\ ins.bits = {"RIR"}
           /\ Stage(4, i) = "taken" /\ Stage(4, i + 1) = "clearing"
        \/ /\ ins.op = "clr" /\ ins.usart = "A" /\ ins.bits = {"TBIR"}
           /\ Stage(4, i) = "clearing" /\ Stage(4, i + 1) = "clear"

LEMMA StagesOf4 == ASSUME NEW i \in 1..25 PROVE Stages4(i)
<1> USE Prog4 DEF Stages4, Stage, ByteOf, PutStr, Clr, Wait, Read, Send
<1>1. CASE i \in {1, 7, 13, 19, 25}
  BY <1>1
<1>2. CASE i \in {2, 8, 14, 20}
  BY <1>2
<1>3. CASE i \in {3, 9, 15, 21}
  BY <1>3
<1>4. CASE i \in {4, 10, 16, 22}
  BY <1>4
<1>5. CASE i \in {5, 11, 17, 23}
  BY <1>5
<1>6. CASE i \in {6, 12, 18, 24}
  BY <1>6
<1> QED BY <1>1, <1>2, <1>3, <1>4, <1>5, <1>6

\* The kernel runs in the tests only, while the program waits for it.
LEMMA KernelRuns ==
    ASSUME TypeInv, IInv, Kernel
    PROVE  /\ ~Rests(test, Pos) /\ test \in 1..5
           /\ \A u \in Usarts : CON_INIT \subseteq con[u]
<1>1. ~Rests(test, Pos)
  BY QuietKernel DEF IInv, RestInv
<1>2. test \in 1..5
  BY <1>1 DEF Rests, IInv, ProgType
<1> QED BY <1>1, <1>2 DEF IInv, ConInv

LEMMA PosInProg ==
    ASSUME ProgType, Pos > 1
    PROVE  Pos - 1 \in DOMAIN Prog(test) /\ Neighbours(test, Pos - 1) /\ test \in 0..5 /\ Pos \in Nat
<1>1. PICK S : Prog(test) \in Seq(S)
  BY ProgIsSeq DEF ProgType
<1>2. Pos \in 1..Len(Prog(test)) + 1 /\ Len(Prog(test)) \in Nat
  BY <1>1 DEF ProgType
<1>3. Pos - 1 \in 1..Len(Prog(test))
  BY <1>2
<1>4. Pos - 1 \in DOMAIN Prog(test)
  BY <1>1, <1>3
<1>5. test # 6
  BY <1>3, Lengths
<1> QED BY <1>2, <1>4, <1>5, ProgShape DEF ProgType

\* What the bus access in progress can be
LEMMA BusPlaces ==
    ASSUME IInv, pc["Q"] # "idle"
    PROVE  LET ins == Prog(test)[Pos - 1] IN
           /\ Pos > 1 /\ Doing(ins) /\ ins.op \in {"con", "send", "clr", "read", "drain"}
           /\ at["Q"] = ins.usart /\ ins.usart \in Usarts
           /\ Neighbours(test, Pos - 1) /\ Pos - 1 \in DOMAIN Prog(test) /\ Pos \in Nat
           /\ ins.op = "send" => ~Rests(test, Pos)
           /\ ins.op \in {"read", "drain"} => ins.usart = To(test)
           /\ test = 4 => Stages4(Pos - 1)
<1>1. Pos > 1 /\ Doing(Prog(test)[Pos - 1])
  BY DEF IInv, BusInv
<1>2. Pos - 1 \in DOMAIN Prog(test) /\ Neighbours(test, Pos - 1) /\ Pos \in Nat
  BY <1>1, PosInProg DEF IInv
<1>3. Pos - 1 + 1 = Pos
  BY <1>2
<1>4. test = 4 => Stages4(Pos - 1)
  <2>1. CASE test = 4
    <3>1. Pos - 1 \in 1..25
      BY <1>2, <2>1, Prog4
    <3> QED BY <3>1, StagesOf4
  <2> QED BY <2>1
<1>5. Prog(test)[Pos - 1].op = "drain" => test = 3
  BY <1>2 DEF Neighbours
<1> QED BY <1>1, <1>2, <1>3, <1>4, <1>5 DEF Neighbours, Doing, To

\* No byte is under way to a receiver that the program reads.
LEMMA ReadsStill ==
    ASSUME DeviceInv, IInv, pc["Q"] \in {"rbuf_full", "rbuf_raw"}
    PROVE  /\ at["Q"] = To(test) /\ Chan(at["Q"]) = <<>> /\ ~Injecting(at["Q"])
<1> DEFINE ins == Prog(test)[Pos - 1]
<1>1. /\ Pos \in Nat /\ Neighbours(test, Pos - 1)
      /\ at["Q"] = ins.usart /\ Doing(ins) /\ ins.op \in {"con", "send", "clr", "read", "drain"}
      /\ test = 4 => Stages4(Pos - 1)
      /\ ins.op \in {"read", "drain"} => ins.usart = To(test)
  BY BusPlaces
<1>2. ins.op \in {"read", "drain"} /\ at["Q"] = To(test)
  BY <1>1 DEF Doing, UpdPlaces, StartPlaces
<1>3. at["Q"] \in Usarts
  BY DEF DeviceInv, TypeInv, ThreadType, Threads
<1>4. Chan(at["Q"]) = <<>>
  <2>1. CASE Rests(test, Pos)
    <3>1. Quiet
      BY <2>1 DEF IInv, RestInv
    <3> QED BY <1>3, <3>1, QuietRx DEF DeviceInv, RxStill
  <2>2. CASE ~Rests(test, Pos)
    <3>1. Pos - 1 + 1 = Pos
      BY <1>1
    <3>2. test = 4
      BY <1>1, <1>2, <2>2, <3>1 DEF Neighbours
    <3>3. Stage(4, Pos) = "taken"
      BY <1>1, <1>2, <3>1, <3>2 DEF Stages4
    <3>4. StreamAt(Stage(4, Pos), ByteOf(4, Pos))
      BY <3>2 DEF IInv, StageInv, StageAt
    <3> QED BY <1>2, <3>2, <3>3, <3>4 DEF StreamAt, Taken, To
  <2> QED BY <2>1, <2>2
<1> QED BY <1>2, <1>3, <1>4, ChanEmpty DEF DeviceInv

LEMMA BusOrIdle ==
    ASSUME TypeInv, Access \/ Update("Q") PROVE pc["Q"] # "idle"
  BY DEF Access, TbufWrite, TbufTest, TbufLoad, RbufClearFull, RbufClearRaw, W1cLoad, W1cStore,
     Update, UpdTest, UpdLoad, UpdStore, UpdCount, UpdFired, UpdEnd

-----------------------------------------------------------------------------
(* BusInv *)

LEMMA TailsNotTir ==
    ASSUME NEW td \in Todos, td # <<>>
    PROVE  Tail(td) # <<"TIR">>
<1> USE DEF Todos
<1>1. CASE td = <<"EIR">>
  BY <1>1
<1>2. CASE td = <<"RIR", "EIR">>
  BY <1>2
<1>3. CASE td = <<"TBIR", "RIR", "EIR">>
  BY <1>3
<1>4. CASE td = <<"TIR">>
  BY <1>4
<1> QED BY <1>1, <1>2, <1>3, <1>4

\* What a step of the bus thread does to its place
LEMMA BusPlaceMoves ==
    ASSUME TypeInv, Access \/ Update("Q"), todo["Q"] # <<"TIR">>
    PROVE  /\ at'["Q"] = at["Q"] /\ todo'["Q"] # <<"TIR">>
           /\ pc["Q"] \in UpdPlaces => pc'["Q"] \in UpdPlaces \cup {"idle"}
           /\ pc["Q"] \in StartPlaces => pc'["Q"] \in UpdPlaces \cup StartPlaces
           /\ pc["Q"] = "w1c_load" => pc'["Q"] = "w1c_store" /\ arg' = arg
           /\ pc["Q"] = "w1c_store" => pc'["Q"] = "idle"
           /\ pc["Q"] = "rbuf_full" => pc'["Q"] = "rbuf_raw"
           /\ pc["Q"] = "rbuf_raw" => pc'["Q"] = "idle"
<1> USE DEF TypeInv, ThreadType, Threads, Goto, EnterUpdate, UpdPlaces, StartPlaces
<1>0. UpdateOrder # <<"TIR">> /\ <<>> # <<"TIR">>
  BY DEF UpdateOrder
<1>1. CASE UpdTest("Q")
  <2>1. todo["Q"] # <<>> /\ Tail(todo["Q"]) # <<"TIR">>
    BY <1>1, TailsNotTir DEF UpdTest
  <2>2. CASE Fires(at["Q"], Head(todo["Q"]))
    BY <1>1, <2>2 DEF UpdTest
  <2>3. CASE ~Fires(at["Q"], Head(todo["Q"]))
    BY <1>1, <2>1, <2>3 DEF UpdTest
  <2> QED BY <2>2, <2>3
<1>2. CASE UpdLoad("Q") \/ UpdStore("Q") \/ UpdCount("Q") \/ UpdEnd("Q")
  BY <1>2 DEF UpdLoad, UpdStore, UpdCount, UpdEnd
<1>3. CASE UpdFired("Q")
  <2>1. todo["Q"] # <<>> /\ Tail(todo["Q"]) # <<"TIR">>
    BY <1>3, TailsNotTir DEF UpdFired, Locals, LocalsOf
  <2> QED BY <1>3, <2>1 DEF UpdFired
<1>4. CASE TbufWrite
  <2>1. CASE tbuf_full[at["Q"]]
    BY <1>0, <1>4, <2>1 DEF TbufWrite
  <2>2. CASE ~tbuf_full[at["Q"]]
    BY <1>4, <2>2 DEF TbufWrite
  <2> QED BY <2>1, <2>2
<1>5. CASE TbufTest
  <2>1. CASE StartsAtOnce(at["Q"])
    BY <1>5, <2>1 DEF TbufTest
  <2>2. CASE ~StartsAtOnce(at["Q"])
    BY <1>0, <1>5, <2>2 DEF TbufTest
  <2> QED BY <2>1, <2>2
<1>6. CASE TbufLoad
  BY <1>0, <1>6 DEF TbufLoad
<1>7. CASE RbufClearFull \/ RbufClearRaw \/ W1cLoad \/ W1cStore
  BY <1>7 DEF RbufClearFull, RbufClearRaw, W1cLoad, W1cStore, Locals, LocalsOf
<1> QED BY <1>1, <1>2, <1>3, <1>4, <1>5, <1>6, <1>7 DEF Access, Update

LEMMA KernelBus ==
    ASSUME TypeInv, IInv, Kernel, UNCHANGED progVars PROVE BusInv'
<1>1. Pos' = Pos /\ test' = test
  BY PosStays DEF progVars
<1>2. /\ pc'["Q"] = pc["Q"] /\ at'["Q"] = at["Q"] /\ todo'["Q"] = todo["Q"] /\ arg' = arg
  BY KernelLeavesQ
<1> QED BY <1>1, <1>2 DEF IInv, BusInv, Doing

LEMMA AccessBus ==
    ASSUME TypeInv, IInv, Access \/ Update("Q"), UNCHANGED progVars PROVE BusInv'
<1>1. Pos' = Pos /\ test' = test
  BY PosStays DEF progVars
<1>2. pc["Q"] # "idle" /\ todo["Q"] # <<"TIR">>
  BY BusOrIdle DEF IInv, BusInv
<1> DEFINE ins == Prog(test)[Pos - 1]
<1>3. Pos > 1 /\ Doing(ins)
  BY <1>2, BusPlaces
<1>4. pc'["Q"] # "idle" => Doing(ins)'
  <2>1. ins' = ins
    BY <1>1
  <2> HIDE DEF ins
  <2>2. /\ at'["Q"] = ins.usart
        /\ \/ ins.op = "con" /\ pc["Q"] \in UpdPlaces
           \/ ins.op = "send" /\ pc["Q"] \in UpdPlaces \cup StartPlaces
           \/ ins.op = "clr" /\ pc["Q"] \in {"w1c_load", "w1c_store"} /\ arg = ins.bits
           \/ ins.op \in {"read", "drain"} /\ pc["Q"] \in {"rbuf_full", "rbuf_raw"}
    BY <1>2, <1>3, BusPlaceMoves DEF Doing
  <2> QED BY <1>2, <2>1, <2>2, BusPlaceMoves DEF Doing
<1> QED BY <1>1, <1>2, <1>3, <1>4, BusPlaceMoves DEF BusInv

\* Where the program is after an instruction
LEMMA StraightAt ==
    ASSUME ProgType, Straight
    PROVE  /\ Pos' = Pos + 1 /\ test' = test /\ Pos \in Nat /\ Pos >= 1 /\ test \in 0..5
           /\ Ins = Prog(test)[Pos] /\ Ins = Prog(test')[Pos' - 1] /\ Pos \in DOMAIN Prog(test)
           /\ Pos \in 1..Len(Prog(test)) /\ Neighbours(test, Pos) /\ Idle("Q")
           /\ Ins.op # "put" => Ins.usart \in Usarts
           /\ test = 4 => Stages4(Pos)
<1>1. /\ Pos' = Pos + 1 /\ test' = test /\ todo_main # <<>> /\ Idle("Q")
  BY StraightMoves
<1>2. /\ test \in 0..5 /\ Pos \in DOMAIN Prog(test) /\ Pos \in 1..Len(Prog(test))
      /\ Ins = Prog(test)[Pos] /\ Neighbours(test, Pos)
  BY <1>1, UnderWay
<1>3. Pos \in Nat /\ Pos >= 1 /\ Pos + 1 - 1 = Pos
  BY DEF ProgType
<1>4. test = 4 => Stages4(Pos)
  BY <1>2, Prog4, StagesOf4
<1> QED BY <1>1, <1>2, <1>3, <1>4 DEF Neighbours

\* Instructions that touch no USART
LEMMA PassiveStep ==
    ASSUME DoPutStr \/ DoWait \/ TimeOut \/ NextTest
    PROVE  /\ UNCHANGED vars
           /\ UNCHANGED <<coreVars, statVars, rxVars, kernVars, thVars>>
<1>1. UNCHANGED vars
  BY DEF DoPutStr, DoWait, TimeOut, NextTest
<1> QED BY <1>1 DEF vars

LEMMA MainBus ==
    ASSUME TypeInv, IInv, Main PROVE BusInv'
<1> USE DEF BusInv, TypeInv, ThreadType, Threads, Start, EnterUpdate, Locals, LocalsOf
<1>1. CASE TimeOut \/ NextTest
  <2>1. pc'["Q"] = "idle" /\ todo' = todo
    BY <1>1, PassiveStep, TimeOutMoves, NextTestMoves DEF IInv, Idle, thVars
  <2> QED BY <2>1 DEF IInv
<1>2. CASE Straight
  <2> DEFINE ins == Ins
  <2>1. /\ Pos' = Pos + 1 /\ test' = test /\ Pos \in Nat /\ Pos >= 1
        /\ ins = Prog(test')[Pos' - 1] /\ Idle("Q")
        /\ ins.op # "put" => ins.usart \in Usarts
    BY <1>2, StraightAt DEF IInv
  <2>2. todo["Q"] # <<"TIR">>
    BY DEF IInv
  <2>3. ASSUME NEW i, i = ins PROVE pc'["Q"] # "idle" => Doing(i)'
    <3>1. CASE DoPutStr \/ DoWait
      BY <2>1, <3>1, PassiveStep DEF Idle, thVars
    <3>2. CASE DoCon
      BY <2>1, <2>3, <3>2 DEF DoCon, WriteCon, Doing, At, UpdPlaces
    <3>3. CASE DoSend
      BY <2>1, <2>3, <3>3 DEF DoSend, WriteTbuf, Doing, At, StartPlaces
    <3>4. CASE DoClr
      BY <2>1, <2>3, <3>4 DEF DoClr, W1C, Doing, At
    <3>5. CASE DoRead \/ DoDrain
      BY <2>1, <2>3, <3>5 DEF DoRead, DoDrain, RbufGet, Doing, At
    <3> QED BY <1>2, <3>1, <3>2, <3>3, <3>4, <3>5 DEF Straight
  <2>4. todo'["Q"] # <<"TIR">>
    <3>1. todo'["Q"] \in {todo["Q"], UpdateOrder}
      BY <1>2, PassiveStep DEF Straight, DoCon, DoSend, DoClr, DoRead, DoDrain, WriteCon,
         WriteTbuf, W1C, RbufGet, thVars
    <3> QED BY <2>2, <3>1 DEF UpdateOrder
  <2>5. PICK i : i = ins
    OBVIOUS
  <2>6. Prog(test')[Pos' - 1] = i
    BY <2>1, <2>5
  <2>7. Pos' > 1
    BY <2>1
  <2> QED BY <2>3, <2>4, <2>5, <2>6, <2>7
<1> QED BY <1>1, <1>2 DEF Main, Straight

-----------------------------------------------------------------------------
(* RestInv *)

LEMMA NoExpiryPort ==
    ASSUME TypeInv, NEW u \in Usarts, asserted[u] = {}, \E x \in Stale(u) : Expire(u, x)
    PROVE  asserted' = asserted /\ written' = written
<1>1. Expire(u, {})
  BY DEF Stale
<1> QED BY <1>1 DEF Expire, TypeInv, CoreType, KernType

\* What leaves the kernel alone
LEMMA AccessKernel ==
    ASSUME TypeInv, StartInv, Access \/ Update("Q"), ~TbufLoad
    PROVE  /\ UNCHANGED <<ready, timed, written, level, wire, tsr_busy, tir_fire_count, asserted>>
           /\ delta' = delta \/ (UpdEnd("Q") /\ new_irq["Q"] /\ delta' = delta \cup {<<"Irq", at["Q"]>>})
<1> USE DEF kernVars, rxVars, coreVars
<1>1. CASE TbufWrite
  <2>1. asserted' = asserted /\ written' = written
    BY <1>1, NoExpiryPort DEF StartInv, TbufWrite, TypeInv, ThreadType, Threads
  <2> QED BY <1>1, <2>1 DEF TbufWrite
<1>2. CASE TbufTest \/ RbufClearFull \/ RbufClearRaw \/ W1cLoad \/ W1cStore
  BY <1>2 DEF TbufTest, RbufClearFull, RbufClearRaw, W1cLoad, W1cStore
<1>3. CASE Update("Q")
  BY <1>3 DEF Update, UpdTest, UpdLoad, UpdStore, UpdCount, UpdFired, UpdEnd
<1> QED BY <1>1, <1>2, <1>3 DEF Access

LEMMA AccessKeepsPulses ==
    ASSUME TypeInv, StartInv, Access \/ Update("Q")
    PROVE  \A u \in Usarts : asserted[u] \subseteq asserted'[u]
<1>1. CASE TbufLoad
  BY <1>1 DEF TbufLoad, LoadTSR, TypeInv, CoreType
<1>2. CASE ~TbufLoad
  BY <1>2, AccessKernel
<1> QED BY <1>1, <1>2

\* Where the program writes CON, the devices rest and no pulse is high.
LEMMA QuietPulses ==
    ASSUME Quiet, PulseInv, NEW u \in Usarts PROVE asserted[u] = {}
  BY DEF Quiet, PulseInv

LEMMA MainKernel ==
    ASSUME TypeInv, IInv, Main
    PROVE  /\ UNCHANGED <<ready, delta, timed, written, level, tsr_busy, tir_fire_count, asserted,
                          rbuf_full, rbuf, status, fired, tbuf_full, rxd_busy, rxd_pending_q,
                          rxd_frame_byte>>
           /\ UNCHANGED wire \/ DoSend
           /\ UNCHANGED count \/ DoSend
           /\ UNCHANGED con \/ DoCon
           /\ pc'["S"] = pc["S"] /\ at'["S"] = at["S"] /\ ret'["S"] = ret["S"]
           /\ todo'["S"] = todo["S"] /\ ld'["S"] = ld["S"] /\ ld_count'["S"] = ld_count["S"]
           /\ ld'["Q"] = ld["Q"] /\ new_irq'["Q"] = new_irq["Q"] /\ Idle("Q")
<1> USE DEF kernVars, rxVars, coreVars, statVars, thVars, TypeInv, ThreadType, Threads, Start,
            EnterUpdate, Idle
<1>1. CASE DoPutStr \/ DoWait \/ TimeOut \/ NextTest
  <2>1. Idle("Q")
    BY <1>1 DEF DoPutStr, DoWait, TimeOut, NextTest, At
  <2> QED BY <1>1, <2>1, PassiveStep
<1>2. CASE DoCon
  <2>1. Ins.usart \in Usarts
    BY <1>2, StraightAt DEF IInv, Straight, DoCon, At
  <2>2. test = 0
    BY <1>2, StraightAt DEF IInv, Straight, DoCon, At, Neighbours
  <2>3. asserted[Ins.usart] = {}
    BY <2>1, <2>2, QuietPulses DEF IInv, RestInv, Rests
  <2>4. asserted' = asserted /\ written' = written
    BY <1>2, <2>1, <2>3, NoExpiryPort DEF DoCon, WriteCon
  <2> QED BY <1>2, <2>4 DEF DoCon, WriteCon
<1>3. CASE DoSend
  BY <1>3 DEF DoSend, WriteTbuf
<1>4. CASE DoClr
  BY <1>4 DEF DoClr, W1C
<1>5. CASE DoRead \/ DoDrain
  BY <1>5 DEF DoRead, DoDrain, RbufGet
<1> QED BY <1>1, <1>2, <1>3, <1>4, <1>5 DEF Main

LEMMA KernelRest ==
    ASSUME TypeInv, IInv, Kernel, UNCHANGED progVars PROVE RestInv'
<1>1. Pos' = Pos /\ test' = test
  BY PosStays DEF progVars
<1> QED BY <1>1, KernelRuns DEF RestInv

LEMMA AccessRest ==
    ASSUME NoWrap, DeviceInv, IInv, Access \/ Update("Q"), UNCHANGED progVars PROVE RestInv'
<1> USE DEF DeviceInv
<1>1. Pos' = Pos /\ test' = test
  BY PosStays DEF progVars
<1> SUFFICES ASSUME Rests(test, Pos) PROVE Quiet'
  BY <1>1 DEF RestInv
<1>2. Quiet
  BY DEF IInv, RestInv
<1>3. pc["Q"] # "idle"
  BY BusOrIdle
<1> DEFINE ins == Prog(test)[Pos - 1]
<1>4. /\ Pos > 1 /\ Doing(ins) /\ Neighbours(test, Pos - 1) /\ ins.op # "send"
  BY <1>3, BusPlaces
<1>5. ~TbufLoad
  BY <1>4 DEF TbufLoad, Doing, UpdPlaces
<1>6. ~(UpdEnd("Q") /\ new_irq["Q"])
  <2>1. CASE test = 0
    BY <2>1 DEF IInv, StageInv, StageAt, SetUpInv
  <2>2. CASE test # 0
    <3>1. pc["Q"] # "upd"
      BY <1>4, <2>2 DEF Doing, Neighbours
    <3> QED BY <3>1 DEF UpdEnd
  <2> QED BY <2>1, <2>2
<1>7. UNCHANGED <<ready, timed, written, level, wire, delta>>
  BY <1>5, <1>6, AccessKernel
<1>8. pc'["S"] = pc["S"]
  BY BusLeavesLocalsOfS
<1> QED BY <1>2, <1>7, <1>8 DEF Quiet, Idle

LEMMA MainRest ==
    ASSUME NoWrap, DeviceInv, IInv, Main, Settles PROVE RestInv'
<1> USE DEF DeviceInv
<1>1. CASE TimeOut
  <2>1. Quiet /\ UNCHANGED <<kernVars, rxVars, thVars>>
    BY <1>1, PassiveStep DEF Settles
  <2> QED BY <2>1 DEF RestInv, Quiet, Idle, kernVars, rxVars, thVars
<1>2. CASE NextTest
  <2>1. Pos = Len(Prog(test)) + 1 /\ test \in 0..5
    BY <1>2, NextTestMoves DEF IInv
  <2>2. Rests(test, Pos)
    <3>0. CASE test = 0
      BY <3>0 DEF Rests
    <3>1. CASE test = 1
      <4>1. Len(Prog(test)) = 9
        BY <3>1, Lengths
      <4>2. Pos = 10
        BY <2>1, <4>1
      <4> QED BY <3>1, <4>2 DEF Rests
    <3>2. CASE test = 2
      <4>1. Len(Prog(test)) = 9
        BY <3>2, Lengths
      <4>2. Pos = 10
        BY <2>1, <4>1
      <4> QED BY <3>2, <4>2 DEF Rests
    <3>3. CASE test = 3
      <4>1. Len(Prog(test)) = 12
        BY <3>3, Lengths
      <4>2. Pos = 13
        BY <2>1, <4>1
      <4> QED BY <3>3, <4>2 DEF Rests
    <3>4. CASE test = 4
      <4>1. Len(Prog(test)) = 25
        BY <3>4, Lengths
      <4>2. Pos = 26
        BY <2>1, <4>1
      <4> QED BY <3>4, <4>2 DEF Rests
    <3>5. CASE test = 5
      <4>1. Len(Prog(test)) = 6
        BY <3>5, Lengths
      <4>2. Pos = 7
        BY <2>1, <4>1
      <4> QED BY <3>5, <4>2 DEF Rests
    <3> QED BY <2>1, <3>0, <3>1, <3>2, <3>3, <3>4, <3>5
  <2>3. Quiet /\ UNCHANGED <<kernVars, rxVars, thVars>>
    BY <1>2, <2>2, PassiveStep DEF IInv, RestInv
  <2> QED BY <2>3 DEF RestInv, Quiet, Idle, kernVars, rxVars, thVars
<1>3. CASE Straight
  <2>1. /\ Pos' = Pos + 1 /\ test' = test /\ Neighbours(test, Pos) /\ Ins = Prog(test)[Pos]
    BY <1>3, StraightAt DEF IInv
  <2> SUFFICES ASSUME Rests(test, Pos + 1) PROVE Quiet'
    BY <2>1 DEF RestInv
  <2>2. Ins.op # "send" /\ (Rests(test, Pos) \/ Ins.op = "put")
    BY <2>1 DEF Neighbours
  <2>3. Quiet
    <3>1. CASE Rests(test, Pos)
      BY <3>1 DEF IInv, RestInv
    <3>2. CASE Ins.op = "put"
      BY <1>3, <3>2 DEF Straight, DoPutStr, DoCon, DoSend, DoClr, DoRead, DoDrain, DoWait, At
    <3> QED BY <2>2, <3>1, <3>2
  <2>4. UNCHANGED <<ready, timed, written, level, wire, delta>> /\ pc'["S"] = pc["S"]
    BY <2>2, MainKernel DEF DoSend, At
  <2> QED BY <2>3, <2>4 DEF Quiet, Idle
<1> QED BY <1>1, <1>2, <1>3 DEF Main, Straight

-----------------------------------------------------------------------------
(* LinkInv *)

LEMMA BusKeepsChan ==
    ASSUME NoWrap, DeviceInv, Access \/ Update("Q"), NEW v \in Usarts
    PROVE  count' = count /\ Chan(v)' = Chan(v)
<1> USE DEF DeviceInv
<1>1. count' = count
  BY DEF Access, TbufWrite, TbufTest, TbufLoad, RbufClearFull, RbufClearRaw, W1cLoad, W1cStore,
     Update, UpdTest, UpdLoad, UpdStore, UpdCount, UpdFired, UpdEnd, statVars
<1>2. Moves
  BY EveryStepMoves DEF Next
<1> QED BY <1>1, <1>2, CountsStandStill

LEMMA RxStillStays ==
    ASSUME NoWrap, DeviceInv, InjectInv, Kernel, NEW v \in Usarts, RxStill(v),
           \A u \in Usarts : CON_INIT \subseteq con[u]
    PROVE  RxStill(v)' /\ ReceiverStays(v)
<1>1. ReceiverStays(v)
  BY KernelReceives DEF ReceiverRefuses, ReceiverAccepts, RxStill
<1>2. /\ Chan(v)' = <<>> /\ wire[v] = <<>> /\ ~Injecting(v)
      /\ at["S"] = v => pc["S"] # "rx_next" /\ ret["S"] # "rx_next"
  BY <1>1, ChanEmpty DEF ReceiverStays, RxStill, DeviceInv
<1>3. at'["S"] = v => pc'["S"] # "rx_next" /\ ret'["S"] # "rx_next"
  <2> USE DEF DeviceInv, TypeInv, ThreadType, Threads, Goto, Start, EnterUpdate, UpdPlaces
  <2>1. CASE RxIdle \/ RxStart \/ TxdTest \/ TxdLoad
    BY <1>2, <2>1 DEF RxIdle, RxStart, TxdTest, TxdLoad
  <2>2. CASE InjectDropped \/ InjectOverrun \/ OeStore \/ OeIrq \/ InjectByte \/ InjectFull
    <3>1. at["S"] # v
      BY <1>2, <2>2 DEF Injecting, In, InjectDropped, InjectOverrun, OeStore, OeIrq, InjectByte,
         InjectFull
    <3>2. at' = at
      BY <2>2 DEF InjectDropped, InjectOverrun, OeStore, OeIrq, InjectByte, InjectFull
    <3> QED BY <3>1, <3>2
  <2>3. CASE Update("S")
    <3>1. CASE UpdTest("S")
      <4>1. pc'["S"] \in {"upd", "upd_load"} /\ at' = at /\ ret' = ret
        BY <3>1 DEF UpdTest
      <4> QED BY <1>2, <4>1
    <3>2. CASE UpdLoad("S") \/ UpdStore("S") \/ UpdCount("S") \/ UpdFired("S") \/ UpdEnd("S")
      BY <1>2, <3>2 DEF UpdLoad, UpdStore, UpdCount, UpdFired, UpdEnd
    <3> QED BY <2>3, <3>1, <3>2 DEF Update
  <2>4. ASSUME NEW u \in Usarts, RxDone(u)
        PROVE  at'["S"] = v => pc'["S"] # "rx_next" /\ ret'["S"] # "rx_next"
    <3>1. ret["S"] = "idle"
      BY <2>4 DEF RxDone, Dispatch, Idle, Locals, LocalsOf
    <3> QED BY <2>4, <3>1 DEF RxDone
  <2>5. ASSUME NEW u \in Usarts, TxDone(u)
        PROVE  at'["S"] = v => pc'["S"] # "rx_next" /\ ret'["S"] # "rx_next"
    <3>1. ret["S"] = "idle" /\ pc["S"] = "idle"
      BY <2>5 DEF TxDone, Dispatch, Idle, Locals, LocalsOf
    <3>2. ret' = ret /\ pc'["S"] \in {"idle", "txd_test"}
      BY <2>5, <3>1 DEF TxDone
    <3> QED BY <3>1, <3>2
  <2>6. ASSUME NEW u \in Usarts, TirAuto(u)
        PROVE  at'["S"] = v => pc'["S"] # "rx_next" /\ ret'["S"] # "rx_next"
    <3>1. ret["S"] = "idle" /\ pc["S"] = "idle"
      BY <2>6 DEF TirAuto, Dispatch, Idle, Locals, LocalsOf
    <3>2. ret'["S"] = "idle" /\ pc'["S"] \in {"idle", "upd"}
      BY <2>6, <3>1 DEF TirAuto
    <3> QED BY <3>2
  <2>7. ASSUME NEW u \in Usarts, Bridge(u)
        PROVE  at'["S"] = v => pc'["S"] # "rx_next" /\ ret'["S"] # "rx_next"
    <3>1. PICK n \in 1..Len(wire[u]) : Deliver(u, n)
      BY <2>7 DEF Bridge
    <3>2. u # v
      BY <1>2, <3>1
    <3> QED BY <3>1, <3>2 DEF Deliver
  <2>8. CASE \/ DeltaCycle \/ AdvanceTime
             \/ \E u \in Usarts : IrqDeassert(u) \/ IrqMethod(u) \/ IrqPulse(u)
    BY <1>2, <2>8 DEF DeltaCycle, AdvanceTime, IrqDeassert, IrqMethod, IrqPulse, thVars
  <2> QED BY <2>1, <2>2, <2>3, <2>4, <2>5, <2>6, <2>7, <2>8 DEF Kernel, Process
<1> QED BY <1>1, <1>2, <1>3 DEF RxStill

\* What the kernel does with the port and the event of tir_auto_method()
TirStays(u) ==
    /\ "tir" \in written'[u] \cup level'[u] => "tir" \in written[u] \cup level[u]
    /\ <<"TirAuto", u>> \in ready' =>
          <<"TirAuto", u>> \in ready \/ "tir" \in written[u] \cup level[u]

LEMMA KernelTir ==
    ASSUME TypeInv, PulseInv, TxOne, Kernel, NEW u \in Usarts, ~TxDone(u)
    PROVE  TirStays(u)
<1> USE DEF TirStays, TypeInv, KernType, ThreadType, Threads, kernVars
<1>1. CASE OeIrq \/ InjectFull
  <2>1. written' = written /\ level' = level /\ ready' = ready
    <3>1. CASE OeIrq
      BY <3>1 DEF OeIrq, AssertIrq
    <3>2. CASE InjectFull
      BY <3>2 DEF InjectFull, AssertIrq
    <3> QED BY <1>1, <3>1, <3>2
  <2> QED BY <2>1
<1>2. CASE RxIdle \/ RxStart \/ InjectDropped \/ InjectOverrun \/ OeStore \/ InjectByte
           \/ TxdTest \/ Update("S") \/ AdvanceTime
  <2>1. CASE AdvanceTime
    BY <2>1 DEF AdvanceTime, PulseInv
  <2>2. CASE ~AdvanceTime
    BY <1>2, <2>2 DEF RxIdle, RxStart, InjectDropped, InjectOverrun, OeStore, InjectByte, TxdTest,
       Update, UpdTest, UpdLoad, UpdStore, UpdCount, UpdFired, UpdEnd
  <2> QED BY <2>1, <2>2
<1>3. CASE TxdLoad
  BY <1>3 DEF TxdLoad, TxOne
<1>4. ASSUME NEW v \in Usarts, RxDone(v) \/ TirAuto(v) \/ Bridge(v) PROVE TirStays(u)
  BY <1>4 DEF RxDone, TirAuto, Bridge, Deliver, Dispatch
<1>5. ASSUME NEW v \in Usarts, v # u, TxDone(v) PROVE TirStays(u)
  BY <1>5 DEF TxDone, Dispatch, AssertIrq
<1>6. ASSUME NEW v \in Usarts, IrqDeassert(v) \/ IrqMethod(v) \/ IrqPulse(v) PROVE TirStays(u)
  BY <1>6 DEF IrqDeassert, IrqMethod, IrqPulse, Dispatch, Expire, DriveIrq
<1>7. CASE DeltaCycle
  <2> DEFINE W == {v \in Usarts : ("tir" \in written[v]) # ("tir" \in level[v])}
  <2>1. written' = written /\ level' = written /\ ready' = delta \cup {<<"TirAuto", v>> : v \in W}
    BY <1>7 DEF DeltaCycle
  <2>2. u \in W => "tir" \in written[u] \cup level[u]
    OBVIOUS
  <2> HIDE DEF W
  <2>3. <<"TirAuto", u>> \notin delta
    BY DEF PulseInv
  <2>4. <<"TirAuto", u>> \in ready' => u \in W
    BY <2>1, <2>3
  <2> QED BY <2>1, <2>2, <2>4
<1> QED BY <1>1, <1>2, <1>3, <1>4, <1>5, <1>6, <1>7 DEF Kernel, Process

\* How the scheduler comes to serve a transmitter
LEMMA KernelServes ==
    ASSUME TypeInv, Kernel, NEW u \in Usarts
    PROVE  /\ In("S", u, {"txd_test"})' => TxDone(u)
           /\ In("S", u, UpdPlaces)' =>
                 \/ In("S", u, UpdPlaces) /\ ret'["S"] = ret["S"]
                 \/ ret'["S"] = "rx_next"
                 \/ <<"TirAuto", u>> \in ready
<1> USE DEF In, TypeInv, ThreadType, Threads, Goto, Start, EnterUpdate, UpdPlaces
<1>1. CASE InjectDropped \/ InjectOverrun \/ OeStore \/ OeIrq \/ InjectByte \/ InjectFull
  BY <1>1 DEF InjectDropped, InjectOverrun, OeStore, OeIrq, InjectByte, InjectFull, Refused
<1>2. CASE RxIdle \/ TxdTest \/ TxdLoad
  BY <1>2 DEF RxIdle, TxdTest, TxdLoad
<1>3. CASE RxStart
  BY <1>3 DEF RxStart
<1>4. CASE Update("S")
  BY <1>4 DEF Update, UpdTest, UpdLoad, UpdStore, UpdCount, UpdFired, UpdEnd
<1>5. ASSUME NEW v \in Usarts, RxDone(v) \/ Bridge(v)
      PROVE  pc'["S"] \in {"inject", "rx_next"}
  BY <1>5 DEF RxDone, Bridge, Deliver
<1>6. ASSUME NEW v \in Usarts, TxDone(v)
      PROVE  /\ pc'["S"] \in {"idle", "txd_test"}
             /\ pc'["S"] = "txd_test" => at'["S"] = v
  BY <1>6 DEF TxDone, Dispatch, Idle
<1>7. ASSUME NEW v \in Usarts, TirAuto(v)
      PROVE  /\ pc'["S"] \in {"idle", "upd"}
             /\ pc'["S"] = "upd" => at'["S"] = v /\ <<"TirAuto", v>> \in ready
  BY <1>7 DEF TirAuto, Dispatch, Idle
<1>8. CASE \/ DeltaCycle \/ AdvanceTime
           \/ \E v \in Usarts : IrqDeassert(v) \/ IrqMethod(v) \/ IrqPulse(v)
  BY <1>8 DEF DeltaCycle, AdvanceTime, IrqDeassert, IrqMethod, IrqPulse, Dispatch, Idle, thVars
<1> QED BY <1>1, <1>2, <1>3, <1>4, <1>5, <1>6, <1>7, <1>8 DEF Kernel, Process

\* A frame ends, or the transmitter is left alone.
FrameEnds(u) ==
    /\ tsr_busy[u] /\ ~tsr_busy'[u] /\ tir_fire_count'[u] = Incr(tir_fire_count[u])
    /\ TxEv(u) \notin timed' \cup ready'

FrameStays(u) ==
    /\ tsr_busy'[u] = tsr_busy[u] /\ tir_fire_count'[u] = tir_fire_count[u]
    /\ TxEv(u) \in timed' \cup ready' <=> TxEv(u) \in timed \cup ready
    /\ TxEv(u) \notin timed' \cap ready'

LEMMA KernelTransmits ==
    ASSUME TypeInv, TxInv, TxOne, Kernel, NEW u \in Usarts
    PROVE  /\ tbuf_full' = tbuf_full
           /\ IF TxDone(u) THEN FrameEnds(u) ELSE FrameStays(u)
<1> USE DEF TypeInv, CoreType, KernType, ThreadType, Threads, kernVars, coreVars, TxEv
<1>0. /\ pc["S"] # "txd_load"
      /\ TxEv(u) \in timed \cup ready <=> tsr_busy[u]
      /\ TxEv(u) \notin timed \cap ready /\ TxEv(u) \notin delta
  BY DEF TxOne, TxInv
<1>1. CASE TxDone(u)
  <2>1. TxEv(u) \in ready /\ "R" \in con[u]
    BY <1>1 DEF TxDone, Dispatch, TxInv, Sending
  <2>2. tsr_busy[u] /\ TxEv(u) \notin timed
    BY <2>1 DEF TxOne
  <2>3. /\ tbuf_full' = tbuf_full /\ ~tsr_busy'[u] /\ tir_fire_count'[u] = Incr(tir_fire_count[u])
        /\ timed' = timed /\ ready' = ready \ {TxEv(u)}
    BY <1>1, <2>1 DEF TxDone, Dispatch
  <2> QED BY <1>1, <2>2, <2>3 DEF FrameEnds
<1>2. ASSUME ~TxDone(u) PROVE tbuf_full' = tbuf_full /\ FrameStays(u)
  <2> USE <1>0, <1>2 DEF FrameStays
  <2>1. CASE RxIdle \/ InjectDropped \/ InjectOverrun \/ OeStore \/ OeIrq \/ InjectByte
             \/ InjectFull \/ TxdTest \/ Update("S")
    <3>1. UNCHANGED <<tbuf_full, tsr_busy, tir_fire_count, timed, ready>>
      BY <2>1 DEF RxIdle, InjectDropped, InjectOverrun, OeStore, OeIrq, InjectByte, InjectFull,
         TxdTest, Update, UpdTest, UpdLoad, UpdStore, UpdCount, UpdFired, UpdEnd
    <3> QED BY <3>1
  <2>2. CASE RxStart
    <3>1. timed' = timed \/ \E v \in Usarts : timed' = timed \cup {<<"RxDone", v>>}
      BY <2>2 DEF RxStart
    <3>2. UNCHANGED <<ready, tbuf_full, tsr_busy, tir_fire_count>>
      BY <2>2 DEF RxStart
    <3> QED BY <3>1, <3>2
  <2>3. CASE TxdLoad
    BY <2>3 DEF TxdLoad
  <2>4. ASSUME NEW v \in Usarts, RxDone(v) \/ TirAuto(v) \/ Bridge(v) \/ IrqDeassert(v)
                                 \/ IrqMethod(v) \/ IrqPulse(v)
        PROVE  tbuf_full' = tbuf_full /\ FrameStays(u)
    <3>1. /\ UNCHANGED <<timed, tbuf_full, tsr_busy, tir_fire_count>>
          /\ \/ ready' = ready
             \/ \E e \in {"RxDone", "TirAuto", "IrqDeassert", "Irq", "IrqPulse"} :
                   ready' = ready \ {<<e, v>>}
      BY <2>4 DEF RxDone, TirAuto, Bridge, Deliver, IrqDeassert, IrqMethod, IrqPulse, Dispatch
    <3> QED BY <3>1
  <2>5. ASSUME NEW v \in Usarts, TxDone(v) PROVE tbuf_full' = tbuf_full /\ FrameStays(u)
    <3>1. v # u
      BY <2>5
    <3>2. /\ UNCHANGED <<timed, tbuf_full>> /\ ready' = ready \ {<<"TxDone", v>>}
          /\ tsr_busy'[u] = tsr_busy[u] /\ tir_fire_count'[u] = tir_fire_count[u]
      BY <2>5, <3>1 DEF TxDone, Dispatch
    <3> QED BY <3>1, <3>2
  <2>6. CASE DeltaCycle
    <3>1. /\ UNCHANGED <<timed, tbuf_full, tsr_busy, tir_fire_count>> /\ ready = {}
          /\ TxEv(u) \notin ready'
      BY <2>6 DEF DeltaCycle
    <3> QED BY <3>1
  <2>7. CASE AdvanceTime
    <3>1. /\ UNCHANGED <<tbuf_full, tsr_busy, tir_fire_count>> /\ ready = {}
      BY <2>7 DEF AdvanceTime
    <3>2. PICK due \in SUBSET timed : ready' = due /\ timed' = timed \ due
      BY <2>7 DEF AdvanceTime
    <3> QED BY <3>1, <3>2
  <2> QED BY <2>1, <2>2, <2>3, <2>4, <2>5, <2>6, <2>7 DEF Kernel, Process
<1> QED BY <1>1, <1>2

LEMMA PeersOfTest == From(test) \in Usarts /\ To(test) \in Usarts /\ From(test) # To(test)
                     /\ Peer[From(test)] = To(test)
  BY Names DEF From, To

LEMMA KernelLink ==
    ASSUME NoWrap, DeviceInv, IInv, Kernel, UNCHANGED progVars
    PROVE  LinkInv'
<1> USE DEF DeviceInv
<1>1. test' = test /\ \A u \in Usarts : CON_INIT \subseteq con[u]
  BY KernelRuns DEF progVars
<1>2. PICK v \in Usarts, u \in Usarts : v = From(test) /\ u = To(test)
  BY PeersOfTest
<1>3. RxStill(v) /\ TxStill(u)
  BY <1>2 DEF IInv, LinkInv
<1>4. RxStill(v)'
  BY <1>1, <1>3, RxStillStays DEF IInv
<1>5. TxStill(u)'
  <2>1. ~TxDone(u)
    BY <1>3, KernelTransmits DEF TxStill, IInv, FrameEnds
  <2>2. ~tsr_busy'[u] /\ TirStays(u)
    BY <1>3, <2>1, KernelTransmits, KernelTir DEF TxStill, IInv, FrameStays
  <2>3. pc'["Q"] = pc["Q"] /\ at'["Q"] = at["Q"]
    BY KernelLeavesQ
  <2>4. /\ ~In("S", u, {"txd_test"})'
        /\ In("S", u, UpdPlaces)' => ret'["S"] = "rx_next"
    BY <1>3, <2>1, KernelServes DEF TxStill
  <2> QED BY <1>3, <2>2, <2>3, <2>4 DEF TxStill, TirStays, Starting, In
<1>6. v = From(test') /\ u = To(test')
  BY <1>1, <1>2
<1> QED BY <1>4, <1>5, <1>6 DEF LinkInv

LEMMA AccessLink ==
    ASSUME NoWrap, DeviceInv, IInv, Access \/ Update("Q"), UNCHANGED progVars
    PROVE  LinkInv'
<1> USE DEF DeviceInv
<1>1. test' = test
  BY DEF progVars
<1>2. PICK v \in Usarts, u \in Usarts : v = From(test) /\ u = To(test) /\ v # u
  BY PeersOfTest
<1>3. RxStill(v) /\ TxStill(u)
  BY <1>2 DEF IInv, LinkInv
<1>4. /\ pc'["S"] = pc["S"] /\ at'["S"] = at["S"] /\ ret'["S"] = ret["S"]
  BY BusLeavesLocalsOfS
<1>5. RxStill(v)'
  BY <1>3, <1>4, BusKeepsChan DEF RxStill
<1>6. pc["Q"] # "idle" /\ todo["Q"] # <<"TIR">>
  BY BusOrIdle DEF IInv, BusInv
<1>7. at'["Q"] = at["Q"] /\ (Starting(u)' => Starting(u))
  BY <1>6, BusPlaceMoves DEF Starting, In, TypeInv, ThreadType, QPlaces, UpdPlaces, StartPlaces
<1>8. /\ ~tsr_busy'[u] /\ "tir" \notin written'[u] \cup level'[u] /\ <<"TirAuto", u>> \notin ready'
  <2>1. CASE TbufLoad
    <3>1. at["Q"] # u
      BY <1>3, <2>1 DEF TxStill, Starting, In, StartPlaces, TbufLoad
    <3> QED BY <1>3, <2>1, <3>1 DEF TxStill, TbufLoad, LoadTSR, CoreType, TypeInv
  <2>2. CASE ~TbufLoad
    BY <1>3, <2>2, AccessKernel DEF TxStill
  <2> QED BY <2>1, <2>2
<1>9. TxStill(u)'
  BY <1>3, <1>4, <1>7, <1>8 DEF TxStill, In
<1>10. v = From(test') /\ u = To(test')
  BY <1>1, <1>2
<1> QED BY <1>5, <1>9, <1>10 DEF LinkInv

LEMMA ChanOf ==
    ASSUME UNCHANGED <<rxd_busy, rxd_pending_q, rxd_frame_byte>>, NEW v \in Usarts,
           wire'[v] = wire[v], pc'["S"] = pc["S"], at'["S"] = at["S"]
    PROVE  Chan(v)' = Chan(v)
<1>1. Injecting(v)' <=> Injecting(v)
  BY DEF Injecting, In
<1> QED BY <1>1 DEF Chan, InFrame

LEMMA MainLink ==
    ASSUME NoWrap, DeviceInv, IInv, Main, Settles PROVE LinkInv'
<1> USE DEF DeviceInv
<1>1. /\ UNCHANGED <<ready, written, level, tsr_busy, rxd_busy, rxd_pending_q, rxd_frame_byte>>
      /\ UNCHANGED wire \/ DoSend
      /\ pc'["S"] = pc["S"] /\ at'["S"] = at["S"] /\ ret'["S"] = ret["S"]
      /\ Idle("Q")
  BY MainKernel
<1>2. ASSUME NEW v \in Usarts, RxStill(v), wire'[v] = wire[v] PROVE RxStill(v)'
  BY <1>1, <1>2, ChanOf DEF RxStill
<1>3. ASSUME NEW u \in Usarts, TxStill(u), ~Starting(u)' PROVE TxStill(u)'
  BY <1>1, <1>3 DEF TxStill, In
<1>4. CASE NextTest
  <2>1. UNCHANGED <<rxVars, thVars>> /\ test' = test + 1 /\ test' \in 0..6 /\ ProgType'
    BY <1>4, PassiveStep, NextTestMoves DEF IInv, ProgType
  <2>2. pc'["Q"] = "idle" /\ wire' = wire
    BY <1>1, <2>1 DEF Idle, thVars, rxVars
  <2>3. Quiet
    <3>1. RestInv'
      BY MainRest
    <3>2. Rests(test', Pos')
      <4>1. Pos' = 1
        BY <1>4, NextTestMoves DEF IInv
      <4> QED BY <2>1, <4>1 DEF Rests
    <3>3. Quiet'
      BY <3>1, <3>2 DEF RestInv
    <3>4. UNCHANGED <<kernVars, rxVars, thVars>>
      BY <1>4, PassiveStep
    <3> QED BY <3>3, <3>4 DEF Quiet, Idle, kernVars, rxVars, thVars
  <2>4. ASSUME NEW v \in Usarts PROVE RxStill(v)' /\ TxStill(v)'
    <3>1. ~Starting(v) /\ ~Starting(v)'
      BY <1>1, <2>2 DEF Starting, In, StartPlaces, Idle
    <3>2. RxStill(v) /\ TxStill(v)
      BY <2>3, <3>1, QuietRx, QuietTx DEF IInv
    <3> QED BY <1>2, <1>3, <2>2, <3>1, <3>2
  <2>5. From(test') \in Usarts /\ To(test') \in Usarts
    BY Names DEF From, To
  <2>6. PICK v \in Usarts, u \in Usarts : v = From(test') /\ u = To(test')
    BY <2>5
  <2> QED BY <2>4, <2>6 DEF LinkInv
<1>5. CASE ~NextTest
  <2>1. test' = test
    BY <1>5, StraightMoves, TimeOutMoves DEF IInv, Main, Straight
  <2>2. PICK v \in Usarts, u \in Usarts : v = From(test) /\ u = To(test) /\ v # u /\ Peer[v] = u
    BY PeersOfTest
  <2>3. RxStill(v) /\ TxStill(u)
    BY <2>2 DEF IInv, LinkInv
  <2>4. wire'[v] = wire[v] /\ ~Starting(u)'
    <3>1. CASE DoSend
      <4>1. Ins.usart = v
        BY <2>2, <3>1, StraightAt DEF IInv, Straight, DoSend, At, Neighbours
      <4>2. wire' = [wire EXCEPT ![u] = Append(@, Ins.byte)] /\ at'["Q"] = v
        BY <2>2, <3>1, <4>1 DEF DoSend, WriteTbuf, Start, TypeInv, ThreadType, Threads
      <4> QED BY <2>2, <4>2 DEF Starting, In, TypeInv, RxType
    <3>2. CASE ~DoSend
      <4>1. wire' = wire
        BY <1>1, <3>2
      <4>2. pc'["Q"] \notin StartPlaces
        BY <1>1, <3>2, PassiveStep DEF Main, DoCon, DoClr, DoRead, DoDrain, WriteCon, W1C, RbufGet,
           EnterUpdate, Start, TypeInv, ThreadType, Threads, StartPlaces, thVars, Idle
      <4> QED BY <4>1, <4>2 DEF Starting, In
    <3> QED BY <3>1, <3>2
  <2>5. RxStill(v)' /\ TxStill(u)'
    BY <1>2, <1>3, <2>3, <2>4
  <2>6. v = From(test') /\ u = To(test')
    BY <2>1, <2>2
  <2> QED BY <2>5, <2>6 DEF LinkInv
<1> QED BY <1>4, <1>5

-----------------------------------------------------------------------------
(* ConInv *)

LEMMA KernelCon ==
    ASSUME TypeInv, IInv, Kernel PROVE ConInv'
<1> USE DEF TypeInv, CoreType, ThreadType, Threads, Goto, coreVars
<1>1. \A u \in Usarts : CON_INIT \subseteq con[u]
  BY KernelRuns
<1>2. pc["S"] = "oe_store" => CON_INIT \subseteq ld["S"]
  BY DEF IInv, ConInv
<1> SUFFICES /\ \A u \in Usarts : CON_INIT \subseteq con'[u]
             /\ pc'["S"] = "oe_store" => CON_INIT \subseteq ld'["S"]
  BY DEF ConInv
<1>3. CASE InjectOverrun \/ OeStore
  BY <1>1, <1>2, <1>3 DEF InjectOverrun, OeStore
<1>4. CASE ~InjectOverrun /\ ~OeStore
  <2>1. CASE RxIdle \/ InjectDropped \/ OeIrq \/ InjectByte \/ InjectFull \/ TxdTest \/ TxdLoad
             \/ RxStart
    <3>1. con' = con /\ pc'["S"] # "oe_store"
      BY <2>1 DEF RxIdle, InjectDropped, OeIrq, InjectByte, InjectFull, TxdTest, TxdLoad, LoadTSR,
         RxStart, Refused, EnterUpdate
    <3> QED BY <1>1, <3>1
  <2>2. CASE Update("S")
    <3>1. con' = con /\ pc'["S"] # "oe_store"
      BY <2>2 DEF Update, UpdTest, UpdLoad, UpdStore, UpdCount, UpdFired, UpdEnd
    <3> QED BY <1>1, <3>1
  <2>3. ASSUME NEW v \in Usarts, RxDone(v) \/ TxDone(v) \/ TirAuto(v) \/ Bridge(v)
        PROVE  con' = con /\ pc'["S"] # "oe_store"
    BY <2>3 DEF RxDone, TxDone, TirAuto, Bridge, Deliver, Dispatch, Idle, Start, EnterUpdate
  <2>4. CASE \/ DeltaCycle \/ AdvanceTime
             \/ \E v \in Usarts : IrqDeassert(v) \/ IrqMethod(v) \/ IrqPulse(v)
    <3>1. con' = con /\ pc' = pc /\ ld' = ld
      BY <2>4 DEF DeltaCycle, AdvanceTime, IrqDeassert, IrqMethod, IrqPulse, thVars
    <3> QED BY <1>1, <1>2, <3>1
  <2> QED BY <1>1, <1>4, <2>1, <2>2, <2>3, <2>4 DEF Kernel, Process
<1> QED BY <1>3, <1>4

LEMMA AccessCon ==
    ASSUME TypeInv, IInv, Access \/ Update("Q"), UNCHANGED progVars PROVE ConInv'
<1>1. con' = con
  BY DEF Access, TbufWrite, TbufTest, TbufLoad, LoadTSR, RbufClearFull, RbufClearRaw, W1cLoad,
     W1cStore, Update, UpdTest, UpdLoad, UpdStore, UpdCount, UpdFired, UpdEnd, coreVars
<1>2. pc'["S"] = pc["S"] /\ ld'["S"] = ld["S"]
  BY BusLeavesLocalsOfS
<1>3. Pos' = Pos /\ test' = test
  BY PosStays DEF progVars
<1> QED BY <1>1, <1>2, <1>3 DEF IInv, ConInv

LEMMA MainCon ==
    ASSUME NoWrap, DeviceInv, IInv, Main PROVE ConInv'
<1> USE DEF DeviceInv
<1>1. pc'["S"] = pc["S"] /\ ld'["S"] = ld["S"] /\ (con' = con \/ DoCon)
  BY MainKernel
<1> DEFINE Last(u) == IF u = "A" THEN 2 ELSE 3
<1>2. /\ pc["S"] = "oe_store" => CON_INIT \subseteq ld["S"]
      /\ \A u \in Usarts : CON_INIT \subseteq con[u] \/ (test = 0 /\ Pos <= Last(u))
  BY DEF IInv, ConInv
<1> SUFFICES ASSUME NEW u \in Usarts
             PROVE  CON_INIT \subseteq con'[u] \/ (test' = 0 /\ Pos' <= Last(u))
  BY <1>1, <1>2 DEF ConInv
<1>3. CASE Straight
  <2>1. /\ Pos' = Pos + 1 /\ test' = test /\ Ins = Prog(test)[Pos] /\ Neighbours(test, Pos)
        /\ Pos \in Nat /\ Pos >= 1
    BY <1>3, StraightAt DEF IInv
  <2>2. CASE DoCon /\ Ins.usart = u
    BY <2>2 DEF DoCon, WriteCon, CON_INIT, TypeInv, CoreType
  <2>3. CASE ~(DoCon /\ Ins.usart = u)
    <3>1. con'[u] = con[u]
      BY <1>1, <2>3 DEF DoCon, WriteCon, TypeInv, CoreType
    <3>2. ~(test = 0 /\ Pos = Last(u))
      <4>1. CASE test = 0 /\ Pos = Last(u)
        <5>1. Ins = Con(u)
          BY <2>1, <4>1, Names, Prog0
        <5>2. Ins.op = "con" /\ Ins.usart = u
          BY <5>1 DEF Con
        <5> QED BY <1>3, <2>3, <5>2 DEF Straight, DoPutStr, DoSend, DoClr, DoRead, DoDrain, DoWait,
                 DoCon, At
      <4> QED BY <4>1
    <3> QED BY <1>2, <2>1, <3>1, <3>2
  <2> QED BY <2>2, <2>3
<1>4. CASE TimeOut
  <2>1. /\ test \in 1..5
    BY <1>4, TimeOutMoves, UnderWay DEF IInv, TimeOut, At, Neighbours
  <2> QED BY <1>1, <1>2, <1>4, <2>1, PassiveStep DEF coreVars
<1>5. CASE NextTest
  <2>1. Pos = Len(Prog(test)) + 1 /\ con' = con
    BY <1>5, NextTestMoves, PassiveStep DEF IInv, coreVars
  <2>2. ~(test = 0 /\ Pos <= Last(u))
    <3>1. CASE test = 0
      <4>1. Len(Prog(test)) = 5
        BY <3>1, Lengths
      <4> QED BY <2>1, <4>1
    <3> QED BY <3>1
  <2> QED BY <1>2, <2>1, <2>2
<1> QED BY <1>3, <1>4, <1>5 DEF Main, Straight

-----------------------------------------------------------------------------
(* PulseInv *)

LEMMA KernelPulse ==
    ASSUME TypeInv, TxOne, PulseInv, Kernel PROVE PulseInv'
<1> USE DEF TypeInv, CoreType, KernType, ThreadType, Threads, kernVars, coreVars
<1> SUFFICES ASSUME NEW u \in Usarts
             PROVE  /\ asserted'[u] # {} => <<"IrqDeassert", u>> \in delta' \cup ready'
                    /\ "tir" \in written'[u] => "TIR" \in asserted'[u]
                    /\ <<"TirAuto", u>> \notin delta' \cup timed'
  BY DEF PulseInv
<1>0. /\ asserted[u] # {} => <<"IrqDeassert", u>> \in delta \cup ready
      /\ "tir" \in written[u] => "TIR" \in asserted[u]
      /\ <<"TirAuto", u>> \notin delta \cup timed
  BY DEF PulseInv
<1>1. ASSUME NEW v \in Usarts, NEW i \in StatusBits, AssertIrq(v, i), ready' \in {ready, ready \ {TxEv(v)}},
             timed' = timed
      PROVE  /\ asserted'[u] # {} => <<"IrqDeassert", u>> \in delta' \cup ready'
             /\ "tir" \in written'[u] => "TIR" \in asserted'[u]
             /\ <<"TirAuto", u>> \notin delta' \cup timed'
  <2>1. CASE v = u
    BY <1>0, <1>1, <2>1 DEF AssertIrq
  <2>2. CASE v # u
    BY <1>0, <1>1, <2>2 DEF AssertIrq, TxEv
  <2> QED BY <2>1, <2>2
<1>2. CASE OeIrq
  <2>1. CASE "OEN" \in con[at["S"]]
    BY <1>1, <1>2, <2>1 DEF OeIrq, StatusBits
  <2>2. CASE "OEN" \notin con[at["S"]]
    BY <1>0, <1>2, <2>2 DEF OeIrq
  <2> QED BY <2>1, <2>2
<1>3. CASE InjectFull
  BY <1>1, <1>3 DEF InjectFull, StatusBits
<1>4. CASE RxIdle \/ InjectDropped \/ InjectOverrun \/ OeStore \/ InjectByte \/ TxdTest
           \/ UpdTest("S") \/ UpdLoad("S") \/ UpdStore("S") \/ UpdCount("S") \/ UpdFired("S")
  BY <1>0, <1>4 DEF RxIdle, InjectDropped, InjectOverrun, OeStore, InjectByte, TxdTest, UpdTest,
     UpdLoad, UpdStore, UpdCount, UpdFired
<1>5. CASE UpdEnd("S")
  <2>1. delta' \in {delta, delta \cup {<<"Irq", at["S"]>>}} /\ UNCHANGED <<asserted, written, ready, timed>>
    BY <1>5 DEF UpdEnd
  <2> QED BY <1>0, <2>1
<1>6. CASE RxStart
  <2>1. timed' \in {timed, timed \cup {<<"RxDone", at["S"]>>}} /\ UNCHANGED <<asserted, written, ready, delta>>
    BY <1>6 DEF RxStart
  <2> QED BY <1>0, <2>1
<1>7. CASE TxdLoad
  BY <1>7 DEF TxdLoad, TxOne
<1>8. ASSUME NEW v \in Usarts, RxDone(v) \/ TirAuto(v) \/ Bridge(v)
      PROVE  /\ asserted'[u] # {} => <<"IrqDeassert", u>> \in delta' \cup ready'
             /\ "tir" \in written'[u] => "TIR" \in asserted'[u]
             /\ <<"TirAuto", u>> \notin delta' \cup timed'
  BY <1>0, <1>8 DEF RxDone, TirAuto, Bridge, Deliver, Dispatch
<1>9. ASSUME NEW v \in Usarts, TxDone(v)
      PROVE  /\ asserted'[u] # {} => <<"IrqDeassert", u>> \in delta' \cup ready'
             /\ "tir" \in written'[u] => "TIR" \in asserted'[u]
             /\ <<"TirAuto", u>> \notin delta' \cup timed'
  <2>1. CASE "R" \in con[v]
    BY <1>1, <1>9, <2>1 DEF TxDone, Dispatch, StatusBits, TxEv
  <2>2. CASE "R" \notin con[v]
    BY <1>0, <1>9, <2>2 DEF TxDone, Dispatch
  <2> QED BY <2>1, <2>2
<1>10. ASSUME NEW v \in Usarts, IrqDeassert(v)
       PROVE  /\ asserted'[u] # {} => <<"IrqDeassert", u>> \in delta' \cup ready'
              /\ "tir" \in written'[u] => "TIR" \in asserted'[u]
              /\ <<"TirAuto", u>> \notin delta' \cup timed'
  <2>1. CASE v = u
    BY <1>0, <1>10, <2>1 DEF IrqDeassert, Dispatch, Expire
  <2>2. CASE v # u
    BY <1>0, <1>10, <2>2 DEF IrqDeassert, Dispatch, Expire
  <2> QED BY <2>1, <2>2
<1>11. ASSUME NEW v \in Usarts, IrqMethod(v) \/ IrqPulse(v)
       PROVE  /\ asserted'[u] # {} => <<"IrqDeassert", u>> \in delta' \cup ready'
              /\ "tir" \in written'[u] => "TIR" \in asserted'[u]
              /\ <<"TirAuto", u>> \notin delta' \cup timed'
  <2>1. /\ delta' \in {delta, delta \cup {<<"IrqPulse", v>>}} /\ timed' = timed /\ asserted' = asserted
        /\ ready' \in {ready \ {<<"Irq", v>>}, ready \ {<<"IrqPulse", v>>}}
    BY <1>11 DEF IrqMethod, IrqPulse, Dispatch
  <2>2. "tir" \in written'[u] <=> "tir" \in written[u]
    BY <1>11 DEF IrqMethod, IrqPulse, DriveIrq
  <2> QED BY <1>0, <2>1, <2>2
<1>12. CASE DeltaCycle
  <2>1. /\ ready = {} /\ delta \subseteq ready' /\ delta' = {} /\ UNCHANGED <<timed, written, asserted>>
    BY <1>12 DEF DeltaCycle
  <2> QED BY <1>0, <2>1
<1>13. CASE AdvanceTime
  <2>1. /\ ready = {} /\ delta = {} /\ delta' = {} /\ UNCHANGED <<written, asserted>>
        /\ timed' \subseteq timed
    BY <1>13 DEF AdvanceTime
  <2> QED BY <1>0, <2>1
<1> QED BY <1>2, <1>3, <1>4, <1>5, <1>6, <1>7, <1>8, <1>9, <1>10, <1>11, <1>12, <1>13
        DEF Kernel, Process, Update

LEMMA AccessPulse ==
    ASSUME TypeInv, TxInv, StartInv, PulseInv, Access \/ Update("Q") PROVE PulseInv'
<1> USE DEF TypeInv, CoreType, KernType, ThreadType, Threads
<1>1. CASE TbufLoad
  <2> SUFFICES ASSUME NEW u \in Usarts
               PROVE  /\ asserted'[u] # {} => <<"IrqDeassert", u>> \in delta' \cup ready'
                      /\ "tir" \in written'[u] => "TIR" \in asserted'[u]
                      /\ <<"TirAuto", u>> \notin delta' \cup timed'
    BY DEF PulseInv
  <2>0. /\ asserted[u] # {} => <<"IrqDeassert", u>> \in delta \cup ready
        /\ "tir" \in written[u] => "TIR" \in asserted[u]
        /\ <<"TirAuto", u>> \notin delta \cup timed
    BY DEF PulseInv
  <2>1. /\ ready' = ready /\ written' = written
        /\ asserted' = [asserted EXCEPT ![at["Q"]] = @ \cup {"TBIR"}]
        /\ delta \cup {<<"IrqDeassert", at["Q"]>>} \subseteq delta'
        /\ delta' \subseteq delta \cup {<<"IrqDeassert", at["Q"]>>, <<"TxDone", at["Q"]>>}
        /\ timed' \subseteq timed \cup {<<"TxDone", at["Q"]>>}
    BY <1>1 DEF TbufLoad, LoadTSR
  <2>2. CASE at["Q"] = u
    BY <2>0, <2>1, <2>2
  <2>3. CASE at["Q"] # u
    BY <2>0, <2>1, <2>3
  <2> QED BY <2>2, <2>3
<1>2. CASE ~TbufLoad
  <2>1. /\ UNCHANGED <<ready, timed, written, asserted>>
        /\ delta' \in {delta, delta \cup {<<"Irq", at["Q"]>>}}
    BY <1>2, AccessKernel
  <2>2. \A u : <<"Irq", at["Q"]>> \notin {<<"TirAuto", u>>}
    OBVIOUS
  <2>3. delta \subseteq delta' /\ \A u : <<"TirAuto", u>> \in delta' => <<"TirAuto", u>> \in delta
    BY <2>1, <2>2
  <2> QED BY <2>1, <2>3 DEF PulseInv
<1> QED BY <1>1, <1>2

LEMMA MainPulse ==
    ASSUME NoWrap, DeviceInv, IInv, Main PROVE PulseInv'
  BY MainKernel DEF IInv, PulseInv, DeviceInv

-----------------------------------------------------------------------------
(* TxOne *)

LEMMA KernelTodo ==
    ASSUME TypeInv, TxOne, Kernel
    PROVE  pc'["S"] # "txd_load" /\ (todo'["S"] = <<"TIR">> => ret'["S"] = "idle")
<1> USE DEF TypeInv, ThreadType, Threads, Goto, Start, EnterUpdate, UpdPlaces
<1>0. /\ pc["S"] # "txd_load" /\ (todo["S"] = <<"TIR">> => ret["S"] = "idle")
      /\ pc["S"] \notin UpdPlaces => todo["S"] = <<>>
  BY DEF TxOne, Locals, LocalsOf
<1>00. UpdateOrder # <<"TIR">> /\ <<>> # <<"TIR">>
  BY DEF UpdateOrder
<1>1. CASE InjectDropped \/ OeIrq \/ InjectFull
  BY <1>00, <1>1 DEF InjectDropped, OeIrq, InjectFull, Refused
<1>2. CASE RxIdle \/ RxStart \/ InjectOverrun \/ OeStore \/ InjectByte
  BY <1>0, <1>00, <1>2 DEF RxIdle, RxStart, InjectOverrun, OeStore, InjectByte
<1>3. CASE TxdTest
  <2>1. ~tbuf_full[at["S"]]
    BY <1>3 DEF TxdTest, TxOne, Starting, In, StartPlaces
  <2> QED BY <1>0, <1>00, <1>3, <2>1 DEF TxdTest
<1>4. CASE TxdLoad
  BY <1>0, <1>4 DEF TxdLoad
<1>5. CASE Update("S")
  <2>1. CASE UpdTest("S")
    <3>1. todo["S"] # <<>> /\ Tail(todo["S"]) # <<"TIR">>
      BY <2>1, TailsNotTir DEF UpdTest
    <3>2. pc'["S"] \in {"upd", "upd_load"} /\ todo'["S"] \in {todo["S"], Tail(todo["S"])} /\ ret' = ret
      BY <2>1 DEF UpdTest
    <3> QED BY <1>0, <3>1, <3>2
  <2>2. CASE UpdLoad("S") \/ UpdStore("S") \/ UpdCount("S")
    BY <1>0, <2>2 DEF UpdLoad, UpdStore, UpdCount
  <2>3. CASE UpdFired("S")
    <3>1. todo["S"] # <<>> /\ Tail(todo["S"]) # <<"TIR">>
      BY <2>3, TailsNotTir DEF UpdFired, Locals, LocalsOf
    <3> QED BY <2>3, <3>1 DEF UpdFired
  <2>4. CASE UpdEnd("S")
    BY <2>4 DEF UpdEnd
  <2> QED BY <1>5, <2>1, <2>2, <2>3, <2>4 DEF Update
<1>6. ASSUME NEW v \in Usarts, RxDone(v) \/ TxDone(v) \/ Bridge(v)
      PROVE  pc'["S"] # "txd_load" /\ (todo'["S"] = <<"TIR">> => ret'["S"] = "idle")
  BY <1>0, <1>00, <1>6 DEF RxDone, TxDone, Bridge, Deliver, Dispatch, Idle
<1>7. ASSUME NEW v \in Usarts, TirAuto(v)
      PROVE  pc'["S"] # "txd_load" /\ (todo'["S"] = <<"TIR">> => ret'["S"] = "idle")
  <2>1. CASE "tir" \in level[v]
    BY <1>7, <2>1 DEF TirAuto
  <2>2. CASE "tir" \notin level[v]
    BY <1>0, <1>7, <2>2 DEF TirAuto
  <2> QED BY <2>1, <2>2
<1>8. CASE \/ DeltaCycle \/ AdvanceTime
           \/ \E v \in Usarts : IrqDeassert(v) \/ IrqMethod(v) \/ IrqPulse(v)
  BY <1>0, <1>8 DEF DeltaCycle, AdvanceTime, IrqDeassert, IrqMethod, IrqPulse, thVars
<1> QED BY <1>1, <1>2, <1>3, <1>4, <1>5, <1>6, <1>7, <1>8 DEF Kernel, Process

LEMMA KernelTxOne ==
    ASSUME TypeInv, TxInv, TxOne, Kernel PROVE TxOne'
<1>1. pc'["Q"] = pc["Q"] /\ at'["Q"] = at["Q"]
  BY KernelLeavesQ
<1>2. ASSUME NEW u \in Usarts
      PROVE  /\ tbuf_full'[u] <=> In("Q", u, {"tbuf_test", "tbuf_load"})'
             /\ TxEv(u) \in timed' \cup ready' <=> tsr_busy'[u]
             /\ TxEv(u) \notin timed' \cap ready'
             /\ Starting(u)' => ~tsr_busy'[u] /\ ~In("S", u, {"txd_test"})'
  <2>1. CASE TxDone(u)
    <3>1. FrameEnds(u) /\ tbuf_full' = tbuf_full
      BY <2>1, KernelTransmits
    <3>2. ~Starting(u)
      BY <3>1 DEF FrameEnds, TxOne
    <3> QED BY <1>1, <3>1, <3>2 DEF FrameEnds, TxOne, Starting, In
  <2>2. CASE ~TxDone(u)
    <3>1. FrameStays(u) /\ tbuf_full' = tbuf_full
      BY <2>2, KernelTransmits
    <3>2. ~In("S", u, {"txd_test"})'
      BY <2>2, KernelServes
    <3> QED BY <1>1, <3>1, <3>2 DEF FrameStays, TxOne, Starting, In
  <2> QED BY <2>1, <2>2
<1>3. pc'["S"] # "txd_load" /\ (todo'["S"] = <<"TIR">> => ret'["S"] = "idle")
  BY KernelTodo
<1> QED BY <1>2, <1>3 DEF TxOne, TxEv

\* A start of the transmitter goes on to its end.
LEMMA AccessStarts ==
    ASSUME TypeInv, TxInv, TxOne, Access \/ Update("Q"), todo["Q"] # <<"TIR">>, NEW u \in Usarts
    PROVE  IF TbufLoad /\ at["Q"] = u
           THEN /\ Starting(u) /\ ~Starting(u)' /\ ~tbuf_full'[u] /\ ~tsr_busy[u] /\ tsr_busy'[u]
                /\ timed' = timed \cup {TxEv(u)} /\ ready' = ready
                /\ pc'["Q"] = "upd"
           ELSE /\ Starting(u)' <=> Starting(u)
                /\ tbuf_full'[u] <=> In("Q", u, {"tbuf_test", "tbuf_load"})'
                /\ tsr_busy'[u] = tsr_busy[u]
<1> USE DEF TypeInv, CoreType, KernType, ThreadType, Threads, Goto, EnterUpdate, Starting, In,
            StartPlaces, coreVars, kernVars
<1>0. /\ tbuf_full[u] <=> In("Q", u, {"tbuf_test", "tbuf_load"})
      /\ Starting(u) => ~tsr_busy[u]
  BY DEF TxOne
<1>1. CASE TbufWrite
  <2>1. CASE at["Q"] = u
    <3>1. ~tbuf_full[u]
      BY <1>0, <1>1, <2>1 DEF TbufWrite
    <3> QED BY <1>1, <2>1, <3>1 DEF TbufWrite, TbufLoad
  <2>2. CASE at["Q"] # u
    <3>1. tbuf_full'[u] = tbuf_full[u] /\ tsr_busy' = tsr_busy /\ at' = at
      BY <1>1, <2>2 DEF TbufWrite
    <3> QED BY <1>0, <2>2, <3>1
  <2> QED BY <2>1, <2>2
<1>2. CASE TbufTest
  <2>1. /\ pc["Q"] = "tbuf_test" /\ at' = at /\ tbuf_full' = tbuf_full /\ tsr_busy' = tsr_busy
        /\ ~TbufLoad
    BY <1>2 DEF TbufTest, TbufLoad
  <2>2. CASE at["Q"] = u
    <3>1. StartsAtOnce(u)
      BY <1>0, <2>1, <2>2 DEF TxInv, Sending, StartsAtOnce
    <3>2. pc'["Q"] = "tbuf_load"
      BY <1>2, <2>2, <3>1 DEF TbufTest
    <3> QED BY <1>0, <2>1, <2>2, <3>2
  <2>3. CASE at["Q"] # u
    BY <1>0, <2>1, <2>3
  <2> QED BY <2>2, <2>3
<1>3. CASE TbufLoad
  <2>1. CASE at["Q"] = u
    <3>1. "R" \in con[u] /\ TxEv(u) \notin delta
      BY <1>3, <2>1 DEF TbufLoad, TxInv, Sending
    <3>2. Starting(u) /\ ~tsr_busy[u]
      BY <1>0, <1>3, <2>1 DEF TbufLoad
    <3>3. LoadTSR(u) /\ pc'["Q"] = "upd" /\ at' = at
      BY <1>3, <2>1 DEF TbufLoad
    <3>4. timed' = timed \cup {TxEv(u)} /\ ready' = ready
      BY <3>1, <3>3 DEF LoadTSR, TxEv
    <3>5. ~tbuf_full'[u] /\ tsr_busy'[u]
      BY <3>3 DEF LoadTSR
    <3> QED BY <1>3, <2>1, <3>2, <3>3, <3>4, <3>5
  <2>2. CASE at["Q"] # u
    <3>1. tbuf_full'[u] = tbuf_full[u] /\ tsr_busy'[u] = tsr_busy[u] /\ at' = at
      BY <1>3, <2>2 DEF TbufLoad, LoadTSR
    <3> QED BY <1>0, <2>2, <3>1
  <2> QED BY <2>1, <2>2
<1>4. CASE RbufClearFull \/ RbufClearRaw \/ W1cLoad \/ W1cStore
  <2>1. /\ tbuf_full' = tbuf_full /\ tsr_busy' = tsr_busy /\ ~TbufLoad
        /\ pc["Q"] \notin StartPlaces /\ pc'["Q"] \notin StartPlaces
    BY <1>4 DEF RbufClearFull, RbufClearRaw, W1cLoad, W1cStore, TbufLoad
  <2> QED BY <1>0, <2>1
<1>5. CASE Update("Q")
  <2>1. /\ tbuf_full' = tbuf_full /\ tsr_busy' = tsr_busy /\ pc["Q"] \in UpdPlaces
    BY <1>5 DEF Update, UpdTest, UpdLoad, UpdStore, UpdCount, UpdFired, UpdEnd, UpdPlaces
  <2>2. pc'["Q"] \in UpdPlaces \cup {"idle"}
    BY <2>1, BusPlaceMoves
  <2> QED BY <1>0, <2>1, <2>2 DEF UpdPlaces, TbufLoad
<1> QED BY <1>1, <1>2, <1>3, <1>4, <1>5 DEF Access

LEMMA AccessTxOne ==
    ASSUME TypeInv, TxInv, StartInv, IInv, Access \/ Update("Q") PROVE TxOne'
<1>1. todo["Q"] # <<"TIR">> /\ TxOne
  BY DEF IInv, BusInv
<1>2. /\ pc'["S"] = pc["S"] /\ at'["S"] = at["S"] /\ ret'["S"] = ret["S"]
      /\ todo'["S"] = todo["S"]
  BY BusLeavesLocalsOfS
<1>3. ASSUME NEW u \in Usarts
      PROVE  /\ tbuf_full'[u] <=> In("Q", u, {"tbuf_test", "tbuf_load"})'
             /\ TxEv(u) \in timed' \cup ready' <=> tsr_busy'[u]
             /\ TxEv(u) \notin timed' \cap ready'
             /\ Starting(u)' => ~tsr_busy'[u] /\ ~In("S", u, {"txd_test"})'
  <2>0. /\ TxEv(u) \in timed \cup ready <=> tsr_busy[u]
        /\ TxEv(u) \notin timed \cap ready
        /\ Starting(u) => ~tsr_busy[u] /\ ~In("S", u, {"txd_test"})
    BY <1>1 DEF TxOne
  <2>1. CASE TbufLoad /\ at["Q"] = u
    <3>1. /\ Starting(u) /\ ~Starting(u)' /\ ~tbuf_full'[u] /\ ~tsr_busy[u] /\ tsr_busy'[u]
          /\ timed' = timed \cup {TxEv(u)} /\ ready' = ready
          /\ pc'["Q"] = "upd"
      BY <1>1, <2>1, AccessStarts
    <3> QED BY <2>0, <3>1 DEF In
  <2>2. CASE TbufLoad /\ at["Q"] # u
    <3>1. TxEv(u) \in timed' <=> TxEv(u) \in timed
      BY <2>2 DEF TbufLoad, LoadTSR, TxEv
    <3>2. ready' = ready
      BY <2>2 DEF TbufLoad, LoadTSR
    <3> QED BY <1>1, <1>2, <2>0, <2>2, <3>1, <3>2, AccessStarts DEF In
  <2>3. CASE ~TbufLoad
    <3>1. timed' = timed /\ ready' = ready
      BY <2>3, AccessKernel
    <3> QED BY <1>1, <1>2, <2>0, <2>3, <3>1, AccessStarts DEF In
  <2> QED BY <2>1, <2>2, <2>3
<1> QED BY <1>1, <1>2, <1>3 DEF TxOne, TxEv

LEMMA SendsAtRest ==
    ASSUME TypeInv, IInv, DoSend
    PROVE  /\ Quiet /\ Ins.usart \in Usarts /\ Ins.usart = From(test)
           /\ \A u \in Usarts : ~tsr_busy[u] /\ ~Starting(u)
<1>1. Neighbours(test, Pos) /\ Ins = Prog(test)[Pos] /\ Ins.op = "send" /\ pc["Q"] = "idle"
  BY StraightAt DEF IInv, Straight, DoSend, At, Idle
<1>2. Quiet
  BY <1>1 DEF Neighbours, IInv, RestInv
<1> QED BY <1>1, <1>2 DEF Quiet, IInv, TxOne, Neighbours, Starting, In, StartPlaces

LEMMA MainTxOne ==
    ASSUME NoWrap, DeviceInv, IInv, Main PROVE TxOne'
<1> USE DEF DeviceInv
<1>1. /\ UNCHANGED <<ready, timed, tsr_busy, tbuf_full>>
      /\ pc'["S"] = pc["S"] /\ at'["S"] = at["S"] /\ ret'["S"] = ret["S"]
      /\ todo'["S"] = todo["S"] /\ Idle("Q")
  BY MainKernel
<1>2. TxOne /\ pc["Q"] = "idle"
  BY <1>1 DEF IInv, Idle
<1>3. pc'["Q"] \notin {"tbuf_test", "tbuf_load"} /\ (pc'["Q"] = "tbuf" => DoSend)
  BY <1>2, PassiveStep DEF Main, DoCon, DoSend, DoClr, DoRead, DoDrain, WriteCon, WriteTbuf, W1C,
     RbufGet, EnterUpdate, Start, TypeInv, ThreadType, Threads, thVars
<1>4. \A u \in Usarts : DoSend => ~tsr_busy[u] /\ ~In("S", u, {"txd_test"})
  BY SendsAtRest DEF Quiet, Idle, In
<1> QED BY <1>1, <1>2, <1>3, <1>4 DEF TxOne, Starting, StartPlaces, In

-----------------------------------------------------------------------------
(* Waits *)

Waits(n, i) ==
    LET ins == Prog(n)[i] IN
    ins.op = "wait" =>
        \/ n \in {1, 2} /\ i = 3 /\ ins.usart = From(n) /\ ins.bit = "TBIR"
        \/ n \in {1, 2} /\ i = 6 /\ ins.usart = To(n) /\ ins.bit = "RIR"
        \/ n = 3 /\ i = 4 /\ ins.usart = "B" /\ ins.bit = "RIR"
        \/ n = 3 /\ i = 8 /\ ins.usart = "B" /\ ins.bit = "EIR"
        \/ n = 4 /\ Stage(4, i) = "flying" /\ ins.usart = "B" /\ ins.bit = "RIR"
        \/ n = 5 /\ i = 4 /\ ins.usart = "A" /\ ins.bit = "TIR"

LEMMA WaitsOf ==
    ASSUME NEW n \in 0..5, NEW i \in DOMAIN Prog(n) PROVE Waits(n, i)
<1> USE DEF Waits, PutStr, Con, Clr, Wait, Read, Drain, Send, From, To
<1>0. CASE n = 0
  BY <1>0, Prog0
<1>1. CASE n = 1
  BY <1>1, Prog1
<1>2. CASE n = 2
  BY <1>2, Prog2
<1>3. CASE n = 3
  BY <1>3, Prog3
<1>4. CASE n = 4
  <2>1. i \in 1..25
    BY <1>4, Prog4
  <2> QED BY <1>4, <2>1, StagesOf4 DEF Stages4
<1>5. CASE n = 5
  BY <1>5, Prog5
<1> QED BY <1>0, <1>1, <1>2, <1>3, <1>4, <1>5

LEMMA QuietReports ==
    ASSUME TypeInv, RxInv, Quiet, NEW u \in Usarts
    PROVE  /\ Chan(u) = <<>> /\ \A bit : ~Owed(u, bit)
           /\ \A bit : Told(u, bit) => bit \in status[u]
  BY QuietRx DEF RxStill, Quiet, Idle, Owed, In, UpdPlaces, Told, Sticky

\* Only the bits of the USART that sends can be missed.
LEMMA TimeOutWhere ==
    ASSUME DeviceInv, IInv, TimeOut, Settles
    PROVE  /\ <<test, Ins.usart, Ins.bit>> \in MayMiss
           /\ (test \in {1, 2} /\ Pos = 3) \/ (test = 5 /\ Pos = 4)
<1> USE DEF DeviceInv
<1>1. /\ test \in 0..5 /\ Pos \in DOMAIN Prog(test) /\ Ins = Prog(test)[Pos] /\ Ins.op = "wait"
      /\ Ins.bit \notin status[Ins.usart] /\ Quiet
  BY UnderWay DEF IInv, TimeOut, At, Settles
<1>2. Waits(test, Pos)
  BY <1>1, WaitsOf
<1>3. "B" \in Usarts /\ To(test) \in Usarts
  BY Names, PeersOfTest
<1>4. ASSUME test \in {1, 2}, Pos = 6, Ins.usart = To(test), Ins.bit = "RIR" PROVE FALSE
  <2>1. Carried(To(test), ByteOf(test, Pos))
    BY <1>4 DEF IInv, StageInv, StageAt, ExchangeAt
  <2>2. PICK v \in Usarts : v = To(test)
    BY <1>3
  <2>3. Chan(v) = <<>> /\ (Told(v, "RIR") => "RIR" \in status[v])
    BY <1>1, QuietReports
  <2>4. Told(v, "RIR")
    BY <2>1, <2>2, <2>3 DEF Carried, Coming
  <2> QED BY <1>1, <1>4, <2>2, <2>3, <2>4
<1>5. ASSUME test = 3, Pos = 4, Ins.usart = "B", Ins.bit = "RIR" PROVE FALSE
  BY <1>1, <1>3, <1>5, QuietReports DEF IInv, StageInv, StageAt, OverrunAt, Box
<1>6. ASSUME test = 3, Pos = 8, Ins.usart = "B", Ins.bit = "EIR" PROVE FALSE
  BY <1>1, <1>3, <1>6, QuietReports DEF IInv, StageInv, StageAt, OverrunAt
<1>7. ASSUME test = 4, Stage(4, Pos) = "flying", Ins.usart = "B", Ins.bit = "RIR" PROVE FALSE
  <2>1. Flying(ByteOf(4, Pos))
    BY <1>7 DEF IInv, StageInv, StageAt, StreamAt
  <2>2. Sticky("B", "RIR")
    BY <1>1, <1>3, <1>7, <2>1, QuietReports DEF Flying, Coming
  <2> QED BY <1>1, <1>7, <2>2 DEF Sticky
<1>8. \/ test \in {1, 2} /\ Pos = 3 /\ Ins.usart = From(test) /\ Ins.bit = "TBIR"
      \/ test = 5 /\ Pos = 4 /\ Ins.usart = "A" /\ Ins.bit = "TIR"
  BY <1>1, <1>2, <1>4, <1>5, <1>6, <1>7 DEF Waits
<1> QED BY <1>8 DEF MayMiss, From

-----------------------------------------------------------------------------
(* TirAccount *)

LEMMA KernelSendsNone ==
    ASSUME TypeInv, Kernel, NEW u \in Usarts
    PROVE  count'[u]["TBIR"] = count[u]["TBIR"]
<1>1. CASE InjectDropped \/ OeIrq \/ InjectFull
  BY <1>1 DEF InjectDropped, OeIrq, InjectFull, Refused, TypeInv, StatType, Counters
<1>2. CASE ~(InjectDropped \/ OeIrq \/ InjectFull)
  <2>1. count' = count
    BY <1>2 DEF Kernel, Process, RxIdle, RxStart, InjectOverrun, OeStore, InjectByte, TxdTest, TxdLoad,
       RxDone, TxDone, TirAuto, IrqDeassert, IrqMethod, IrqPulse, Bridge, Deliver, DeltaCycle,
       AdvanceTime, Update, UpdTest, UpdLoad, UpdStore, UpdCount, UpdFired, UpdEnd, statVars
  <2> QED BY <2>1
<1> QED BY <1>1, <1>2

\* The number of TIRs never wraps.
LEMMA TirCounts ==
    ASSUME NoWrap, DeviceInv, TirAccount, NEW u \in Usarts, tsr_busy[u]
    PROVE  Incr(tir_fire_count[u]) = tir_fire_count[u] + 1
<1> USE DEF DeviceInv
<1>1. tir_fire_count[u] + 1 = count[u]["TBIR"]
  BY DEF TirAccount, One
<1>2. count[u]["TBIR"] <= MaxWrites /\ MaxWrites \in Nat /\ MaxWrites < CountMod /\ CountMod \in Nat
  BY CountType DEF FlowInv, NoWrap
<1>3. tir_fire_count[u] \in Nat
  BY DEF TypeInv, CoreType
<1> QED BY <1>1, <1>2, <1>3, IncrNoWrap

LEMMA KernelTirAccount ==
    ASSUME NoWrap, DeviceInv, IInv, Kernel, UNCHANGED progVars PROVE TirAccount'
<1> USE DEF DeviceInv
<1>1. Pos' = Pos /\ test' = test
  BY PosStays DEF progVars
<1>2. pc'["Q"] = pc["Q"] /\ at'["Q"] = at["Q"]
  BY KernelLeavesQ
<1>3. TirAccount /\ TxOne
  BY DEF IInv
<1>4. ASSUME NEW u \in Usarts
      PROVE  tir_fire_count'[u] + One(Starting(u)' \/ tsr_busy'[u]) = count'[u]["TBIR"]
  <2>1. count'[u]["TBIR"] = count[u]["TBIR"]
    BY KernelSendsNone
  <2>2. Starting(u)' <=> Starting(u)
    BY <1>2 DEF Starting, In
  <2>3. CASE TxDone(u)
    <3>1. FrameEnds(u)
      BY <1>3, <2>3, KernelTransmits
    <3>2. tir_fire_count'[u] = tir_fire_count[u] + 1 /\ ~tsr_busy'[u] /\ tsr_busy[u]
      BY <1>3, <3>1, TirCounts DEF FrameEnds
    <3>3. ~Starting(u)
      BY <1>3, <3>2 DEF TxOne
    <3>4. tir_fire_count[u] \in Nat /\ tir_fire_count[u] + 1 = count[u]["TBIR"]
      BY <1>3, <3>2 DEF TypeInv, CoreType, TirAccount, One
    <3> QED BY <2>1, <2>2, <3>2, <3>3, <3>4 DEF One
  <2>4. CASE ~TxDone(u)
    <3>1. FrameStays(u)
      BY <1>3, <2>4, KernelTransmits
    <3> QED BY <1>3, <2>1, <2>2, <3>1 DEF FrameStays, TirAccount, One
  <2> QED BY <2>3, <2>4
<1>5. count'["A"]["TBIR"] = SentByA(test', Pos')
  BY <1>1, <1>3, KernelSendsNone, Names DEF TirAccount
<1> QED BY <1>4, <1>5 DEF TirAccount

LEMMA AccessTirAccount ==
    ASSUME NoWrap, DeviceInv, IInv, Access \/ Update("Q"), UNCHANGED progVars PROVE TirAccount'
<1> USE DEF DeviceInv
<1>1. Pos' = Pos /\ test' = test
  BY PosStays DEF progVars
<1>2. TirAccount /\ TxOne /\ todo["Q"] # <<"TIR">>
  BY DEF IInv, BusInv
<1>3. count' = count
  BY BusKeepsChan, Names
<1>4. tir_fire_count' = tir_fire_count
  BY AccessKernel DEF TbufLoad, LoadTSR
<1>5. ASSUME NEW u \in Usarts
      PROVE  Starting(u)' \/ tsr_busy'[u] <=> Starting(u) \/ tsr_busy[u]
  BY <1>2, AccessStarts
<1> QED BY <1>1, <1>2, <1>3, <1>4, <1>5 DEF TirAccount, One

LEMMA LengthOfTest ==
    /\ test = 0 => Len(Prog(test)) = 5
    /\ test = 1 => Len(Prog(test)) = 9
    /\ test = 2 => Len(Prog(test)) = 9
    /\ test = 3 => Len(Prog(test)) = 12
    /\ test = 4 => Len(Prog(test)) = 25
    /\ test = 5 => Len(Prog(test)) = 6
<1>0. test = 0 => Len(Prog(test)) = 5
  BY Lengths
<1>1. test = 1 => Len(Prog(test)) = 9
  BY Lengths
<1>2. test = 2 => Len(Prog(test)) = 9
  BY Lengths
<1>3. test = 3 => Len(Prog(test)) = 12
  BY Lengths
<1>4. test = 4 => Len(Prog(test)) = 25
  BY Lengths
<1>5. test = 5 => Len(Prog(test)) = 6
  BY Lengths
<1> QED BY <1>0, <1>1, <1>2, <1>3, <1>4, <1>5

\* Where a test ends
LEMMA TestEnds ==
    ASSUME ProgType, NextTest
    PROVE  /\ test = 0 => Pos = 6
           /\ test = 1 => Pos = 10
           /\ test = 2 => Pos = 10
           /\ test = 3 => Pos = 13
           /\ test = 4 => Pos = 26
           /\ test = 5 => Pos = 7
<1>1. Pos = Len(Prog(test)) + 1
  BY NextTestMoves
<1>2. PICK p, k : p = Pos /\ k = Len(Prog(test))
  OBVIOUS
<1>3. p = k + 1
  BY <1>1, <1>2
<1>4. /\ test = 0 => k = 5
      /\ test = 1 => k = 9
      /\ test = 2 => k = 9
      /\ test = 3 => k = 12
      /\ test = 4 => k = 25
      /\ test = 5 => k = 6
  BY <1>2, LengthOfTest
<1>5. /\ test = 0 => p = 6
      /\ test = 1 => p = 10
      /\ test = 2 => p = 10
      /\ test = 3 => p = 13
      /\ test = 4 => p = 26
      /\ test = 5 => p = 7
  BY <1>3, <1>4
<1> QED BY <1>2, <1>5

LEMMA MainTirAccount ==
    ASSUME NoWrap, DeviceInv, IInv, Main, Settles PROVE TirAccount'
<1> USE DEF DeviceInv
<1>1. /\ UNCHANGED <<tsr_busy, tir_fire_count>> /\ (count' = count \/ DoSend) /\ pc["Q"] = "idle"
  BY MainKernel DEF Idle
<1>2. TirAccount
  BY DEF IInv
<1>3. CASE DoSend
  <2>1. /\ Pos' = Pos + 1 /\ test' = test /\ Ins = Prog(test)[Pos] /\ Neighbours(test, Pos)
        /\ Pos \in Nat /\ Ins.op = "send"
    BY <1>3, StraightAt DEF IInv, Straight, DoSend, At
  <2>2. PICK v \in Usarts : v = Ins.usart
    BY <1>3, SendsAtRest
  <2>3. \A u \in Usarts : ~tsr_busy[u] /\ ~Starting(u)
    BY <1>3, SendsAtRest
  <2>4. /\ count[v]["TBIR"] < MaxWrites /\ count' = [count EXCEPT ![v]["TBIR"] = Incr(@)]
        /\ pc'["Q"] = "tbuf" /\ at'["Q"] = v
    BY <1>3, <2>2 DEF DoSend, WriteTbuf, Start, TypeInv, ThreadType, Threads
  <2>5. Incr(count[v]["TBIR"]) = count[v]["TBIR"] + 1
    BY <2>4, SendCounts
  <2>6. \A u \in Usarts : count'[u]["TBIR"] = count[u]["TBIR"] + One(u = v)
    <3> SUFFICES ASSUME NEW u \in Usarts
                 PROVE  count'[u]["TBIR"] = count[u]["TBIR"] + One(u = v)
      OBVIOUS
    <3>1. CASE u = v
      BY <2>4, <2>5, <3>1 DEF One, TypeInv, StatType, Counters
    <3>2. CASE u # v
      <4>1. count'[u]["TBIR"] = count[u]["TBIR"] /\ count[u]["TBIR"] \in Nat
        BY <2>4, <3>2, CountsAreNat DEF TypeInv, StatType, Counters
      <4> QED BY <3>2, <4>1 DEF One
    <3> QED BY <3>1, <3>2
  <2>7. \A u \in Usarts : Starting(u)' <=> u = v
    BY <2>4 DEF Starting, In, StartPlaces
  <2>8. \A u \in Usarts :
            tir_fire_count'[u] + One(Starting(u)' \/ tsr_busy'[u]) = count'[u]["TBIR"]
    <3> SUFFICES ASSUME NEW u \in Usarts
                 PROVE  tir_fire_count'[u] + One(Starting(u)' \/ tsr_busy'[u]) = count'[u]["TBIR"]
      OBVIOUS
    <3>1. tir_fire_count[u] = count[u]["TBIR"] /\ count[u]["TBIR"] \in Nat
      <4>1. tir_fire_count[u] + 0 = count[u]["TBIR"] /\ tir_fire_count[u] \in Nat
        BY <1>2, <2>3 DEF TirAccount, One, TypeInv, CoreType
      <4> QED BY <4>1
    <3> QED BY <1>1, <2>3, <2>6, <2>7, <3>1 DEF One
  <2>9. count'["A"]["TBIR"] = SentByA(test', Pos')
    <3>1. count'["A"]["TBIR"] = SentByA(test, Pos) + One("A" = v)
      BY <1>2, <2>6, Names DEF TirAccount
    <3>2. SentByA(test, Pos + 1) = SentByA(test, Pos) + One(Ins.usart = "A")
      BY <2>1 DEF Neighbours
    <3> QED BY <2>1, <2>2, <3>1, <3>2 DEF One
  <2> QED BY <2>8, <2>9 DEF TirAccount
<1>4. CASE ~DoSend
  <2>1. pc'["Q"] \notin StartPlaces /\ count' = count
    BY <1>1, <1>4, PassiveStep DEF Main, DoCon, DoClr, DoRead, DoDrain, WriteCon, W1C, RbufGet,
       EnterUpdate, Start, TypeInv, ThreadType, Threads, StartPlaces, thVars, statVars
  <2>2. \A u \in Usarts : ~Starting(u)' /\ ~Starting(u)
    BY <1>1, <2>1 DEF Starting, In, StartPlaces
  <2>3. SentByA(test', Pos') = SentByA(test, Pos)
    <3>1. CASE Straight
      <4>1. /\ Pos' = Pos + 1 /\ test' = test /\ Ins = Prog(test)[Pos] /\ Neighbours(test, Pos)
            /\ Pos \in Nat /\ Ins.op # "send"
        BY <1>4, <3>1, StraightAt DEF IInv, Straight, DoPutStr, DoCon, DoSend, DoClr, DoRead,
           DoDrain, DoWait, At
      <4>2. SentByA(test, Pos + 1) = SentByA(test, Pos) + 0
        BY <4>1 DEF Neighbours, One
      <4>3. SentByA(test, Pos) \in Nat
        BY <1>2, Names, CountsAreNat DEF TirAccount, Counters
      <4> QED BY <4>1, <4>2, <4>3
    <3>2. CASE TimeOut
      <4>1. /\ test' = test /\ Pos' = IF test = 5 THEN Pos + 1 ELSE Len(Prog(test)) + 1
            /\ (test \in {1, 2} /\ Pos = 3) \/ (test = 5 /\ Pos = 4)
        BY <3>2, TimeOutMoves, TimeOutWhere DEF IInv
      <4>2. Pos' \in Nat /\ Pos' >= 4
        <5>1. CASE test = 1
          <6>1. Len(Prog(test)) = 9 /\ Pos' = Len(Prog(test)) + 1
            BY <4>1, <5>1, LengthOfTest
          <6> QED BY <6>1
        <5>2. CASE test = 2
          <6>1. Len(Prog(test)) = 9 /\ Pos' = Len(Prog(test)) + 1
            BY <4>1, <5>2, LengthOfTest
          <6> QED BY <6>1
        <5>3. CASE test = 5
          BY <4>1, <5>3
        <5> QED BY <4>1, <5>1, <5>2, <5>3
      <4> QED BY <4>1, <4>2 DEF SentByA
    <3>3. CASE NextTest
      <4>1. Pos = Len(Prog(test)) + 1 /\ test \in 0..5 /\ test' = test + 1 /\ Pos' = 1
        BY <3>3, NextTestMoves DEF IInv
      <4>2. CASE test = 0
        BY <4>1, <4>2 DEF SentByA
      <4>3. CASE test = 1
        <5>1. Pos = 10
          BY <3>3, <4>3, TestEnds DEF IInv
        <5> QED BY <4>1, <4>3, <5>1 DEF SentByA
      <4>4. CASE test = 2
        BY <4>1, <4>4 DEF SentByA
      <4>5. CASE test = 3
        <5>1. Pos = 13
          BY <3>3, <4>5, TestEnds DEF IInv
        <5> QED BY <4>1, <4>5, <5>1 DEF SentByA
      <4>6. CASE test = 4
        <5>1. Pos = 26
          BY <3>3, <4>6, TestEnds DEF IInv
        <5> QED BY <4>1, <4>6, <5>1 DEF SentByA
      <4>7. CASE test = 5
        <5>1. Pos = 7
          BY <3>3, <4>7, TestEnds DEF IInv
        <5> QED BY <4>1, <4>7, <5>1 DEF SentByA
      <4> QED BY <4>1, <4>2, <4>3, <4>4, <4>5, <4>6, <4>7
    <3> QED BY <3>1, <3>2, <3>3 DEF Main, Straight
  <2> QED BY <1>1, <1>2, <2>1, <2>2, <2>3 DEF TirAccount
<1> QED BY <1>3, <1>4

-----------------------------------------------------------------------------
(* ReportInv *)

\* What the scheduler does to a counter of reports
LEMMA KernelReports ==
    ASSUME TypeInv, LoadInv, Kernel, NEW u \in Usarts, NEW b \in Counters
    PROVE  \/ fired'[u][b] = fired[u][b]
           \/ count' = count /\ fired'[u][b] = count[u][b]
<1>1. CASE UpdFired("S")
  <2> DEFINE v == at["S"]  h == Head(todo["S"])
  <2>1. /\ pc["S"] = "upd_fired" /\ count' = count /\ v \in Usarts
        /\ fired' = [fired EXCEPT ![v][h] = ld_count["S"]]
    BY <1>1 DEF UpdFired, TypeInv, ThreadType, Threads
  <2>2. CASE u = v /\ b = h
    <3>1. ld_count["S"] = count[u][b]
      BY <2>1, <2>2 DEF LoadInv, Threads
    <3> QED BY <2>1, <2>2, <3>1 DEF Counters, StatusBits, TypeInv, StatType
  <2>3. CASE ~(u = v /\ b = h)
    BY <2>1, <2>3 DEF TypeInv, StatType, Counters, StatusBits
  <2> QED BY <2>2, <2>3
<1>2. CASE Update("S") /\ ~UpdFired("S")
  BY <1>2 DEF Update, UpdTest, UpdLoad, UpdStore, UpdCount, UpdEnd, statVars
<1>3. CASE ~Update("S")
  BY <1>3, ApartS
<1> QED BY <1>1, <1>2, <1>3

LEMMA KernelReport ==
    ASSUME NoWrap, DeviceInv, IInv, Kernel PROVE ReportInv'
<1> USE DEF DeviceInv
<1>1. pc'["Q"] = pc["Q"] /\ at'["Q"] = at["Q"] /\ todo'["Q"] = todo["Q"]
  BY KernelLeavesQ
<1>2. ASSUME NEW u \in Usarts, NEW bit \in {"RIR", "EIR"}
      PROVE  fired'[u][bit] = count'[u][bit] \/ Owed(u, bit)' \/ Closing(u, bit)'
  <2>1. CASE Owed(u, bit)
    BY <2>1, OwedServed
  <2>3. CASE Closing(u, bit)
    BY <2>3, ClosingServed DEF Next, IInv, Counters
  <2>2. CASE fired[u][bit] = count[u][bit]
    <3>1. ReceiverStays(u) \/ ReceiverRefuses(u) \/ ReceiverAccepts(u)
      BY KernelReceives, KernelRuns DEF IInv
    <3>2. count'[u][bit] = count[u][bit] \/ Owed(u, bit)'
      BY <3>1 DEF ReceiverStays, ReceiverRefuses, ReceiverAccepts
    <3>3. \/ fired'[u][bit] = fired[u][bit]
          \/ count' = count /\ fired'[u][bit] = count[u][bit]
      BY KernelReports DEF Counters, IInv
    <3> QED BY <2>2, <3>2, <3>3
  <2> QED BY <2>1, <2>2, <2>3 DEF IInv, ReportInv
<1>3. ASSUME NEW u \in Usarts
      PROVE  \/ fired'[u]["TBIR"] = count'[u]["TBIR"]
             \/ Starting(u)'
             \/ In("Q", u, UpdPlaces)' /\ todo'["Q"] = UpdateOrder
  <2>1. count'[u]["TBIR"] = count[u]["TBIR"]
    BY KernelSendsNone
  <2>2. fired'[u]["TBIR"] = fired[u]["TBIR"] \/ fired'[u]["TBIR"] = count[u]["TBIR"]
    BY KernelReports DEF Counters, IInv
  <2> QED BY <1>1, <2>1, <2>2 DEF IInv, ReportInv, Starting, In
<1> QED BY <1>2, <1>3 DEF ReportInv

LEMMA AccessReport ==
    ASSUME NoWrap, DeviceInv, IInv, Access \/ Update("Q") PROVE ReportInv'
<1> USE DEF DeviceInv
<1>0. QStep /\ todo["Q"] # <<"TIR">> /\ TxOne /\ LoadInv /\ count' = count
  BY BusKeepsChan, Names DEF QStep, IInv, BusInv
<1>2. ASSUME NEW u \in Usarts, NEW bit \in {"RIR", "EIR"}
      PROVE  fired'[u][bit] = count'[u][bit] \/ Owed(u, bit)' \/ Closing(u, bit)'
  <2>3. CASE Closing(u, bit)
    BY <2>3, BusLeavesLocalsOfS DEF Closing, In
  <2>1. CASE Owed(u, bit)
    BY <1>0, <2>1, OwedStays, AccessKeepsPulses
  <2>2. CASE fired[u][bit] = count[u][bit]
    BY <1>0, <2>2, BusReports DEF Counters
  <2> QED BY <2>1, <2>2, <2>3 DEF IInv, ReportInv
<1>3. ASSUME NEW u \in Usarts
      PROVE  \/ fired'[u]["TBIR"] = count'[u]["TBIR"]
             \/ Starting(u)'
             \/ In("Q", u, UpdPlaces)' /\ todo'["Q"] = UpdateOrder
  <2>1. CASE fired[u]["TBIR"] = count[u]["TBIR"]
    BY <1>0, <2>1, BusReports DEF Counters
  <2>2. CASE Starting(u)
    <3>1. CASE TbufLoad /\ at["Q"] = u
      BY <3>1 DEF TbufLoad, EnterUpdate, In, UpdPlaces, TypeInv, ThreadType, Threads
    <3>2. CASE ~(TbufLoad /\ at["Q"] = u)
      BY <1>0, <2>2, <3>2, AccessStarts
    <3> QED BY <3>1, <3>2
  <2>3. CASE In("Q", u, UpdPlaces) /\ todo["Q"] = UpdateOrder
    <3> USE DEF In, UpdPlaces, TypeInv, ThreadType, Threads, Goto
    <3>1. todo["Q"] # <<>> /\ Head(todo["Q"]) = "TBIR" /\ at["Q"] = u
      BY <2>3 DEF UpdateOrder
    <3>2. UpdTest("Q") \/ UpdLoad("Q") \/ UpdStore("Q") \/ UpdCount("Q") \/ UpdFired("Q")
      BY <2>3, <3>1 DEF Access, TbufWrite, TbufTest, TbufLoad, RbufClearFull, RbufClearRaw, W1cLoad,
         W1cStore, Update, UpdEnd
    <3>3. CASE UpdTest("Q")
      <4>1. CASE Fires(u, "TBIR")
        BY <2>3, <3>1, <3>3, <4>1 DEF UpdTest
      <4>2. CASE ~Fires(u, "TBIR")
        <5>1. ~(count[u]["TBIR"] > fired[u]["TBIR"])
          BY <4>2 DEF Fires, CountOf
        <5>2. fired[u]["TBIR"] <= count[u]["TBIR"]
          BY DEF CountInv, Counters
        <5>3. fired[u]["TBIR"] \in Nat /\ count[u]["TBIR"] \in Nat
          BY CountsAreNat, FiredAreNat DEF Counters, StatusBits
        <5>4. fired' = fired
          BY <3>3 DEF UpdTest, statVars
        <5> QED BY <1>0, <5>1, <5>2, <5>3, <5>4
      <4> QED BY <4>1, <4>2
    <3>4. CASE UpdLoad("Q") \/ UpdStore("Q") \/ UpdCount("Q")
      BY <2>3, <3>4 DEF UpdLoad, UpdStore, UpdCount
    <3>5. CASE UpdFired("Q")
      <4>1. fired' = [fired EXCEPT ![u]["TBIR"] = ld_count["Q"]] /\ pc["Q"] = "upd_fired"
        BY <3>1, <3>5 DEF UpdFired
      <4>2. ld_count["Q"] = count[u]["TBIR"]
        BY <1>0, <3>1, <4>1 DEF LoadInv, Counters
      <4> QED BY <1>0, <4>1, <4>2 DEF StatType, StatusBits
    <3> QED BY <3>2, <3>3, <3>4, <3>5
  <2> QED BY <2>1, <2>2, <2>3 DEF IInv, ReportInv
<1> QED BY <1>2, <1>3 DEF ReportInv

LEMMA MainReport ==
    ASSUME NoWrap, DeviceInv, IInv, Main PROVE ReportInv'
<1> USE DEF DeviceInv
<1>1. /\ UNCHANGED <<asserted, fired>> /\ (count' = count \/ DoSend) /\ pc["Q"] = "idle"
      /\ pc'["S"] = pc["S"] /\ at'["S"] = at["S"] /\ ret'["S"] = ret["S"] /\ todo'["S"] = todo["S"]
  BY MainKernel DEF Idle
<1>2. \A u \in Usarts : fired[u]["TBIR"] = count[u]["TBIR"]
  BY <1>1 DEF IInv, ReportInv, Starting, StartPlaces, In, UpdPlaces
<1>3. PICK v \in Usarts :
         /\ \A u \in Usarts : \A b \in Counters : b # "TBIR" \/ u # v => count'[u][b] = count[u][b]
         /\ count'[v]["TBIR"] = count[v]["TBIR"] \/ Starting(v)'
  <2>1. CASE DoSend
    <3>1. PICK v \in Usarts : v = Ins.usart
      BY <2>1, SendsAtRest
    <3>2. /\ count' = [count EXCEPT ![v]["TBIR"] = Incr(@)]
          /\ pc'["Q"] = "tbuf" /\ at'["Q"] = v
      BY <2>1, <3>1 DEF DoSend, WriteTbuf, Start, TypeInv, ThreadType, Threads
    <3> QED BY <3>2 DEF TypeInv, StatType, Starting, In, StartPlaces
  <2>2. CASE ~DoSend
    BY <1>1, <2>2, Names
  <2> QED BY <2>1, <2>2
<1>4. \A u \in Usarts : \A bit \in {"RIR", "EIR"} :
         /\ count'[u][bit] = count[u][bit]
         /\ (Owed(u, bit) => Owed(u, bit)') /\ (Closing(u, bit) => Closing(u, bit)')
  BY <1>1, <1>3 DEF Owed, Closing, In, Counters
<1>5. \A u \in Usarts : fired'[u]["TBIR"] = count'[u]["TBIR"] \/ Starting(u)'
  BY <1>1, <1>2, <1>3 DEF Counters
<1> QED BY <1>1, <1>4, <1>5 DEF IInv, ReportInv

-----------------------------------------------------------------------------
(* LoadInv *)

\* What a step of an update finds and leaves in the local of its count
LEMMA UpdateLoads ==
    ASSUME TypeInv, NEW t \in Threads, Update(t), NEW b \in Counters,
           pc'[t] = "upd_fired", Head(todo'[t]) = b
    PROVE  ld_count'[t] = count'[at'[t]][b]
<1> USE DEF TypeInv, ThreadType, Goto
<1>1. ~UpdTest(t) /\ ~UpdLoad(t) /\ ~UpdStore(t) /\ ~UpdFired(t)
  BY DEF UpdTest, UpdLoad, UpdStore, UpdFired
<1>2. ~UpdEnd(t)
  BY DEF UpdEnd
<1>3. UpdCount(t)
  BY <1>1, <1>2 DEF Update
<1> QED BY <1>3 DEF UpdCount, CountOf, Counters, statVars

LEMMA KernelLoad ==
    ASSUME NoWrap, DeviceInv, IInv, Kernel PROVE LoadInv'
<1> USE DEF DeviceInv, Threads
<1>1. ASSUME NEW b \in Counters, pc'["Q"] = "upd_fired", Head(todo'["Q"]) = b
      PROVE  ld_count'["Q"] = count'[at'["Q"]][b]
  <2>1. /\ pc["Q"] = "upd_fired" /\ Head(todo["Q"]) = b /\ at'["Q"] = at["Q"]
        /\ ld_count'["Q"] = ld_count["Q"]
    BY <1>1, KernelLeavesQ
  <2>2. PICK u \in Usarts : u = at["Q"]
    BY DEF TypeInv, ThreadType
  <2>3. ld_count["Q"] = count[u][b]
    BY <2>1, <2>2 DEF IInv, LoadInv
  <2>4. Chan(u) = <<>>
    <3>1. ~Rests(test, Pos) /\ test \in 1..5
      BY KernelRuns
    <3> DEFINE ins == Prog(test)[Pos - 1]
    <3>2. Doing(ins) /\ at["Q"] = ins.usart /\ Neighbours(test, Pos - 1)
      BY <2>1, BusPlaces
    <3>3. ins.op \in {"con", "send"}
      BY <2>1, <3>2 DEF Doing
    <3>4. u = From(test)
      BY <2>2, <3>1, <3>2, <3>3 DEF Neighbours
    <3> QED BY <3>4 DEF IInv, LinkInv, RxStill
  <2>5. ReceiverStays(u)
    <3>1. ReceiverStays(u) \/ ReceiverRefuses(u) \/ ReceiverAccepts(u)
      BY KernelReceives, KernelRuns DEF IInv
    <3> QED BY <2>4, <3>1 DEF ReceiverRefuses, ReceiverAccepts
  <2>6. count'[u][b] = count[u][b]
    BY <2>5, KernelSendsNone DEF ReceiverStays, Counters
  <2> QED BY <2>1, <2>2, <2>3, <2>6
<1>2. ASSUME NEW b \in Counters, pc'["S"] = "upd_fired", Head(todo'["S"]) = b
      PROVE  ld_count'["S"] = count'[at'["S"]][b]
  <2>1. CASE Update("S")
    BY <1>2, <2>1, UpdateLoads
  <2>2. CASE ~Update("S")
    BY <1>2, <2>2, ApartS, UpdateFirst DEF RmwPlaces, SamePlace, UpdPlaces
  <2> QED BY <2>1, <2>2
<1> QED BY <1>1, <1>2 DEF LoadInv

LEMMA AccessLoads ==
    ASSUME NoWrap, DeviceInv, IInv, Access \/ Update("Q") PROVE LoadInv'
<1> USE DEF DeviceInv, Threads
<1>0. count' = count
  BY BusKeepsChan, Names
<1>1. ASSUME NEW b \in Counters, pc'["S"] = "upd_fired", Head(todo'["S"]) = b
      PROVE  ld_count'["S"] = count'[at'["S"]][b]
  BY <1>0, <1>1, BusLeavesLocalsOfS DEF IInv, LoadInv
<1>2. ASSUME NEW b \in Counters, pc'["Q"] = "upd_fired", Head(todo'["Q"]) = b
      PROVE  ld_count'["Q"] = count'[at'["Q"]][b]
  <2>1. CASE Update("Q")
    BY <1>2, <2>1, UpdateLoads
  <2>2. CASE W1cLoad \/ W1cStore
    BY <1>2, <2>2 DEF W1cLoad, W1cStore, Goto, TypeInv, ThreadType
  <2>3. CASE Access /\ ~W1cLoad /\ ~W1cStore
    <3>1. pc["Q"] = "upd_fired"
      BY <1>2, <2>3, ApartQ DEF RmwPlaces, SamePlace
    <3> QED BY <2>3, <3>1 DEF Access, TbufWrite, TbufTest, TbufLoad, RbufClearFull, RbufClearRaw
  <2> QED BY <2>1, <2>2, <2>3
<1> QED BY <1>1, <1>2 DEF LoadInv

LEMMA MainLoads ==
    ASSUME NoWrap, DeviceInv, IInv, Main PROVE LoadInv'
<1> USE DEF DeviceInv, Threads
<1>1. ASSUME NEW b \in Counters, pc'["S"] = "upd_fired", Head(todo'["S"]) = b
      PROVE  ld_count'["S"] = count'[at'["S"]][b]
  <2>1. pc["S"] = "upd_fired"
    BY <1>1, MainKernel
  <2>2. ~DoSend
    BY <2>1, SendsAtRest DEF Quiet, Idle
  <2> QED BY <1>1, <2>1, <2>2, MainKernel DEF IInv, LoadInv
<1>2. pc'["Q"] # "upd_fired"
  <2>1. pc["Q"] = "idle"
    BY MainKernel DEF Idle
  <2>2. CASE UNCHANGED vars
    BY <2>1, <2>2 DEF vars, thVars
  <2>3. CASE \E u \in Usarts : Driver(u)
    BY <2>1, <2>3, ApartQ DEF RmwPlaces, SamePlace
  <2> QED BY <2>2, <2>3, StraightDrives, PassiveStep DEF Main, Straight, IInv
<1> QED BY <1>1, <1>2 DEF LoadInv

-----------------------------------------------------------------------------
(* InjectInv *)

LEMMA KernelInject ==
    ASSUME TypeInv, IInv, Kernel PROVE InjectInv'
<1> USE DEF TypeInv, CoreType, RxType, ThreadType, Threads, Goto, Start, EnterUpdate, In
<1>0. InjectInv
  BY DEF IInv
<1>1. CASE InjectOverrun
  BY <1>1 DEF InjectOverrun, InjectInv, coreVars
<1>2. CASE OeStore
  BY <1>0, <1>2 DEF OeStore, InjectInv
<1>3. CASE InjectByte
  BY <1>3 DEF InjectByte, InjectInv, rxVars
<1>4. CASE ~InjectOverrun /\ ~OeStore /\ ~InjectByte
  <2>1. pc'["S"] \notin {"oe_store", "oe_irq", "inj_full"}
    <3>1. CASE RxIdle \/ RxStart \/ InjectDropped \/ OeIrq \/ InjectFull \/ TxdTest \/ TxdLoad
      BY <3>1 DEF RxIdle, RxStart, InjectDropped, OeIrq, InjectFull, TxdTest, TxdLoad, Refused
    <3>2. CASE Update("S")
      BY <3>2 DEF Update, UpdTest, UpdLoad, UpdStore, UpdCount, UpdFired, UpdEnd
    <3>3. ASSUME NEW v \in Usarts, RxDone(v) \/ TxDone(v) \/ TirAuto(v) \/ Bridge(v)
          PROVE  pc'["S"] \notin {"oe_store", "oe_irq", "inj_full"}
      BY <3>3 DEF RxDone, TxDone, TirAuto, Bridge, Deliver, Dispatch, Idle
    <3>4. CASE \/ DeltaCycle \/ AdvanceTime
               \/ \E v \in Usarts : IrqDeassert(v) \/ IrqMethod(v) \/ IrqPulse(v)
      BY <3>4 DEF DeltaCycle, AdvanceTime, IrqDeassert, IrqMethod, IrqPulse, thVars, Dispatch, Idle
    <3> QED BY <1>4, <3>1, <3>2, <3>3, <3>4 DEF Kernel, Process
  <2> QED BY <2>1 DEF InjectInv
<1> QED BY <1>1, <1>2, <1>3, <1>4

\* What a bus access does to RBUF
LEMMA AccessRbuf ==
    ASSUME TypeInv, Access \/ Update("Q"), NEW u \in Usarts
    PROVE  \/ rbuf_full'[u] = rbuf_full[u] /\ rbuf'[u] = rbuf[u]
           \/ RbufClearFull /\ at["Q"] = u /\ ~rbuf_full'[u]
           \/ RbufClearRaw /\ at["Q"] = u /\ rbuf_full'[u] = rbuf_full[u]
<1>1. CASE RbufClearFull
  BY <1>1 DEF RbufClearFull, TypeInv, CoreType
<1>2. CASE RbufClearRaw
  BY <1>2 DEF RbufClearRaw, TypeInv, CoreType
<1>3. CASE ~RbufClearFull /\ ~RbufClearRaw
  BY <1>3 DEF Access, TbufWrite, TbufTest, TbufLoad, LoadTSR, W1cLoad, W1cStore, Update, UpdTest,
     UpdLoad, UpdStore, UpdCount, UpdFired, UpdEnd, coreVars
<1> QED BY <1>1, <1>2, <1>3

LEMMA AccessInject ==
    ASSUME DeviceInv, IInv, Access \/ Update("Q") PROVE InjectInv'
<1> USE DEF DeviceInv
<1>1. pc'["S"] = pc["S"] /\ at'["S"] = at["S"]
  BY BusLeavesLocalsOfS
<1>2. rxd_frame_byte' = rxd_frame_byte
  BY DEF Access, TbufWrite, TbufTest, TbufLoad, RbufClearFull, RbufClearRaw, W1cLoad, W1cStore,
     Update, UpdTest, UpdLoad, UpdStore, UpdCount, UpdFired, UpdEnd, rxVars
<1>3. ASSUME NEW u \in Usarts, Injecting(u)
      PROVE  rbuf_full'[u] = rbuf_full[u] /\ rbuf'[u] = rbuf[u]
  <2>1. ~((RbufClearFull \/ RbufClearRaw) /\ at["Q"] = u)
    BY <1>3, ReadsStill DEF RbufClearFull, RbufClearRaw
  <2> QED BY <2>1, AccessRbuf
<1> QED BY <1>1, <1>2, <1>3 DEF IInv, InjectInv, Injecting, In

LEMMA MainInject ==
    ASSUME NoWrap, DeviceInv, IInv, Main PROVE InjectInv'
  BY MainKernel DEF IInv, InjectInv, In, DeviceInv

-----------------------------------------------------------------------------
(* What a step leaves of a byte and its report *)

LEMMA NoW1c ==
    ASSUME TypeInv, Kernel \/ Main PROVE ~W1cStore
<1>1. CASE Kernel
  <2>1. pc'["Q"] = pc["Q"]
    BY <1>1, KernelLeavesQ
  <2> QED BY <2>1 DEF W1cStore, Goto, TypeInv, ThreadType, Threads
<1>2. CASE Main
  BY <1>2 DEF W1cStore, Main, DoPutStr, DoCon, DoSend, DoClr, DoRead, DoDrain, DoWait, TimeOut,
     NextTest, At, Idle
<1> QED BY <1>1, <1>2

LEMMA KernelReported ==
    ASSUME TypeInv, LoadInv, Kernel, NEW u \in Usarts, NEW bit \in {"RIR", "EIR"},
           Told(u, bit), Owed(u, bit) => Calm(u)
    PROVE  Told(u, bit)'
  BY NoW1c, ToldStays DEF Next, Prompt

LEMMA KernelBox ==
    ASSUME NoWrap, DeviceInv, IInv, Kernel, NEW u \in Usarts, Box(u),
           Owed(u, "RIR") => Calm(u)
    PROVE  Box(u)'
<1> USE DEF DeviceInv
<1>1. ReceiverStays(u) \/ ReceiverRefuses(u) \/ ReceiverAccepts(u)
  BY KernelReceives, KernelRuns DEF IInv
<1>2. CASE ReceiverAccepts(u)
  BY <1>2 DEF ReceiverAccepts, Box, Told
<1>3. CASE ReceiverStays(u) \/ ReceiverRefuses(u)
  <2>1. rbuf_full'[u] => rbuf_full[u]
    BY <1>3 DEF ReceiverStays, ReceiverRefuses
  <2>2. Told(u, "RIR") => Told(u, "RIR")'
    BY KernelReported DEF IInv
  <2> QED BY <2>1, <2>2 DEF Box
<1> QED BY <1>1, <1>2, <1>3

LEMMA OneByte ==
    ASSUME NEW b PROVE <<b>> # <<>> /\ Head(<<b>>) = b /\ Tail(<<b>>) = <<>>
  OBVIOUS

LEMMA KernelCarries ==
    ASSUME NoWrap, DeviceInv, IInv, Kernel, NEW u \in Usarts, NEW b, Carried(u, b), Calm(u)
    PROVE  Carried(u, b)'
<1> USE DEF DeviceInv
<1>1. ReceiverStays(u) \/ ReceiverRefuses(u) \/ ReceiverAccepts(u)
  BY KernelReceives, KernelRuns DEF IInv
<1>2. CASE Coming(u, b)
  BY <1>1, <1>2, OneByte DEF ReceiverStays, ReceiverRefuses, ReceiverAccepts, Coming, Here, Carried,
     Told
<1>3. CASE Here(u, b) /\ Told(u, "RIR")
  <2>1. Told(u, "RIR")'
    BY <1>3, KernelReported DEF IInv
  <2> QED BY <1>1, <1>3, <2>1 DEF ReceiverStays, ReceiverRefuses, ReceiverAccepts, Here, Carried
<1> QED BY <1>2, <1>3 DEF Carried

\* A bus access touches no other USART.
LEMMA AccessElsewhere ==
    ASSUME TypeInv, Access \/ Update("Q"), NEW u \in Usarts, at["Q"] # u
    PROVE  /\ rbuf_full'[u] = rbuf_full[u] /\ rbuf'[u] = rbuf[u] /\ status'[u] = status[u]
           /\ Calm(u)
<1>1. rbuf_full'[u] = rbuf_full[u] /\ rbuf'[u] = rbuf[u]
  BY AccessRbuf
<1>2. status'[u] = status[u]
  <2>1. CASE UpdStore("Q") \/ W1cStore
    BY <2>1 DEF UpdStore, W1cStore, TypeInv, StatType
  <2>2. CASE ~UpdStore("Q") /\ ~W1cStore
    BY <2>2 DEF Access, TbufWrite, TbufTest, TbufLoad, RbufClearFull, RbufClearRaw, W1cLoad, Update,
       UpdTest, UpdLoad, UpdCount, UpdFired, UpdEnd, statVars
  <2> QED BY <2>1, <2>2
<1> QED BY <1>1, <1>2 DEF Calm, In

LEMMA AccessReported ==
    ASSUME TypeInv, LoadInv, StartInv, Access \/ Update("Q"), NEW u \in Usarts,
           NEW bit \in {"RIR", "EIR"}, Told(u, bit), Owed(u, bit) => Calm(u),
           ~(W1cStore /\ at["Q"] = u /\ bit \in arg)
    PROVE  Told(u, bit)'
  BY AccessKeepsPulses, ToldStays DEF Next, Prompt

LEMMA AccessCarries ==
    ASSUME NoWrap, DeviceInv, LoadInv, Access \/ Update("Q"), NEW u \in Usarts, NEW b, Carried(u, b),
           at["Q"] # u
    PROVE  Carried(u, b)'
<1> USE DEF DeviceInv
<1>1. Chan(u)' = Chan(u)
  BY BusKeepsChan
<1>2. rbuf_full'[u] = rbuf_full[u] /\ rbuf'[u] = rbuf[u] /\ Calm(u)
  BY AccessElsewhere
<1>3. Told(u, "RIR") => Told(u, "RIR")'
  BY <1>2, AccessReported
<1> QED BY <1>1, <1>2, <1>3 DEF Carried, Coming, Here

LEMMA MainIsNext == ASSUME IInv, Main PROVE [Next]_vars
  BY FdStep DEF IInv, FdNext

LEMMA MainReported ==
    ASSUME TypeInv, IInv, Main, NEW u \in Usarts, NEW bit \in {"RIR", "EIR"},
           Told(u, bit)
    PROVE  Told(u, bit)'
<1>1. Calm(u)
  BY MainKernel DEF Calm, In, Idle
<1>2. Prompt
  BY MainKernel DEF Prompt
<1> QED BY <1>1, <1>2, NoW1c, MainIsNext, ToldStays DEF IInv

\* A byte goes from the program to the receiver.
LEMMA MainSends ==
    ASSUME NoWrap, DeviceInv, IInv, Main, NEW u \in Usarts
    PROVE  IF DoSend /\ u = To(test) THEN Chan(u) = <<>> /\ Chan(u)' = <<Ins.byte>>
                                     ELSE Chan(u)' = Chan(u)
<1> USE DEF DeviceInv
<1>1. /\ UNCHANGED <<rxd_busy, rxd_pending_q, rxd_frame_byte>> /\ (UNCHANGED wire \/ DoSend)
      /\ pc'["S"] = pc["S"] /\ at'["S"] = at["S"]
  BY MainKernel
<1>2. CASE DoSend
  <2>1. /\ Quiet /\ Peer[Ins.usart] = To(test) /\ To(test) \in Usarts
        /\ wire' = [wire EXCEPT ![Peer[Ins.usart]] = Append(@, Ins.byte)]
        /\ Ins.byte \in Bytes
    BY <1>2, SendsAtRest, PeersOfTest, StraightAt
       DEF DoSend, WriteTbuf, IInv, Straight, At, Neighbours
  <2>2. CASE u = To(test)
    <3>1. Chan(u) = <<>>
      BY <2>1, QuietReports
    <3>2. /\ InFrame(u) \in Seq(Nat) /\ rxd_pending_q[u] \in Seq(Nat) /\ wire[u] \in Seq(Nat)
          /\ Ins.byte \in Nat
      BY <2>1, ByteTypes, BytesType
    <3>3. wire'[u] = Append(wire[u], Ins.byte)
      BY <2>1, <2>2 DEF TypeInv, RxType
    <3>4. InFrame(u)' = InFrame(u) /\ rxd_pending_q'[u] = rxd_pending_q[u]
      BY <1>1 DEF InFrame, Injecting, In
    <3>5. Chan(u)' = Append(Chan(u), Ins.byte)
      <4>1. PICK f, q, w, b : f = InFrame(u) /\ q = rxd_pending_q[u] /\ w = wire[u] /\ b = Ins.byte
        OBVIOUS
      <4>2. Chan(u) = f \o q \o w /\ Chan(u)' = f \o q \o Append(w, b)
        BY <3>3, <3>4, <4>1 DEF Chan
      <4>3. f \in Seq(Nat) /\ q \in Seq(Nat) /\ w \in Seq(Nat) /\ b \in Nat
        BY <3>2, <4>1
      <4>4. f \o q \o Append(w, b) = Append(f \o q \o w, b)
        BY <4>3, SendByte
      <4> QED BY <4>1, <4>2, <4>4
    <3> QED BY <1>2, <2>2, <3>1, <3>5
  <2>3. CASE u # To(test)
    <3>1. wire'[u] = wire[u]
      BY <2>1, <2>3 DEF TypeInv, RxType
    <3> QED BY <1>1, <2>3, <3>1, ChanOf
  <2> QED BY <2>2, <2>3
<1>3. CASE ~DoSend
  BY <1>1, <1>3, ChanOf
<1> QED BY <1>2, <1>3

LEMMA MainCarries ==
    ASSUME NoWrap, DeviceInv, IInv, Main, ~DoSend, NEW u \in Usarts, NEW b, Carried(u, b)
    PROVE  Carried(u, b)'
<1> USE DEF DeviceInv
<1>1. Chan(u)' = Chan(u) /\ rbuf_full' = rbuf_full /\ rbuf' = rbuf
  BY MainSends, MainKernel
<1>2. Told(u, "RIR") => Told(u, "RIR")'
  BY MainReported
<1> QED BY <1>1, <1>2 DEF Carried, Coming, Here

-----------------------------------------------------------------------------
(* SetUpInv *)

LEMMA AccessSetUp ==
    ASSUME NoWrap, DeviceInv, IInv, Access \/ Update("Q"), test = 0
    PROVE  SetUpInv'
<1> USE DEF DeviceInv
<1>1. SetUpInv /\ Quiet /\ todo["Q"] # <<"TIR">>
  BY DEF IInv, StageInv, StageAt, RestInv, Rests, BusInv
<1>2. \A u \in Usarts : ~rbuf_full'[u]
  BY <1>1, AccessRbuf DEF SetUpInv
<1>3. count' = count
  BY BusKeepsChan, Names
<1>4. \A u \in Usarts : \A b \in Counters : ~Fires(u, b)
  <2> SUFFICES ASSUME NEW u \in Usarts, NEW b \in Counters PROVE ~Fires(u, b)
    OBVIOUS
  <2>1. asserted[u] = {}
    BY <1>1 DEF IInv, PulseInv, Quiet
  <2>2. CASE b = "TBIR"
    <3>1. count[u]["TBIR"] = 0 /\ fired[u]["TBIR"] \in Nat
      BY <1>1, FiredAreNat DEF SetUpInv, StatusBits
    <3> QED BY <2>2, <3>1 DEF Fires, CountOf
  <2>3. CASE b \in {"RIR", "EIR"}
    BY <2>1, <2>3 DEF Fires
  <2> QED BY <2>2, <2>3 DEF Counters
<1>5. pc["Q"] \notin {"upd_load", "upd_store", "upd_count", "upd_fired"} /\ ~new_irq["Q"]
  BY <1>1 DEF SetUpInv
<1>6. pc'["Q"] \notin {"upd_load", "upd_store", "upd_count", "upd_fired"} /\ ~new_irq'["Q"]
  <2> USE DEF TypeInv, ThreadType, Threads, Goto, EnterUpdate
  <2>1. CASE UpdTest("Q")
    <3>1. Head(todo["Q"]) \in Counters
      <4>1. todo["Q"] \in Todos /\ todo["Q"] # <<>>
        BY <2>1 DEF UpdTest
      <4>2. ASSUME NEW td \in Todos, td # <<>>, td # <<"TIR">> PROVE Head(td) \in Counters
        <5>1. CASE td = <<"EIR">>
          BY <5>1 DEF Counters
        <5>2. CASE td = <<"RIR", "EIR">>
          BY <5>2 DEF Counters
        <5>3. CASE td = <<"TBIR", "RIR", "EIR">>
          BY <5>3 DEF Counters
        <5> QED BY <4>2, <5>1, <5>2, <5>3 DEF Todos
      <4> QED BY <1>1, <4>1, <4>2
    <3>2. ~Fires(at["Q"], Head(todo["Q"]))
      BY <1>4, <3>1
    <3> QED BY <1>5, <2>1, <3>2 DEF UpdTest
  <2>2. CASE UpdLoad("Q") \/ UpdStore("Q") \/ UpdCount("Q") \/ UpdFired("Q")
    BY <1>5, <2>2 DEF UpdLoad, UpdStore, UpdCount, UpdFired
  <2>3. CASE UpdEnd("Q")
    BY <2>3 DEF UpdEnd
  <2>4. CASE Access
    BY <1>5, <2>4 DEF Access, TbufWrite, TbufTest, TbufLoad, RbufClearFull, RbufClearRaw, W1cLoad,
       W1cStore, thVars
  <2> QED BY <2>1, <2>2, <2>3, <2>4 DEF Update
<1> QED BY <1>1, <1>2, <1>3, <1>6 DEF SetUpInv

\* Where an instruction leaves the bus thread
LEMMA MainPlaces ==
    ASSUME TypeInv, Main
    PROVE  /\ pc'["Q"] \in {"idle", "upd", "tbuf", "w1c_load", "rbuf_full"}
           /\ DoClr => pc'["Q"] = "w1c_load"
           /\ DoRead \/ DoDrain => pc'["Q"] = "rbuf_full"
<1> USE DEF TypeInv, ThreadType, Threads, EnterUpdate, Start
<1>1. CASE DoPutStr \/ DoWait \/ TimeOut \/ NextTest
  <2>1. pc' = pc /\ pc["Q"] = "idle" /\ ~DoClr /\ ~DoRead /\ ~DoDrain
    <3>1. UNCHANGED thVars
      BY <1>1, PassiveStep
    <3>2. CASE NextTest
      BY <3>1, <3>2 DEF NextTest, Idle, DoClr, DoRead, DoDrain, At, thVars
    <3>3. CASE ~NextTest
      BY <1>1, <3>1, <3>3 DEF DoPutStr, DoWait, TimeOut, DoClr, DoRead, DoDrain, At, Idle, thVars
    <3> QED BY <3>2, <3>3
  <2> QED BY <2>1
<1>2. CASE DoCon \/ DoSend
  BY <1>2 DEF DoCon, DoSend, WriteCon, WriteTbuf, DoClr, DoRead, DoDrain, At
<1>3. CASE DoClr \/ DoRead \/ DoDrain
  BY <1>3 DEF DoClr, DoRead, DoDrain, W1C, RbufGet, At
<1> QED BY <1>1, <1>2, <1>3 DEF Main

LEMMA MainSetUp ==
    ASSUME NoWrap, DeviceInv, IInv, Main, test = 0, ~NextTest
    PROVE  test' = 0 /\ SetUpInv'
<1> USE DEF DeviceInv
<1>1. UNCHANGED rbuf_full /\ (UNCHANGED count \/ DoSend) /\ new_irq'["Q"] = new_irq["Q"]
  BY MainKernel
<1>2. Straight
  BY UnderWay DEF Main, Straight, TimeOut, At, IInv, Neighbours
<1>3. test' = 0 /\ ~DoSend
  BY <1>2, StraightAt DEF IInv, DoSend, At, Neighbours
<1>4. SetUpInv
  BY DEF IInv, StageInv, StageAt
<1> QED BY <1>1, <1>3, <1>4, MainPlaces DEF SetUpInv

-----------------------------------------------------------------------------
(* ExchangeAt *)

LEMMA StraightOp ==
    ASSUME Straight
    PROVE  /\ Ins.op = "put" => DoPutStr
           /\ DoSend <=> Ins.op = "send"
           /\ DoCon <=> Ins.op = "con"
           /\ DoClr <=> Ins.op = "clr"
           /\ DoRead <=> Ins.op = "read"
           /\ DoDrain <=> Ins.op = "drain"
           /\ DoWait <=> Ins.op = "wait"
  BY DEF Straight, DoPutStr, DoCon, DoSend, DoClr, DoRead, DoDrain, DoWait, At

LEMMA MainBox ==
    ASSUME NoWrap, DeviceInv, IInv, Main, NEW u \in Usarts, Box(u)
    PROVE  Box(u)'
<1> USE DEF DeviceInv
<1>1. rbuf_full' = rbuf_full
  BY MainKernel
<1>2. Told(u, "RIR") => Told(u, "RIR")'
  BY MainReported
<1> QED BY <1>1, <1>2 DEF Box

\* A receiver that has nothing to do owes no report.
LEMMA StillOwesNone == ASSUME NEW u, RxStill(u), NEW bit PROVE ~Owed(u, bit)
  BY DEF RxStill, Owed, In

LEMMA ExchangeShape ==
    ASSUME NEW n \in {1, 2}, NEW i \in 1..9
    PROVE  LET ins == Prog(n)[i] IN
           /\ i \in {1, 4, 7} => ins.op = "put"
           /\ i = 2 => ins.op = "send" /\ ins.usart = From(n) /\ ins.byte = ByteOf(n, 3)
           /\ i \in {3, 6} => ins.op = "wait"
           /\ i = 5 => ins.op = "clr" /\ ins.usart = From(n) /\ ins.bits = {"TBIR"}
           /\ i = 8 => ins.op = "clr" /\ ins.usart = To(n) /\ ins.bits = {"RIR"}
           /\ i = 9 => ins.op = "read" /\ ins.usart = To(n) /\ ins.byte = ByteOf(n, 9)
<1> USE DEF PutStr, Send, Clr, Wait, Read, From, To, ByteOf
<1>1. CASE n = 1
  BY <1>1, Prog1
<1>2. CASE n = 2
  BY <1>2, Prog2
<1> QED BY <1>1, <1>2

LEMMA BytesOfExchange == ASSUME NEW n \in {1, 2}, NEW i, NEW j PROVE ByteOf(n, i) = ByteOf(n, j)
  BY DEF ByteOf

\* The bus access under way in tests 1 and 2, if there is one
LEMMA ExchangeBus ==
    ASSUME TypeInv, IInv, test \in {1, 2}, pc["Q"] # "idle"
    PROVE  /\ Pos \in {3, 6, 9, 10}
           /\ Pos \in {3, 6} => at["Q"] = From(test)
           /\ Pos = 3 => pc["Q"] \in UpdPlaces \cup StartPlaces
           /\ Pos = 6 => pc["Q"] \in {"w1c_load", "w1c_store"} /\ arg = {"TBIR"}
           /\ Pos = 9 => at["Q"] = To(test) /\ pc["Q"] \in {"w1c_load", "w1c_store"}
           /\ Pos = 10 => at["Q"] = To(test) /\ pc["Q"] \in {"rbuf_full", "rbuf_raw"}
<1>1. PICK n \in {1, 2}, i \in {Pos} : n = test /\ i = Pos
  OBVIOUS
<1>2. /\ Doing(Prog(n)[i - 1]) /\ i \in Nat /\ i - 1 \in DOMAIN Prog(n)
      /\ Prog(n)[i - 1].op \in {"con", "send", "clr", "read", "drain"}
      /\ at["Q"] = Prog(n)[i - 1].usart
  BY <1>1, BusPlaces
<1>3. i - 1 \in 1..9
  BY <1>1, <1>2, Prog1, Prog2
<1>4. PICK k \in 1..9 : k = i - 1
  BY <1>3
<1>5. /\ k = 2 \/ k = 5 \/ k = 8 \/ k = 9
      /\ i = k + 1
  BY <1>2, <1>4, ExchangeShape
<1>6. k = 2 => at["Q"] = From(n) /\ pc["Q"] \in UpdPlaces \cup StartPlaces
  BY <1>2, <1>4, ExchangeShape DEF Doing
<1>7. k = 5 => at["Q"] = From(n) /\ pc["Q"] \in {"w1c_load", "w1c_store"} /\ arg = {"TBIR"}
  BY <1>2, <1>4, ExchangeShape DEF Doing
<1>8. k = 8 => at["Q"] = To(n) /\ pc["Q"] \in {"w1c_load", "w1c_store"}
  BY <1>2, <1>4, ExchangeShape DEF Doing
<1>9. k = 9 => at["Q"] = To(n) /\ pc["Q"] \in {"rbuf_full", "rbuf_raw"}
  BY <1>2, <1>4, ExchangeShape DEF Doing
<1> QED BY <1>1, <1>5, <1>6, <1>7, <1>8, <1>9

LEMMA KernelExchange ==
    ASSUME NoWrap, DeviceInv, IInv, Kernel, NEW n \in {1, 2}, n = test, NEW i, i = Pos
    PROVE  ExchangeAt(n, i)'
<1> USE DEF DeviceInv
<1>1. i \in {3, 4} /\ (\A u \in Usarts : CON_INIT \subseteq con[u])
  BY KernelRuns DEF Rests
<1>2. PICK v \in Usarts, w \in Usarts, b \in {ByteOf(n, i)} :
         v = To(n) /\ w = From(n) /\ v # w /\ b = ByteOf(n, i)
  BY PeersOfTest
<1>3. ExchangeAt(n, i)
  BY DEF IInv, StageInv, StageAt
<1>4. Carried(v, b) /\ RxStill(w)
  BY <1>1, <1>2, <1>3 DEF ExchangeAt, IInv, LinkInv
<1>5. Calm(v)
  BY <1>1, <1>2, ExchangeBus DEF Calm, In
<1>6. Carried(v, b)'
  BY <1>4, <1>5, KernelCarries
<1>7. n = 1 => ~rbuf_full'["A"]
  <2>1. rbuf_full'[w] = rbuf_full[w]
    BY <1>1, <1>4, RxStillStays DEF IInv, ReceiverStays
  <2> QED BY <1>2, <1>3, <2>1 DEF ExchangeAt, From
<1>8. n = 2 => Box("B")'
  <2>1. Box(w) => Box(w)'
    BY <1>4, KernelBox, StillOwesNone
  <2>2. n = 2 => Box("B") /\ w = "B"
    BY <1>2, <1>3 DEF ExchangeAt, From
  <2> QED BY <2>1, <2>2
<1> QED BY <1>1, <1>2, <1>6, <1>7, <1>8 DEF ExchangeAt

LEMMA AccessExchange ==
    ASSUME NoWrap, DeviceInv, IInv, Access \/ Update("Q"), NEW n \in {1, 2}, n = test,
           NEW i, i = Pos
    PROVE  ExchangeAt(n, i)'
<1> USE DEF DeviceInv
<1>1. pc["Q"] # "idle" /\ i \in {3, 6, 9, 10}
  BY BusOrIdle, ExchangeBus
<1>2. PICK v \in Usarts, w \in Usarts, b \in {ByteOf(n, i)} :
         v = To(n) /\ w = From(n) /\ v # w /\ b = ByteOf(n, i)
  BY PeersOfTest
<1>3. ExchangeAt(n, i)
  BY DEF IInv, StageInv, StageAt
<1>4. i \in {3, 6} => Carried(v, b)'
  BY <1>1, <1>2, <1>3, ExchangeBus, AccessCarries DEF ExchangeAt, IInv
<1>5. i = 9 => Here(v, b)'
  <2> HAVE i = 9
  <2>1. Here(v, b) /\ Chan(v)' = Chan(v)
    BY <1>2, <1>3, BusKeepsChan DEF ExchangeAt
  <2>2. rbuf_full'[v] = rbuf_full[v] /\ rbuf'[v] = rbuf[v]
    BY <1>1, <1>2, ExchangeBus, AccessRbuf DEF RbufClearFull, RbufClearRaw
  <2> QED BY <2>1, <2>2 DEF Here
<1>6. n = 1 => ~rbuf_full'["A"]
  BY <1>3, Names, AccessRbuf DEF ExchangeAt
<1>7. n = 1 /\ i = 10 => Box("B")'
  <2> HAVE n = 1 /\ i = 10
  <2>1. at["Q"] = "B" /\ pc["Q"] \in {"rbuf_full", "rbuf_raw"} /\ "B" \in Usarts
    BY <1>1, ExchangeBus, Names DEF To
  <2>2. CASE pc["Q"] = "rbuf_full"
    <3>1. RbufClearFull
      BY <2>2 DEF Access, TbufWrite, TbufTest, TbufLoad, RbufClearRaw, W1cLoad, W1cStore,
         Update, UpdTest, UpdLoad, UpdStore, UpdCount, UpdFired, UpdEnd
    <3> QED BY <2>1, <3>1 DEF RbufClearFull, Box, TypeInv, CoreType
  <2>3. CASE pc["Q"] = "rbuf_raw"
    <3>1. Box("B") /\ rbuf_full'["B"] = rbuf_full["B"]
      BY <1>3, <2>1, <2>3, AccessRbuf DEF ExchangeAt, RbufClearFull
    <3>2. Calm("B") /\ ~W1cStore
      BY <2>3 DEF Calm, In, W1cStore
    <3>3. Told("B", "RIR") => Told("B", "RIR")'
      BY <2>1, <3>2, AccessReported DEF IInv
    <3> QED BY <3>1, <3>3 DEF Box
  <2> QED BY <2>1, <2>2, <2>3
<1>8. n = 2 => Box("B")'
  <2> HAVE n = 2
  <2>1. w = "B" /\ Box(w) /\ RxStill(w)
    BY <1>2, <1>3 DEF ExchangeAt, From, IInv, LinkInv
  <2>2. ~(W1cStore /\ at["Q"] = w /\ "RIR" \in arg)
    BY <1>1, <1>2, ExchangeBus DEF W1cStore, UpdPlaces, StartPlaces
  <2>3. Told(w, "RIR") => Told(w, "RIR")'
    BY <2>1, <2>2, StillOwesNone, AccessReported DEF IInv
  <2>4. rbuf_full'[w] => rbuf_full[w]
    BY AccessRbuf
  <2> QED BY <2>1, <2>3, <2>4 DEF Box
<1> QED BY <1>1, <1>2, <1>4, <1>5, <1>6, <1>7, <1>8 DEF ExchangeAt

LEMMA MainExchange ==
    ASSUME NoWrap, DeviceInv, IInv, Main, Settles, ~NextTest, NEW n \in {1, 2}, n = test,
           NEW j, j = Pos'
    PROVE  test' = n /\ ExchangeAt(n, j)'
<1> USE DEF DeviceInv
<1>1. /\ UNCHANGED <<rbuf_full, rbuf>> /\ pc["Q"] = "idle"
  BY MainKernel DEF Idle
<1>2. PICK v \in Usarts, b \in {ByteOf(n, 3)} : v = To(n) /\ b = ByteOf(n, 3)
  BY PeersOfTest
<1>3. PICK i : i = Pos
  OBVIOUS
<1>4. ExchangeAt(n, i)
  BY <1>3 DEF IInv, StageInv, StageAt
<1>5. n = 1 => ~rbuf_full'["A"]
  BY <1>1, <1>4 DEF ExchangeAt
<1>6. n = 2 => Box("B")'
  BY <1>4, MainBox, Names DEF ExchangeAt
<1>7. CASE Straight
  <2>1. /\ j = i + 1 /\ test' = n /\ i \in 1..9 /\ Ins = Prog(n)[i]
    BY <1>3, <1>7, StraightAt, LengthOfTest DEF IInv
  <2>2. Quiet => Chan(v) = <<>>
    BY QuietReports
  <2>3. i = 1 => ~rbuf_full[v]
    BY <1>2, <1>4 DEF ExchangeAt, To
  <2>4. i = 2 => Carried(v, b)'
    <3> HAVE i = 2
    <3>1. DoSend /\ Ins.byte = b
      BY <1>2, <1>7, <2>1, StraightOp, ExchangeShape
    <3>2. Chan(v)' = <<b>>
      BY <1>2, <3>1, MainSends
    <3>3. ~rbuf_full'[v]
      BY <1>1, <1>2, <1>4 DEF ExchangeAt
    <3> QED BY <3>2, <3>3 DEF Carried, Coming
  <2>5. i # 2 => ~DoSend
    BY <1>7, <2>1, StraightOp, ExchangeShape
  <2>6. i \in 3..8 => Carried(v, b)
    BY <1>2, <1>4, BytesOfExchange DEF ExchangeAt
  <2>7. i \in 3..7 => Carried(v, b)'
    BY <2>5, <2>6, MainCarries
  <2>8. i = 8 => Here(v, b)'
    <3> HAVE i = 8
    <3>1. Quiet
      BY <1>3 DEF IInv, RestInv, Rests
    <3>2. Here(v, b)
      BY <2>2, <2>6, <3>1 DEF Carried, Coming
    <3>3. Chan(v)' = Chan(v)
      BY <2>5, MainSends
    <3> QED BY <1>1, <3>2, <3>3 DEF Here
  <2>9. i = 9 => pc'["Q"] = "rbuf_full"
    BY <1>7, <2>1, StraightOp, ExchangeShape, MainPlaces
  <2>10. ByteOf(n, j) = b
    BY <1>2, BytesOfExchange
  <2>11. \/ j = 2 /\ ~rbuf_full'[v]
         \/ j \in 3..8 /\ Carried(v, b)'
         \/ j = 9 /\ Here(v, b)'
         \/ j = 10 /\ pc'["Q"] = "rbuf_full"
    <3>1. i = 1 \/ i = 2 \/ i \in 3..7 \/ i = 8 \/ i = 9
      BY <2>1
    <3> QED BY <1>1, <2>1, <2>3, <2>4, <2>7, <2>8, <2>9, <3>1
  <2> QED BY <1>2, <1>5, <1>6, <2>1, <2>10, <2>11 DEF ExchangeAt
<1>8. CASE TimeOut
  <2>1. i = 3 /\ j = 10 /\ test' = n /\ Quiet
    <3>1. Len(Prog(test)) = 9
      BY LengthOfTest
    <3>2. j = Len(Prog(test)) + 1
      BY <1>8, TimeOutMoves DEF IInv
    <3> QED BY <1>3, <1>8, <3>1, <3>2, TimeOutWhere, TimeOutMoves DEF IInv, Settles
  <2>2. Box(v)
    BY <1>2, <1>4, <2>1, QuietReports, BytesOfExchange DEF ExchangeAt, Carried, Coming, Box
  <2>3. n = 1 => Box("B")'
    BY <1>2, <2>2, MainBox DEF To
  <2> QED BY <1>5, <1>6, <2>1, <2>3 DEF ExchangeAt
<1> QED BY <1>7, <1>8 DEF Main, Straight

\* Test 1 finds both RBUFs empty, test 2 that of A.
LEMMA NextExchange ==
    ASSUME DeviceInv, IInv, NextTest
    PROVE  /\ test = 0 => ExchangeAt(1, 1)'
           /\ test = 1 => ExchangeAt(2, 1)'
           /\ test = 2 => OverrunAt(1)'
<1>1. pc["Q"] = "idle" /\ UNCHANGED vars
  BY NextTestMoves DEF IInv, Idle
<1>2. UNCHANGED <<coreVars, statVars, rxVars, kernVars, thVars>>
  BY PassiveStep
<1>3. StageAt(test, Pos)
  BY DEF IInv, StageInv
<1>4. test = 0 => ~rbuf_full'["A"] /\ ~rbuf_full'["B"]
  BY <1>2, <1>3, Names DEF StageAt, SetUpInv, coreVars
<1>5. test = 1 => ~rbuf_full'["A"] /\ Box("B")
  BY <1>1, <1>2, <1>3, TestEnds DEF StageAt, ExchangeAt, coreVars, IInv
<1>6. test = 2 => Box("B")
  BY <1>3 DEF StageAt, ExchangeAt
<1>7. Box("B") => Box("B")'
  BY <1>2 DEF Box, Told, Owed, Closing, Sticky, In, coreVars, statVars, thVars
<1> QED BY <1>4, <1>5, <1>6, <1>7 DEF ExchangeAt, OverrunAt

-----------------------------------------------------------------------------
(* OverrunAt *)

LEMMA OverrunShape ==
    ASSUME NEW i \in 1..12
    PROVE  LET ins == Prog(3)[i] IN
           /\ i \in {1, 5, 9} => ins.op = "put"
           /\ i \in {2, 6} => ins.op = "send" /\ ins.usart = "A"
           /\ i \in {3, 7} => ins.op = "clr" /\ ins.usart = "A" /\ ins.bits = {"TBIR"}
           /\ i \in {4, 8} => ins.op = "wait"
           /\ i = 10 => ins.op = "drain" /\ ins.usart = "B"
           /\ i = 11 => ins.op = "clr" /\ ins.usart = "B" /\ ins.bits = StatusBits
           /\ i = 12 => ins.op = "clr" /\ ins.usart = "A"
  BY Prog3 DEF PutStr, Send, Clr, Wait, Drain

\* The bus access under way in test 3, if there is one
LEMMA OverrunBus ==
    ASSUME TypeInv, IInv, test = 3, pc["Q"] # "idle"
    PROVE  /\ Pos \in {3, 4, 7, 8, 11, 12, 13}
           /\ Pos \in {3, 4, 7, 8, 13} => at["Q"] = "A"
           /\ Pos = 11 => at["Q"] = "B" /\ pc["Q"] \in {"rbuf_full", "rbuf_raw"}
           /\ Pos = 12 => at["Q"] = "B" /\ pc["Q"] \in {"w1c_load", "w1c_store"}
                          /\ arg = StatusBits
<1>1. PICK i \in {Pos} : i = Pos
  OBVIOUS
<1>2. /\ Doing(Prog(3)[i - 1]) /\ i \in Nat /\ i - 1 \in DOMAIN Prog(3)
      /\ Prog(3)[i - 1].op \in {"con", "send", "clr", "read", "drain"}
      /\ at["Q"] = Prog(3)[i - 1].usart
  BY <1>1, BusPlaces
<1>3. i - 1 \in 1..12
  BY <1>1, <1>2, Prog3
<1>4. PICK k \in 1..12 : k = i - 1
  BY <1>3
<1>5. k \in {2, 3, 6, 7, 10, 11, 12} /\ i = k + 1
  BY <1>2, <1>4, OverrunShape
<1>6. k \in {2, 3, 6, 7, 12} => at["Q"] = "A"
  BY <1>2, <1>4, OverrunShape
<1>7. k = 10 => at["Q"] = "B" /\ pc["Q"] \in {"rbuf_full", "rbuf_raw"}
  BY <1>2, <1>4, OverrunShape DEF Doing
<1>8. k = 11 => at["Q"] = "B" /\ pc["Q"] \in {"w1c_load", "w1c_store"} /\ arg = StatusBits
  BY <1>2, <1>4, OverrunShape DEF Doing
<1> QED BY <1>1, <1>5, <1>6, <1>7, <1>8

LEMMA KernelOverrun ==
    ASSUME NoWrap, DeviceInv, IInv, Kernel, test = 3, NEW i, i = Pos
    PROVE  OverrunAt(i)'
<1> USE DEF DeviceInv
<1>1. i \in {3, 4, 5, 7, 8, 9} /\ (\A u \in Usarts : CON_INIT \subseteq con[u])
  BY KernelRuns DEF Rests
<1>2. OverrunAt(i) /\ "B" \in Usarts
  BY Names DEF IInv, StageInv, StageAt
<1>3. Calm("B")
  BY <1>1, OverrunBus DEF Calm, In
<1>4. ReceiverStays("B") \/ ReceiverRefuses("B") \/ ReceiverAccepts("B")
  BY <1>1, <1>2, KernelReceives DEF IInv
<1>5. i <= 5 => Box("B")'
  BY <1>2, <1>3, KernelBox DEF OverrunAt
<1>6. i \in 3..5 => Chan("B")' # <<>> \/ rbuf_full'["B"]
  BY <1>2, <1>4 DEF OverrunAt, ReceiverStays, ReceiverRefuses, ReceiverAccepts
<1>7. i \in 6..10 => rbuf_full'["B"]
  BY <1>2, <1>4 DEF OverrunAt, ReceiverStays, ReceiverRefuses, ReceiverAccepts
<1>8. i \in 7..10 => Chan("B")' # <<>> \/ Told("B", "EIR")'
  <2> HAVE i \in 7..10
  <2>1. rbuf_full["B"]
    BY <1>2 DEF OverrunAt
  <2>2. CASE ReceiverRefuses("B")
    BY <2>2 DEF ReceiverRefuses, Told
  <2>3. CASE ReceiverStays("B")
    <3>1. Told("B", "EIR") => Told("B", "EIR")'
      BY <1>2, <1>3, KernelReported DEF IInv
    <3> QED BY <1>2, <2>3, <3>1 DEF ReceiverStays, OverrunAt
  <2> QED BY <1>4, <2>1, <2>2, <2>3 DEF ReceiverAccepts
<1> QED BY <1>1, <1>5, <1>6, <1>7, <1>8 DEF OverrunAt

LEMMA AccessOverrun ==
    ASSUME NoWrap, DeviceInv, IInv, Access \/ Update("Q"), test = 3, NEW i, i = Pos
    PROVE  OverrunAt(i)'
<1> USE DEF DeviceInv
<1>1. pc["Q"] # "idle" /\ i \in {3, 4, 7, 8, 11, 12, 13}
  BY BusOrIdle, OverrunBus
<1>2. OverrunAt(i) /\ "A" # "B" /\ "B" \in Usarts
  BY Names DEF IInv, StageInv, StageAt
<1>3. Chan("B")' = Chan("B")
  BY <1>2, BusKeepsChan
<1>4. CASE i \in {3, 4, 7, 8, 13}
  <2>1. at["Q"] # "B"
    BY <1>1, <1>4, OverrunBus
  <2>2. rbuf_full'["B"] = rbuf_full["B"] /\ status'["B"] = status["B"] /\ Calm("B")
    BY <1>2, <2>1, AccessElsewhere
  <2>3. \A bit \in {"RIR", "EIR"} : Told("B", bit) => Told("B", bit)'
    BY <1>2, <2>1, <2>2, AccessReported DEF IInv
  <2>4. Box("B") => Box("B")'
    BY <2>2, <2>3 DEF Box
  <2> QED BY <1>2, <1>3, <1>4, <2>2, <2>3, <2>4 DEF OverrunAt
<1>5. CASE i = 11
  <2>1. at["Q"] = "B" /\ pc["Q"] \in {"rbuf_full", "rbuf_raw"}
    BY <1>1, <1>5, OverrunBus
  <2>2. RbufClearFull \/ RbufClearRaw
    BY <2>1 DEF Access, TbufWrite, TbufTest, TbufLoad, W1cLoad, W1cStore,
       Update, UpdTest, UpdLoad, UpdStore, UpdCount, UpdFired, UpdEnd
  <2>3. ~rbuf_full'["B"]
    BY <1>2, <1>5, <2>1, <2>2 DEF OverrunAt, RbufClearFull, RbufClearRaw, TypeInv, CoreType
  <2> QED BY <1>5, <2>3 DEF OverrunAt
<1>6. CASE i = 12
  <2>1. at["Q"] = "B" /\ pc["Q"] \in {"w1c_load", "w1c_store"} /\ arg = StatusBits
    BY <1>1, <1>6, OverrunBus
  <2>2. W1cLoad \/ W1cStore
    BY <2>1 DEF Access, TbufWrite, TbufTest, TbufLoad, RbufClearFull, RbufClearRaw,
       Update, UpdTest, UpdLoad, UpdStore, UpdCount, UpdFired, UpdEnd
  <2>3. ~rbuf_full'["B"]
    BY <1>2, <1>6, <2>2 DEF OverrunAt, W1cLoad, W1cStore, coreVars
  <2>4. pc'["Q"] = "w1c_store" \/ "RIR" \notin status'["B"]
    BY <1>2, <2>1, <2>2 DEF W1cLoad, W1cStore, Goto, TypeInv, ThreadType, Threads, StatType, StatusBits
  <2> QED BY <1>6, <2>3, <2>4 DEF OverrunAt
<1> QED BY <1>1, <1>4, <1>5, <1>6

LEMMA MainOverrun ==
    ASSUME NoWrap, DeviceInv, IInv, Main, Settles, ~NextTest, test = 3, NEW j, j = Pos'
    PROVE  test' = 3 /\ OverrunAt(j)'
<1> USE DEF DeviceInv
<1>1. UNCHANGED <<rbuf_full, status>> /\ pc["Q"] = "idle" /\ "B" \in Usarts
  BY MainKernel, Names DEF Idle
<1>2. Straight
  BY TimeOutWhere DEF Main, Straight
<1>3. PICK i \in {Pos} : i = Pos
  OBVIOUS
<1>4. OverrunAt(i)
  BY <1>3 DEF IInv, StageInv, StageAt
<1>5. /\ j = i + 1 /\ test' = 3 /\ i \in 1..12 /\ Ins = Prog(3)[i]
  BY <1>2, <1>3, StraightAt, LengthOfTest DEF IInv
<1>6. /\ i \in {1, 5, 9} => DoPutStr
      /\ DoSend <=> i \in {2, 6}
      /\ i = 10 => DoDrain
      /\ i = 11 => DoClr
  BY <1>2, <1>5, StraightOp, OverrunShape
<1>7. IF i \in {2, 6} THEN Chan("B")' # <<>> ELSE Chan("B")' = Chan("B")
  <2>1. To(test) = "B"
    BY DEF To
  <2>2. IF DoSend THEN Chan("B")' = <<Ins.byte>> ELSE Chan("B")' = Chan("B")
    BY <1>1, <2>1, MainSends
  <2>3. PICK b : b = Ins.byte
    OBVIOUS
  <2> QED BY <1>6, <2>2, <2>3, OneByte
<1>8. Box("B") => Box("B")'
  BY <1>1, MainBox
<1>9. Told("B", "EIR") => Told("B", "EIR")'
  BY <1>1, MainReported
<1>10. i = 5 => Chan("B") = <<>>
  BY <1>1, <1>6, QuietReports DEF DoPutStr
<1>11. i = 10 => pc'["Q"] = "rbuf_full"
  BY <1>6, MainPlaces
<1>12. i = 11 => pc'["Q"] = "w1c_load"
  BY <1>6, MainPlaces
<1>13. j <= 5 => Box("B")'
  BY <1>4, <1>5, <1>8 DEF OverrunAt
<1>14. j \in 3..5 => Chan("B")' # <<>> \/ rbuf_full'["B"]
  <2>1. CASE i = 2
    BY <1>7, <2>1
  <2>2. CASE i \in 3..4
    BY <1>1, <1>4, <1>7, <2>2 DEF OverrunAt
  <2> QED BY <1>5, <2>1, <2>2
<1>15. j \in 6..10 => rbuf_full'["B"]
  <2>1. CASE i = 5
    BY <1>1, <1>4, <1>10, <2>1 DEF OverrunAt
  <2>2. CASE i \in 6..9
    BY <1>1, <1>4, <2>2 DEF OverrunAt
  <2> QED BY <1>5, <2>1, <2>2
<1>16. j \in 7..10 => Chan("B")' # <<>> \/ Told("B", "EIR")'
  <2>1. CASE i = 6
    BY <1>7, <2>1
  <2>2. CASE i \in 7..9
    BY <1>4, <1>7, <1>9, <2>2 DEF OverrunAt
  <2> QED BY <1>5, <2>1, <2>2
<1>17. j >= 12 => ~rbuf_full'["B"]
  <2>1. CASE i = 11
    BY <1>1, <1>4, <2>1 DEF OverrunAt
  <2>2. CASE i = 12
    BY <1>1, <1>4, <2>2 DEF OverrunAt
  <2> QED BY <1>5, <2>1, <2>2
<1>18. j = 13 => "RIR" \notin status'["B"]
  BY <1>1, <1>4, <1>5 DEF OverrunAt
<1> QED BY <1>5, <1>11, <1>12, <1>13, <1>14, <1>15, <1>16, <1>17, <1>18 DEF OverrunAt

\* Test 4 starts with nothing of RBUF or RIR left.
LEMMA NextOverrun ==
    ASSUME DeviceInv, IInv, NextTest, test = 3
    PROVE  StreamAt(Stage(4, 1), ByteOf(4, 1))'
<1> USE DEF DeviceInv
<1>1. pc["Q"] = "idle" /\ Pos = 13 /\ "B" \in Usarts
  BY NextTestMoves, TestEnds, Names DEF IInv, Idle
<1>2. /\ UNCHANGED <<coreVars, statVars, rxVars, kernVars, thVars>>
      /\ UNCHANGED vars
  BY PassiveStep
<1>3. Quiet
  BY <1>1 DEF IInv, RestInv, Rests
<1>4. /\ pc["S"] = "idle" /\ Chan("B") = <<>>
      /\ \A bit : ~Owed("B", bit) /\ ~Closing("B", bit)
  BY <1>1, <1>3, QuietReports DEF Quiet, Idle, Closing, In
<1>0. LoadInv /\ ~In("Q", "B", UpdPlaces)
  BY <1>1 DEF IInv, In, UpdPlaces
<1>5. ~rbuf_full["B"] /\ "RIR" \notin status["B"]
  BY <1>1 DEF IInv, StageInv, StageAt, OverrunAt
<1>6. \A bit \in Counters : fired["B"][bit] = count["B"][bit]
  BY <1>1, <1>4 DEF IInv, ReportInv, Counters, Starting, In, StartPlaces, UpdPlaces
<1>7. \A bit \in Counters : Silent("B", bit)
  BY <1>1, <1>4, <1>6 DEF Silent, In, Threads
<1>8. Absent("B", "RIR")
  BY <1>1, <1>4, <1>5, <1>7 DEF Absent, In, Threads, Counters
<1>9. Chan("B")' = <<>> /\ ~rbuf_full'["B"]
  BY <1>1, <1>2, <1>4, <1>5, ChanOf DEF rxVars, coreVars, thVars
<1>10. \A bit \in Counters : Silent("B", bit)'
  BY <1>0, <1>1, <1>2, <1>7, SilentStays DEF statVars
<1>11. Absent("B", "RIR")'
  BY <1>0, <1>1, <1>2, <1>8, AbsentStays DEF statVars, Counters
<1>12. Stage(4, 1) = "clear"
  BY DEF Stage
<1> QED BY <1>9, <1>10, <1>11, <1>12 DEF StreamAt, Clear, Counters

-----------------------------------------------------------------------------
(* StreamAt *)

\* The bus access under way in test 4, if there is one
LEMMA StreamBus ==
    ASSUME TypeInv, IInv, test = 4, pc["Q"] # "idle", NEW st, st = Stage(4, Pos)
    PROVE  \/ st \in {"flying", "clear"} /\ at["Q"] = "A"
           \/ st = "taken" /\ at["Q"] = "B" /\ pc["Q"] \in {"rbuf_full", "rbuf_raw"}
           \/ /\ st = "clearing" /\ at["Q"] = "B" /\ pc["Q"] \in {"w1c_load", "w1c_store"}
              /\ arg = {"RIR"}
<1>1. PICK i \in {Pos} : i = Pos
  OBVIOUS
<1>2. PICK ins \in {Prog(4)[i - 1]} : ins = Prog(4)[i - 1]
  OBVIOUS
<1>3. /\ Doing(ins) /\ i \in Nat /\ Stages4(i - 1) /\ at["Q"] = ins.usart
      /\ ins.op \in {"con", "send", "clr", "read", "drain"}
  BY <1>1, <1>2, BusPlaces
<1>4. (i - 1) + 1 = i
  BY <1>3
<1>5. st = Stage(4, (i - 1) + 1)
  BY <1>1, <1>4
<1>6. \/ ins.op = "send" /\ ins.usart = "A" /\ st = "flying"
      \/ ins.op = "read" /\ ins.usart = "B" /\ st = "taken"
      \/ ins.op = "clr" /\ ins.usart = "B" /\ ins.bits = {"RIR"} /\ st = "clearing"
      \/ ins.op = "clr" /\ ins.usart = "A" /\ st = "clear"
  BY <1>2, <1>3, <1>5 DEF Stages4
<1> QED BY <1>3, <1>6 DEF Doing

\* In test 4 no access is made to B that updates it.
LEMMA StreamUpdates ==
    ASSUME TypeInv, IInv, test = 4
    PROVE  LoadInv /\ ~In("Q", "B", UpdPlaces)
<1>1. "A" # "B"
  OBVIOUS
<1> QED BY <1>1, StreamBus DEF IInv, In, UpdPlaces

LEMMA StageType ==
    ASSUME NEW i PROVE Stage(4, i) \in {"clear", "flying", "seen", "taken", "clearing"}
  BY DEF Stage

\* While B has no TBIR to report, the scheduler reports an RIR of B first.
LEMMA RirIsNext ==
    ASSUME TypeInv, Silent("B", "TBIR"), Owed("B", "RIR"), pc["S"] = "upd_store"
    PROVE  Head(todo["S"]) = "RIR"
<1>1. todo["S"] \in Steps("RIR") /\ at["S"] = "B"
  BY DEF Owed, In
<1>2. PICK td \in Todos : td = todo["S"]
  BY DEF TypeInv, ThreadType, Threads
<1>3. Head(td) \in {"TBIR", "RIR"}
  BY <1>1, <1>2, StepsOrder DEF Heads
<1>4. Head(todo["S"]) # "TBIR"
  BY <1>1 DEF Silent, In, Threads
<1> QED BY <1>2, <1>3, <1>4

LEMMA KernelFlies ==
    ASSUME NoWrap, DeviceInv, IInv, Kernel, test = 4, NEW b, Flying(b), Silent("B", "TBIR"),
           Calm("B")
    PROVE  Flying(b)' /\ ~ReceiverRefuses("B")
<1> USE DEF DeviceInv
<1>1. "B" \in Usarts /\ [Next]_vars /\ ~W1cStore
  BY Names, NoW1c DEF Next
<1>2. ReceiverStays("B") \/ ReceiverRefuses("B") \/ ReceiverAccepts("B")
  BY <1>1, KernelReceives, KernelRuns DEF IInv
<1>3. CASE Coming("B", b) /\ Absent("B", "RIR")
  <2>1. ~ReceiverRefuses("B")
    BY <1>3 DEF ReceiverRefuses, Coming
  <2>2. CASE ReceiverAccepts("B")
    <3>1. Here("B", b)'
      BY <1>3, <2>2, OneByte DEF ReceiverAccepts, Coming, Here
    <3>2. Owed("B", "RIR")' /\ "RIR" \notin status'["B"]
      BY <1>3, <2>2 DEF ReceiverAccepts, Absent
    <3> QED BY <2>1, <3>1, <3>2 DEF Flying
  <2>3. CASE ReceiverStays("B")
    <3>1. Coming("B", b)'
      BY <1>3, <2>3 DEF ReceiverStays, Coming
    <3>2. Absent("B", "RIR")'
      BY <1>1, <1>3, <2>3, AbsentStays, StreamUpdates DEF ReceiverStays, Counters
    <3> QED BY <2>1, <3>1, <3>2 DEF Flying
  <2> QED BY <1>2, <2>1, <2>2, <2>3
<1>4. CASE Here("B", b) /\ Owed("B", "RIR") /\ "RIR" \notin status["B"]
  <2>1. ~ReceiverRefuses("B") /\ Here("B", b)'
    BY <1>2, <1>4 DEF ReceiverStays, ReceiverRefuses, ReceiverAccepts, Here
  <2>2. \/ /\ Owed("B", "RIR")'
           /\ \/ status'["B"] = status["B"]
              \/ pc["S"] = "upd_store" /\ Head(todo["S"]) # "RIR"
        \/ Sticky("B", "RIR")' /\ Silent("B", "RIR")'
    BY <1>1, <1>4, OwedMoves
  <2>3. ~(pc["S"] = "upd_store" /\ Head(todo["S"]) # "RIR")
    BY <1>4, RirIsNext
  <2> QED BY <1>4, <2>1, <2>2, <2>3 DEF Flying
<1>5. CASE Here("B", b) /\ Silent("B", "RIR") /\ Sticky("B", "RIR")
  <2>1. ~ReceiverRefuses("B") /\ Here("B", b)' /\ count'["B"]["RIR"] = count["B"]["RIR"]
    BY <1>2, <1>5 DEF ReceiverStays, ReceiverRefuses, ReceiverAccepts, Here
  <2>2. Silent("B", "RIR")'
    BY <1>1, <1>5, <2>1, SilentStays, StreamUpdates DEF Counters
  <2>3. Sticky("B", "RIR")'
    BY <1>1, <1>5, StickyStays
  <2> QED BY <2>1, <2>2, <2>3 DEF Flying
<1> QED BY <1>3, <1>4, <1>5 DEF Flying

LEMMA KernelStream ==
    ASSUME NoWrap, DeviceInv, IInv, Kernel, test = 4,
           NEW st, st = Stage(4, Pos), NEW b, StreamAt(st, b)
    PROVE  StreamAt(st, b)'
<1> USE DEF DeviceInv
<1>1. "B" \in Usarts /\ [Next]_vars
  BY Names DEF Next
<1>2. ReceiverStays("B") \/ ReceiverRefuses("B") \/ ReceiverAccepts("B")
  BY <1>1, KernelReceives, KernelRuns DEF IInv
<1>3. Silent("B", "TBIR") /\ Silent("B", "EIR")
  BY DEF StreamAt
<1>4. st = "flying" => Flying(b)' /\ ~ReceiverRefuses("B")
  <2> HAVE st = "flying"
  <2>1. Calm("B")
    BY StreamBus DEF Calm, In
  <2> QED BY <1>3, <2>1, KernelFlies DEF StreamAt
<1>5. st # "flying" => ReceiverStays("B") /\ Chan("B") = <<>> /\ Silent("B", "RIR")
  <2> HAVE st # "flying"
  <2>1. Chan("B") = <<>> /\ Silent("B", "RIR")
    BY StageType DEF StreamAt, Clear, Seen, Here, Taken, Clearing, Absent
  <2> QED BY <1>2, <2>1 DEF ReceiverRefuses, ReceiverAccepts
<1>6. Silent("B", "TBIR")'
  BY <1>1, <1>3, KernelSendsNone, SilentStays, StreamUpdates DEF Counters
<1>7. Silent("B", "EIR")'
  <2>1. count'["B"]["EIR"] = count["B"]["EIR"]
    BY <1>2, <1>4, <1>5 DEF ReceiverStays, ReceiverAccepts
  <2> QED BY <1>1, <1>3, <2>1, SilentStays, StreamUpdates DEF Counters
<1>8. st # "flying" => Silent("B", "RIR")' /\ (Absent("B", "RIR") => Absent("B", "RIR")')
  BY <1>1, <1>5, SilentStays, AbsentStays, StreamUpdates DEF Counters, ReceiverStays
<1>9. pc'["Q"] = pc["Q"]
  BY KernelLeavesQ
<1>10. st = "clear" => Clear'
  BY <1>5, <1>8 DEF StreamAt, Clear, ReceiverStays
<1>11. st = "seen" => Seen(b)'
  BY <1>5, <1>8 DEF StreamAt, Seen, Here, ReceiverStays
<1>12. st = "taken" => Taken'
  BY <1>5, <1>8, <1>9 DEF StreamAt, Taken, ReceiverStays
<1>13. st = "clearing" => Clearing'
  BY <1>5, <1>8, <1>9 DEF StreamAt, Clearing, ReceiverStays
<1> QED BY <1>4, <1>6, <1>7, <1>10, <1>11, <1>12, <1>13 DEF StreamAt

\* The scheduler has nothing to write to STATUS of B.
LEMMA NothingToStore ==
    ASSUME DeviceInv, IInv, test = 4, \A bit \in Counters : Silent("B", bit)
    PROVE  ~In("S", "B", {"upd_store"})
<1> SUFFICES ASSUME In("S", "B", {"upd_store"}) PROVE FALSE
  OBVIOUS
<1> USE DEF DeviceInv
<1>1. pc["S"] = "upd_store" /\ at["S"] = "B" /\ todo["S"] # <<>> /\ todo["S"] \in Todos
  BY DEF In, UpdPlaces, TypeInv, Locals, LocalsOf, ThreadType, Threads
<1>2. Head(todo["S"]) \notin Counters
  BY <1>1 DEF Silent, In, Threads
<1>3. ASSUME NEW td \in Todos, td # <<>>, td # <<"TIR">> PROVE Head(td) \in Counters
  <2>1. CASE td = <<"EIR">>
    BY <2>1 DEF Counters
  <2>2. CASE td = <<"RIR", "EIR">>
    BY <2>2 DEF Counters
  <2>3. CASE td = <<"TBIR", "RIR", "EIR">>
    BY <2>3 DEF Counters
  <2> QED BY <1>3, <2>1, <2>2, <2>3 DEF Todos
<1>4. todo["S"] = <<"TIR">>
  BY <1>1, <1>2, <1>3
<1>5. ret["S"] = "idle"
  BY <1>4 DEF IInv, TxOne
<1>6. TxStill("B")
  BY DEF IInv, LinkInv, To
<1> QED BY <1>1, <1>5, <1>6 DEF TxStill, In, UpdPlaces

LEMMA AccessFlies ==
    ASSUME NoWrap, DeviceInv, LoadInv, Access \/ Update("Q"), NEW b, Flying(b), at["Q"] # "B"
    PROVE  Flying(b)'
<1> USE DEF DeviceInv
<1>1. "B" \in Usarts /\ [Next]_vars /\ Chan("B")' = Chan("B") /\ count' = count
  BY Names, BusKeepsChan DEF Next
<1>0. ~In("Q", "B", UpdPlaces)
  BY DEF In
<1>2. /\ rbuf_full'["B"] = rbuf_full["B"] /\ rbuf'["B"] = rbuf["B"] /\ status'["B"] = status["B"]
      /\ Calm("B")
  BY <1>1, AccessElsewhere
<1>3. CASE Coming("B", b) /\ Absent("B", "RIR")
  <2>1. Coming("B", b)'
    BY <1>1, <1>2, <1>3 DEF Coming
  <2>2. Absent("B", "RIR")'
    BY <1>0, <1>1, <1>3, AbsentStays DEF Counters
  <2> QED BY <2>1, <2>2 DEF Flying
<1>4. Here("B", b) => Here("B", b)'
  BY <1>1, <1>2 DEF Here
<1>5. CASE Here("B", b) /\ Owed("B", "RIR") /\ "RIR" \notin status["B"]
  <2>1. Owed("B", "RIR")'
    BY <1>1, <1>2, <1>5, OwedStays, AccessKeepsPulses DEF QStep
  <2> QED BY <1>2, <1>4, <1>5, <2>1 DEF Flying
<1>6. CASE Here("B", b) /\ Silent("B", "RIR") /\ Sticky("B", "RIR")
  <2>1. Silent("B", "RIR")' /\ Sticky("B", "RIR")'
    BY <1>0, <1>1, <1>6, SilentStays, StickyStays DEF Counters
  <2> QED BY <1>4, <1>6, <2>1 DEF Flying
<1> QED BY <1>3, <1>5, <1>6 DEF Flying

LEMMA AccessStream ==
    ASSUME NoWrap, DeviceInv, IInv, Access \/ Update("Q"), test = 4,
           NEW st, st = Stage(4, Pos), NEW b, StreamAt(st, b)
    PROVE  StreamAt(st, b)'
<1> USE DEF DeviceInv
<1>1. "B" \in Usarts /\ [Next]_vars /\ Chan("B")' = Chan("B") /\ count' = count
  BY Names, BusKeepsChan DEF Next
<1>2. Silent("B", "TBIR") /\ Silent("B", "EIR")
  BY DEF StreamAt
<1>3. \A bit \in Counters : Silent("B", bit) => Silent("B", bit)'
  BY <1>1, SilentStays, StreamUpdates
<1>4. Silent("B", "TBIR")' /\ Silent("B", "EIR")'
  BY <1>2, <1>3 DEF Counters
<1>5. ~rbuf_full["B"] => ~rbuf_full'["B"]
  BY <1>1, AccessRbuf
<1>6. CASE st = "clear"
  <2>1. Clear
    BY <1>6 DEF StreamAt
  <2>2. Absent("B", "RIR")'
    BY <1>1, <2>1, AbsentStays, StreamUpdates DEF Clear, Counters
  <2>3. Clear'
    BY <1>1, <1>5, <2>1, <2>2 DEF Clear
  <2> QED BY <1>4, <1>6, <2>3 DEF StreamAt
<1>7. CASE st = "flying"
  <2>1. Flying(b)'
    BY <1>7, BusOrIdle, StreamBus, AccessFlies DEF StreamAt, IInv
  <2> QED BY <1>4, <1>7, <2>1 DEF StreamAt
<1>8. CASE st = "taken"
  <2>1. Taken /\ at["Q"] = "B" /\ pc["Q"] \in {"rbuf_full", "rbuf_raw"}
    BY <1>8, BusOrIdle, StreamBus DEF StreamAt
  <2>2. RbufClearFull \/ RbufClearRaw
    BY <2>1 DEF Access, TbufWrite, TbufTest, TbufLoad, W1cLoad, W1cStore,
       Update, UpdTest, UpdLoad, UpdStore, UpdCount, UpdFired, UpdEnd
  <2>3. ~rbuf_full'["B"]
    BY <1>1, <2>1, <2>2 DEF Taken, RbufClearFull, RbufClearRaw, TypeInv, CoreType
  <2>4. Taken'
    BY <1>1, <1>3, <2>1, <2>3 DEF Taken, Counters
  <2> QED BY <1>4, <1>8, <2>4 DEF StreamAt
<1>9. CASE st = "clearing"
  <2>1. Clearing /\ at["Q"] = "B" /\ pc["Q"] \in {"w1c_load", "w1c_store"} /\ arg = {"RIR"}
    BY <1>9, BusOrIdle, StreamBus DEF StreamAt
  <2>2. W1cLoad \/ W1cStore
    BY <2>1 DEF Access, TbufWrite, TbufTest, TbufLoad, RbufClearFull, RbufClearRaw,
       Update, UpdTest, UpdLoad, UpdStore, UpdCount, UpdFired, UpdEnd
  <2>3. Silent("B", "RIR")'
    BY <1>3, <2>1 DEF Clearing, Counters
  <2>4. CASE W1cLoad
    <3>1. pc'["Q"] = "w1c_store"
      BY <2>4 DEF W1cLoad, Goto, TypeInv, ThreadType, Threads
    <3> QED BY <1>1, <1>4, <1>5, <1>9, <2>1, <2>3, <3>1 DEF StreamAt, Clearing
  <2>5. CASE W1cStore
    <3>1. "RIR" \notin status'["B"] /\ pc'["Q"] = "idle"
      BY <1>1, <2>1, <2>5 DEF W1cStore, Goto, TypeInv, ThreadType, Threads, StatType
    <3>2. ~In("S", "B", {"upd_store"})
      BY <1>2, <2>1, NothingToStore DEF Clearing, Counters
    <3>3. pc'["S"] = pc["S"] /\ at'["S"] = at["S"]
      BY BusLeavesLocalsOfS
    <3>4. pc["S"] # "w1c_store"
      BY DEF TypeInv, ThreadType, SPlaces, UpdPlaces
    <3>5. Absent("B", "RIR")'
      BY <2>3, <3>1, <3>2, <3>3, <3>4 DEF Absent, In, Threads
    <3> QED BY <1>1, <1>4, <1>5, <1>9, <2>1, <2>3, <3>5 DEF StreamAt, Clearing
  <2> QED BY <2>2, <2>4, <2>5
<1> QED BY <1>6, <1>7, <1>8, <1>9, BusOrIdle, StreamBus

LEMMA MainStream ==
    ASSUME NoWrap, DeviceInv, IInv, Main, Settles, ~NextTest, test = 4, NEW j, j = Pos'
    PROVE  test' = 4 /\ StreamAt(Stage(4, j), ByteOf(4, j))'
<1> USE DEF DeviceInv
<1>1. UNCHANGED <<rbuf_full, rbuf>> /\ pc["Q"] = "idle" /\ "B" \in Usarts
  BY MainKernel, Names DEF Idle
<1>2. Straight
  BY TimeOutWhere DEF Main, Straight
<1>3. PICK i \in {Pos} : i = Pos
  OBVIOUS
<1>4. /\ j = i + 1 /\ test' = 4 /\ Ins = Prog(4)[i] /\ Stages4(i)
  BY <1>2, <1>3, StraightAt DEF IInv
<1>5. PICK ins \in {Ins}, b \in {ByteOf(4, j)}, st \in {Stage(4, j)} :
         ins = Ins /\ b = ByteOf(4, j) /\ st = Stage(4, j)
  OBVIOUS
<1>6. StreamAt(Stage(4, i), ByteOf(4, i))
  BY <1>3 DEF IInv, StageInv, StageAt
<1>7. count'["B"] = count["B"]
  <2>1. CASE DoSend
    <3>1. Ins.usart = "A"
      BY <2>1, SendsAtRest DEF From
    <3> QED BY <2>1, <3>1, Names DEF DoSend, WriteTbuf, TypeInv, StatType
  <2>2. CASE ~DoSend
    BY <2>2, MainKernel
  <2> QED BY <2>1, <2>2
<1>8. [Next]_vars
  BY MainIsNext
<1>9. \A bit \in Counters : Silent("B", bit) => Silent("B", bit)'
  BY <1>1, <1>7, <1>8, SilentStays, StreamUpdates
<1>10. Silent("B", "TBIR")' /\ Silent("B", "EIR")'
  BY <1>6, <1>9 DEF StreamAt, Counters
<1>11. Absent("B", "RIR") => Absent("B", "RIR")'
  BY <1>1, <1>7, <1>8, AbsentStays, StreamUpdates DEF Counters
<1>12. IF DoSend THEN Chan("B")' = <<ins.byte>> ELSE Chan("B")' = Chan("B")
  <2>1. To(test) = "B"
    BY DEF To
  <2> QED BY <1>1, <1>5, <2>1, MainSends
<1>13. /\ ins.op = "send" <=> DoSend
       /\ ins.op = "wait" => DoWait
       /\ ins.op = "read" => DoRead
       /\ ins.op = "clr" => DoClr
  BY <1>2, <1>5, StraightOp
<1>14. \/ ins.op = "put" /\ Stage(4, i) = "clear" /\ st = "clear"
       \/ ins.op = "send" /\ ins.byte = b /\ Stage(4, i) = "clear" /\ st = "flying"
       \/ /\ ins.op = "wait" /\ ins.usart = "B" /\ ins.bit = "RIR" /\ ByteOf(4, i) = b
          /\ Stage(4, i) = "flying" /\ st = "seen"
       \/ ins.op = "read" /\ Stage(4, i) = "seen" /\ st = "taken"
       \/ ins.op = "clr" /\ Stage(4, i) = "taken" /\ st = "clearing"
       \/ ins.op = "clr" /\ Stage(4, i) = "clearing" /\ st = "clear"
  BY <1>4, <1>5 DEF Stages4
<1>15. CASE st = "clear"
  <2>1. Clear /\ ~DoSend
    BY <1>1, <1>6, <1>13, <1>14, <1>15 DEF StreamAt, Clear, Clearing
  <2>2. Clear'
    BY <1>1, <1>11, <1>12, <2>1 DEF Clear
  <2> QED BY <1>4, <1>5, <1>10, <1>15, <2>2 DEF StreamAt
<1>16. CASE st = "flying"
  <2>1. Clear /\ DoSend /\ ins.byte = b
    BY <1>6, <1>13, <1>14, <1>16 DEF StreamAt
  <2>2. Coming("B", b)'
    BY <1>1, <1>12, <2>1 DEF Clear, Coming
  <2>3. Absent("B", "RIR")'
    BY <1>11, <2>1 DEF Clear
  <2>4. Flying(b)'
    BY <2>2, <2>3 DEF Flying
  <2> QED BY <1>4, <1>5, <1>10, <1>16, <2>4 DEF StreamAt
<1>17. CASE st = "seen"
  <2>1. Flying(b) /\ DoWait /\ ~DoSend /\ ins.bit = "RIR" /\ ins.usart = "B"
    BY <1>6, <1>13, <1>14, <1>17 DEF StreamAt
  <2>2. "RIR" \in status["B"]
    BY <1>5, <2>1 DEF DoWait
  <2>3. Here("B", b) /\ Silent("B", "RIR")
    BY <2>1, <2>2 DEF Flying, Absent
  <2>4. Seen(b)'
    BY <1>1, <1>9, <1>12, <2>1, <2>3 DEF Seen, Here, Counters
  <2> QED BY <1>4, <1>5, <1>10, <1>17, <2>4 DEF StreamAt
<1>18. CASE st = "taken"
  <2>1. (\E c : Seen(c)) /\ DoRead /\ ~DoSend
    BY <1>6, <1>13, <1>14, <1>18 DEF StreamAt
  <2>2. pc'["Q"] = "rbuf_full"
    BY <2>1, MainPlaces
  <2>3. Taken'
    BY <1>9, <1>12, <2>1, <2>2 DEF Seen, Here, Taken, Counters
  <2> QED BY <1>4, <1>5, <1>10, <1>18, <2>3 DEF StreamAt
<1>19. CASE st = "clearing"
  <2>1. Taken /\ DoClr /\ ~DoSend
    BY <1>6, <1>13, <1>14, <1>19 DEF StreamAt
  <2>2. pc'["Q"] = "w1c_load"
    BY <2>1, MainPlaces
  <2>3. Clearing'
    BY <1>1, <1>9, <1>12, <2>1, <2>2 DEF Taken, Clearing, Counters
  <2> QED BY <1>4, <1>5, <1>10, <1>19, <2>3 DEF StreamAt
<1> QED BY <1>4, <1>14, <1>15, <1>16, <1>17, <1>18, <1>19

-----------------------------------------------------------------------------
(* CompleteAt *)

LEMMA CompleteShape ==
    ASSUME NEW i \in 1..6
    PROVE  LET ins == Prog(5)[i] IN
           /\ i \in {1, 5} => ins.op = "put"
           /\ i \in {2, 6} => ins.op = "clr" /\ ins.usart = "A" /\ ins.bits = StatusBits
           /\ i = 3 => ins.op = "send" /\ ins.usart = "A"
           /\ i = 4 => ins.op = "wait" /\ ins.usart = "A" /\ ins.bit = "TIR"
  BY Prog5 DEF PutStr, Send, Clr, Wait

\* The bus access under way in test 5, if there is one
LEMMA CompleteBus ==
    ASSUME TypeInv, IInv, test = 5, pc["Q"] # "idle"
    PROVE  /\ Pos \in {3, 4, 7} /\ at["Q"] = "A"
           /\ Pos = 3 => pc["Q"] \in {"w1c_load", "w1c_store"} /\ arg = StatusBits
           /\ Pos = 4 => pc["Q"] \in UpdPlaces \cup StartPlaces
<1>1. PICK i \in {Pos} : i = Pos
  OBVIOUS
<1>2. /\ Doing(Prog(5)[i - 1]) /\ i \in Nat /\ i - 1 \in DOMAIN Prog(5)
      /\ Prog(5)[i - 1].op \in {"con", "send", "clr", "read", "drain"}
      /\ at["Q"] = Prog(5)[i - 1].usart
  BY <1>1, BusPlaces
<1>3. i - 1 \in 1..6
  BY <1>1, <1>2, Prog5
<1>4. PICK k \in 1..6 : k = i - 1
  BY <1>3
<1>5. k \in {2, 3, 6} /\ i = k + 1
  BY <1>2, <1>4, CompleteShape
<1>6. at["Q"] = "A"
  BY <1>2, <1>4, <1>5, CompleteShape
<1>7. k = 2 => pc["Q"] \in {"w1c_load", "w1c_store"} /\ arg = StatusBits
  BY <1>2, <1>4, CompleteShape DEF Doing
<1>8. k = 3 => pc["Q"] \in UpdPlaces \cup StartPlaces
  BY <1>2, <1>4, CompleteShape DEF Doing
<1> QED BY <1>1, <1>5, <1>6, <1>7, <1>8

\* The scheduler reports nothing about a USART that it does not serve.
LEMMA KernelElsewhere ==
    ASSUME TypeInv, Kernel, NEW u \in Usarts, ~In("S", u, UpdPlaces)
    PROVE  status'[u] = status[u]
<1>1. CASE Update("S")
  BY <1>1 DEF Update, UpdTest, UpdLoad, UpdStore, UpdCount, UpdFired, UpdEnd, statVars, TypeInv, StatType, In, UpdPlaces
<1>2. CASE ~Update("S")
  BY <1>2, ApartS
<1> QED BY <1>1, <1>2

LEMMA KernelNoTir ==
    ASSUME NoWrap, DeviceInv, IInv, Kernel, test = 5, ~TxDone("A"), NoTir
    PROVE  NoTir'
<1> USE DEF DeviceInv
<1>1. "A" \in Usarts /\ RxStill("A") /\ \A u \in Usarts : CON_INIT \subseteq con[u]
  BY Names, KernelRuns DEF IInv, LinkInv, From
<1>2. status'["A"] = status["A"]
  BY <1>1, KernelElsewhere DEF NoTir
<1>3. TirStays("A")
  BY <1>1, KernelTir DEF IInv
<1>4. RxStill("A")'
  BY <1>1, RxStillStays DEF IInv
<1>5. ~In("S", "A", UpdPlaces)'
  BY <1>1, <1>4, KernelServes DEF NoTir, RxStill, In
<1>6. pc'["Q"] = pc["Q"] /\ at'["Q"] = at["Q"] /\ ld'["Q"] = ld["Q"]
  BY KernelLeavesQ
<1> QED BY <1>2, <1>3, <1>5, <1>6 DEF NoTir, TirStays, In

LEMMA KernelComplete ==
    ASSUME NoWrap, DeviceInv, IInv, Kernel, UNCHANGED progVars, test = 5, NEW i, i = Pos
    PROVE  CompleteAt(i)'
<1> USE DEF DeviceInv
<1>1. i \in {4, 5} /\ "A" \in Usarts /\ ok' = ok
  BY KernelRuns, Names DEF Rests, progVars
<1>2. CompleteAt(i)
  BY DEF IInv, StageInv, StageAt
<1>3. CASE TxDone("A")
  <2>1. FrameEnds("A")
    BY <1>1, <1>3, KernelTransmits DEF IInv
  <2>2. ~Starting("A") /\ pc'["Q"] = pc["Q"] /\ at'["Q"] = at["Q"]
    BY <1>1, <2>1, KernelLeavesQ DEF FrameEnds, IInv, TxOne
  <2>3. ~Starting("A")' /\ ~tsr_busy'["A"]
    BY <2>1, <2>2 DEF FrameEnds, Starting, In
  <2>4. TirAccount' /\ Pos' = i /\ test' = 5
    BY KernelTirAccount, PosStays DEF progVars
  <2>5. count'["A"]["TBIR"] = 8
    BY <1>1, <2>4 DEF TirAccount, SentByA
  <2>6. tir_fire_count'["A"] + 0 = 8
    BY <1>1, <2>3, <2>4, <2>5 DEF TirAccount, One
  <2>7. tir_fire_count'["A"] \in Nat
    <3>1. tir_fire_count["A"] \in Nat /\ tir_fire_count'["A"] = Incr(tir_fire_count["A"])
      BY <1>1, <2>1, CountType DEF FrameEnds, TypeInv, CoreType
    <3> QED BY <3>1, CountType DEF Incr
  <2>8. tir_fire_count'["A"] = 8
    BY <2>6, <2>7
  <2> QED BY <1>1, <2>8 DEF CompleteAt
<1>4. CASE ~TxDone("A")
  <2>1. tir_fire_count'["A"] = tir_fire_count["A"]
    BY <1>1, <1>4, KernelTransmits DEF IInv, FrameStays
  <2>2. NoTir => NoTir'
    BY <1>4, KernelNoTir
  <2> QED BY <1>1, <1>2, <2>1, <2>2 DEF CompleteAt
<1> QED BY <1>3, <1>4

LEMMA AccessNoTir ==
    ASSUME NoWrap, DeviceInv, IInv, Access \/ Update("Q"), test = 5,
           pc["Q"] \in UpdPlaces \cup StartPlaces, NoTir
    PROVE  NoTir'
<1> USE DEF DeviceInv
<1>1. "A" \in Usarts /\ pc'["S"] = pc["S"] /\ at'["S"] = at["S"]
  BY Names, BusLeavesLocalsOfS
<1>2. written' = written /\ level' = level /\ ready' = ready
  <2>1. CASE TbufLoad
    BY <2>1 DEF TbufLoad, LoadTSR
  <2>2. CASE ~TbufLoad
    BY <2>2, AccessKernel
  <2> QED BY <2>1, <2>2
<1>3. /\ "TIR" \notin status'["A"]
      /\ at'["Q"] = "A" /\ pc'["Q"] \in {"upd_store", "w1c_store"} => "TIR" \notin ld'["Q"]
  <2> USE DEF TypeInv, StatType, ThreadType, Threads, NoTir, In, Goto, EnterUpdate
  <2>1. CASE UpdStore("Q")
    <3>1. Head(todo["Q"]) # "TIR"
      <4>1. todo["Q"] \in Todos /\ todo["Q"] # <<>> /\ todo["Q"] # <<"TIR">>
        BY <2>1 DEF UpdStore, UpdPlaces, IInv, BusInv, Locals, LocalsOf
      <4>2. ASSUME NEW td \in Todos, td # <<>>, td # <<"TIR">> PROVE Head(td) # "TIR"
        <5>1. CASE td = <<"EIR">>
          BY <5>1
        <5>2. CASE td = <<"RIR", "EIR">>
          BY <5>2
        <5>3. CASE td = <<"TBIR", "RIR", "EIR">>
          BY <5>3
        <5> QED BY <4>2, <5>1, <5>2, <5>3 DEF Todos
      <4> QED BY <4>1, <4>2
    <3>2. at["Q"] = "A" => "TIR" \notin ld["Q"]
      BY <2>1 DEF UpdStore
    <3>3. "TIR" \notin status'["A"]
      BY <1>1, <2>1, <3>1, <3>2 DEF UpdStore
    <3>4. pc'["Q"] = "upd_count"
      BY <2>1 DEF UpdStore
    <3> QED BY <3>3, <3>4
  <2>2. CASE UpdLoad("Q")
    BY <1>1, <2>2 DEF UpdLoad, statVars
  <2>3. CASE UpdTest("Q") \/ UpdCount("Q") \/ UpdFired("Q") \/ UpdEnd("Q")
    BY <2>3 DEF UpdTest, UpdCount, UpdFired, UpdEnd, statVars
  <2>4. CASE TbufWrite \/ TbufTest \/ TbufLoad
    BY <2>4 DEF TbufWrite, TbufTest, TbufLoad, statVars
  <2>5. ~(RbufClearFull \/ RbufClearRaw \/ W1cLoad \/ W1cStore)
    BY DEF RbufClearFull, RbufClearRaw, W1cLoad, W1cStore, UpdPlaces, StartPlaces
  <2> QED BY <2>1, <2>2, <2>3, <2>4, <2>5 DEF Access, Update
<1> QED BY <1>1, <1>2, <1>3 DEF NoTir, In

LEMMA AccessComplete ==
    ASSUME NoWrap, DeviceInv, IInv, Access \/ Update("Q"), UNCHANGED progVars, test = 5,
           NEW i, i = Pos
    PROVE  CompleteAt(i)'
<1> USE DEF DeviceInv
<1>1. i \in {3, 4, 7} /\ at["Q"] = "A" /\ "A" \in Usarts /\ ok' = ok /\ pc["Q"] # "idle"
  BY BusOrIdle, CompleteBus, Names DEF progVars
<1>2. CompleteAt(i)
  BY DEF IInv, StageInv, StageAt
<1>3. tir_fire_count' = tir_fire_count
  <2>1. CASE TbufLoad
    BY <2>1 DEF TbufLoad, LoadTSR
  <2>2. CASE ~TbufLoad
    BY <2>2, AccessKernel
  <2> QED BY <2>1, <2>2
<1>4. CASE i = 3
  <2>1. pc["Q"] \in {"w1c_load", "w1c_store"} /\ arg = StatusBits
    BY <1>1, <1>4, CompleteBus
  <2>2. CASE W1cLoad
    <3>1. pc'["Q"] = "w1c_store"
      BY <2>2 DEF W1cLoad, Goto, TypeInv, ThreadType, Threads
    <3> QED BY <1>4, <3>1 DEF CompleteAt
  <2>3. CASE W1cStore
    <3>1. Quiet /\ ~Starting("A")
      BY <1>4, <2>1 DEF IInv, RestInv, Rests, Starting, In, StartPlaces
    <3>2. TxStill("A") /\ pc["S"] = "idle"
      BY <1>1, <3>1, QuietTx DEF IInv, Quiet, Idle
    <3>3. written' = written /\ level' = level /\ ready' = ready
      BY <2>3, AccessKernel DEF TbufLoad, W1cStore
    <3>4. pc'["S"] = pc["S"] /\ pc'["Q"] = "idle"
      BY <2>3, BusLeavesLocalsOfS DEF W1cStore, Goto, TypeInv, ThreadType, Threads
    <3>5. "TIR" \notin status'["A"]
      BY <1>1, <2>1, <2>3 DEF W1cStore, TypeInv, StatType, StatusBits
    <3>6. NoTir'
      BY <3>2, <3>3, <3>4, <3>5 DEF NoTir, In, TxStill, UpdPlaces
    <3> QED BY <1>4, <3>6 DEF CompleteAt
  <2>4. W1cLoad \/ W1cStore
    BY <2>1 DEF Access, TbufWrite, TbufTest, TbufLoad, RbufClearFull, RbufClearRaw,
       Update, UpdTest, UpdLoad, UpdStore, UpdCount, UpdFired, UpdEnd
  <2> QED BY <2>2, <2>3, <2>4
<1>5. CASE i = 4
  <2>1. NoTir => NoTir'
    BY <1>1, <1>5, CompleteBus, AccessNoTir
  <2> QED BY <1>2, <1>3, <1>5, <2>1 DEF CompleteAt
<1>6. CASE i = 7
  BY <1>1, <1>2, <1>3, <1>6 DEF CompleteAt
<1> QED BY <1>1, <1>4, <1>5, <1>6

LEMMA MainComplete ==
    ASSUME NoWrap, Settles, DeviceInv, IInv, Main, ~NextTest, test = 5, NEW j, j = Pos'
    PROVE  test' = 5 /\ CompleteAt(j)'
<1> USE DEF DeviceInv
<1>1. /\ UNCHANGED <<ready, written, level, tir_fire_count, status>> /\ pc["Q"] = "idle"
      /\ pc'["S"] = pc["S"] /\ at'["S"] = at["S"]
  BY MainKernel DEF Idle
<1>2. PICK i \in {Pos} : i = Pos
  OBVIOUS
<1>3. CompleteAt(i)
  BY <1>2 DEF IInv, StageInv, StageAt
<1>4. CASE Straight
  <2>1. /\ j = i + 1 /\ test' = 5 /\ i \in 1..6 /\ Ins = Prog(5)[i]
    BY <1>2, <1>4, StraightAt, LengthOfTest DEF IInv
  <2>2. /\ i = 2 => DoClr
        /\ i = 4 => DoWait /\ Ins.usart = "A" /\ Ins.bit = "TIR"
        /\ ~DoRead
    BY <1>4, <2>1, StraightOp, CompleteShape
  <2>3. ok' = ok
    BY <1>4, <2>2 DEF Straight, DoPutStr, DoCon, DoSend, DoClr, DoDrain, DoWait
  <2>4. i = 2 => pc'["Q"] = "w1c_load"
    BY <2>2, MainPlaces
  <2>5. i = 3 => NoTir'
    <3> HAVE i = 3
    <3>1. NoTir
      BY <1>1, <1>3 DEF CompleteAt
    <3>2. pc'["Q"] \notin {"upd_store", "w1c_store"}
      BY MainPlaces
    <3> QED BY <1>1, <3>1, <3>2 DEF NoTir, In
  <2>6. i = 4 => tir_fire_count["A"] = 8
    BY <1>3, <2>2 DEF CompleteAt, DoWait, NoTir
  <2>7. i \in {5, 6} /\ ok => tir_fire_count["A"] = 8
    BY <1>3 DEF CompleteAt
  <2> QED BY <1>1, <2>1, <2>3, <2>4, <2>5, <2>6, <2>7 DEF CompleteAt
<1>5. CASE TimeOut
  <2>1. i = 4 /\ j = 5 /\ test' = 5 /\ ok' = FALSE
    BY <1>2, <1>5, TimeOutWhere, TimeOutMoves DEF IInv
  <2> QED BY <2>1 DEF CompleteAt
<1> QED BY <1>4, <1>5 DEF Main, Straight

-----------------------------------------------------------------------------
(* StageInv *)

LEMMA KernelStage ==
    ASSUME NoWrap, DeviceInv, IInv, Kernel, UNCHANGED progVars PROVE StageInv'
<1>1. PICK n \in {test}, i \in {Pos} : n = test /\ i = Pos
  OBVIOUS
<1>2. n = test' /\ i = Pos'
  BY <1>1, PosStays DEF progVars
<1>3. n \in 1..5
  BY <1>1, KernelRuns DEF DeviceInv
<1>4. n \in {1, 2} => ExchangeAt(n, i)'
  BY <1>1, KernelExchange
<1>5. n = 3 => OverrunAt(i)'
  BY <1>1, KernelOverrun
<1>6. n = 4 => StreamAt(Stage(4, i), ByteOf(4, i))'
  <2> HAVE n = 4
  <2>1. PICK st \in {Stage(4, i)}, b \in {ByteOf(4, i)} : st = Stage(4, i) /\ b = ByteOf(4, i)
    OBVIOUS
  <2>2. StreamAt(st, b)
    BY <1>1, <2>1 DEF IInv, StageInv, StageAt
  <2>3. StreamAt(st, b)'
    BY <1>1, <2>1, <2>2, KernelStream
  <2> QED BY <2>1, <2>3
<1>7. n = 5 => CompleteAt(i)'
  BY <1>1, KernelComplete
<1> QED BY <1>2, <1>3, <1>4, <1>5, <1>6, <1>7 DEF StageInv, StageAt

LEMMA AccessStage ==
    ASSUME NoWrap, DeviceInv, IInv, Access \/ Update("Q"), UNCHANGED progVars
    PROVE  StageInv'
<1>1. PICK n \in {test}, i \in {Pos} : n = test /\ i = Pos
  OBVIOUS
<1>2. n = test' /\ i = Pos'
  BY <1>1, PosStays DEF progVars
<1>3. n = 0 => SetUpInv'
  BY <1>1, AccessSetUp
<1>4. n \in {1, 2} => ExchangeAt(n, i)'
  BY <1>1, AccessExchange
<1>5. n = 3 => OverrunAt(i)'
  BY <1>1, AccessOverrun
<1>6. n = 4 => StreamAt(Stage(4, i), ByteOf(4, i))'
  <2> HAVE n = 4
  <2>1. PICK st \in {Stage(4, i)}, b \in {ByteOf(4, i)} : st = Stage(4, i) /\ b = ByteOf(4, i)
    OBVIOUS
  <2>2. StreamAt(st, b)
    BY <1>1, <2>1 DEF IInv, StageInv, StageAt
  <2>3. StreamAt(st, b)'
    BY <1>1, <2>1, <2>2, AccessStream
  <2> QED BY <2>1, <2>3
<1>7. n = 5 => CompleteAt(i)'
  BY <1>1, AccessComplete
<1> QED BY <1>2, <1>3, <1>4, <1>5, <1>6, <1>7 DEF StageInv, StageAt

LEMMA MainStage ==
    ASSUME NoWrap, Settles, DeviceInv, IInv, Main PROVE StageInv'
<1>1. CASE NextTest
  <2>1. test \in 0..5 /\ test' = test + 1 /\ Pos' = 1
    BY <1>1, NextTestMoves DEF IInv
  <2>2. /\ test = 0 => ExchangeAt(1, 1)'
        /\ test = 1 => ExchangeAt(2, 1)'
        /\ test = 2 => OverrunAt(1)'
    BY <1>1, NextExchange
  <2>3. test = 3 => StreamAt(Stage(4, 1), ByteOf(4, 1))'
    BY <1>1, NextOverrun
  <2>4. test = 4 => CompleteAt(1)'
    BY DEF CompleteAt
  <2>5. /\ test = 0 => test' = 1
        /\ test = 1 => test' = 2
        /\ test = 2 => test' = 3
        /\ test = 3 => test' = 4
        /\ test = 4 => test' = 5
        /\ test = 5 => test' = 6
    BY <2>1
  <2> QED BY <2>1, <2>2, <2>3, <2>4, <2>5 DEF StageInv, StageAt
<1>2. CASE ~NextTest
  <2>1. PICK n \in {test}, j \in {Pos'} : n = test /\ j = Pos'
    OBVIOUS
  <2>2. n \in 0..5
    <3>1. CASE TimeOut
      BY <2>1, <3>1, TimeOutWhere
    <3>2. CASE Straight
      BY <2>1, <3>2, StraightAt DEF IInv
    <3> QED BY <1>2, <3>1, <3>2 DEF Main, Straight
  <2>3. n = 0 => test' = n /\ SetUpInv'
    BY <1>2, <2>1, MainSetUp
  <2>4. n \in {1, 2} => test' = n /\ ExchangeAt(n, j)'
    BY <1>2, <2>1, MainExchange
  <2>5. n = 3 => test' = n /\ OverrunAt(j)'
    BY <1>2, <2>1, MainOverrun
  <2>6. n = 4 => test' = n /\ StreamAt(Stage(4, j), ByteOf(4, j))'
    BY <1>2, <2>1, MainStream
  <2>7. n = 5 => test' = n /\ CompleteAt(j)'
    BY <1>2, <2>1, MainComplete
  <2> QED BY <2>1, <2>2, <2>3, <2>4, <2>5, <2>6, <2>7 DEF StageInv, StageAt
<1> QED BY <1>1, <1>2

-----------------------------------------------------------------------------
(* VerdictInv *)

\* Every read finds the byte that the test has sent.
LEMMA ReadsItsByte ==
    ASSUME IInv, DoRead PROVE rbuf[Ins.usart] = Ins.byte
<1>1. Straight /\ Ins.op = "read"
  BY DEF Straight, DoRead, At
<1>2. PICK n \in {test}, i \in {Pos} : n = test /\ i = Pos
  OBVIOUS
<1>3. /\ Ins = Prog(n)[i] /\ i \in 1..Len(Prog(test)) /\ n \in {1, 2, 4} /\ Ins.usart = To(n)
      /\ n = 4 => Stages4(i)
  BY <1>1, <1>2, StraightAt DEF IInv, Neighbours
<1>4. StageAt(n, i)
  BY <1>2 DEF IInv, StageInv
<1>5. CASE n \in {1, 2}
  <2>1. i \in 1..9
    BY <1>2, <1>3, <1>5, LengthOfTest
  <2>2. i = 9
    BY <1>1, <1>3, <1>5, <2>1, ExchangeShape
  <2>3. Ins.byte = ByteOf(n, 9)
    BY <1>3, <1>5, <2>2, ExchangeShape
  <2> QED BY <1>3, <1>4, <1>5, <2>2, <2>3 DEF StageAt, ExchangeAt, Here
<1>6. CASE n = 4
  <2>1. Stage(4, i) = "seen" /\ Ins.byte = ByteOf(4, i)
    BY <1>1, <1>3, <1>6 DEF Stages4
  <2> QED BY <1>3, <1>4, <1>6, <2>1 DEF StageAt, StreamAt, Seen, Here, To
<1> QED BY <1>3, <1>5, <1>6

LEMMA MainVerdict ==
    ASSUME NoWrap, Settles, DeviceInv, IInv, Main PROVE VerdictInv'
<1>1. VerdictInv /\ ok \in BOOLEAN
  BY DEF IInv, ProgType
<1>2. CASE Straight
  <2>1. test' = test /\ missed' = missed /\ failed' = failed
    BY <1>2, StraightMoves DEF IInv
  <2>2. ok' = ok
    <3>1. CASE DoRead
      BY <1>1, <3>1, ReadsItsByte DEF DoRead
    <3>2. CASE ~DoRead
      BY <1>2, <3>2 DEF Straight, DoPutStr, DoCon, DoSend, DoClr, DoDrain, DoWait
    <3> QED BY <3>1, <3>2
  <2> QED BY <1>1, <2>1, <2>2 DEF VerdictInv
<1>3. CASE TimeOut
  <2>1. PICK m : m = <<test, Ins.usart, Ins.bit>>
    OBVIOUS
  <2>2. m \in MayMiss /\ m[1] = test /\ test \in {1, 2, 5}
    BY <1>3, <2>1, TimeOutWhere
  <2>3. missed' = missed \cup {m} /\ test' = test /\ failed' = failed /\ ok' = FALSE
    BY <1>3, <2>1 DEF TimeOut
  <2>4. {x[1] : x \in missed'} \ {5, test} = {x[1] : x \in missed} \ {5, test}
    BY <2>2, <2>3
  <2>5. failed' = {x[1] : x \in missed'} \ {5, test'}
    BY <1>1, <2>3, <2>4 DEF VerdictInv
  <2>6. \A x \in missed' : x[1] <= test'
    BY <1>1, <2>2, <2>3 DEF VerdictInv
  <2> QED BY <1>1, <2>2, <2>3, <2>5, <2>6 DEF VerdictInv
<1>4. CASE NextTest
  <2>1. test \in 0..5 /\ test' = test + 1 /\ ok' = TRUE /\ missed' = missed
    BY <1>4, NextTestMoves DEF IInv
  <2>2. failed' = IF ~ok /\ test < 5 THEN failed \cup {test} ELSE failed
    BY <1>4 DEF NextTest
  <2>3. PICK M \in {{x[1] : x \in missed}} : M = {x[1] : x \in missed}
    OBVIOUS
  <2>4. M \subseteq {1, 2, 5} /\ \A k \in M : k <= test
    BY <1>1, <2>3 DEF VerdictInv, MayMiss
  <2>5. failed = M \ {5, test} /\ (ok <=> test \notin M)
    BY <1>1, <2>3 DEF VerdictInv
  <2>6. test + 1 \notin M
    BY <2>1, <2>4
  <2>7. failed' = M \ {5, test + 1}
    <3>1. CASE test = 5
      BY <2>2, <2>5, <2>6, <3>1
    <3>2. CASE test # 5 /\ ok
      BY <2>2, <2>5, <2>6, <3>2
    <3>3. CASE test # 5 /\ ~ok
      <4>1. test < 5
        BY <2>1, <3>3
      <4> QED BY <2>2, <2>5, <2>6, <3>3, <4>1
    <3> QED BY <3>1, <3>2, <3>3
  <2>8. \A x \in missed : x[1] <= test + 1 /\ x[1] # test + 1
    BY <2>1, <2>3, <2>4, <2>6
  <2> QED BY <1>1, <2>1, <2>3, <2>7, <2>8 DEF VerdictInv
<1> QED BY <1>2, <1>3, <1>4 DEF Main, Straight

-----------------------------------------------------------------------------
(* IInv *)

LEMMA InitIInv == FdInit => IInv
<1> SUFFICES ASSUME FdInit PROVE IInv
  OBVIOUS
<1> USE DEF FdInit, Init
<1>1. test = 0 /\ Pos = 1 /\ ProgType
  <2>1. ProgType
    BY InitProgType
  <2>2. Len(Prog(test)) = 5 /\ Len(todo_main) = 5
    BY Lengths DEF Prog
  <2> QED BY <2>1, <2>2 DEF Pos
<1>2. pc["Q"] = "idle" /\ pc["S"] = "idle" /\ todo["Q"] = <<>> /\ todo["S"] = <<>>
  BY DEF Threads
<1>3. BusInv
  <2>1. <<>> # <<"TIR">>
    OBVIOUS
  <2> QED BY <1>2, <2>1 DEF BusInv
<1>4. RestInv
  BY <1>2 DEF RestInv, Quiet, Idle
<1>5. LinkInv
  <2>1. \A u \in Usarts : Chan(u) = <<>>
    BY <1>2 DEF Chan, InFrame, Injecting, In
  <2> QED BY <1>2, <2>1, PeersOfTest
        DEF LinkInv, RxStill, TxStill, Starting, In, StartPlaces, UpdPlaces, Threads
<1>6. ConInv
  BY <1>1, <1>2 DEF ConInv
<1>7. PulseInv
  BY DEF PulseInv
<1>8. TxOne
  BY <1>2 DEF TxOne, Starting, In, StartPlaces
<1>9. TirAccount
  BY <1>1, <1>2, Names DEF TirAccount, SentByA, One, Starting, In, StartPlaces, Counters
<1>10. ReportInv
  BY DEF ReportInv, Counters, StatusBits
<1>11. InjectInv
  BY <1>2 DEF InjectInv, In
<1>12. StageInv
  BY <1>1, <1>2 DEF StageInv, StageAt, SetUpInv, Counters, Threads
<1>13. VerdictInv
  BY DEF VerdictInv
<1>14. LoadInv
  BY DEF LoadInv
<1> QED BY <1>1, <1>3, <1>4, <1>5, <1>6, <1>7, <1>8, <1>9, <1>10, <1>11, <1>12, <1>13,
        <1>14 DEF IInv

LEMMA StutterIInv == IInv /\ UNCHANGED fdVars => IInv'
<1> SUFFICES ASSUME IInv, UNCHANGED fdVars PROVE IInv'
  OBVIOUS
<1>1. /\ UNCHANGED vars /\ UNCHANGED <<coreVars, statVars, rxVars, kernVars, thVars>>
      /\ UNCHANGED <<test, todo_main, ok, missed, failed>>
  BY DEF fdVars, vars, progVars
<1>2. UNCHANGED progVars
  BY DEF fdVars
<1> USE <1>1 DEF coreVars, statVars, rxVars, kernVars, thVars
<1>3. Pos' = Pos /\ ProgType'
  BY <1>2, PosStays DEF IInv
<1>4. BusInv'
  BY <1>3 DEF IInv, BusInv, Doing
<1>5. RestInv'
  BY <1>3 DEF IInv, RestInv, Quiet, Idle
<1>6. \A u : Chan(u)' = Chan(u)
  BY DEF Chan, InFrame, Injecting, In
<1>7. LinkInv'
  <2>1. \A u : RxStill(u) => RxStill(u)'
    BY <1>6 DEF RxStill
  <2>2. \A u : TxStill(u) => TxStill(u)'
    BY DEF TxStill, Starting, In
  <2> QED BY <2>1, <2>2 DEF IInv, LinkInv
<1>8. ConInv'
  BY <1>3 DEF IInv, ConInv
<1>9. PulseInv' /\ TxOne'
  BY DEF IInv, PulseInv, TxOne, Starting, In
<1>10. TirAccount'
  BY <1>3 DEF IInv, TirAccount, Starting, In
<1>11. \A u, bit : Owed(u, bit)' <=> Owed(u, bit)
  BY DEF Owed, Closing, In
<1>12. ReportInv' /\ LoadInv'
  <2>1. ReportInv'
    BY <1>11 DEF IInv, ReportInv, Closing, Starting, In
  <2>2. LoadInv'
    BY DEF IInv, LoadInv
  <2> QED BY <2>1, <2>2
<1>13. InjectInv'
  BY DEF IInv, InjectInv, In
<1>14. StageInv'
  <2>1. \A u, bit : Sticky(u, bit)' <=> Sticky(u, bit)
    BY DEF Sticky, In
  <2>2. \A u, bit : Silent(u, bit)' <=> Silent(u, bit)
    BY DEF Silent, Closing, In
  <2>3. \A u, bit : Absent(u, bit)' <=> Absent(u, bit)
    BY <2>2 DEF Absent, In
  <2>4. \A u, bit : Told(u, bit)' <=> Told(u, bit)
    BY <1>11, <2>1 DEF Told
  <2>5. \A u : Box(u)' <=> Box(u)
    BY <2>4 DEF Box
  <2>6. \A u, b : Here(u, b)' <=> Here(u, b)
    BY <1>6 DEF Here
  <2>7. \A u, b : Coming(u, b)' <=> Coming(u, b)
    BY <1>6 DEF Coming
  <2>8. \A u, b : Carried(u, b)' <=> Carried(u, b)
    BY <2>4, <2>6, <2>7 DEF Carried
  <2>9. NoTir' <=> NoTir
    BY DEF NoTir, In
  <2>10. \A n, i : ExchangeAt(n, i)' <=> ExchangeAt(n, i)
    BY <2>5, <2>6, <2>8 DEF ExchangeAt
  <2>11. \A i : OverrunAt(i)' <=> OverrunAt(i)
    BY <1>6, <2>4, <2>5 DEF OverrunAt
  <2>12. \A b : Flying(b)' <=> Flying(b)
    BY <1>11, <2>1, <2>2, <2>3, <2>6, <2>7 DEF Flying
  <2>13. \A st, b : StreamAt(st, b)' <=> StreamAt(st, b)
    BY <1>6, <2>2, <2>3, <2>6, <2>12 DEF StreamAt, Clear, Seen, Taken, Clearing
  <2>14. \A i : CompleteAt(i)' <=> CompleteAt(i)
    BY <2>9 DEF CompleteAt
  <2>15. SetUpInv' <=> SetUpInv
    BY DEF SetUpInv
  <2>16. \A n, i : StageAt(n, i)' <=> StageAt(n, i)
    BY <2>10, <2>11, <2>13, <2>14, <2>15 DEF StageAt
  <2> QED BY <1>3, <2>16 DEF IInv, StageInv
<1>15. VerdictInv'
  BY DEF IInv, VerdictInv
<1> QED BY <1>3, <1>4, <1>5, <1>7, <1>8, <1>9, <1>10, <1>12, <1>13, <1>14, <1>15 DEF IInv

-----------------------------------------------------------------------------
(* DeviceInv *)

LEMMA KernelStart ==
    ASSUME NoWrap, DeviceInv, IInv, Kernel PROVE StartInv'
<1> USE DEF DeviceInv
<1>1. pc'["Q"] = pc["Q"] /\ at'["Q"] = at["Q"]
  BY KernelLeavesQ
<1> SUFFICES ASSUME pc["Q"] = "tbuf" PROVE asserted'[at["Q"]] = {}
  BY <1>1 DEF StartInv
<1> DEFINE u == at["Q"]
<1>2. u \in Usarts /\ asserted[u] = {} /\ at["S"] \in Usarts
  BY DEF StartInv, TypeInv, ThreadType, Threads
<1>3. u = From(test)
  BY BusPlaces DEF Doing, UpdPlaces, Neighbours
<1>4. ~Injecting(u)
  BY <1>2, <1>3, ChanEmpty DEF IInv, LinkInv, RxStill
<1>5. TxEv(u) \notin ready /\ pc["S"] # "txd_load"
  BY <1>2 DEF IInv, TxOne, Starting, In, StartPlaces
<1> HIDE DEF u
<1> USE DEF TypeInv, CoreType
<1>6. CASE OeIrq \/ InjectFull
  <2>1. at["S"] # u
    BY <1>4, <1>6 DEF OeIrq, InjectFull, Injecting, In
  <2> QED BY <1>2, <1>6, <2>1 DEF OeIrq, InjectFull, AssertIrq, Refused, u
<1>7. ASSUME NEW v \in Usarts, TxDone(v) PROVE asserted'[u] = {}
  <2>1. v # u
    BY <1>5, <1>7 DEF TxDone, Dispatch, TxEv
  <2>2. CASE "R" \in con[v]
    BY <1>2, <1>7, <2>1, <2>2 DEF TxDone, AssertIrq
  <2>3. CASE "R" \notin con[v]
    BY <1>2, <1>7, <2>3 DEF TxDone, coreVars
  <2> QED BY <2>2, <2>3
<1>8. ASSUME NEW v \in Usarts, IrqDeassert(v) PROVE asserted'[u] = {}
  BY <1>2, <1>8 DEF IrqDeassert, Expire
<1>9. CASE TxdLoad
  BY <1>5, <1>9 DEF TxdLoad
<1>10. CASE RxIdle \/ RxStart \/ InjectDropped \/ InjectOverrun \/ OeStore \/ InjectByte \/ TxdTest
            \/ Update("S") \/ DeltaCycle \/ AdvanceTime
  <2>1. asserted' = asserted
    BY <1>10 DEF RxIdle, RxStart, InjectDropped, InjectOverrun, OeStore, InjectByte, TxdTest,
       Refused, Update, UpdTest, UpdLoad, UpdStore, UpdCount, UpdFired, UpdEnd, DeltaCycle, AdvanceTime, coreVars
  <2> QED BY <1>2, <2>1 DEF u
<1>11. ASSUME NEW v \in Usarts, RxDone(v) \/ TirAuto(v) \/ IrqMethod(v) \/ IrqPulse(v) \/ Bridge(v)
       PROVE  asserted'[u] = {}
  BY <1>2, <1>11 DEF RxDone, TirAuto, IrqMethod, IrqPulse, Bridge, Deliver, coreVars
<1> QED BY <1>6, <1>7, <1>8, <1>9, <1>10, <1>11 DEF Kernel, Process, u

LEMMA AccessStart ==
    ASSUME DeviceInv, Access \/ Update("Q") PROVE StartInv'
<1> USE DEF Goto, EnterUpdate, DeviceInv, TypeInv, ThreadType, Threads
<1>1. CASE TbufWrite \/ TbufTest
  BY <1>1 DEF TbufWrite, TbufTest, StartInv
<1>2. CASE TbufLoad \/ RbufClearFull \/ RbufClearRaw \/ W1cLoad \/ W1cStore
  BY <1>2 DEF TbufLoad, RbufClearFull, RbufClearRaw, W1cLoad, W1cStore, StartInv
<1>3. CASE Update("Q")
  <2>1. pc["Q"] \in UpdPlaces
    BY <1>3 DEF Update, UpdTest, UpdLoad, UpdStore, UpdCount, UpdFired, UpdEnd, UpdPlaces
  <2>2. pc'["Q"] # "tbuf"
    BY <1>3 DEF Update, UpdTest, UpdLoad, UpdStore, UpdCount, UpdFired, UpdEnd, Locals, LocalsOf
  <2> QED BY <2>2 DEF StartInv
<1> QED BY <1>1, <1>2, <1>3 DEF Access

\* Only DoSend starts a TBUF write.
LEMMA OnlySendsStart ==
    ASSUME TypeInv, IInv, Main, pc'["Q"] = "tbuf"
    PROVE  DoSend /\ at'["Q"] = Ins.usart
<1> USE DEF TypeInv, ThreadType, Threads, Start, EnterUpdate
<1>1. pc["Q"] = "idle"
  BY MainKernel DEF Idle
<1>2. CASE DoSend
  BY <1>2 DEF DoSend, WriteTbuf
<1>3. CASE DoPutStr \/ DoWait \/ TimeOut \/ NextTest
  BY <1>1, <1>3, PassiveStep DEF thVars
<1>4. CASE DoCon \/ DoClr \/ DoRead \/ DoDrain
  BY <1>4 DEF DoCon, DoClr, DoRead, DoDrain, WriteCon, W1C, RbufGet
<1> QED BY <1>2, <1>3, <1>4 DEF Main

LEMMA MainStart ==
    ASSUME DeviceInv, IInv, Main PROVE StartInv'
<1>1. TypeInv
  BY DEF DeviceInv
<1> SUFFICES ASSUME pc'["Q"] = "tbuf" PROVE asserted'[at'["Q"]] = {}
  BY DEF StartInv
<1>2. DoSend /\ at'["Q"] = Ins.usart
  BY <1>1, OnlySendsStart
<1>3. Quiet /\ Ins.usart \in Usarts
  BY <1>1, <1>2, SendsAtRest
<1>4. asserted' = asserted
  BY <1>1, MainKernel
<1> QED BY <1>2, <1>3, <1>4, QuietPulses DEF IInv

\* The program's accesses leave R set, and send no byte without it.
LEMMA MainHoldsR ==
    ASSUME DeviceInv, IInv, Straight PROVE HoldsR
<1>0. TypeInv
  BY DEF DeviceInv
<1>1. Main /\ Neighbours(test, Pos) /\ Ins = Prog(test)[Pos]
  BY StraightAt DEF IInv, Main, Straight
<1>2. ASSUME NEW v \in Usarts, "R" \in con[v] PROVE "R" \in con'[v]
  <2>1. CASE DoCon
    BY <1>0, <1>2, <2>1 DEF DoCon, WriteCon, CON_INIT, TypeInv, CoreType
  <2>2. CASE ~DoCon
    BY <1>0, <1>1, <1>2, <2>2, MainKernel
  <2> QED BY <2>1, <2>2
<1>3. ASSUME NEW v \in Usarts, NEW b \in Bytes, WriteTbuf(v, b) PROVE "R" \in con[v]
  <2>1. pc'["Q"] = "tbuf" /\ at'["Q"] = v
    BY <1>0, <1>3 DEF WriteTbuf, Start, TypeInv, ThreadType, Threads
  <2>2. DoSend /\ v = Ins.usart
    BY <1>0, <1>1, <2>1, OnlySendsStart
  <2>3. test # 0
    BY <1>1, <2>2 DEF DoSend, At, Neighbours
  <2> QED BY <2>3 DEF IInv, ConInv, CON_INIT
<1> QED BY <1>2, <1>3 DEF HoldsR

LEMMA NextDeviceInv == NoWrap /\ DeviceInv /\ IInv /\ [FdNext]_fdVars => DeviceInv'
<1> SUFFICES ASSUME NoWrap, DeviceInv, IInv, [FdNext]_fdVars PROVE DeviceInv'
  OBVIOUS
<1>0. TypeInv /\ RxInv /\ TxInv /\ FlowInv /\ CountInv /\ StartInv
  BY DEF DeviceInv
<1>1. [Next]_vars
  BY FdStep DEF IInv
<1>2. /\ Prompt /\ StartInv'
      /\ \/ (\E u \in Usarts : Driver(u)) /\ HoldsR
         \/ Access \/ (\E t \in Threads : Update(t)) \/ Kernel \/ UNCHANGED vars
  <2>1. CASE Straight
    <3>1. Main
      BY <2>1 DEF Main, Straight
    <3>2. Prompt /\ StartInv'
      BY <1>0, <3>1, MainKernel, MainStart DEF Prompt
    <3>3. ((\E u \in Usarts : Driver(u)) /\ HoldsR) \/ UNCHANGED vars
      BY <2>1, StraightDrives, MainHoldsR DEF IInv
    <3> QED BY <3>2, <3>3
  <2>2. CASE TimeOut \/ NextTest \/ UNCHANGED fdVars
    <3>1. UNCHANGED vars
      BY <2>2 DEF TimeOut, NextTest, fdVars
    <3>2. asserted' = asserted /\ pc' = pc /\ at' = at
      BY <3>1 DEF vars, coreVars, thVars
    <3>3. Prompt /\ StartInv'
      BY <1>0, <3>2 DEF Prompt, StartInv
    <3> QED BY <3>1, <3>3
  <2>3. CASE BusAccess
    <3>1. Access \/ Update("Q")
      BY <2>3 DEF BusAccess
    <3>2. Prompt /\ StartInv'
      BY <1>0, <3>1, AccessKeepsPulses, AccessStart DEF Prompt
    <3> QED BY <3>1, <3>2 DEF Threads
  <2>4. CASE KernelStep
    BY <2>4, KernelStart DEF KernelStep, Prompt
  <2> QED BY <2>1, <2>2, <2>3, <2>4 DEF FdNext, Main, Straight
<1>3. TypeInv' /\ RxInv'
  BY <1>0, <1>1, NextTypeInv, NextRx
<1>4. TxInv'
  BY <1>0, <1>2, StepTx
<1>5. Moves
  BY <1>0, <1>1, EveryStepMoves
<1>6. FlowInv'
  BY <1>0, <1>1, <1>5, NextFlow
<1>7. CountInv'
  BY <1>0, <1>1, NextCounts
<1> QED BY <1>2, <1>3, <1>4, <1>6, <1>7 DEF DeviceInv

-----------------------------------------------------------------------------
(* The whole *)

LEMMA NextIInv == NoWrap /\ Settles /\ DeviceInv /\ IInv /\ [FdNext]_fdVars => IInv'
<1> SUFFICES ASSUME NoWrap, Settles, DeviceInv, IInv, [FdNext]_fdVars PROVE IInv'
  OBVIOUS
<1>1. ProgType'
  BY NextProgType DEF IInv
<1>2. CASE Main
  BY <1>1, <1>2, MainBus, MainRest, MainLink, MainCon, MainPulse, MainTxOne, MainTirAccount,
     MainReport, MainLoads, MainInject, MainStage, MainVerdict DEF IInv, DeviceInv
<1>3. ASSUME UNCHANGED progVars PROVE VerdictInv'
  BY <1>3 DEF IInv, VerdictInv, progVars
<1>4. CASE BusAccess
  <2>1. (Access \/ Update("Q")) /\ UNCHANGED progVars
    BY <1>4 DEF BusAccess
  <2> QED BY <1>1, <1>3, <2>1, AccessBus, AccessRest, AccessLink, AccessCon, AccessPulse,
          AccessTxOne, AccessTirAccount, AccessReport, AccessLoads, AccessInject, AccessStage
          DEF IInv, DeviceInv
<1>5. CASE KernelStep
  <2>1. Kernel /\ UNCHANGED progVars
    BY <1>5 DEF KernelStep
  <2> QED BY <1>1, <1>3, <2>1, KernelBus, KernelRest, KernelLink, KernelCon, KernelPulse,
          KernelTxOne, KernelTirAccount, KernelReport, KernelLoad, KernelInject, KernelStage
          DEF IInv, DeviceInv
<1>6. CASE UNCHANGED fdVars
  BY <1>6, StutterIInv
<1> QED BY <1>2, <1>4, <1>5, <1>6 DEF FdNext

\* The program under way, the two devices and the two threads stay within IInv,
\* whatever the interleaving of fullduplex_main() with the scheduler's methods,
\* as long as no poll gives up before the scheduler has settled.
THEOREM FdInvariant == NoWrap /\ Patient => (FdSpec => [](DeviceInv /\ IInv))
<1> SUFFICES ASSUME NoWrap, Patient PROVE FdSpec => [](DeviceInv /\ IInv)
  OBVIOUS
<1>1. FdInit => DeviceInv /\ IInv
  BY InitDeviceInv, InitIInv DEF FdInit
<1>2. DeviceInv /\ IInv /\ [FdNext]_fdVars => (DeviceInv /\ IInv)'
  <2> SUFFICES ASSUME DeviceInv, IInv, [FdNext]_fdVars PROVE (DeviceInv /\ IInv)'
    OBVIOUS
  <2>1. Settles
    BY DEF Settles, TimeOut
  <2>2. DeviceInv'
    BY NextDeviceInv
  <2>3. IInv'
    BY <2>1, NextIInv
  <2> QED BY <2>2, <2>3
<1> QED BY <1>1, <1>2, PTL DEF FdSpec

-----------------------------------------------------------------------------
(* The properties *)

\* Whatever the two threads interleave, a wait that times out waits for TBIR in
\* test 1 or 2 or for TIR in test 5: no wait for RIR or EIR does, and so none of
\* what a receiver reports is lost to the two writers of m_status.
THEOREM WaitsThatMiss == NoWrap /\ Patient => (FdSpec => []OnlyTransmitBitsMissed)
<1>1. IInv => OnlyTransmitBitsMissed
  BY DEF IInv, VerdictInv, MayMiss, OnlyTransmitBitsMissed
<1> QED BY <1>1, FdInvariant, PTL

\* A test calls fail_test() when one of its waits has timed out and never for
\* the byte that it reads.
THEOREM EveryFailureIsATimeOut == NoWrap /\ Patient => (FdSpec => []FailuresExplained)
<1>1. IInv => FailuresExplained
  BY DEF IInv, VerdictInv, FailuresExplained
<1> QED BY <1>1, FdInvariant, PTL

\* When the wait of test 5 is over without a time-out, A has completed all the
\* eight bytes that the program has sent on it: the TIR seen is that of its own.
THEOREM OwnTir == NoWrap /\ Patient => (FdSpec => []TirIsOwn)
<1>1. DeviceInv /\ IInv => TirIsOwn
  <2> SUFFICES ASSUME IInv, test = 5, Len(todo_main) < 3, ok PROVE tir_fire_count["A"] = 8
    BY DEF TirIsOwn
  <2>1. PICK S : Prog(test) \in Seq(S)
    BY ProgIsSeq DEF IInv, ProgType
  <2>2. Pos \in 1..Len(Prog(test)) + 1 /\ todo_main = SubSeq(Prog(test), Pos, Len(Prog(test)))
    BY DEF IInv, ProgType
  <2>3. PICK k, p : k = Len(todo_main) /\ p = Pos
    OBVIOUS
  <2>4. k \in Nat
    <3>1. todo_main \in Seq(S)
      BY <2>1, <2>2
    <3> QED BY <2>3, <3>1
  <2>5. p \in 1..7 /\ p = 6 - k + 1
    <3>1. PICK l : l = Len(Prog(test))
      OBVIOUS
    <3>2. l = 6
      BY <3>1, LengthOfTest
    <3>3. p = l - k + 1
      BY <2>3, <3>1 DEF Pos
    <3>4. p \in 1..l + 1
      BY <2>2, <2>3, <3>1
    <3> QED BY <3>2, <3>3, <3>4
  <2>6. p >= 5
    BY <2>3, <2>4, <2>5
  <2> QED BY <2>3, <2>6 DEF IInv, StageInv, StageAt, CompleteAt
<1> QED BY <1>1, FdInvariant, PTL

-----------------------------------------------------------------------------
(* The impatient program *)

\* Until a poll has given up, IInv holds; afterwards a wait that timed out comes
\* before every test that failed.
Started == \E m \in missed : /\ m[1] \in Nat /\ m[1] <= test
                            /\ \A f \in failed : m[1] <= f

FirstInv == \/ missed = {} /\ DeviceInv /\ IInv
            \/ ProgType /\ Started

LEMMA FirstTimeOut ==
    ASSUME missed = {}, IInv, TimeOut PROVE ProgType' /\ Started'
<1>1. ProgType' /\ test' = test /\ failed' = failed
  BY TimeOutMoves DEF IInv
<1>2. missed' = {<<test, Ins.usart, Ins.bit>>} /\ test \in Nat
  BY DEF TimeOut, IInv, ProgType
<1>3. failed = {}
  BY DEF IInv, VerdictInv
<1> QED BY <1>1, <1>2, <1>3 DEF Started

LEMMA StaysStarted ==
    ASSUME ProgType, Started, [FdNext]_fdVars PROVE Started'
<1>1. PICK m \in missed : m[1] \in Nat /\ m[1] <= test /\ \A f \in failed : m[1] <= f
  BY DEF Started
<1>2. test \in Nat
  BY DEF ProgType
<1>3. m \in missed' /\ test' \in {test, test + 1} /\ failed' \subseteq failed \cup {test}
  <2>1. CASE Straight
    BY <2>1, StraightMoves
  <2>2. CASE TimeOut
    BY <2>2 DEF TimeOut
  <2>3. CASE NextTest
    BY <2>3 DEF NextTest
  <2>4. CASE BusAccess \/ KernelStep \/ UNCHANGED fdVars
    BY <2>4 DEF BusAccess, KernelStep, fdVars, progVars
  <2> QED BY <2>1, <2>2, <2>3, <2>4 DEF FdNext, Main, Straight
<1>4. m[1] <= test'
  BY <1>1, <1>2, <1>3
<1>5. \A f \in failed' : m[1] <= f
  BY <1>1, <1>3
<1> QED BY <1>1, <1>3, <1>4, <1>5 DEF Started

\* However early its polls give up, no test of the program fails before one whose
\* own wait has timed out (fd_poll_until(), fullduplex_main()).
THEOREM TroubleStartsWithATimeOut == NoWrap => (FdSpec => []FirstFailureIsATimeOut)
<1> SUFFICES ASSUME NoWrap PROVE FdSpec => []FirstFailureIsATimeOut
  OBVIOUS
<1>1. FdInit => FirstInv
  BY InitDeviceInv, InitIInv DEF FdInit, FirstInv
<1>2. FirstInv /\ [FdNext]_fdVars => FirstInv'
  <2> SUFFICES ASSUME FirstInv, [FdNext]_fdVars PROVE FirstInv'
    OBVIOUS
  <2>1. CASE missed = {} /\ DeviceInv /\ IInv /\ TimeOut
    BY <2>1, FirstTimeOut DEF FirstInv
  <2>2. CASE missed = {} /\ DeviceInv /\ IInv /\ ~TimeOut
    <3>1. Settles
      BY <2>2 DEF Settles
    <3>2. DeviceInv' /\ IInv'
      BY <2>2, <3>1, NextDeviceInv, NextIInv
    <3>3. missed' = missed
      <4>1. CASE Straight
        BY <2>2, <4>1, StraightMoves DEF IInv
      <4>2. CASE NextTest
        BY <4>2 DEF NextTest
      <4>3. CASE BusAccess \/ KernelStep \/ UNCHANGED fdVars
        BY <4>3 DEF BusAccess, KernelStep, fdVars, progVars
      <4> QED BY <2>2, <4>1, <4>2, <4>3 DEF FdNext, Main, Straight
    <3> QED BY <2>2, <3>2, <3>3 DEF FirstInv
  <2>3. CASE ProgType /\ Started
    BY <2>3, NextProgType, StaysStarted DEF FirstInv
  <2> QED BY <2>1, <2>2, <2>3 DEF FirstInv
<1>3. FirstInv => FirstFailureIsATimeOut
  BY DEF FirstInv, Started, IInv, VerdictInv, FirstFailureIsATimeOut
<1> QED BY <1>1, <1>2, <1>3, PTL DEF FdSpec
=============================================================================
