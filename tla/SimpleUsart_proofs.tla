-------------------------- MODULE SimpleUsart_proofs --------------------------
(* Theorems about SimpleUsart for every depth of the FIFO and every number of *)
(* bytes.  That no byte is dropped rests on the account of the credits.       *)
EXTENDS SimpleUsart, SequenceTheorems, TLAPS

\* Every place of the FIFO is taken, promised to a byte on its way, granted to
\* the backend, or about to be granted.
CreditAccount ==
    /\ Len(fifo) + left + credits + (IF q = "credit" THEN 1 ELSE 0) = Depth
    /\ left > 0 => s = "push"

Target == rxneie /\ fifo # <<>>

\* irq is what it should be, or something that will put it right is due.
IrqDue ==
    \/ irq_event \/ s = "push" \/ q \in {"credit", "notify"}
    \/ s = "irq" /\ assert_irq = Target
    \/ s # "irq" /\ irq_state = Target

\* The bytes of NothingLost one by one, the form that is easy to step.
Numbered(f, n) == \A i \in 1..Len(f) : f[i] = n + i

Account == /\ Numbered(fifo, taken)
           /\ taken + Len(fifo) + left + unsent = typed

Fifo == fifo \in Seq(Nat)

Scalars ==
    /\ rxneie \in BOOLEAN /\ irq_state \in BOOLEAN /\ irq_event \in BOOLEAN
    /\ assert_irq \in BOOLEAN
    /\ credits \in Nat /\ left \in Nat
    /\ typed \in 0..MaxBytes /\ unsent \in Nat /\ taken \in Nat
    /\ q \in {"idle", "credit", "notify"} /\ s \in {"idle", "push", "irq"}

\* The inductive invariant.  The bounds of TypeOK follow from the accounts.
IInv == Fifo /\ Scalars /\ CreditAccount /\ Account /\ IrqDue

-----------------------------------------------------------------------------
(* The FIFO *)

LEMMA NumberedIsFunction ==
    ASSUME NEW f \in Seq(Nat), NEW n \in Nat
    PROVE  Numbered(f, n) <=> f = [i \in 1..Len(f) |-> n + i]
<1>1. f = [i \in 1..Len(f) |-> f[i]]
  OBVIOUS
<1>2. Numbered(f, n) => f = [i \in 1..Len(f) |-> n + i]
  BY <1>1 DEF Numbered
<1>3. f = [i \in 1..Len(f) |-> n + i] => Numbered(f, n)
  <2>1. ASSUME f = [i \in 1..Len(f) |-> n + i], NEW i \in 1..Len(f)
        PROVE  f[i] = n + i
    BY <2>1
  <2> QED BY <2>1 DEF Numbered
<1> QED BY <1>2, <1>3

LEMMA NumberedAppend ==
    ASSUME NEW f \in Seq(Nat), NEW n \in Nat, Numbered(f, n)
    PROVE  Numbered(Append(f, n + Len(f) + 1), n)
<1> DEFINE e == n + Len(f) + 1
           g == Append(f, e)
<1>1. Len(g) = Len(f) + 1 /\ \A i \in 1..Len(f) + 1 :
          g[i] = IF i = Len(f) + 1 THEN e ELSE f[i]
  OBVIOUS
<1>2. ASSUME NEW i \in 1..Len(g) PROVE g[i] = n + i
  <2>1. Len(f) \in Nat
    OBVIOUS
  <2> QED BY <1>1, <2>1 DEF Numbered
<1> QED BY <1>2 DEF Numbered

LEMMA NumberedTail ==
    ASSUME NEW f \in Seq(Nat), NEW n \in Nat, Numbered(f, n), f # <<>>
    PROVE  /\ Head(f) = n + 1 /\ Numbered(Tail(f), n + 1)
           /\ Tail(f) \in Seq(Nat) /\ Len(Tail(f)) = Len(f) - 1
<1>1. Len(f) \in Nat \ {0} /\ Tail(f) \in Seq(Nat) /\ Len(Tail(f)) = Len(f) - 1
  OBVIOUS
<1>2. Head(f) = f[1] /\ \A i \in 1..Len(f) - 1 : Tail(f)[i] = f[i + 1]
  OBVIOUS
<1>3. Head(f) = n + 1
  BY <1>1, <1>2 DEF Numbered
<1>4. Numbered(Tail(f), n + 1)
  BY <1>1, <1>2 DEF Numbered
<1> QED BY <1>1, <1>3, <1>4

LEMMA SeqOfMembers ==
    ASSUME NEW S, NEW T, NEW f \in Seq(S), \A i \in 1..Len(f) : f[i] \in T
    PROVE  f \in Seq(T)
<1>1. Len(f) \in Nat /\ f \in [1..Len(f) -> S]
  OBVIOUS
<1>2. f \in [1..Len(f) -> T]
  BY <1>1
<1> QED BY <1>1, <1>2, SeqDef

-----------------------------------------------------------------------------
(* The inductive invariant implies the properties *)

LEMMA InvImpliesTypeOK == IInv => TypeOK
<1> SUFFICES ASSUME IInv PROVE TypeOK
  OBVIOUS
<1>1. Len(fifo) \in Nat
  BY DEF IInv, Fifo
<1>2. \A i \in 1..Len(fifo) : fifo[i] \in 1..MaxBytes
  BY <1>1, SimpleUsartAssumption DEF IInv, Scalars, Account, Numbered
<1>3. fifo \in Seq(1..MaxBytes)
  BY <1>2, SeqOfMembers DEF IInv, Fifo
<1>4. credits \in 0..Depth /\ left \in 0..Depth
  BY <1>1, SimpleUsartAssumption DEF IInv, Scalars, CreditAccount
<1>5. unsent \in 0..MaxBytes /\ taken \in 0..MaxBytes
  BY <1>1, SimpleUsartAssumption DEF IInv, Scalars, Account
<1> QED BY <1>3, <1>4, <1>5 DEF TypeOK, IInv, Scalars

LEMMA InvImpliesNothingLost == IInv => NothingLost
  BY NumberedIsFunction DEF IInv, Fifo, Scalars, Account, NothingLost

LEMMA InvImpliesIrqSettles == IInv => IrqSettles
  BY DEF IInv, IrqDue, Target, IrqSettles

-----------------------------------------------------------------------------
(* The inductive invariant is inductive *)

LEMMA InitInv == Init => IInv
<1> SUFFICES ASSUME Init PROVE IInv
  OBVIOUS
<1>1. Fifo
  BY DEF Init, Fifo
<1>2. IrqDue
  BY Zenon DEF Init, IrqDue, Target
<1>3. Scalars
  <2>1. rxneie \in BOOLEAN /\ irq_state \in BOOLEAN /\ irq_event \in BOOLEAN
        /\ assert_irq \in BOOLEAN
    BY Zenon DEF Init
  <2> QED BY <2>1, SimpleUsartAssumption DEF Init, Scalars
<1>4. Len(fifo) = 0
  BY DEF Init
<1>5. CreditAccount /\ Account
  BY <1>4, SimpleUsartAssumption DEF Init, CreditAccount, Account, Numbered
<1> QED BY <1>1, <1>2, <1>3, <1>5 DEF IInv

\* The backend's steps move bytes and credits, and leave the FIFO alone.
LEMMA BackendStep ==
    ASSUME IInv, Type \/ Deliver PROVE IInv'
<1>1. Fifo' /\ Len(fifo) \in Nat /\ UNCHANGED <<fifo, taken, rxneie, q>>
  BY DEF IInv, Fifo, Type, Deliver, Receive
<1>2. CASE Type
  <2>1. Scalars'
    BY <1>2, SimpleUsartAssumption DEF IInv, Scalars, Type
  <2>2. CreditAccount' /\ IrqDue'
    BY <1>2 DEF IInv, CreditAccount, IrqDue, Target, Type
  <2>3. Account'
    BY <1>1, <1>2 DEF IInv, Scalars, Account, Numbered, Type
  <2> QED BY <1>1, <2>1, <2>2, <2>3 DEF IInv
<1>3. CASE Deliver
  <2> PICK n \in 1..Depth : Receive(n)
    BY <1>3 DEF Deliver
  <2>1. Scalars' /\ left = 0
    BY SimpleUsartAssumption DEF IInv, Scalars, CreditAccount, Receive
  <2>2. CreditAccount'
    BY <1>1, <2>1, SimpleUsartAssumption DEF IInv, Scalars, CreditAccount, Receive
  <2>3. IrqDue'
    BY DEF IrqDue, Receive
  <2>4. Account'
    BY <1>1, <2>1, SimpleUsartAssumption DEF IInv, Scalars, Account, Numbered, Receive
  <2> QED BY <1>1, <2>1, <2>2, <2>3, <2>4 DEF IInv
<1> QED BY <1>2, <1>3

\* rx_receive() finds a free place for every byte: a credit stood for it.
LEMMA PushStep ==
    ASSUME IInv, Push PROVE IInv'
<1> DEFINE b == typed - unsent - left + 1
<1>1. Len(fifo) \in Nat /\ Len(fifo) < Depth
  BY SimpleUsartAssumption DEF IInv, Fifo, Scalars, CreditAccount, Push
<1>2. b = taken + Len(fifo) + 1 /\ b \in Nat
  BY <1>1 DEF IInv, Scalars, Account
<1>3. fifo' = Append(fifo, b)
  BY <1>1 DEF Push
<1>4. Fifo' /\ Len(fifo') = Len(fifo) + 1
  BY <1>2, <1>3 DEF IInv, Fifo
<1>5. Scalars'
  BY DEF IInv, Scalars, Push
<1>6. CreditAccount' /\ IrqDue'
  BY <1>1, <1>4 DEF IInv, Scalars, CreditAccount, IrqDue, Push
<1>7. Account'
  <2>1. fifo' = Append(fifo, taken + Len(fifo) + 1)
    BY <1>2, <1>3
  <2>2. Numbered(fifo', taken)
    BY <2>1, NumberedAppend DEF IInv, Fifo, Scalars, Account
  <2>3. Numbered(fifo', taken')
    BY <2>2 DEF Push
  <2> QED BY <1>1, <1>4, <2>3 DEF IInv, Scalars, Account, Push
<1> QED BY <1>4, <1>5, <1>6, <1>7 DEF IInv

\* The driver takes the oldest byte, whose place becomes a credit in due course.
LEMMA ReadDrStep ==
    ASSUME IInv, ReadDr PROVE IInv'
<1>1. /\ Head(fifo) = taken + 1 /\ Numbered(Tail(fifo), taken + 1)
      /\ Tail(fifo) \in Seq(Nat) /\ Len(Tail(fifo)) = Len(fifo) - 1
  BY NumberedTail DEF IInv, Fifo, Scalars, Account, ReadDr
<1>2. taken' = taken + 1 /\ fifo' = Tail(fifo) /\ Len(fifo) \in Nat
  BY <1>1 DEF ReadDr, IInv, Fifo
<1>3. Fifo' /\ Scalars' /\ IrqDue'
  BY <1>1, <1>2 DEF IInv, Fifo, Scalars, IrqDue, ReadDr
<1>4. CreditAccount'
  BY <1>1, <1>2 DEF IInv, Scalars, CreditAccount, ReadDr
<1>5. Account'
  BY <1>1, <1>2 DEF IInv, Scalars, Account, ReadDr
<1> QED BY <1>3, <1>4, <1>5 DEF IInv

\* The other steps leave the bytes where they are.
LEMMA QuietStep ==
    ASSUME IInv,
           \/ Pushed \/ UpdateIrq \/ WriteIrq
           \/ ReadDrCredit \/ NotifyIrq \/ \E v \in BOOLEAN : WriteCr1(v)
    PROVE  IInv'
<1>1. UNCHANGED <<fifo, taken, left, unsent, typed>>
  BY DEF Pushed, UpdateIrq, WriteIrq, ReadDrCredit, NotifyIrq, WriteCr1
<1>2. Fifo' /\ Account' /\ Len(fifo) \in Nat
  BY <1>1 DEF IInv, Fifo, Account, Numbered
<1>3. CASE Pushed
  BY <1>1, <1>2, <1>3 DEF IInv, Scalars, CreditAccount, IrqDue, Pushed
<1>4. CASE UpdateIrq
  BY <1>1, <1>2, <1>4 DEF IInv, Scalars, CreditAccount, IrqDue, Target, UpdateIrq
<1>5. CASE WriteIrq
  BY <1>1, <1>2, <1>5 DEF IInv, Scalars, CreditAccount, IrqDue, Target, WriteIrq
<1>6. CASE ReadDrCredit
  BY <1>1, <1>2, <1>6 DEF IInv, Scalars, CreditAccount, IrqDue, ReadDrCredit, Credit
<1>7. CASE NotifyIrq
  BY <1>1, <1>2, <1>7 DEF IInv, Scalars, CreditAccount, IrqDue, NotifyIrq
<1>8. CASE \E v \in BOOLEAN : WriteCr1(v)
  BY <1>1, <1>2, <1>8 DEF IInv, Scalars, CreditAccount, IrqDue, WriteCr1
<1> QED BY <1>3, <1>4, <1>5, <1>6, <1>7, <1>8

LEMMA NextInv == IInv /\ [Next]_vars => IInv'
<1> SUFFICES ASSUME IInv, [Next]_vars PROVE IInv'
  OBVIOUS
<1>1. CASE Next
  BY <1>1, BackendStep, PushStep, ReadDrStep, QuietStep DEF Next, Kernel
<1>2. CASE UNCHANGED vars
  BY <1>2 DEF vars, IInv, Fifo, Scalars, CreditAccount, Account, Numbered, IrqDue, Target
<1> QED BY <1>1, <1>2

-----------------------------------------------------------------------------
(* The theorems *)

\* The state of the simple USART and of its backend is well typed; in
\* particular the backend never holds more credit than the FIFO has places.
THEOREM TypeCorrect == Spec => []TypeOK
  BY InitInv, NextInv, InvImpliesTypeOK, PTL DEF Spec

\* can_receive_set() and can_receive_more() keep rx_receive() from dropping a
\* byte, for every depth: the FIFO holds every byte that arrived, in order.
THEOREM NoByteIsLost == Spec => []NothingLost
  BY InitInv, NextInv, InvImpliesNothingLost, PTL DEF Spec

\* Once update_irq() has no more to do, irq is RXNEIE and a byte to read.
THEOREM IrqAlwaysSettles == Spec => []IrqSettles
  BY InitInv, NextInv, InvImpliesIrqSettles, PTL DEF Spec
=============================================================================
