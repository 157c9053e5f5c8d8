----------------------------- MODULE SerialLink ------------------------------
(* What two USARTs joined by a SerialBridge promise about the bytes written   *)
(* to TBUF: each travels to the far receiver in the order of the writes, and  *)
(* there it is accepted or refused, and counted, exactly once.                *)
EXTENDS Naturals, Sequences

CONSTANTS Receivers, Bytes

VARIABLES
    chan,          \* the bytes on their way to each receiver
    accepted,      \* how many each receiver took
    refused        \* how many each receiver dropped

Init == /\ chan = [r \in Receivers |-> <<>>]
        /\ accepted = [r \in Receivers |-> 0]
        /\ refused = [r \in Receivers |-> 0]

Send(r, b) == /\ chan' = [chan EXCEPT ![r] = Append(@, b)]
              /\ UNCHANGED <<accepted, refused>>

Accept(r) == /\ chan[r] # <<>>
             /\ chan' = [chan EXCEPT ![r] = Tail(@)]
             /\ accepted' = [accepted EXCEPT ![r] = @ + 1]
             /\ UNCHANGED refused

Refuse(r) == /\ chan[r] # <<>>
             /\ chan' = [chan EXCEPT ![r] = Tail(@)]
             /\ refused' = [refused EXCEPT ![r] = @ + 1]
             /\ UNCHANGED accepted

vars == <<chan, accepted, refused>>

Next == \E r \in Receivers : \/ \E b \in Bytes : Send(r, b)
                             \/ Accept(r) \/ Refuse(r)

Spec == Init /\ [][Next]_vars

\* No byte stays on its way for ever.
FairSpec == Spec /\ \A r \in Receivers : WF_vars(Accept(r) \/ Refuse(r))
=============================================================================
