------------------------------- MODULE TxFifo --------------------------------
(* What the transmitter promises its driver: a FIFO of at most two bytes, one *)
(* held and one on the line, that loses, repeats and reorders nothing; `done` *)
(* counts the bytes whose frame has ended.  A reset empties it.               *)
EXTENDS Naturals, Sequences

CONSTANT Payloads

VARIABLES fifo, done

vars == <<fifo, done>>

Init == fifo = <<>> /\ done = 0

Accept(v) == /\ Len(fifo) < 2
             /\ fifo' = Append(fifo, v)
             /\ UNCHANGED done

Complete == /\ fifo # <<>>
            /\ fifo' = Tail(fifo)
            /\ done' = done + 1

Clear == fifo' = <<>> /\ done' = 0

Next == (\E v \in Payloads : Accept(v)) \/ Complete \/ Clear

Spec == Init /\ [][Next]_vars
=============================================================================
