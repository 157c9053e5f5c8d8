---------------------------- MODULE MCUsart2System ---------------------------
(* Instances of Usart2System: one USART wired to itself, so that the events   *)
(* of both directions share one interrupt line. One TBUF write gives TBIR,    *)
(* TIR and RIR; EIR takes a second byte and does not occur.                   *)
EXTENDS Usart2System, MCUsart2

MCSolo == {"A"}
MCSelf == [u \in MCSolo |-> u]
MCSoloDriven == [u \in MCSolo |-> {"CON", "TBUF", "STATUS", "other"}]
=============================================================================
