---------------------------- MODULE MCUsart2Traced ---------------------------
(* The instance of Usart2Traced: A sends and is traced, B listens.            *)
EXTENDS Usart2Traced, MCUsart2

MCTraced == {"A"}
=============================================================================
