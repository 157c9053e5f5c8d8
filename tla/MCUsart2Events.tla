--------------------------- MODULE MCUsart2Events ----------------------------
(* Instances of Usart2Events, with the two USARTs of MCUsart2.                *)
EXTENDS MCUsart2, Usart2Events

MCReceive == OneWay({"TBUF"}, {"CON", "RBUF", "STATUS", "other"})
MCAnswer == OneWay({"TBUF", "other"}, {"CON", "TBUF", "RBUF", "STATUS", "other"})
MCBothSend == [u \in MCUsarts |-> {"CON", "TBUF", "STATUS"}]
MCAccessOnly == OneWay({"TBUF"}, {"CON", "other"})
=============================================================================
