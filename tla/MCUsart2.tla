------------------------------- MODULE MCUsart2 ------------------------------
(* Instances of Usart2: two USARTs joined by the bridge.                      *)
EXTENDS Usart2

MCUsarts == {"A", "B"}
MCPeer == [u \in MCUsarts |-> IF u = "A" THEN "B" ELSE "A"]
MCBytes == {1, 2}
MCOneByte == {1}
Running == {"R", "REN", "OEN"}
MCKeepsR == {Running}

\* A sends, B receives.
OneWay(a, b) == [u \in MCUsarts |-> IF u = "A" THEN a ELSE b]
MCSender == OneWay({"CON", "TBUF"}, {})
MCLink == OneWay({"TBUF"}, {"CON", "RBUF", "other"})
MCReceiveOnce == OneWay({"CON", "TBUF"}, {"CON", "RBUF", "other"})
MCStatus == OneWay({"CON", "TBUF", "STATUS"}, {})
MCAnyBits == SUBSET {"TBIR", "TIR"}
MCAllTogether == {StatusBits}
MCNoBits == {}
=============================================================================
