---------------------------- MODULE MCFullDuplex -----------------------------
(* The instance of FullDuplex: the program's own bytes and clears.            *)
EXTENDS FullDuplex, MCUsart2

MCProgramBytes == {85, 170, 17, 34, 222, 173, 190, 239, 90}
MCProgramDrives == [u \in MCUsarts |-> Registers]
MCProgramClears == {{"TBIR"}, {"RIR"}, StatusBits}
=============================================================================
