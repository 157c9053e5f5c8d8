----------------------------- MODULE MCUsartCore -----------------------------
(* Instances of UsartCore.  Mode 1 with BG = 0 makes a frame of 320 clock     *)
(* periods; time moves by half frames, and a bus access may be two periods    *)
(* ahead of the kernel, the age at which a pulse is stale.                    *)
EXTENDS UsartCore

MCTxValues == {5, 973}                 \* 973 has bits beyond TBUF and the frame
MCRxBytes == {3, 200}
Running == {"R", "REN", "OEN"}
MCKeepsR == {<<1, Running>>, <<1, Running \ {"REN"}>>}
MCClearsR == {<<1, Running>>, <<1, Running \ {"R"}>>}
MCReconfigures == {<<1, Running \ {"R"}>>, <<5, Running \cup {"ODD"}>>}
MCBgValues == {0}
MCClkPeriods == {1}
MCTwoClocks == {1, 2}
MCBusDelays == {0, 3}
MCNoDelay == {0}
MCTimeSteps == {160}
=============================================================================
