---------------------------- MODULE MCIsrFirmware ----------------------------
(* Instances of IsrFirmware: every TEST_MASK, or one test alone.              *)
EXTENDS IsrFirmware

MCMasks == SUBSET (1..5)
MCFirst == {{1}}
=============================================================================
