---------------------------- MODULE MCSimpleUsart ----------------------------
(* The instance of SimpleUsart: a FIFO of two, and more bytes than fit.       *)
EXTENDS SimpleUsart
=============================================================================
