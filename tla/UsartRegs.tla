------------------------------ MODULE UsartRegs ------------------------------
(* The register arithmetic of the USART: Usart_regdefs.h and the pure helpers *)
(* of Usart.cc.  A CON value is the pair of its 3-bit mode field M and the    *)
(* set of its one-bit flags that are 1.                                       *)
EXTENDS Naturals, FiniteSets

Modes == 0..7

ConFlags == {"REN", "ODD", "STP", "OEN", "FEN", "PEN", "OE", "FE", "PE",
             "BRS", "FDE", "LB", "R"}

\* CON_RW_MASK = 0xF9FF: bits 9 (OE) and 10 (FE) are masked out, bit 11 (PE)
\* is not.
WritableFlags == ConFlags \ {"OE", "FE"}

\* regWrite(CON): the writable flags of the value, and the FE and PE that are
\* already set; OE never survives.
ConAfterWrite(con, value) ==
    (value \cap WritableFlags) \cup (con \cap {"FE", "PE"})

HasHwParity(mode) == mode \in {4, 5}

DataBits(mode) == CASE mode = 3 -> 9
                    [] mode = 4 -> 7
                    [] OTHER    -> 8

\* 2^DataBits(mode), the mask of loadTSR() as a modulus.
FrameModulus(mode) == CASE mode = 3 -> 512
                        [] mode = 4 -> 128
                        [] OTHER    -> 256

StopBits(mode, con) == CASE mode = 0     -> 0
                         [] mode # 0 /\ "STP" \in con    -> 2
                         [] mode # 0 /\ "STP" \notin con -> 1

\* TRUE iff the number of ones among the low `bits` bits of data is odd.
EvenParity(data, bits) ==
    Cardinality({i \in 0..(bits - 1) : (data \div 2^i) % 2 = 1}) % 2 = 1

\* The parity bit of a frame: even, or inverted when CON.ODD is set.
ParityBit(mode, con, data) ==
    IF EvenParity(data, DataBits(mode)) # ("ODD" \in con) THEN 1 ELSE 0

\* RBUF as rx_inject() loads it: the byte, or in the parity modes the byte
\* shifted left with the parity in bit 0, cut to the 9 bits of RBUF.
RxPacked(mode, con, byte) ==
    IF HasHwParity(mode)
    THEN ((byte * 2) % 512) + ParityBit(mode, con, byte)
    ELSE byte % 512

\* Clock periods per bit.  FDR is never consulted.
BaudFactor(mode, con, bg) ==
    IF mode = 0
    THEN 4 * (bg + 1)
    ELSE 16 * (bg + 1) * (IF "FDE" \in con \/ "BRS" \notin con THEN 2 ELSE 3)

FrameBits(mode, con) ==
    IF mode = 0
    THEN DataBits(mode)
    ELSE 1 + DataBits(mode) + (IF HasHwParity(mode) THEN 1 ELSE 0)
           + StopBits(mode, con)

\* get_frame_duration(): zero when the clock is unknown or the module stopped.
FrameDuration(mode, con, bg, clk) ==
    IF clk = 0 \/ "R" \notin con
    THEN 0
    ELSE clk * BaudFactor(mode, con, bg) * FrameBits(mode, con)
=============================================================================
