---------------------------- MODULE MCBitTransfer ----------------------------
(***************************************************************************)
(* Instances of BitTransfer for TLC: records of up to 18 bits, and the     *)
(* kinds of transfers that the code treats differently.                    *)
(***************************************************************************)
EXTENDS BitTransfer

MCMemoryBits == 48

All == (1..18) \X (0..7)

\* The record starts at a byte boundary or lies within one byte.
Simple == {t \in All : t[2] = 0 \/ t[1] + t[2] <= 8}

\* The record does not start at a byte boundary.
Unaligned == {t \in All : t[2] # 0}
==============================================================================
