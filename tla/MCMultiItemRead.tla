--------------------------- MODULE MCMultiItemRead ---------------------------
(***************************************************************************)
(* Five items whose lengths cover the cases of the loop: nothing to read,  *)
(* odd and even lengths that share a PDU in several combinations, and an   *)
(* item that no PDU can hold.  The PDU has room for 34 bytes of items and  *)
(* for three of them.  The third item is a number of timers or counters.   *)
(***************************************************************************)
EXTENDS MultiItemRead

MCLengths == {0, 1, 7, 14, 50}
==============================================================================
