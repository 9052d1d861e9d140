--------------------------- MODULE MCReadOptimizer ---------------------------
(***************************************************************************)
(* Four items that may be equal, overlap, include each other, touch, lie   *)
(* four or five bytes apart, and fill a block of twelve bytes.             *)
(***************************************************************************)
EXTENDS ReadOptimizer

MCStarts == {0, 1, 2, 6, 11}
MCLengths == {1, 2, 4, 10}
==============================================================================
