--------------------------- MODULE MCOutputRecord ----------------------------
(***************************************************************************)
(* An instance of OutputRecord for TLC, with the constants of its cfg.     *)
(***************************************************************************)
EXTENDS OutputRecord
==============================================================================
