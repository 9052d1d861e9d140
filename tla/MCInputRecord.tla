---------------------------- MODULE MCInputRecord ----------------------------
(***************************************************************************)
(* An instance of InputRecord for TLC, with the constants of its cfg.      *)
(***************************************************************************)
EXTENDS InputRecord
==============================================================================
