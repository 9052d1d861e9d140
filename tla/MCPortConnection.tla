-------------------------- MODULE MCPortConnection ---------------------------
(***************************************************************************)
(* An instance of PortConnection for TLC, with the constants of its cfg.   *)
(***************************************************************************)
EXTENDS PortConnection
==============================================================================
