------------------------------ MODULE MCAgent ------------------------------
(***************************************************************************)
(* Instances of AgentChannel for TLC.                                      *)
(***************************************************************************)
EXTENDS AgentChannel
=============================================================================
