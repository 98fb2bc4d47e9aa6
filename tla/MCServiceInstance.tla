-------------------------- MODULE MCServiceInstance --------------------------
(***************************************************************************)
(* An instance of ServiceInstance for TLC.                                 *)
(***************************************************************************)
EXTENDS ServiceInstance

CONSTANTS s1, s2
=============================================================================
