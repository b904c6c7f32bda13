---------------------------- MODULE MCCglDevice ----------------------------
(* CglDevice for TLC. *)
EXTENDS CglDevice, TLC
=============================================================================
