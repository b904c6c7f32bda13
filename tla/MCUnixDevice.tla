---------------------------- MODULE MCUnixDevice ----------------------------
(* UnixDevice for TLC. *)
EXTENDS UnixDevice
=============================================================================
