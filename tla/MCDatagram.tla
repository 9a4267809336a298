---------------------------- MODULE MCDatagram ----------------------------
(* Small instances of Datagram for TLC. *)
EXTENDS Datagram
=============================================================================
