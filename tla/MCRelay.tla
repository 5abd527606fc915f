------------------------------- MODULE MCRelay -------------------------------
(***************************************************************************)
(* Relay checked on two clients and one host.                              *)
(***************************************************************************)
EXTENDS Relay

=============================================================================
