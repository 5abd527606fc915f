---------------------------- MODULE MCClientNet ----------------------------
(***************************************************************************)
(* ClientNet for TLC: the bounds are the constants of the configurations.  *)
(***************************************************************************)
EXTENDS ClientNet

=============================================================================
