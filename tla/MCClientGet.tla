----------------------------- MODULE MCClientGet -----------------------------
(***************************************************************************)
(* Instances of ClientGet for TLC.                                         *)
(***************************************************************************)
EXTENDS ClientGet

=============================================================================
