--------------------------- MODULE MCHttpInterface ---------------------------
(***************************************************************************)
(* Instances of HttpInterface for TLC.                                     *)
(***************************************************************************)
EXTENDS HttpInterface, TLC

=============================================================================
