---------------------------- MODULE MCServerNet -----------------------------
(***************************************************************************)
(* Instances of ServerNet for TLC.                                         *)
(***************************************************************************)
EXTENDS ServerNet, TLC

\* Client ids are interchangeable in the safety runs.
Symmetry == Permutations(ClientIDs)

=============================================================================
