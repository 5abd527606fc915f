----------------------------- MODULE MCDatabase -----------------------------
(***************************************************************************)
(* Instances of Database for TLC.                                          *)
(***************************************************************************)
EXTENDS Database, TLC

CONSTANTS small, big

\* One value well under 8 MB and one above it.
MCSizeOf == (small :> 1) @@ (big :> Slack + 1)

=============================================================================
