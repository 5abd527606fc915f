----------------------------- MODULE MCTracker ------------------------------
(***************************************************************************)
(* Instances of Tracker for TLC.                                           *)
(***************************************************************************)
EXTENDS Tracker, TLC

\* Hosts are interchangeable, and so are clients.
Symmetry == Permutations(Hosts) \cup Permutations(Clients)

=============================================================================
