----------------------------- MODULE MCScanner ------------------------------
(***************************************************************************)
(* Instances of Scanner for TLC.                                           *)
(***************************************************************************)
EXTENDS Scanner, TLC

\* One adapter, or two that share an address (a bridge, an unnumbered link), so
\* that every address of the network comes twice.
OneAdapter  == << <<"lan", 1>> >>
TwoAdapters == << <<"lan", 1>>, <<"lan", 1>> >>
EitherList  == {OneAdapter, TwoAdapters}

=============================================================================
