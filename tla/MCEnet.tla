------------------------------- MODULE MCEnet --------------------------------
(***************************************************************************)
(* Enet with 6 windows of 2 sequence numbers: packets of one to three      *)
(* fragments, which wrap around once.                                      *)
(***************************************************************************)
EXTENDS Enet

MCLengths == <<1, 2, 1, 3, 1, 2, 2, 1, 2>>

=============================================================================
