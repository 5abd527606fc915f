-------------------------------- MODULE Link --------------------------------
(***************************************************************************)
(* What ClientNet, ServerNet and Relay take one direction of a connection  *)
(* for: packets arrive in the order they were sent, none twice and none    *)
(* left out, and when the connection is lost those that had not arrived    *)
(* may never arrive.                                                       *)
(***************************************************************************)
EXTENDS Naturals

VARIABLES sent,      \* packets sent
          arrived,   \* of these, how many have arrived
          open       \* the sender has not given the connection up

linkVars == <<sent, arrived, open>>

Init == sent = 0 /\ arrived = 0 /\ open = TRUE

Send ==
    /\ open
    /\ sent' = sent + 1
    /\ UNCHANGED <<arrived, open>>

Arrive ==
    /\ arrived' \in arrived + 1 .. sent
    /\ UNCHANGED <<sent, open>>

GiveUp ==
    /\ open
    /\ open' = FALSE
    /\ UNCHANGED <<sent, arrived>>

Next == Send \/ Arrive \/ GiveUp

Spec == Init /\ [][Next]_linkVars

=============================================================================
