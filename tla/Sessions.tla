------------------------------ MODULE Sessions ------------------------------
(***************************************************************************)
(* What a Server (src/core/Server.cpp) promises to the scripts bound to    *)
(* it, whatever the two threads and the network below do: a client is      *)
(* announced when it is not known, dropped when it is, and a request is    *)
(* served only between the two.                                            *)
(***************************************************************************)
CONSTANTS IDs, NoID

VARIABLES known,   \* the ids in Server.clients
          served   \* the id whose request was served last, or NoID

sessionVars == <<known, served>>

Init == known = {} /\ served = NoID

\* Server::addClient
Connected(id) ==
    /\ id \in IDs \ known
    /\ known' = known \cup {id}
    /\ UNCHANGED served

\* Server::removeClient
Disconnected(id) ==
    /\ id \in known
    /\ known' = known \ {id}
    /\ UNCHANGED served

\* Server::clientDataReceived
Request(id) ==
    /\ id \in known
    /\ served' = id
    /\ UNCHANGED known

Next == \E id \in IDs : Connected(id) \/ Disconnected(id) \/ Request(id)

Spec == Init /\ [][Next]_sessionVars

=============================================================================
