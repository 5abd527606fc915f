------------------------------ MODULE ServerNet ------------------------------
(***************************************************************************)
(* ServerNetInterface (src/core/ServerNetInterface.cpp) and the part of    *)
(* Server (src/core/Server.cpp) it calls: one port of a tracker.  The net  *)
(* thread (startThread) owns the enet host and the two maps of joined      *)
(* clients; the tracker's event loop (update) owns Server.clients and      *)
(* deletes the NetServerClients.  They meet in two queues: outputQueue     *)
(* carries pointers to NetServerClients, inputQueue pointers to ENetPeers. *)
(*                                                                         *)
(* enet is external.  A peer is a slot of the host's fixed array: enet     *)
(* gives it to the next remote that connects as soon as it is free again.  *)
(* The remote of a slot is the client whose id its join request will show; *)
(* a client that lost its connection may be back in another slot before    *)
(* the tracker has noticed.                                                *)
(***************************************************************************)
EXTENDS Integers, Sequences, FiniteSets

CONSTANTS ClientIDs,
          MaxPeers,     \* enet_host_create's peer count
          MaxJoins,     \* bound: NetServerClients a run makes
          MaxRequests   \* bound: requests sent and relayed

ASSUME ServerNetAssumption ==
    /\ "" \notin ClientIDs
    /\ MaxPeers \in Nat \ {0}
    /\ MaxJoins \in Nat
    /\ MaxRequests \in Nat

Peers   == 1 .. MaxPeers
Objects == 1 .. MaxJoins     \* addresses of NetServerClients
Null    == 0
NoID    == ""               \* an empty std::string

VARIABLES
    pcNet,
    joining,       \* the NetServerClient checkEnetEvents has just made
    connectedClientsByEnetPeer, connectedClientsByClientID,
    inputQueue, outputQueue,
    clients,       \* Server.clients
    serving,       \* the client whose request was served last, or Null
    answersLeft,   \* answers the registered function has yet to give it
    memory,        \* "unused", "alive" or "freed"
    clientID, enetPeer,   \* the fields of each NetServerClient
    rejected,      \* history: NetServerClients whose key was refused
    link, remote, pending, \* enet: state, remote and events of each slot
    joins, requests        \* history: join requests, and requests

mapVars    == <<connectedClientsByEnetPeer, connectedClientsByClientID>>
objectVars == <<memory, clientID, enetPeer, rejected>>
ownerVars  == <<clients, serving, answersLeft>>
enetVars   == <<link, remote, pending, joins, requests>>
vars == <<pcNet, joining, mapVars, inputQueue, outputQueue, ownerVars,
          objectVars, enetVars>>

Output(type, o) == [type |-> type, client |-> o]

Init ==
    /\ pcNet = "drain"
    /\ joining = Null
    /\ connectedClientsByEnetPeer = [p \in Peers |-> Null]
    /\ connectedClientsByClientID = [c \in ClientIDs |-> Null]
    /\ inputQueue = <<>>
    /\ outputQueue = <<>>
    /\ clients = [c \in ClientIDs |-> Null]
    /\ serving = Null
    /\ answersLeft = 0
    /\ memory = [o \in Objects |-> "unused"]
    /\ clientID = [o \in Objects |-> NoID]
    /\ enetPeer = [o \in Objects |-> Null]
    /\ rejected = {}
    /\ link = [p \in Peers |-> "free"]
    /\ remote = [p \in Peers |-> NoID]
    /\ pending = [p \in Peers |-> <<>>]
    /\ joins = 0
    /\ requests = 0

-----------------------------------------------------------------------------
(***************************************************************************)
(* The net thread.                                                         *)
(***************************************************************************)

\* One turn of the drain loop.  enet_peer_send refuses a slot that is not
\* connected; nothing else is known of the slot the pointer names.
NetSend ==
    /\ pcNet = "drain"
    /\ inputQueue # <<>>
    /\ inputQueue' = Tail(inputQueue)
    /\ UNCHANGED <<pcNet, joining, mapVars, outputQueue, ownerVars, objectVars,
                   enetVars>>

NetDrainDone ==
    /\ pcNet = "drain"
    /\ inputQueue = <<>>
    /\ pcNet' = "service"
    /\ UNCHANGED <<joining, mapVars, inputQueue, outputQueue, ownerVars,
                   objectVars, enetVars>>

\* enet_host_service returned an event of this type for slot p.
Receives(p, type) ==
    /\ pcNet = "service"
    /\ pending[p] # <<>>
    /\ Head(pending[p]) = type

\* sendInitialHandshake.
NetConnect(p) ==
    /\ Receives(p, "connect")
    /\ link' = [link EXCEPT ![p] = "greeted"]
    /\ pending' = [pending EXCEPT ![p] = Tail(@)]
    /\ UNCHANGED <<pcNet, joining, mapVars, inputQueue, outputQueue, ownerVars,
                   objectVars, remote, joins, requests>>

\* The first NetServerClient not yet made.
Fresh(o) == memory[o] = "unused" /\ \A q \in Objects : q < o => memory[q] # "unused"

\* new NetServerClient for the remote of slot p.
NewClient(o, p) ==
    /\ Fresh(o)
    /\ memory' = [memory EXCEPT ![o] = "alive"]
    /\ clientID' = [clientID EXCEPT ![o] = remote[p]]
    /\ enetPeer' = [enetPeer EXCEPT ![o] = p]

\* sendJoinRejectionAndDisconnect: no rejection is sent, the peer is disconnected
\* later and enet discards what it still sends.
DisconnectLater(p) ==
    /\ link' = [link EXCEPT ![p] = "closing"]
    /\ pending' = [pending EXCEPT ![p] = <<"disconnect">>]

\* A key of the wrong length: the object is not deleted.
NetReject(p) ==
    /\ Receives(p, "badJoin")
    /\ \E o \in Objects : NewClient(o, p) /\ rejected' = rejected \cup {o}
    /\ DisconnectLater(p)
    /\ UNCHANGED <<pcNet, joining, mapVars, inputQueue, outputQueue, ownerVars,
                   remote, joins, requests>>

\* Mutants of Evict: the event loop is not told, or the slot stays mapped.
EvictSilently(o) ==
    /\ connectedClientsByClientID' =
          [connectedClientsByClientID EXCEPT ![clientID[o]] = Null]
    /\ connectedClientsByEnetPeer' =
          [connectedClientsByEnetPeer EXCEPT ![enetPeer[o]] = Null]
    /\ UNCHANGED outputQueue
EvictKeepsSlot(o) ==
    /\ connectedClientsByClientID' =
          [connectedClientsByClientID EXCEPT ![clientID[o]] = Null]
    /\ outputQueue' = Append(outputQueue, Output("remove", o))
    /\ UNCHANGED connectedClientsByEnetPeer

\* Client o leaves both maps and the event loop is told.
Evict(o) ==
    /\ connectedClientsByClientID' =
          [connectedClientsByClientID EXCEPT ![clientID[o]] = Null]
    /\ connectedClientsByEnetPeer' =
          [connectedClientsByEnetPeer EXCEPT ![enetPeer[o]] = Null]
    /\ outputQueue' = Append(outputQueue, Output("remove", o))

\* Mutant of Superseded: the test of connectedClientsByClientID is forgotten.
SupersededNever(p) == Null

\* The client that is joined under the id slot p's join request shows.
Superseded(p) == connectedClientsByClientID[remote[p]]

\* KATIPO_NET_TYPE_CLIENT_JOIN_REQUEST: a client that is still joined under
\* the same id is removed first and its slot reset, which enet reports to nobody.
NetJoin(p) ==
    LET old == Superseded(p)
    IN  /\ Receives(p, "join")
        /\ \E o \in Objects : NewClient(o, p) /\ joining' = o
        /\ pcNet' = "joining"
        /\ IF old = Null
           THEN /\ pending' = [pending EXCEPT ![p] = Tail(@)]
                /\ UNCHANGED <<mapVars, outputQueue, link>>
           ELSE /\ Evict(old)
                /\ link' = [link EXCEPT ![enetPeer[old]] = "free"]
                /\ pending' = [pending EXCEPT ![p] = Tail(@),
                                              ![enetPeer[old]] = <<>>]
        /\ UNCHANGED <<inputQueue, ownerVars, rejected, remote, joins, requests>>

\* Then the new one enters both maps.
NetJoined ==
    /\ pcNet = "joining"
    /\ connectedClientsByEnetPeer' =
          [connectedClientsByEnetPeer EXCEPT ![enetPeer[joining]] = joining]
    /\ connectedClientsByClientID' =
          [connectedClientsByClientID EXCEPT ![clientID[joining]] = joining]
    /\ outputQueue' = Append(outputQueue, Output("add", joining))
    /\ joining' = Null
    /\ pcNet' = "service"
    /\ UNCHANGED <<inputQueue, ownerVars, objectVars, enetVars>>

\* Mutant of NetData: a slot that has not joined is not told apart.
NetDataUnchecked(p) ==
    /\ Receives(p, "request")
    /\ pending' = [pending EXCEPT ![p] = Tail(@)]
    /\ outputQueue' =
          Append(outputQueue, Output("data", connectedClientsByEnetPeer[p]))
    /\ UNCHANGED <<pcNet, joining, mapVars, inputQueue, ownerVars, objectVars,
                   link, remote, joins, requests>>

\* Any other packet is handed on if the slot has joined.
NetData(p) ==
    /\ Receives(p, "request")
    /\ pending' = [pending EXCEPT ![p] = Tail(@)]
    /\ outputQueue' =
          IF connectedClientsByEnetPeer[p] = Null THEN outputQueue
          ELSE Append(outputQueue, Output("data", connectedClientsByEnetPeer[p]))
    /\ UNCHANGED <<pcNet, joining, mapVars, inputQueue, ownerVars, objectVars,
                   link, remote, joins, requests>>

NetDisconnect(p) ==
    /\ Receives(p, "disconnect")
    /\ link' = [link EXCEPT ![p] = "free"]
    /\ pending' = [pending EXCEPT ![p] = <<>>]
    /\ IF connectedClientsByEnetPeer[p] = Null
       THEN UNCHANGED <<mapVars, outputQueue>>
       ELSE Evict(connectedClientsByEnetPeer[p])
    /\ UNCHANGED <<pcNet, joining, inputQueue, ownerVars, objectVars, remote,
                   joins, requests>>

NetServiceDone ==
    /\ pcNet = "service"
    /\ \A p \in Peers : pending[p] = <<>>
    /\ pcNet' = "drain"
    /\ UNCHANGED <<joining, mapVars, inputQueue, outputQueue, ownerVars,
                   objectVars, enetVars>>

NetStep == \/ NetSend \/ NetDrainDone \/ NetJoined \/ NetServiceDone
           \/ \E p \in Peers : \/ NetConnect(p) \/ NetReject(p) \/ NetJoin(p)
                               \/ NetData(p) \/ NetDisconnect(p)

-----------------------------------------------------------------------------
(***************************************************************************)
(* The event loop: update and the Server's handlers.                       *)
(***************************************************************************)

\* update, with nothing left to do for the last output, pops one of this type.
Pops(type) ==
    /\ answersLeft = 0
    /\ outputQueue # <<>>
    /\ Head(outputQueue).type = type
    /\ outputQueue' = Tail(outputQueue)

AddClient ==
    /\ Pops("add")
    /\ LET o == Head(outputQueue).client
       IN  clients' = [clients EXCEPT ![clientID[o]] = o]
    /\ UNCHANGED <<pcNet, joining, mapVars, inputQueue, serving, answersLeft,
                   objectVars, enetVars>>

\* removeClient goes by the id; then the object is deleted.
RemoveClient ==
    /\ Pops("remove")
    /\ LET o == Head(outputQueue).client
       IN  /\ clients' = [clients EXCEPT ![clientID[o]] = Null]
           /\ memory' = [memory EXCEPT ![o] = "freed"]
    /\ UNCHANGED <<pcNet, joining, mapVars, inputQueue, serving, answersLeft,
                   clientID, enetPeer, rejected, enetVars>>

\* clientDataReceived: a registered function answers its callback any number
\* of times up to two before it returns.
ClientDataReceived ==
    /\ Pops("data")
    /\ serving' = Head(outputQueue).client
    /\ answersLeft' \in 0 .. 2
    /\ UNCHANGED <<pcNet, joining, mapVars, inputQueue, clients, objectVars,
                   enetVars>>

\* sendDataToClient: the packet is queued for the slot the client joined from.
Answer ==
    /\ answersLeft > 0
    /\ inputQueue' = Append(inputQueue, [peer |-> enetPeer[serving],
                                         to   |-> clientID[serving]])
    /\ answersLeft' = answersLeft - 1
    /\ UNCHANGED <<pcNet, joining, mapVars, outputQueue, clients, serving,
                   objectVars, enetVars>>

\* The event loop is in the other Server, which relays a request or an answer
\* to a client of this one.
Relay ==
    /\ answersLeft = 0
    /\ requests < MaxRequests
    /\ requests' = requests + 1
    /\ \E c \in ClientIDs :
          /\ clients[c] # Null
          /\ inputQueue' = Append(inputQueue, [peer |-> enetPeer[clients[c]],
                                               to   |-> c])
    /\ UNCHANGED <<pcNet, joining, mapVars, outputQueue, ownerVars, objectVars,
                   joins, link, remote, pending>>

OwnerStep == AddClient \/ RemoveClient \/ ClientDataReceived \/ Answer

-----------------------------------------------------------------------------
(***************************************************************************)
(* enet and the remotes; enet acts only within enet_host_service.          *)
(***************************************************************************)
enetOnly == <<pcNet, joining, mapVars, inputQueue, outputQueue, ownerVars,
              objectVars>>

\* enet takes the first free slot for a new remote.
RemoteConnects(p, c) ==
    /\ pcNet = "service"
    /\ link[p] = "free" /\ \A q \in Peers : q < p => link[q] # "free"
    /\ link' = [link EXCEPT ![p] = "connecting"]
    /\ remote' = [remote EXCEPT ![p] = c]
    /\ pending' = [pending EXCEPT ![p] = <<"connect">>]
    /\ UNCHANGED <<enetOnly, joins, requests>>

\* A greeted remote sends its join request, and only once.
RemoteJoins(p) ==
    /\ pcNet = "service"
    /\ link[p] = "greeted"
    /\ joins < MaxJoins
    /\ joins' = joins + 1
    /\ link' = [link EXCEPT ![p] = "joined"]
    /\ \E type \in {"join", "badJoin"} :
          pending' = [pending EXCEPT ![p] = Append(@, type)]
    /\ UNCHANGED <<enetOnly, remote, requests>>

\* A request, which the tracker must not serve before the remote has joined.
RemoteRequests(p) ==
    /\ pcNet = "service"
    /\ link[p] \in {"greeted", "joined"}
    /\ requests < MaxRequests
    /\ requests' = requests + 1
    /\ pending' = [pending EXCEPT ![p] = Append(@, "request")]
    /\ UNCHANGED <<enetOnly, joins, link, remote>>

\* A timeout or a disconnection: what the slot still held is discarded.
RemoteDrops(p) ==
    /\ pcNet = "service"
    /\ link[p] \notin {"free", "closing"}
    /\ link' = [link EXCEPT ![p] = "closing"]
    /\ pending' = [pending EXCEPT ![p] = <<"disconnect">>]
    /\ UNCHANGED <<enetOnly, joins, remote, requests>>

EnetStep ==
    \E p \in Peers : \/ \E c \in ClientIDs : RemoteConnects(p, c)
                     \/ RemoteJoins(p) \/ RemoteRequests(p) \/ RemoteDrops(p)

-----------------------------------------------------------------------------
Next == NetStep \/ OwnerStep \/ Relay \/ EnetStep

Spec == Init /\ [][Next]_vars

-----------------------------------------------------------------------------
(***************************************************************************)
(* Properties.                                                             *)
(***************************************************************************)

Pointer == Objects \cup {Null}

\* Every variable keeps its type.
TypeOK ==
    /\ pcNet \in {"drain", "service", "joining"}
    /\ joining \in Pointer /\ (pcNet = "joining" => joining \in Objects)
    /\ connectedClientsByEnetPeer \in [Peers -> Pointer]
    /\ connectedClientsByClientID \in [ClientIDs -> Pointer]
    /\ inputQueue \in Seq([peer : Peers, to : ClientIDs])
    /\ outputQueue \in Seq([type : {"add", "remove", "data"}, client : Objects])
    /\ clients \in [ClientIDs -> Pointer]
    /\ serving \in Pointer /\ answersLeft \in 0 .. 2
    /\ memory \in [Objects -> {"unused", "alive", "freed"}]
    /\ clientID \in [Objects -> ClientIDs \cup {NoID}]
    /\ enetPeer \in [Objects -> Peers \cup {Null}]
    /\ rejected \subseteq Objects
    /\ link \in [Peers -> {"free", "connecting", "greeted", "joined", "closing"}]
    /\ remote \in [Peers -> ClientIDs \cup {NoID}]
    /\ pending \in [Peers -> Seq({"connect", "join", "badJoin", "request",
                                  "disconnect"})]
    /\ joins \in 0 .. MaxJoins /\ requests \in 0 .. MaxRequests

Queued(type, o) == {n \in DOMAIN outputQueue : outputQueue[n] = Output(type, o)}

\* Every pointer a thread can still follow is to a NetServerClient the event
\* loop has not deleted: those of both maps, of Server.clients, of the queued
\* outputs, and the one the callback of clientDataReceived captured ("todo don't
\* capture client here", Server.cpp).
PointersAlive ==
    /\ \A p \in Peers : connectedClientsByEnetPeer[p] # Null
                           => memory[connectedClientsByEnetPeer[p]] = "alive"
    /\ \A c \in ClientIDs : \A o \in {connectedClientsByClientID[c], clients[c]} :
          o # Null => memory[o] = "alive"
    /\ \A n \in DOMAIN outputQueue : memory[outputQueue[n].client] = "alive"
    /\ answersLeft > 0 => memory[serving] = "alive"

\* The two maps of the net thread are the same set of clients, each under its
\* own slot and its own id, although a client may join again before its old
\* connection is gone (checkEnetEvents).
MapsAgree ==
    /\ \A p \in Peers : LET o == connectedClientsByEnetPeer[p]
          IN o # Null => enetPeer[o] = p /\ connectedClientsByClientID[clientID[o]] = o
    /\ \A c \in ClientIDs : LET o == connectedClientsByClientID[c]
          IN o # Null => clientID[o] = c /\ connectedClientsByEnetPeer[enetPeer[o]] = o

\* A NetServerClient that was made is in exactly one stage of its life: being
\* joined, mapped, removed with one REMOVE_CLIENT queued, deleted, or refused.
\* None is leaked and none is deleted twice.
Mapped(o) == \E p \in Peers : connectedClientsByEnetPeer[p] = o
Stages(o) == [joining  |-> joining = o,
              mapped   |-> Mapped(o),
              freed    |-> memory[o] = "freed",
              rejected |-> o \in rejected]
OneLife ==
    \A o \in Objects : memory[o] # "unused" =>
        Cardinality(Queued("remove", o))
          + Cardinality({s \in DOMAIN Stages(o) : Stages(o)[s]}) = 1

\* The scripts see the sessions of each client one after the other, although
\* the net thread runs ahead of the event loop and clients replace each other.
S == INSTANCE Sessions WITH
        IDs    <- ClientIDs,
        known  <- {c \in ClientIDs : clients[c] # Null},
        served <- IF serving = Null THEN NoID ELSE clientID[serving]
ImplementsSessions == S!Spec

=============================================================================
