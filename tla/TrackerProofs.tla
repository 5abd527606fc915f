---------------------------- MODULE TrackerProofs ----------------------------
(***************************************************************************)
(* A tracker is sound for any clients, hosts, names, slots, joins and      *)
(* requests.  First one of its ports (ServerNet): no thread follows a      *)
(* pointer to a deleted NetServerClient, the two maps agree, each          *)
(* NetServerClient has one life, and the scripts see the sessions of       *)
(* module Sessions.  Then its registry (Tracker), which stands on two such *)
(* ports.                                                                  *)
(*                                                                         *)
(* None of the port's properties is inductive, not even the type           *)
(* invariant: a join must find its slot unmapped, which is a fact about    *)
(* enet's slots (SlotsFit), and an output that is popped must fit what     *)
(* Server.clients holds by then, which is a fact about the order of the    *)
(* whole queue (QueueOrder).                                               *)
(***************************************************************************)
EXTENDS ServerNet, Tracker, TLAPS, FiniteSetTheorems

\* The join requests among the events q of a slot.
JoinsIn(q) == {n \in DOMAIN q : q[n] \in {"join", "badJoin"}}

\* A slot in state l with remote r holds the events q that fit its state; if it
\* is mapped (o), it has joined and has no other join request to come.
SlotFits(l, r, q, o) ==
    /\ l # "free" => r \in ClientIDs
    /\ l = "free" => q = <<>>
    /\ l = "connecting" => q = <<"connect">>
    /\ l = "closing" => q = <<"disconnect">>
    /\ \A n \in DOMAIN q :
          /\ l = "greeted" => q[n] = "request"
          /\ l = "joined" => q[n] \in {"join", "badJoin", "request"}
    /\ \A m, n \in JoinsIn(q) : m = n
    /\ l \in {"free", "connecting", "greeted"} \/ JoinsIn(q) # {} => o = Null
SlotsFit ==
    \A p \in Peers :
        SlotFits(link[p], remote[p], pending[p], connectedClientsByEnetPeer[p])

\* The NetServerClient being joined has its id and its slot to itself.
JoiningFits ==
    /\ pcNet = "joining" <=> joining # Null
    /\ joining # Null =>
          /\ memory[joining] = "alive" /\ joining \notin rejected
          /\ connectedClientsByEnetPeer[enetPeer[joining]] = Null
          /\ connectedClientsByClientID[clientID[joining]] = Null
          /\ link[enetPeer[joining]] = "joined"
          /\ JoinsIn(pending[enetPeer[joining]]) = {}

Removing(o) == \E n \in DOMAIN outputQueue : outputQueue[n] = Output("remove", o)
Adding(o) == \E n \in DOMAIN outputQueue : outputQueue[n] = Output("add", o)

\* A NetServerClient that was made has an id and a slot; while it is alive it is
\* being joined, mapped, refused or to be removed, and only one of these.
LivesFit ==
    \A o \in Objects :
        /\ memory[o] # "unused" <=> clientID[o] \in ClientIDs
        /\ memory[o] # "unused" => enetPeer[o] \in Peers
        /\ memory[o] = "alive" => joining = o \/ Mapped(o) \/ o \in rejected \/ Removing(o)
        /\ o \in rejected => memory[o] = "alive"
        /\ Mapped(o) => /\ memory[o] = "alive" /\ joining # o /\ o \notin rejected
                        /\ ~Removing(o)
                        /\ clients[clientID[o]] = o \/ Adding(o)

\* Server.clients holds NetServerClients under their own ids.
ClientsFit ==
    \A c \in ClientIDs : clients[c] # Null =>
        /\ memory[clients[c]] = "alive" /\ clientID[clients[c]] = c
        /\ clients[c] # joining /\ clients[c] \notin rejected

QueueAlive ==
    \A n \in DOMAIN outputQueue : LET o == outputQueue[n].client
        IN memory[o] = "alive" /\ joining # o /\ o \notin rejected

\* The order of outputQueue q when Server.clients is cl.  A NetServerClient
\* is added first, once, and when its predecessor under the same id has been
\* removed; it is removed last.
AddsFirst(q, cl) ==
    \A n \in DOMAIN q : q[n].type = "add" =>
        /\ cl[clientID[q[n].client]] # q[n].client
        /\ \A m \in 1 .. n - 1 : q[m].client # q[n].client
AddedBefore(q, cl) ==
    \A n \in DOMAIN q : q[n].type # "add" =>
        \/ cl[clientID[q[n].client]] = q[n].client
        \/ \E m \in 1 .. n - 1 : q[m] = Output("add", q[n].client)
RemovesLast(q) ==
    \A n \in DOMAIN q : q[n].type = "remove" =>
        \A m \in n + 1 .. Len(q) : q[m].client # q[n].client
KnownGoesFirst(q, cl) ==
    \A n \in DOMAIN q :
        q[n].type = "add" /\ cl[clientID[q[n].client]] # Null =>
            \E m \in 1 .. n - 1 : q[m] = Output("remove", cl[clientID[q[n].client]])
AddedGoesFirst(q) ==
    \A n \in DOMAIN q : \A m \in 1 .. n - 1 :
        /\ q[n].type = "add" /\ q[m].type = "add"
        /\ clientID[q[n].client] = clientID[q[m].client]
        => \E k \in m + 1 .. n - 1 : q[k] = Output("remove", q[m].client)
QueueOrder ==
    /\ AddsFirst(outputQueue, clients)
    /\ AddedBefore(outputQueue, clients)
    /\ RemovesLast(outputQueue)
    /\ KnownGoesFirst(outputQueue, clients)
    /\ AddedGoesFirst(outputQueue)

\* The client an answer goes to.
ServingFits ==
    /\ serving # Null => memory[serving] # "unused"
    /\ answersLeft > 0 => serving # Null /\ memory[serving] = "alive"

IInv ==
    /\ TypeOK /\ SlotsFit /\ MapsAgree /\ JoiningFits /\ LivesFit /\ ClientsFit
    /\ QueueAlive /\ QueueOrder /\ ServingFits

-----------------------------------------------------------------------------
LEMMA Bounds ==
    /\ MaxPeers \in Nat \ {0} /\ MaxJoins \in Nat /\ MaxRequests \in Nat
    /\ NoID \notin ClientIDs
  BY ServerNetAssumption, Zenon DEF NoID

LEMMA InitSound == Init => IInv
<1> SUFFICES ASSUME Init PROVE IInv
  OBVIOUS
<1>1. TypeOK
  BY Bounds DEF Init, TypeOK, Pointer, Objects, Peers, Null
<1>2. SlotsFit
  BY DEF Init, SlotsFit, SlotFits, JoinsIn
<1>3. JoiningFits
  BY DEF Init, JoiningFits
<1>31. MapsAgree
  BY DEF Init, MapsAgree
<1>4. LivesFit
  BY Bounds DEF Init, LivesFit, Mapped, Objects, Null
<1>5. ClientsFit /\ QueueAlive
  BY DEF Init, ClientsFit, QueueAlive
<1>51. ServingFits
  BY DEF Init, ServingFits
<1>6. QueueOrder
  BY DEF Init, QueueOrder, AddsFirst, AddedBefore, RemovesLast, KnownGoesFirst, AddedGoesFirst
<1> QED
  BY <1>1, <1>2, <1>3, <1>31, <1>4, <1>5, <1>51, <1>6 DEF IInv

-----------------------------------------------------------------------------
(***************************************************************************)
(* Steps that leave the NetServerClients, both maps, outputQueue and       *)
(* Server.clients alone.                                                   *)
(***************************************************************************)
coreVars == <<joining, mapVars, outputQueue, clients, objectVars>>

LEMMA CoreUnchanged ==
    ASSUME IInv, UNCHANGED coreVars
    PROVE  MapsAgree' /\ LivesFit' /\ ClientsFit' /\ QueueAlive' /\ QueueOrder'
<1> USE DEF IInv, coreVars, mapVars, objectVars
<1>1. MapsAgree'
  BY DEF MapsAgree
<1>2. LivesFit'
  BY DEF LivesFit, Mapped, Removing, Adding
<1>3. ClientsFit' /\ QueueAlive'
  BY DEF ClientsFit, QueueAlive
<1>4. QueueOrder'
  BY DEF QueueOrder, AddsFirst, AddedBefore, RemovesLast, KnownGoesFirst, AddedGoesFirst
<1> QED
  BY <1>1, <1>2, <1>3, <1>4

\* The event loop queues an answer, or the net thread takes one, or goes from one
\* loop to the next: no slot changes either.
LEMMA AnswersKeep ==
    ASSUME IInv, NetSend \/ NetDrainDone \/ NetServiceDone \/ Answer \/ Relay
    PROVE  IInv'
<1>1. /\ UNCHANGED coreVars
      /\ UNCHANGED <<connectedClientsByEnetPeer, link, remote, pending, joins, serving>>
  BY DEF NetSend, NetDrainDone, NetServiceDone, Answer, Relay, coreVars,
     mapVars, objectVars, ownerVars, enetVars
<1>2. pcNet' = pcNet \/ (pcNet # "joining" /\ pcNet' \in {"drain", "service"})
  BY DEF NetSend, NetDrainDone, NetServiceDone, Answer, Relay
<1>3. answersLeft' = answersLeft \/ (answersLeft > 0 /\ answersLeft' = answersLeft - 1)
  BY DEF NetSend, NetDrainDone, NetServiceDone, Answer, Relay, ownerVars
<1>4. requests' \in 0 .. MaxRequests
  BY Bounds DEF NetSend, NetDrainDone, NetServiceDone, Answer, Relay, enetVars, IInv, TypeOK
<1>5. inputQueue' \in Seq([peer : Peers, to : ClientIDs])
  <2>1. CASE NetSend
    BY <2>1 DEF NetSend, IInv, TypeOK
  <2>2. CASE NetDrainDone \/ NetServiceDone
    BY <2>2 DEF NetDrainDone, NetServiceDone, IInv, TypeOK
  <2>3. CASE Answer
    <3>1. serving \in Objects /\ memory[serving] # "unused"
      BY <2>3 DEF Answer, IInv, TypeOK, ServingFits, Pointer
    <3>2. [peer |-> enetPeer[serving], to |-> clientID[serving]] \in [peer : Peers, to : ClientIDs]
      BY <3>1 DEF IInv, LivesFit
    <3> QED
      BY <2>3, <3>2 DEF Answer, IInv, TypeOK
  <2>4. CASE Relay
    <3>1. PICK c \in ClientIDs :
            /\ clients[c] # Null
            /\ inputQueue' = Append(inputQueue, [peer |-> enetPeer[clients[c]], to |-> c])
      BY <2>4 DEF Relay
    <3>2. clients[c] \in Objects /\ memory[clients[c]] # "unused"
      BY <3>1 DEF IInv, TypeOK, ClientsFit, Pointer
    <3>3. [peer |-> enetPeer[clients[c]], to |-> c] \in [peer : Peers, to : ClientIDs]
      BY <3>2 DEF IInv, LivesFit
    <3> QED
      BY <3>1, <3>3 DEF IInv, TypeOK
  <2> QED
    BY <2>1, <2>2, <2>3, <2>4
<1>6. TypeOK'
  BY <1>1, <1>2, <1>3, <1>4, <1>5 DEF IInv, TypeOK, coreVars, mapVars, objectVars
<1>7. SlotsFit'
  BY <1>1 DEF IInv, SlotsFit, SlotFits, JoinsIn
<1>8. JoiningFits'
  BY <1>1, <1>2 DEF IInv, JoiningFits, JoinsIn, coreVars, mapVars, objectVars
<1>9. ServingFits'
  BY <1>1, <1>3 DEF IInv, ServingFits, coreVars, objectVars, TypeOK
<1> QED
  BY <1>1, <1>6, <1>7, <1>8, <1>9, CoreUnchanged DEF IInv

Events == {"connect", "join", "badJoin", "request", "disconnect"}

\* What a slot that received this event looked like, and what it has left.
LEMMA Received ==
    ASSUME TypeOK, SlotsFit, NEW p \in Peers, NEW type, Receives(p, type)
    PROVE  /\ pcNet = "service" /\ link[p] # "free" /\ remote[p] \in ClientIDs
           /\ 1 \in DOMAIN pending[p] /\ pending[p][1] = type
           /\ Tail(pending[p]) \in Seq(Events)
           /\ Len(Tail(pending[p])) = Len(pending[p]) - 1
           /\ \A n \in DOMAIN Tail(pending[p]) :
                 /\ n + 1 \in DOMAIN pending[p]
                 /\ Tail(pending[p])[n] = pending[p][n + 1]
<1> DEFINE q == pending[p]
<1>1. q \in Seq(Events) /\ q # <<>>
  BY DEF TypeOK, Receives, Events
<1>2. link[p] # "free" /\ remote[p] \in ClientIDs /\ pcNet = "service"
  BY <1>1 DEF SlotsFit, SlotFits, Receives
<1>3. 1 \in DOMAIN q /\ q[1] = type
  BY <1>1 DEF Receives
<1> HIDE DEF q
<1>4. /\ Len(Tail(q)) = Len(q) - 1
      /\ \A n \in DOMAIN Tail(q) : n + 1 \in DOMAIN q /\ Tail(q)[n] = q[n + 1]
      /\ Tail(q) \in Seq(Events)
  BY <1>1
<1> QED
  BY <1>2, <1>3, <1>4 DEF q

\* A slot that takes its next event still fits, unless it was a join request
\* that is now mapped; no event is left that was there once only.
LEMMA TailFits ==
    ASSUME TypeOK, SlotsFit, NEW p \in Peers, NEW type, Receives(p, type)
    PROVE  /\ type = "connect" => link[p] = "connecting" /\ Tail(pending[p]) = <<>>
           /\ type = "disconnect" => link[p] = "closing"
           /\ type = "request" => link[p] \in {"greeted", "joined"}
           /\ type \in {"join", "badJoin"} =>
                 /\ link[p] = "joined" /\ JoinsIn(Tail(pending[p])) = {}
                 /\ connectedClientsByEnetPeer[p] = Null
           /\ link[p] \in {"greeted", "joined"} =>
                 SlotFits(link[p], remote[p], Tail(pending[p]), connectedClientsByEnetPeer[p])
<1> DEFINE q == pending[p]
<1>1. SlotFits(link[p], remote[p], q, connectedClientsByEnetPeer[p])
  BY DEF SlotsFit
<1>2. link[p] \in {"connecting", "greeted", "joined", "closing"}
  BY Received DEF TypeOK
<1>3. /\ 1 \in DOMAIN q /\ q[1] = type /\ q \in Seq(Events)
      /\ Len(Tail(q)) = Len(q) - 1
      /\ \A n \in DOMAIN Tail(q) : n + 1 \in DOMAIN q /\ Tail(q)[n] = q[n + 1]
      /\ Tail(q) \in Seq(Events)
  BY Received DEF TypeOK, Events
<1> HIDE DEF q
<1>4. /\ type = "connect" => link[p] = "connecting" /\ Tail(q) = <<>>
      /\ type = "disconnect" => link[p] = "closing"
      /\ type = "request" => link[p] \in {"greeted", "joined"}
      /\ type \in {"join", "badJoin"} => link[p] = "joined"
  BY <1>1, <1>2, <1>3 DEF SlotFits
<1>5. \A n \in DOMAIN Tail(q) : n \in JoinsIn(Tail(q)) => n + 1 \in JoinsIn(q)
  BY <1>3 DEF JoinsIn
<1>6. type \in {"join", "badJoin"} => 1 \in JoinsIn(q)
  BY <1>3 DEF JoinsIn
<1>7. \A n \in JoinsIn(Tail(q)) : n \in DOMAIN Tail(q) /\ n \in Nat \ {0}
  BY <1>3 DEF JoinsIn
<1>8. type \in {"join", "badJoin"} =>
         JoinsIn(Tail(q)) = {} /\ connectedClientsByEnetPeer[p] = Null
  BY <1>1, <1>5, <1>6, <1>7 DEF SlotFits
<1>9. ASSUME link[p] \in {"greeted", "joined"}
      PROVE  SlotFits(link[p], remote[p], Tail(q), connectedClientsByEnetPeer[p])
  <2>1. \A m, n \in JoinsIn(Tail(q)) : m = n
    BY <1>1, <1>5, <1>7 DEF SlotFits
  <2>2. JoinsIn(Tail(q)) # {} => JoinsIn(q) # {}
    BY <1>5, <1>7
  <2> QED
    BY <1>1, <1>3, <1>9, <2>1, <2>2 DEF SlotFits
<1> QED
  BY <1>4, <1>8, <1>9 DEF q

\* enet and the remotes, and the handshake.
LEMMA SlotsKeep ==
    ASSUME IInv, EnetStep \/ \E p \in Peers : NetConnect(p)
    PROVE  IInv'
<1>1. /\ UNCHANGED coreVars /\ UNCHANGED <<serving, answersLeft, inputQueue, pcNet>>
      /\ pcNet = "service"
  BY DEF EnetStep, RemoteConnects, RemoteJoins, RemoteRequests, RemoteDrops,
     NetConnect, Receives, coreVars, ownerVars, enetOnly
<1>2. JoiningFits'
  BY <1>1 DEF IInv, JoiningFits, coreVars
<1>3. ServingFits'
  BY <1>1 DEF IInv, ServingFits, coreVars, objectVars
<1>4. joins' \in 0 .. MaxJoins /\ requests' \in 0 .. MaxRequests
  BY Bounds DEF EnetStep, RemoteConnects, RemoteJoins, RemoteRequests, RemoteDrops,
     NetConnect, IInv, TypeOK
<1> DEFINE Sets(p, l, r, q) ==
          /\ link' = [link EXCEPT ![p] = l]
          /\ remote' = [remote EXCEPT ![p] = r]
          /\ pending' = [pending EXCEPT ![p] = q]
          /\ SlotFits(l, r, q, connectedClientsByEnetPeer[p])
<1>5. \E p \in Peers, l \in {"connecting", "greeted", "joined", "closing"},
         r \in ClientIDs, q \in Seq(Events) : Sets(p, l, r, q)
  <2> USE DEF IInv
  <2>0. ASSUME NEW p \in Peers
        PROVE  /\ pending[p] \in Seq(Events) /\ <<"connect">> \in Seq(Events)
               /\ <<"disconnect">> \in Seq(Events) /\ <<>> \in Seq(Events)
               /\ \A e \in Events : Append(pending[p], e) \in Seq(Events)
               /\ link[p] # "free" => remote[p] \in ClientIDs
               /\ remote = [remote EXCEPT ![p] = remote[p]]
               /\ link = [link EXCEPT ![p] = link[p]]
    BY DEF TypeOK, Events, SlotsFit, SlotFits
  <2>1. ASSUME NEW p \in Peers, NEW c \in ClientIDs, RemoteConnects(p, c)
        PROVE  Sets(p, "connecting", c, <<"connect">>)
    BY <2>1 DEF SlotsFit, SlotFits, JoinsIn, RemoteConnects
  <2>2. ASSUME NEW p \in Peers, RemoteJoins(p)
        PROVE  \E type \in {"join", "badJoin"} :
                  Sets(p, "joined", remote[p], Append(pending[p], type))
    <3>1. PICK type \in {"join", "badJoin"} :
             pending' = [pending EXCEPT ![p] = Append(pending[p], type)]
      BY <2>2 DEF RemoteJoins, TypeOK
    <3>2. SlotFits("joined", remote[p], Append(pending[p], type), connectedClientsByEnetPeer[p])
      BY <2>2 DEF SlotsFit, SlotFits, JoinsIn, RemoteJoins, TypeOK
    <3> QED
      BY <2>0, <2>2, <3>1, <3>2 DEF RemoteJoins
  <2>3. ASSUME NEW p \in Peers, RemoteRequests(p)
        PROVE  Sets(p, link[p], remote[p], Append(pending[p], "request"))
    <3>1. SlotFits(link[p], remote[p], Append(pending[p], "request"),
                   connectedClientsByEnetPeer[p])
      BY <2>3 DEF SlotsFit, SlotFits, JoinsIn, RemoteRequests, TypeOK
    <3> QED
      BY <2>0, <2>3, <3>1 DEF RemoteRequests, TypeOK
  <2>4. ASSUME NEW p \in Peers, RemoteDrops(p)
        PROVE  Sets(p, "closing", remote[p], <<"disconnect">>)
    <3>1. SlotFits("closing", remote[p], <<"disconnect">>, connectedClientsByEnetPeer[p])
      BY <2>4 DEF SlotsFit, SlotFits, JoinsIn, RemoteDrops, TypeOK
    <3> QED
      BY <2>0, <2>4, <3>1 DEF RemoteDrops
  <2>5. ASSUME NEW p \in Peers, NetConnect(p)
        PROVE  Sets(p, "greeted", remote[p], <<>>)
    <3>1. Tail(pending[p]) = <<>> /\ link[p] = "connecting"
      BY <2>5, TailFits DEF NetConnect
    <3>2. SlotFits("greeted", remote[p], <<>>, connectedClientsByEnetPeer[p])
      BY <3>1 DEF SlotsFit, SlotFits, JoinsIn
    <3> QED
      BY <2>0, <2>5, <3>1, <3>2 DEF NetConnect, TypeOK
  <2> HIDE DEF Sets, IInv
  <2>6. CASE \E p \in Peers : NetConnect(p)
    <3>1. PICK p \in Peers : NetConnect(p)
      BY <2>6
    <3>2. link[p] # "free"
      BY <3>1, Received DEF NetConnect, IInv
    <3> QED
      BY <2>0, <2>5, <3>1, <3>2
  <2>7. CASE EnetStep
    <3>1. PICK p \in Peers : \/ \E c \in ClientIDs : RemoteConnects(p, c)
                             \/ RemoteJoins(p) \/ RemoteRequests(p) \/ RemoteDrops(p)
      BY <2>7 DEF EnetStep
    <3>2. CASE \E c \in ClientIDs : RemoteConnects(p, c)
      BY <2>0, <2>1, <3>2
    <3>3. CASE RemoteJoins(p)
      <4>1. link[p] # "free" /\ {"join", "badJoin"} \subseteq Events
        BY <3>3 DEF RemoteJoins, Events
      <4> QED
        BY <2>0, <2>2, <3>3, <4>1
    <3>4. CASE RemoteRequests(p)
      <4>1. /\ "request" \in Events /\ link[p] # "free"
            /\ link[p] \in {"connecting", "greeted", "joined", "closing"}
        BY <3>4 DEF RemoteRequests, Events
      <4> QED
        BY <2>0, <2>3, <3>4, <4>1
    <3>5. CASE RemoteDrops(p)
      <4>1. link[p] # "free"
        BY <3>5 DEF RemoteDrops
      <4> QED
        BY <2>0, <2>4, <3>5, <4>1
    <3> QED
      BY <3>1, <3>2, <3>3, <3>4, <3>5
  <2> QED
    BY <2>6, <2>7
<1>6. SlotsFit'
  BY <1>1, <1>5 DEF IInv, SlotsFit, TypeOK, coreVars, mapVars
<1>7. TypeOK'
  BY <1>1, <1>4, <1>5 DEF IInv, TypeOK, coreVars, mapVars, objectVars, Events
<1> QED
  BY <1>1, <1>2, <1>3, <1>6, <1>7, CoreUnchanged DEF IInv

-----------------------------------------------------------------------------
(***************************************************************************)
(* Steps of the net thread that make, map, refuse or evict a client.  What *)
(* was made before keeps its memory, its id and its slot.                  *)
(***************************************************************************)
Outputs == [type : {"add", "remove", "data"}, client : Objects]

Kept(o) ==
    /\ memory'[o] = memory[o] /\ clientID'[o] = clientID[o]
    /\ enetPeer'[o] = enetPeer[o]
AllKept == \A o \in Objects : memory[o] # "unused" => Kept(o)

\* What is queued is an output about a client that was made.
LEMMA QueueType ==
    ASSUME IInv
    PROVE  /\ outputQueue \in Seq(Outputs)
           /\ \A n \in DOMAIN outputQueue :
                 /\ outputQueue[n] \in Outputs /\ outputQueue[n].client \in Objects
                 /\ memory[outputQueue[n].client] = "alive"
<1>1. outputQueue \in Seq(Outputs)
  BY DEF IInv, TypeOK, Outputs
<1>2. \A n \in DOMAIN outputQueue : outputQueue[n] \in Outputs
  BY <1>1
<1> QED
  BY <1>1, <1>2 DEF Outputs, IInv, QueueAlive

\* What an appended output adds to the queue.
LEMMA QueuedAfter ==
    ASSUME TypeOK, NEW e, outputQueue' = Append(outputQueue, e), NEW o
    PROVE  /\ Removing(o)' <=> Removing(o) \/ e = Output("remove", o)
           /\ Adding(o)' <=> Adding(o) \/ e = Output("add", o)
<1>1. /\ DOMAIN outputQueue' = 1 .. Len(outputQueue) + 1
      /\ DOMAIN outputQueue = 1 .. Len(outputQueue) /\ Len(outputQueue) \in Nat
      /\ outputQueue'[Len(outputQueue) + 1] = e
      /\ \A n \in 1 .. Len(outputQueue) : outputQueue'[n] = outputQueue[n]
  BY DEF TypeOK
<1>2. \A x : (\E n \in DOMAIN outputQueue' : outputQueue'[n] = x)
               <=> (\E n \in DOMAIN outputQueue : outputQueue[n] = x) \/ e = x
  BY <1>1
<1> QED
  BY <1>2 DEF Removing, Adding, Output

\* Appending keeps the order, if an added client is new and every predecessor
\* of it is on its way out, and any other client is known or on its way in.
LEMMA QueueGrows ==
    ASSUME IInv, AllKept, clients' = clients,
           NEW e \in Outputs, outputQueue' = Append(outputQueue, e),
           LET o == e.client IN
              /\ memory[o] # "unused"
              /\ e.type = "add" =>
                    /\ clients[clientID[o]] # o
                    /\ \A n \in DOMAIN outputQueue : outputQueue[n].client # o
                    /\ \A a \in Objects :
                          a # o /\ memory[a] = "alive" /\ clientID[a] = clientID[o]
                            /\ a # joining /\ a \notin rejected => Removing(a)
              /\ e.type # "add" =>
                    /\ clients[clientID[o]] = o \/ Adding(o)
                    /\ ~Removing(o)
    PROVE  QueueOrder'
<1> DEFINE q == outputQueue
           L == Len(outputQueue)
           qq == outputQueue'
<1>0. q \in Seq(Outputs) /\ qq = Append(q, e)
  BY DEF IInv, TypeOK, Outputs
<1> HIDE DEF q, qq
<1>1. /\ DOMAIN qq = 1 .. L + 1 /\ DOMAIN q = 1 .. L /\ L \in Nat /\ Len(qq) = L + 1
      /\ qq[L + 1] = e /\ \A n \in 1 .. L : qq[n] = q[n]
      /\ \A n \in 1 .. L : q[n] \in Outputs
  BY <1>0 DEF q
<1> USE DEF q, qq
<1>2. \A n \in 1 .. L + 1 : /\ qq[n].client \in Objects
                            /\ memory[qq[n].client] # "unused"
                            /\ clientID'[qq[n].client] = clientID[qq[n].client]
                            /\ clientID[qq[n].client] \in ClientIDs
  <2>1. \A n \in 1 .. L : q[n].client \in Objects /\ memory[q[n].client] = "alive"
    BY <1>1 DEF IInv, QueueAlive, Outputs
  <2>2. e.client \in Objects /\ memory[e.client] # "unused"
    BY DEF Outputs
  <2> QED
    BY <1>1, <2>1, <2>2 DEF AllKept, Kept, IInv, LivesFit
<1>3. /\ AddsFirst(q, clients) /\ AddedBefore(q, clients) /\ RemovesLast(q)
      /\ KnownGoesFirst(q, clients) /\ AddedGoesFirst(q)
  BY DEF IInv, QueueOrder
<1>4. AddsFirst(outputQueue, clients)'
  BY <1>1, <1>2, <1>3 DEF AddsFirst
<1>5. AddedBefore(outputQueue, clients)'
  <2>1. \A n \in 1 .. L : qq[n].type # "add" =>
           \/ clients[clientID[qq[n].client]] = qq[n].client
           \/ \E m \in 1 .. n - 1 : qq[m] = Output("add", qq[n].client)
    BY <1>1, <1>3 DEF AddedBefore
  <2>2. e.type # "add" => \/ clients[clientID[e.client]] = e.client
                          \/ \E m \in 1 .. L : qq[m] = Output("add", e.client)
    BY <1>1 DEF Adding
  <2> QED
    BY <1>1, <1>2, <2>1, <2>2 DEF AddedBefore
<1>6. RemovesLast(outputQueue)'
  <2>1. \A n \in 1 .. L : q[n].type = "remove" => q[n] = Output("remove", q[n].client)
    BY <1>1 DEF Output, Outputs
  <2>2. e.type \in {"add", "remove", "data"}
    BY DEF Outputs
  <2>3. \A n \in 1 .. L : q[n].type = "remove" => q[n].client # e.client
    BY <1>1, <2>1, <2>2 DEF Removing
  <2> QED
    BY <1>1, <1>3, <2>3 DEF RemovesLast
<1>7. \A a \in Objects : Removing(a) =>
         \E m \in 1 .. L : qq[m] = Output("remove", a)
  BY <1>1 DEF Removing
<1>8. KnownGoesFirst(outputQueue, clients)'
  <2>1. \A n \in 1 .. L :
           qq[n].type = "add" /\ clients[clientID[qq[n].client]] # Null =>
              \E m \in 1 .. n - 1 : qq[m] = Output("remove", clients[clientID[qq[n].client]])
    BY <1>1, <1>3 DEF KnownGoesFirst
  <2>2. ASSUME e.type = "add", clients[clientID[e.client]] # Null
        PROVE  \E m \in 1 .. L : qq[m] = Output("remove", clients[clientID[e.client]])
    <3> DEFINE a == clients[clientID[e.client]]
    <3>1. clientID[e.client] \in ClientIDs
      BY <1>1, <1>2
    <3>2. /\ a \in Objects /\ a # e.client /\ memory[a] = "alive"
          /\ clientID[a] = clientID[e.client] /\ a # joining /\ a \notin rejected
      BY <2>2, <3>1 DEF IInv, TypeOK, Pointer, ClientsFit
    <3> HIDE DEF a
    <3>3. Removing(a)
      BY <2>2, <3>2
    <3> QED
      BY <1>7, <3>2, <3>3 DEF a
  <2> QED
    BY <1>1, <1>2, <2>1, <2>2 DEF KnownGoesFirst
<1>9. AddedGoesFirst(outputQueue)'
  <2>1. \A n \in 1 .. L : \A m \in 1 .. n - 1 :
           qq[n].type = "add" /\ qq[m].type = "add"
             /\ clientID[qq[n].client] = clientID[qq[m].client]
           => \E k \in m + 1 .. n - 1 : qq[k] = Output("remove", qq[m].client)
    BY <1>1, <1>3 DEF AddedGoesFirst
  <2>2. ASSUME NEW m \in 1 .. L, e.type = "add", qq[m].type = "add",
               clientID[e.client] = clientID[qq[m].client]
        PROVE  \E k \in m + 1 .. L : qq[k] = Output("remove", qq[m].client)
    <3> DEFINE a == q[m].client
    <3>1. /\ a \in Objects /\ a # e.client /\ memory[a] = "alive"
          /\ a # joining /\ a \notin rejected /\ clientID[a] = clientID[e.client]
      BY <1>1, <2>2 DEF IInv, QueueAlive, Outputs
    <3> HIDE DEF a
    <3>2. PICK k \in 1 .. L : qq[k] = Output("remove", a)
      BY <1>7, <2>2, <3>1
    <3>3. q[k].client = a /\ q[k].type = "remove" /\ q[m].client = a /\ q[m].type = "add"
      BY <1>1, <2>2, <3>2 DEF Output, a
    <3>4. ~(k < m) /\ k # m
      BY <1>1, <1>3, <3>3 DEF AddsFirst
    <3> QED
      BY <1>1, <3>2, <3>3, <3>4
  <2> QED
    BY <1>1, <1>2, <2>1, <2>2 DEF AddedGoesFirst
<1> QED
  BY <1>4, <1>5, <1>6, <1>8, <1>9 DEF QueueOrder

\* A mapped client that is evicted leaves both maps, is to be removed, and
\* nobody else is touched.
LEMMA Evicted ==
    ASSUME IInv, AllKept, clients' = clients,
           NEW x \in Objects, Mapped(x), Evict(x)
    PROVE  /\ \A o \in Objects : /\ Mapped(o)' <=> Mapped(o) /\ o # x
                                 /\ Removing(o)' <=> Removing(o) \/ o = x
                                 /\ Adding(o)' <=> Adding(o)
           /\ memory[x] = "alive" /\ joining # x /\ x \notin rejected
           /\ clientID[x] \in ClientIDs /\ enetPeer[x] \in Peers
           /\ connectedClientsByEnetPeer[enetPeer[x]] = x
           /\ Output("remove", x) \in Outputs
           /\ MapsAgree' /\ QueueOrder'
<1>1. /\ memory[x] = "alive" /\ joining # x /\ x \notin rejected
      /\ clientID[x] \in ClientIDs /\ enetPeer[x] \in Peers /\ ~Removing(x)
      /\ clients[clientID[x]] = x \/ Adding(x)
  BY DEF IInv, LivesFit
<1>2. /\ connectedClientsByEnetPeer[enetPeer[x]] = x
      /\ connectedClientsByClientID[clientID[x]] = x
  BY DEF IInv, MapsAgree, Mapped, Objects, Null
<1>3. Output("remove", x) \in Outputs
  BY DEF Output, Outputs
<1>4. /\ connectedClientsByEnetPeer \in [Peers -> Pointer]
      /\ connectedClientsByClientID \in [ClientIDs -> Pointer]
      /\ x # Null
  BY DEF IInv, TypeOK, Objects, Null
<1>5. \A p \in Peers : connectedClientsByEnetPeer'[p] =
         IF p = enetPeer[x] THEN Null ELSE connectedClientsByEnetPeer[p]
  BY <1>4 DEF Evict
<1>6. \A c \in ClientIDs : connectedClientsByClientID'[c] =
         IF c = clientID[x] THEN Null ELSE connectedClientsByClientID[c]
  BY <1>4 DEF Evict
<1>7. \A p \in Peers : connectedClientsByEnetPeer[p] = x => p = enetPeer[x]
  BY <1>4 DEF IInv, MapsAgree
<1>8. \A o \in Objects : Mapped(o)' <=> Mapped(o) /\ o # x
  BY <1>2, <1>5, <1>7 DEF Mapped, Objects, Null
<1>9. \A o : /\ Removing(o)' <=> Removing(o) \/ o = x
             /\ Adding(o)' <=> Adding(o)
  <2>1. outputQueue' = Append(outputQueue, Output("remove", x)) /\ TypeOK
    BY DEF Evict, IInv
  <2>2. \A o : /\ (Output("remove", x) = Output("remove", o)) <=> o = x
               /\ Output("remove", x) # Output("add", o)
    BY DEF Output
  <2> QED
    BY <2>1, <2>2, QueuedAfter
<1>10. \A o \in Objects : Mapped(o) =>
          /\ clientID'[o] = clientID[o] /\ enetPeer'[o] = enetPeer[o]
          /\ clientID[o] \in ClientIDs /\ enetPeer[o] \in Peers
  BY DEF IInv, LivesFit, AllKept, Kept
<1>11. MapsAgree'
  <2>1. ASSUME NEW p \in Peers, connectedClientsByEnetPeer'[p] # Null
        PROVE  LET o == connectedClientsByEnetPeer'[p]
               IN  enetPeer'[o] = p /\ connectedClientsByClientID'[clientID'[o]] = o
    <3> DEFINE o == connectedClientsByEnetPeer[p]
    <3>1. o # Null /\ p # enetPeer[x] /\ o = connectedClientsByEnetPeer'[p]
      BY <1>5, <2>1
    <3>2. o \in Objects /\ Mapped(o)
      BY <1>4, <3>1 DEF Pointer, Mapped
    <3>3. enetPeer[o] = p /\ connectedClientsByClientID[clientID[o]] = o
      BY <3>1 DEF IInv, MapsAgree
    <3>4. clientID[o] # clientID[x]
      BY <1>2, <3>1, <3>3
    <3> HIDE DEF o
    <3> QED
      BY <1>6, <1>10, <3>1, <3>2, <3>3, <3>4
  <2>2. ASSUME NEW c \in ClientIDs, connectedClientsByClientID'[c] # Null
        PROVE  LET o == connectedClientsByClientID'[c]
               IN  clientID'[o] = c /\ connectedClientsByEnetPeer'[enetPeer'[o]] = o
    <3> DEFINE o == connectedClientsByClientID[c]
    <3>1. o # Null /\ c # clientID[x] /\ o = connectedClientsByClientID'[c]
      BY <1>6, <2>2
    <3>2. clientID[o] = c /\ connectedClientsByEnetPeer[enetPeer[o]] = o /\ o \in Objects
      BY <1>4, <3>1 DEF IInv, MapsAgree, Pointer
    <3> HIDE DEF o
    <3>3. memory[o] # "unused" /\ enetPeer[o] \in Peers
      BY <3>2 DEF IInv, LivesFit
    <3> QED
      BY <1>5, <1>10, <1>2, <3>1, <3>2, <3>3 DEF Mapped
  <2> QED
    BY <2>1, <2>2 DEF MapsAgree
<1>12. QueueOrder'
  <2>1. Output("remove", x).type = "remove" /\ Output("remove", x).client = x
    BY DEF Output
  <2>2. outputQueue' = Append(outputQueue, Output("remove", x)) /\ memory[x] # "unused"
    BY <1>1 DEF Evict
  <2> QED
    BY <1>1, <1>3, <2>1, <2>2, QueueGrows
<1> QED
  BY <1>1, <1>2, <1>3, <1>8, <1>9, <1>11, <1>12

\* What a slot holds when it is mapped.
LEMMA MappedSlot ==
    ASSUME IInv, NEW p \in Peers, connectedClientsByEnetPeer[p] # Null
    PROVE  /\ connectedClientsByEnetPeer[p] \in Objects
           /\ Mapped(connectedClientsByEnetPeer[p])
           /\ enetPeer[connectedClientsByEnetPeer[p]] = p
  BY DEF IInv, TypeOK, Pointer, Mapped, MapsAgree

LEMMA DisconnectKeeps ==
    ASSUME IInv, NEW p \in Peers, NetDisconnect(p)
    PROVE  IInv'
<1> DEFINE x == connectedClientsByEnetPeer[p]
<1>1. /\ UNCHANGED <<pcNet, joining, inputQueue, clients, serving, answersLeft, memory,
                     clientID, enetPeer, rejected, remote, joins, requests>>
      /\ AllKept /\ pcNet = "service" /\ joining = Null
  BY DEF NetDisconnect, Receives, ownerVars, objectVars, AllKept, Kept, IInv, JoiningFits
<1>2. CASE x = Null
  <2>1. UNCHANGED coreVars /\ UNCHANGED connectedClientsByEnetPeer
    BY <1>1, <1>2 DEF NetDisconnect, coreVars, mapVars, objectVars
  <2>2. TypeOK'
    BY <1>1, <2>1 DEF IInv, TypeOK, NetDisconnect, coreVars, mapVars, objectVars
  <2>3. SlotsFit'
    <3>1. SlotFits("free", remote[p], <<>>, Null)
      BY DEF SlotFits, JoinsIn
    <3> QED
      BY <1>1, <1>2, <2>1, <3>1 DEF IInv, SlotsFit, TypeOK, NetDisconnect
  <2>4. JoiningFits' /\ ServingFits'
    BY <1>1 DEF IInv, JoiningFits, ServingFits
  <2> QED
    BY <2>1, <2>2, <2>3, <2>4, CoreUnchanged DEF IInv
<1>3. CASE x # Null
  <2>1. x \in Objects /\ Mapped(x) /\ enetPeer[x] = p /\ Evict(x) /\ IInv
    BY <1>3, MappedSlot DEF NetDisconnect
  <2> HIDE DEF x
  <2>2. /\ \A o \in Objects : /\ Mapped(o)' <=> Mapped(o) /\ o # x
                              /\ Removing(o)' <=> Removing(o) \/ o = x
                              /\ Adding(o)' <=> Adding(o)
        /\ memory[x] = "alive" /\ x \notin rejected /\ clientID[x] \in ClientIDs
        /\ Output("remove", x) \in Outputs
        /\ MapsAgree' /\ QueueOrder'
    BY <1>1, <2>1, Evicted
  <2>3. outputQueue' = Append(outputQueue, Output("remove", x)) /\ outputQueue \in Seq(Outputs)
    BY <2>1 DEF Evict, IInv, TypeOK, Outputs
  <2>4. /\ DOMAIN outputQueue' = 1 .. Len(outputQueue) + 1
        /\ DOMAIN outputQueue = 1 .. Len(outputQueue) /\ Len(outputQueue) \in Nat
        /\ outputQueue'[Len(outputQueue) + 1] = Output("remove", x)
        /\ \A n \in 1 .. Len(outputQueue) : outputQueue'[n] = outputQueue[n]
        /\ outputQueue' \in Seq(Outputs)
    BY <2>2, <2>3
  <2>5. TypeOK'
    <3>1. /\ connectedClientsByEnetPeer' \in [Peers -> Pointer]
          /\ connectedClientsByClientID' \in [ClientIDs -> Pointer]
      BY <2>1, <2>2 DEF Evict, IInv, TypeOK, Pointer
    <3>2. /\ link' \in [Peers -> {"free", "connecting", "greeted", "joined", "closing"}]
          /\ pending' \in [Peers -> Seq({"connect", "join", "badJoin", "request",
                                         "disconnect"})]
      BY DEF NetDisconnect, IInv, TypeOK
    <3> QED
      BY <1>1, <2>4, <3>1, <3>2 DEF IInv, TypeOK, Outputs
  <2>6. SlotsFit'
    <3>1. SlotFits("free", remote[p], <<>>, Null)
      BY DEF SlotFits, JoinsIn
    <3>2. \A s \in Peers : connectedClientsByEnetPeer'[s] =
             IF s = p THEN Null ELSE connectedClientsByEnetPeer[s]
      BY <2>1 DEF Evict, IInv, TypeOK
    <3> QED
      BY <1>1, <3>1, <3>2 DEF IInv, SlotsFit, TypeOK, NetDisconnect
  <2>7. LivesFit'
    BY <1>1, <2>2 DEF IInv, LivesFit
  <2>8. ClientsFit' /\ JoiningFits' /\ ServingFits'
    BY <1>1 DEF IInv, ClientsFit, JoiningFits, ServingFits
  <2>9. QueueAlive'
    <3>1. Output("remove", x).client = x /\ x # Null
      BY <2>1 DEF Output, Objects, Null
    <3> QED
      BY <1>1, <2>2, <2>4, <3>1 DEF IInv, QueueAlive
  <2> QED
    BY <2>2, <2>5, <2>6, <2>7, <2>8, <2>9 DEF IInv
<1> QED
  BY <1>2, <1>3

LEMMA DataKeeps ==
    ASSUME IInv, NEW p \in Peers, NetData(p)
    PROVE  IInv'
<1> DEFINE x == connectedClientsByEnetPeer[p]
<1>1. /\ UNCHANGED <<pcNet, joining, mapVars, inputQueue, clients, serving, answersLeft,
                     memory, clientID, enetPeer, rejected, link, remote, joins, requests>>
      /\ AllKept /\ pcNet = "service" /\ joining = Null
      /\ UNCHANGED <<connectedClientsByEnetPeer, connectedClientsByClientID>>
      /\ pending' = [pending EXCEPT ![p] = Tail(@)]
  BY DEF NetData, Receives, ownerVars, objectVars, mapVars, AllKept, Kept, IInv, JoiningFits
<1>2. SlotsFit'
  <2>1. SlotFits(link[p], remote[p], Tail(pending[p]), connectedClientsByEnetPeer[p])
    BY TailFits DEF NetData, IInv
  <2> QED
    BY <1>1, <2>1 DEF IInv, SlotsFit, TypeOK
<1>3. pending' \in [Peers -> Seq({"connect", "join", "badJoin", "request", "disconnect"})]
  <2>1. Tail(pending[p]) \in Seq(Events)
    BY Received DEF NetData, IInv
  <2> QED
    BY <1>1, <2>1 DEF IInv, TypeOK, Events
<1>4. JoiningFits' /\ ServingFits'
  BY <1>1 DEF IInv, JoiningFits, ServingFits
<1>5. CASE x = Null
  <2>1. outputQueue' = outputQueue
    BY <1>5 DEF NetData
  <2>2. UNCHANGED coreVars
    BY <1>1, <2>1 DEF coreVars, objectVars
  <2>3. TypeOK'
    BY <1>1, <1>3, <2>1 DEF IInv, TypeOK
  <2> QED
    BY <1>2, <1>4, <2>2, <2>3, CoreUnchanged DEF IInv
<1>6. CASE x # Null
  <2>1. x \in Objects /\ Mapped(x)
    BY <1>6, MappedSlot
  <2> DEFINE e == Output("data", x)
  <2>2. outputQueue' = Append(outputQueue, e) /\ outputQueue \in Seq(Outputs)
    BY <1>6 DEF NetData, IInv, TypeOK, Outputs
  <2> HIDE DEF x
  <2>3. e \in Outputs /\ e.type = "data" /\ e.client = x
        /\ \A o : Output("remove", o) # e /\ Output("add", o) # e
    BY <2>1 DEF Output, Outputs
  <2> HIDE DEF e
  <2>4. /\ DOMAIN outputQueue' = 1 .. Len(outputQueue) + 1
        /\ DOMAIN outputQueue = 1 .. Len(outputQueue) /\ Len(outputQueue) \in Nat
        /\ outputQueue'[Len(outputQueue) + 1] = e
        /\ \A n \in 1 .. Len(outputQueue) : outputQueue'[n] = outputQueue[n]
        /\ outputQueue' \in Seq(Outputs)
    BY <2>2, <2>3
  <2>5. /\ memory[x] = "alive" /\ x # joining /\ x \notin rejected /\ ~Removing(x)
        /\ clients[clientID[x]] = x \/ Adding(x)
    BY <2>1 DEF IInv, LivesFit
  <2>6. QueueOrder'
    BY <1>1, <2>2, <2>3, <2>5, QueueGrows
  <2>7. \A o : (Removing(o)' <=> Removing(o)) /\ (Adding(o)' <=> Adding(o))
    BY <2>2, <2>3, QueuedAfter DEF IInv
  <2>8. TypeOK'
    BY <1>1, <1>3, <2>4 DEF IInv, TypeOK, Outputs
  <2>9. MapsAgree' /\ ClientsFit'
    BY <1>1 DEF IInv, MapsAgree, ClientsFit
  <2>10. LivesFit'
    BY <1>1, <2>7 DEF IInv, LivesFit, Mapped
  <2>11. QueueAlive'
    BY <1>1, <2>3, <2>4, <2>5 DEF IInv, QueueAlive
  <2> QED
    BY <1>2, <1>4, <2>6, <2>8, <2>9, <2>10, <2>11 DEF IInv
<1> QED
  BY <1>5, <1>6

\* A new NetServerClient takes nobody's place.
LEMMA Made ==
    ASSUME IInv, NEW p \in Peers, remote[p] \in ClientIDs, NEW o \in Objects,
           NewClient(o, p)
    PROVE  /\ AllKept
           /\ \A a \in Objects : a # o => Kept(a)
           /\ memory[o] = "unused" /\ memory'[o] = "alive"
           /\ clientID'[o] = remote[p] /\ enetPeer'[o] = p
           /\ memory' \in [Objects -> {"unused", "alive", "freed"}]
           /\ clientID' \in [Objects -> ClientIDs \cup {NoID}]
           /\ enetPeer' \in [Objects -> Peers \cup {Null}]
           /\ ~Mapped(o) /\ o \notin rejected /\ ~Removing(o) /\ ~Adding(o)
           /\ \A c \in ClientIDs : clients[c] # o
           /\ \A n \in DOMAIN outputQueue : outputQueue[n].client # o
<1>1. /\ memory[o] = "unused" /\ memory'[o] = "alive"
      /\ clientID'[o] = remote[p] /\ enetPeer'[o] = p
      /\ \A a \in Objects : a # o => Kept(a)
      /\ memory' \in [Objects -> {"unused", "alive", "freed"}]
      /\ clientID' \in [Objects -> ClientIDs \cup {NoID}]
      /\ enetPeer' \in [Objects -> Peers \cup {Null}]
  BY DEF NewClient, Fresh, IInv, TypeOK, Kept
<1>2. AllKept
  BY <1>1 DEF AllKept
<1>3. ~Mapped(o) /\ o \notin rejected
  BY <1>1 DEF IInv, LivesFit
<1>4. \A n \in DOMAIN outputQueue : outputQueue[n].client # o
  BY <1>1 DEF IInv, QueueAlive
<1>5. ~Removing(o) /\ ~Adding(o)
  BY <1>4 DEF Removing, Adding, Output
<1>6. \A c \in ClientIDs : clients[c] # o
  BY <1>1 DEF IInv, ClientsFit, Objects, Null
<1> QED
  BY <1>1, <1>2, <1>3, <1>4, <1>5, <1>6

\* Nothing but a new client, which outputQueue and the maps do not know yet.
LEMMA MadeKeeps ==
    ASSUME IInv, NEW p \in Peers, remote[p] \in ClientIDs, NEW o \in Objects,
           NewClient(o, p), UNCHANGED <<mapVars, outputQueue, clients>>
    PROVE  MapsAgree' /\ QueueOrder'
<1>1. /\ connectedClientsByEnetPeer' = connectedClientsByEnetPeer
      /\ connectedClientsByClientID' = connectedClientsByClientID
      /\ outputQueue' = outputQueue /\ clients' = clients
  BY DEF mapVars
<1>2. \A a \in Objects : memory[a] # "unused" =>
          clientID'[a] = clientID[a] /\ enetPeer'[a] = enetPeer[a]
  BY Made DEF AllKept, Kept
<1>3. MapsAgree'
  <2>1. \A s \in Peers : LET x == connectedClientsByEnetPeer[s]
          IN x # Null => x \in Objects /\ memory[x] # "unused"
    BY DEF IInv, LivesFit, TypeOK, Pointer, Mapped
  <2>2. \A c \in ClientIDs : LET x == connectedClientsByClientID[c]
          IN x # Null => x \in Objects /\ memory[x] # "unused"
    BY DEF IInv, LivesFit, MapsAgree, TypeOK, Pointer
  <2> QED
    BY <1>1, <1>2, <2>1, <2>2 DEF IInv, MapsAgree
<1>4. \A n \in DOMAIN outputQueue :
          clientID'[outputQueue[n].client] = clientID[outputQueue[n].client]
  BY <1>2, QueueType
<1>5. \A n \in DOMAIN outputQueue : \A m \in 1 .. n - 1 : m \in DOMAIN outputQueue
  BY DEF IInv, TypeOK
<1>6. QueueOrder'
  BY <1>1, <1>4, <1>5 DEF IInv, QueueOrder, AddsFirst, AddedBefore, RemovesLast,
     KnownGoesFirst, AddedGoesFirst
<1> QED
  BY <1>3, <1>6

LEMMA RejectKeeps ==
    ASSUME IInv, NEW p \in Peers, NetReject(p)
    PROVE  IInv'
<1>1. PICK o \in Objects : NewClient(o, p) /\ rejected' = rejected \cup {o}
  BY DEF NetReject
<1>2. /\ pcNet = "service" /\ link[p] # "free" /\ remote[p] \in ClientIDs
      /\ connectedClientsByEnetPeer[p] = Null
  BY Received, TailFits DEF NetReject, IInv
<1>3. /\ UNCHANGED <<pcNet, joining, mapVars, inputQueue, outputQueue, clients, serving,
                     answersLeft, remote, joins, requests>>
      /\ UNCHANGED <<connectedClientsByEnetPeer, connectedClientsByClientID>>
      /\ joining = Null
      /\ link' = [link EXCEPT ![p] = "closing"]
      /\ pending' = [pending EXCEPT ![p] = <<"disconnect">>]
  BY <1>2 DEF NetReject, DisconnectLater, ownerVars, mapVars, IInv, JoiningFits
<1>4. /\ AllKept
      /\ \A a \in Objects : a # o => Kept(a)
      /\ memory[o] = "unused" /\ memory'[o] = "alive"
      /\ clientID'[o] = remote[p] /\ enetPeer'[o] = p
      /\ memory' \in [Objects -> {"unused", "alive", "freed"}]
      /\ clientID' \in [Objects -> ClientIDs \cup {NoID}]
      /\ enetPeer' \in [Objects -> Peers \cup {Null}]
      /\ ~Mapped(o) /\ ~Removing(o)
      /\ \A c \in ClientIDs : clients[c] # o
      /\ \A n \in DOMAIN outputQueue : outputQueue[n].client # o
  BY <1>1, <1>2, Made
<1>41. \A a \in Objects : a # o =>
           /\ memory'[a] = memory[a] /\ clientID'[a] = clientID[a]
           /\ enetPeer'[a] = enetPeer[a] /\ (a \in rejected' <=> a \in rejected)
  BY <1>1, <1>4 DEF Kept
<1>5. MapsAgree' /\ QueueOrder'
  BY <1>1, <1>2, <1>3, MadeKeeps
<1>6. TypeOK'
  BY <1>1, <1>3, <1>4 DEF IInv, TypeOK
<1>7. SlotsFit'
  <2>1. SlotFits("closing", remote[p], <<"disconnect">>, Null)
    BY <1>2 DEF SlotFits, JoinsIn
  <2> QED
    BY <1>2, <1>3, <2>1 DEF IInv, SlotsFit, TypeOK
<1>8. JoiningFits'
  BY <1>3 DEF IInv, JoiningFits
<1>9. LivesFit'
  <2>1. \A a : /\ Mapped(a)' <=> Mapped(a)
               /\ Removing(a)' <=> Removing(a)
               /\ Adding(a)' <=> Adding(a)
    BY <1>3 DEF Mapped, Removing, Adding
  <2> DEFINE Lives(a) ==
          /\ memory[a] # "unused" <=> clientID[a] \in ClientIDs
          /\ memory[a] # "unused" => enetPeer[a] \in Peers
          /\ memory[a] = "alive" => joining = a \/ Mapped(a) \/ a \in rejected \/ Removing(a)
          /\ a \in rejected => memory[a] = "alive"
          /\ Mapped(a) => /\ memory[a] = "alive" /\ joining # a /\ a \notin rejected
                          /\ ~Removing(a)
                          /\ clients[clientID[a]] = a \/ Adding(a)
  <2>2. \A a \in Objects : Lives(a)
    BY DEF IInv, LivesFit
  <2>3. \A a \in Objects \ {o} : Lives(a)'
    BY <1>3, <1>41, <2>1, <2>2
  <2>4. Lives(o)'
    BY <1>1, <1>2, <1>3, <1>4, <2>1
  <2> QED
    BY <2>3, <2>4 DEF LivesFit
<1>10. ClientsFit'
  <2>1. \A c \in ClientIDs : clients[c] # Null => clients[c] \in Objects
    BY DEF IInv, TypeOK, Pointer
  <2> QED
    BY <1>1, <1>3, <1>4, <1>41, <2>1 DEF IInv, ClientsFit
<1>11. QueueAlive'
  <2>1. \A n \in DOMAIN outputQueue : LET x == outputQueue[n].client
          IN  x \in Objects /\ memory[x] = "alive" /\ x # joining /\ x \notin rejected /\ x # o
    BY <1>4, QueueType DEF IInv, QueueAlive
  <2> QED
    BY <1>3, <1>41, <2>1 DEF QueueAlive
<1>12. ServingFits'
  BY <1>3, <1>4 DEF IInv, ServingFits, TypeOK, Pointer, AllKept, Kept
<1> QED
  BY <1>5, <1>6, <1>7, <1>8, <1>9, <1>10, <1>11, <1>12 DEF IInv

LEMMA JoinedKeeps ==
    ASSUME IInv, NetJoined
    PROVE  IInv'
<1> DEFINE j == joining
           e == Output("add", joining)
<1>1. /\ j \in Objects /\ pcNet = "joining" /\ pcNet' = "service" /\ joining' = Null
      /\ UNCHANGED <<inputQueue, clients, serving, answersLeft, memory, clientID, enetPeer,
                     rejected, link, remote, pending, joins, requests>>
      /\ AllKept /\ j # Null
  BY DEF NetJoined, ownerVars, objectVars, enetVars, AllKept, Kept, IInv, TypeOK, Objects, Null
<1>2. /\ memory[j] = "alive" /\ j \notin rejected
      /\ clientID[j] \in ClientIDs /\ enetPeer[j] \in Peers
      /\ connectedClientsByEnetPeer[enetPeer[j]] = Null
      /\ connectedClientsByClientID[clientID[j]] = Null
      /\ link[enetPeer[j]] = "joined" /\ JoinsIn(pending[enetPeer[j]]) = {}
  BY <1>1 DEF IInv, JoiningFits, LivesFit
<1>3. ~Mapped(j) /\ ~Removing(j) /\ \A c \in ClientIDs : clients[c] # j
  <2>1. ~Mapped(j) /\ \A c \in ClientIDs : clients[c] # j
    BY <1>1 DEF IInv, LivesFit, ClientsFit
  <2>2. \A n \in DOMAIN outputQueue : outputQueue[n].client # j
    BY DEF IInv, QueueAlive
  <2> QED
    BY <2>1, <2>2 DEF Removing, Output
<1>4. \A n \in DOMAIN outputQueue : outputQueue[n].client # j
  BY DEF IInv, QueueAlive
<1>5. \A s \in Peers : connectedClientsByEnetPeer'[s] =
         IF s = enetPeer[j] THEN j ELSE connectedClientsByEnetPeer[s]
  BY DEF NetJoined, IInv, TypeOK
<1>6. \A c \in ClientIDs : connectedClientsByClientID'[c] =
         IF c = clientID[j] THEN j ELSE connectedClientsByClientID[c]
  BY DEF NetJoined, IInv, TypeOK
<1>7. outputQueue' = Append(outputQueue, e) /\ outputQueue \in Seq(Outputs)
  BY QueueType DEF NetJoined
<1>8. /\ e \in Outputs /\ e.type = "add" /\ e.client = j
      /\ \A o : Output("remove", o) # e /\ (Output("add", o) = e <=> o = j)
  BY <1>1 DEF Output, Outputs
<1> HIDE DEF j, e
<1>9. /\ DOMAIN outputQueue' = 1 .. Len(outputQueue) + 1
      /\ DOMAIN outputQueue = 1 .. Len(outputQueue) /\ Len(outputQueue) \in Nat
      /\ outputQueue'[Len(outputQueue) + 1] = e
      /\ \A n \in 1 .. Len(outputQueue) : outputQueue'[n] = outputQueue[n]
      /\ outputQueue' \in Seq(Outputs)
  BY <1>7, <1>8
<1>10. \A o : (Removing(o)' <=> Removing(o)) /\ (Adding(o)' <=> Adding(o) \/ o = j)
  BY <1>7, <1>8, QueuedAfter DEF IInv
<1>11. \A o \in Objects : Mapped(o)' <=> Mapped(o) \/ o = j
  BY <1>1, <1>2, <1>5 DEF Mapped, Objects, Null
<1>12. QueueOrder'
  <2>1. ASSUME NEW a \in Objects, a # j, memory[a] = "alive", clientID[a] = clientID[j],
               a # joining, a \notin rejected
        PROVE  Removing(a)
    <3>1. Mapped(a) \/ Removing(a)
      BY <2>1 DEF IInv, LivesFit
    <3>2. a # Null
      BY DEF Objects, Null
    <3> QED
      BY <1>2, <2>1, <3>1, <3>2 DEF Mapped, IInv, MapsAgree
  <2> QED
    BY <1>1, <1>2, <1>3, <1>4, <1>7, <1>8, <2>1, QueueGrows
<1>13. TypeOK'
  <2>1. /\ connectedClientsByEnetPeer' \in [Peers -> Pointer]
        /\ connectedClientsByClientID' \in [ClientIDs -> Pointer]
    BY <1>1 DEF NetJoined, IInv, TypeOK, Pointer, j
  <2> QED
    BY <1>1, <1>9, <2>1 DEF IInv, TypeOK, Outputs, Pointer
<1>14. SlotsFit'
  <2>1. SlotFits(link[enetPeer[j]], remote[enetPeer[j]], pending[enetPeer[j]], j)
    BY <1>2 DEF IInv, SlotsFit, SlotFits
  <2> QED
    BY <1>1, <1>5, <2>1 DEF IInv, SlotsFit
<1>15. MapsAgree'
  <2>1. \A s \in Peers : connectedClientsByEnetPeer[s] # Null =>
           /\ clientID[connectedClientsByEnetPeer[s]] # clientID[j]
           /\ clientID[connectedClientsByEnetPeer[s]] \in ClientIDs
    BY <1>2, MappedSlot DEF IInv, MapsAgree, LivesFit
  <2>2. \A c \in ClientIDs : LET o == connectedClientsByClientID[c]
          IN  o # Null => o \in Objects /\ enetPeer[o] # enetPeer[j] /\ enetPeer[o] \in Peers
    BY <1>2 DEF IInv, MapsAgree, LivesFit, TypeOK, Pointer
  <2> QED
    BY <1>1, <1>2, <1>5, <1>6, <2>1, <2>2 DEF IInv, MapsAgree
<1>16. JoiningFits' /\ ServingFits' /\ ClientsFit'
  <2>1. \A c \in ClientIDs : clients[c] # Null => clients[c] \in Objects
    BY DEF IInv, TypeOK, Pointer
  <2> QED
    BY <1>1, <2>1 DEF IInv, JoiningFits, ServingFits, ClientsFit, Objects, Null
<1>17. LivesFit'
  <2>1. \A o \in Objects : joining' # o
    BY <1>1 DEF Objects, Null
  <2> QED
    BY <1>1, <1>2, <1>3, <1>10, <1>11, <2>1 DEF IInv, LivesFit, j
<1>18. QueueAlive'
  <2>1. \A o \in Objects : joining' # o
    BY <1>1 DEF Objects, Null
  <2> QED
    BY <1>1, <1>2, <1>8, <1>9, <2>1, QueueType DEF IInv, QueueAlive
<1> QED
  BY <1>12, <1>13, <1>14, <1>15, <1>16, <1>17, <1>18 DEF IInv

LEMMA JoinKeeps ==
    ASSUME IInv, NEW p \in Peers, NetJoin(p)
    PROVE  IInv'
<1> DEFINE old == connectedClientsByClientID[remote[p]]
<1>1. PICK o \in Objects : NewClient(o, p) /\ joining' = o
  BY DEF NetJoin
<1>2. /\ pcNet = "service" /\ link[p] = "joined" /\ remote[p] \in ClientIDs
      /\ connectedClientsByEnetPeer[p] = Null /\ JoinsIn(Tail(pending[p])) = {}
      /\ Tail(pending[p]) \in Seq(Events)
      /\ SlotFits(link[p], remote[p], Tail(pending[p]), Null)
  BY Received, TailFits DEF NetJoin, IInv
<1>3. /\ UNCHANGED <<inputQueue, clients, serving, answersLeft, rejected, remote, joins,
                     requests>>
      /\ joining = Null /\ pcNet' = "joining" /\ o # Null
  BY <1>2 DEF NetJoin, ownerVars, IInv, JoiningFits, Objects, Null
<1>4. /\ AllKept
      /\ \A a \in Objects : a # o => Kept(a)
      /\ memory[o] = "unused" /\ memory'[o] = "alive"
      /\ clientID'[o] = remote[p] /\ enetPeer'[o] = p
      /\ memory' \in [Objects -> {"unused", "alive", "freed"}]
      /\ clientID' \in [Objects -> ClientIDs \cup {NoID}]
      /\ enetPeer' \in [Objects -> Peers \cup {Null}]
      /\ ~Mapped(o) /\ o \notin rejected /\ ~Removing(o) /\ ~Adding(o)
      /\ \A c \in ClientIDs : clients[c] # o
      /\ \A n \in DOMAIN outputQueue : outputQueue[n].client # o
  BY <1>1, <1>2, Made
<1>5. \A a \in Objects : a # o => /\ memory'[a] = memory[a] /\ clientID'[a] = clientID[a]
                                  /\ enetPeer'[a] = enetPeer[a]
  BY <1>4 DEF Kept
\* What both cases come to: the slot freed and the client evicted, if any.
<1> DEFINE gone(a) == old # Null /\ a = old
           freed(s) == old # Null /\ s = enetPeer[old]
<1>6. /\ \A a \in Objects : /\ Mapped(a)' <=> Mapped(a) /\ ~gone(a)
                            /\ Removing(a)' <=> Removing(a) \/ gone(a)
                            /\ Adding(a)' <=> Adding(a)
      /\ MapsAgree' /\ QueueOrder' /\ outputQueue' \in Seq(Outputs)
      /\ \A n \in DOMAIN outputQueue' :
            \/ gone(outputQueue'[n].client)
            \/ n \in DOMAIN outputQueue /\ outputQueue'[n] = outputQueue[n]
      /\ old # Null => /\ old \in Objects /\ old # o /\ memory[old] = "alive"
                       /\ old \notin rejected
                       /\ enetPeer[old] \in Peers /\ enetPeer[old] # p
      /\ connectedClientsByClientID'[remote[p]] = Null
      /\ connectedClientsByEnetPeer' \in [Peers -> Pointer]
      /\ connectedClientsByClientID' \in [ClientIDs -> Pointer]
      /\ \A s \in Peers :
            /\ connectedClientsByEnetPeer'[s] =
                  IF freed(s) THEN Null ELSE connectedClientsByEnetPeer[s]
            /\ link'[s] = IF freed(s) THEN "free" ELSE link[s]
            /\ pending'[s] = IF freed(s) THEN <<>>
                             ELSE IF s = p THEN Tail(pending[s]) ELSE pending[s]
      /\ link' \in [Peers -> {"free", "connecting", "greeted", "joined", "closing"}]
      /\ pending' \in [Peers -> Seq(Events)]
  <2>1. CASE old = Null
    <3>1. /\ UNCHANGED <<mapVars, outputQueue, link>>
          /\ pending' = [pending EXCEPT ![p] = Tail(@)]
      BY <2>1 DEF NetJoin, Superseded
    <3>2. MapsAgree' /\ QueueOrder'
      BY <1>1, <1>2, <1>3, <3>1, MadeKeeps
    <3>3. /\ UNCHANGED <<connectedClientsByEnetPeer, connectedClientsByClientID>>
          /\ outputQueue' = outputQueue /\ link' = link
      BY <3>1 DEF mapVars
    <3>4. \A a \in Objects : /\ Mapped(a)' <=> Mapped(a)
                             /\ Removing(a)' <=> Removing(a)
                             /\ Adding(a)' <=> Adding(a)
      BY <3>3 DEF Mapped, Removing, Adding
    <3>5. /\ pending' \in [Peers -> Seq(Events)]
          /\ \A s \in Peers : pending'[s] = IF s = p THEN Tail(pending[s]) ELSE pending[s]
      BY <1>2, <3>1 DEF IInv, TypeOK, Events
    <3>6. /\ outputQueue' \in Seq(Outputs)
          /\ \A n \in DOMAIN outputQueue' :
                n \in DOMAIN outputQueue /\ outputQueue'[n] = outputQueue[n]
      BY <3>3, QueueType
    <3>7. /\ connectedClientsByEnetPeer' \in [Peers -> Pointer]
          /\ connectedClientsByClientID' \in [ClientIDs -> Pointer]
          /\ link' \in [Peers -> {"free", "connecting", "greeted", "joined", "closing"}]
      BY <3>3 DEF IInv, TypeOK
    <3> QED
      BY <2>1, <3>2, <3>3, <3>4, <3>5, <3>6, <3>7
  <2>2. CASE old # Null
    <3>1. /\ Evict(old)
          /\ link' = [link EXCEPT ![enetPeer[old]] = "free"]
          /\ pending' = [pending EXCEPT ![p] = Tail(@), ![enetPeer[old]] = <<>>]
      BY <2>2 DEF NetJoin, Superseded
    <3>2. /\ old \in Objects /\ clientID[old] = remote[p]
          /\ connectedClientsByEnetPeer[enetPeer[old]] = old
      BY <1>2, <2>2 DEF IInv, TypeOK, Pointer, MapsAgree
    <3>3. enetPeer[old] \in Peers
      BY <1>2, <3>2 DEF IInv, LivesFit
    <3>4. Mapped(old)
      BY <3>2, <3>3 DEF Mapped
    <3> HIDE DEF old
    <3>5. /\ \A a \in Objects : /\ Mapped(a)' <=> Mapped(a) /\ a # old
                                /\ Removing(a)' <=> Removing(a) \/ a = old
                                /\ Adding(a)' <=> Adding(a)
          /\ memory[old] = "alive" /\ old \notin rejected
          /\ Output("remove", old) \in Outputs
          /\ MapsAgree' /\ QueueOrder'
      BY <1>3, <1>4, <3>1, <3>2, <3>4, Evicted
    <3>6. outputQueue' = Append(outputQueue, Output("remove", old))
          /\ Output("remove", old).client = old
      BY <3>1 DEF Evict, Output
    <3>7. /\ outputQueue' \in Seq(Outputs)
          /\ \A n \in DOMAIN outputQueue' :
                \/ outputQueue'[n].client = old
                \/ n \in DOMAIN outputQueue /\ outputQueue'[n] = outputQueue[n]
      BY <3>5, <3>6, QueueType
    <3>8. old # o /\ enetPeer[old] # p
      BY <1>2, <1>4, <2>2, <3>2, <3>5
    <3>9. /\ connectedClientsByEnetPeer' =
                [connectedClientsByEnetPeer EXCEPT ![enetPeer[old]] = Null]
          /\ connectedClientsByClientID' =
                [connectedClientsByClientID EXCEPT ![remote[p]] = Null]
      BY <3>1, <3>2 DEF Evict
    <3>10. /\ connectedClientsByEnetPeer' \in [Peers -> Pointer]
           /\ connectedClientsByClientID' \in [ClientIDs -> Pointer]
           /\ connectedClientsByClientID'[remote[p]] = Null
           /\ \A s \in Peers : connectedClientsByEnetPeer'[s] =
                 IF s = enetPeer[old] THEN Null ELSE connectedClientsByEnetPeer[s]
      BY <1>2, <3>9 DEF IInv, TypeOK, Pointer
    <3>11. /\ link' \in [Peers -> {"free", "connecting", "greeted", "joined", "closing"}]
           /\ \A s \in Peers : link'[s] = IF s = enetPeer[old] THEN "free" ELSE link[s]
      BY <3>1 DEF IInv, TypeOK
    <3>12. /\ pending' \in [Peers -> Seq(Events)]
           /\ \A s \in Peers : pending'[s] =
                 IF s = enetPeer[old] THEN <<>>
                 ELSE IF s = p THEN Tail(pending[s]) ELSE pending[s]
      <4>1. pending \in [Peers -> Seq(Events)] /\ <<>> \in Seq(Events)
        BY DEF IInv, TypeOK, Events
      <4>2. \A s \in Peers : pending'[s] =
               IF s = enetPeer[old] THEN <<>>
               ELSE IF s = p THEN Tail(pending[s]) ELSE pending[s]
        BY <3>1, <3>8, <4>1
      <4>3. DOMAIN pending' = Peers /\ pending' = [s \in Peers |-> pending'[s]]
        BY <3>1, <4>1
      <4>4. \A s \in Peers : pending'[s] \in Seq(Events)
        BY <1>2, <4>1, <4>2
      <4> QED
        BY <4>2, <4>3, <4>4
    <3> QED
      BY <2>2, <3>2, <3>3, <3>5, <3>7, <3>8, <3>10, <3>11, <3>12
  <2> QED
    BY <2>1, <2>2
<1> HIDE DEF gone, freed, old
<1>7. ~gone(o) /\ ~freed(p)
  BY <1>6 DEF gone, freed
<1>8. TypeOK'
  BY <1>1, <1>3, <1>4, <1>6 DEF IInv, TypeOK, Outputs, Events, Pointer
<1>9. SlotsFit'
  <2>1. ASSUME NEW s \in Peers, freed(s)
        PROVE  SlotFits("free", remote[s], <<>>, Null)
    BY DEF SlotFits, JoinsIn
  <2>2. SlotFits(link[p], remote[p], Tail(pending[p]), Null)
    BY <1>2
  <2>3. ASSUME NEW s \in Peers
        PROVE  SlotFits(link[s], remote[s], pending[s], connectedClientsByEnetPeer[s])
    BY DEF IInv, SlotsFit
  <2>4. ASSUME NEW s \in Peers
        PROVE  SlotFits(link'[s], remote'[s], pending'[s], connectedClientsByEnetPeer'[s])
    <3>1. CASE freed(s)
      BY <1>3, <1>6, <2>1, <3>1
    <3>2. CASE ~freed(s) /\ s = p
      BY <1>2, <1>3, <1>6, <2>2, <3>2
    <3>3. CASE ~freed(s) /\ s # p
      BY <1>3, <1>6, <2>3, <3>3
    <3> QED
      BY <3>1, <3>2, <3>3
  <2> QED
    BY <2>4 DEF SlotsFit
<1>10. JoiningFits'
  BY <1>1, <1>2, <1>3, <1>4, <1>6, <1>7 DEF JoiningFits
<1>11. LivesFit'
  <2> DEFINE Lives(a) ==
          /\ memory[a] # "unused" <=> clientID[a] \in ClientIDs
          /\ memory[a] # "unused" => enetPeer[a] \in Peers
          /\ memory[a] = "alive" => joining = a \/ Mapped(a) \/ a \in rejected \/ Removing(a)
          /\ a \in rejected => memory[a] = "alive"
          /\ Mapped(a) => /\ memory[a] = "alive" /\ joining # a /\ a \notin rejected
                          /\ ~Removing(a)
                          /\ clients[clientID[a]] = a \/ Adding(a)
  <2>1. \A a \in Objects : Lives(a) /\ joining # a
    BY <1>3 DEF IInv, LivesFit, Objects, Null
  <2>2. \A a \in Objects \ {o} : Lives(a)'
    BY <1>1, <1>3, <1>5, <1>6, <2>1
  <2>3. Lives(o)'
    BY <1>1, <1>2, <1>3, <1>4, <1>6, <1>7
  <2> QED
    BY <2>2, <2>3 DEF LivesFit
<1>12. ClientsFit'
  <2>1. \A c \in ClientIDs : clients[c] # Null => clients[c] \in Objects
    BY DEF IInv, TypeOK, Pointer
  <2> QED
    BY <1>1, <1>3, <1>4, <1>5, <2>1 DEF IInv, ClientsFit
<1>13. QueueAlive'
  <2>1. \A n \in DOMAIN outputQueue : LET x == outputQueue[n].client
          IN  x \in Objects /\ memory[x] = "alive" /\ x \notin rejected /\ x # o
    BY <1>4, QueueType DEF IInv, QueueAlive
  <2>2. \A n \in DOMAIN outputQueue' : LET x == outputQueue'[n].client
          IN  x \in Objects /\ memory[x] = "alive" /\ x \notin rejected /\ x # o
    BY <1>6, <2>1 DEF gone
  <2> QED
    BY <1>1, <1>3, <1>5, <2>2 DEF QueueAlive
<1>14. ServingFits'
  BY <1>3, <1>4 DEF IInv, ServingFits, TypeOK, Pointer, AllKept, Kept
<1> QED
  BY <1>6, <1>8, <1>9, <1>10, <1>11, <1>12, <1>13, <1>14 DEF IInv

-----------------------------------------------------------------------------
(***************************************************************************)
(* The event loop takes the first output.                                  *)
(***************************************************************************)

\* The order of the queue says what Server.clients holds when an output is taken.
LEMMA Popped ==
    ASSUME IInv, NEW type \in {"add", "remove", "data"}, Pops(type)
    PROVE  LET o == Head(outputQueue).client IN
           /\ outputQueue[1] = Output(type, o) /\ 1 \in DOMAIN outputQueue
           /\ o \in Objects /\ memory[o] = "alive" /\ clientID[o] \in ClientIDs
           /\ o # joining /\ o \notin rejected
           /\ clients[clientID[o]] = IF type = "add" THEN Null ELSE o
           /\ Len(outputQueue) \in Nat /\ DOMAIN outputQueue = 1 .. Len(outputQueue)
           /\ DOMAIN outputQueue' = 1 .. Len(outputQueue) - 1
           /\ Len(outputQueue') = Len(outputQueue) - 1
           /\ \A n \in 1 .. Len(outputQueue) - 1 : outputQueue'[n] = outputQueue[n + 1]
           /\ outputQueue' \in Seq(Outputs)
<1> DEFINE o == Head(outputQueue).client
<1>1. outputQueue \in Seq(Outputs) /\ outputQueue # <<>> /\ outputQueue' = Tail(outputQueue)
  BY QueueType DEF Pops
<1>2. /\ 1 \in DOMAIN outputQueue /\ outputQueue[1] \in Outputs
      /\ Head(outputQueue) = outputQueue[1]
      /\ Len(outputQueue) \in Nat /\ DOMAIN outputQueue = 1 .. Len(outputQueue)
      /\ DOMAIN outputQueue' = 1 .. Len(outputQueue) - 1
      /\ Len(outputQueue') = Len(outputQueue) - 1
      /\ \A n \in 1 .. Len(outputQueue) - 1 : outputQueue'[n] = outputQueue[n + 1]
      /\ outputQueue' \in Seq(Outputs)
  BY <1>1
<1>3. outputQueue[1] = Output(type, o) /\ o \in Objects
  BY <1>2 DEF Pops, Output, Outputs
<1> HIDE DEF o
<1>4. outputQueue[1].type = type /\ outputQueue[1].client = o
  BY <1>3 DEF Output
<1>5. /\ memory[o] = "alive" /\ o # joining /\ o \notin rejected
      /\ clientID[o] \in ClientIDs
  BY <1>2, <1>3, <1>4 DEF IInv, QueueAlive, LivesFit
<1>6. \A m : m \notin 1 .. 1 - 1
  OBVIOUS
<1>7. type = "add" => clients[clientID[o]] = Null
  BY <1>2, <1>4, <1>6 DEF IInv, QueueOrder, KnownGoesFirst
<1>8. type # "add" => clients[clientID[o]] = o
  BY <1>2, <1>4, <1>6 DEF IInv, QueueOrder, AddedBefore
<1> QED
  BY <1>2, <1>3, <1>5, <1>7, <1>8 DEF o

LEMMA QueueShrinks ==
    ASSUME IInv, NEW type \in {"add", "remove", "data"}, Pops(type), clientID' = clientID,
           clients' = [clients EXCEPT ![clientID[Head(outputQueue).client]] =
                          IF type = "remove" THEN Null ELSE Head(outputQueue).client]
    PROVE  /\ QueueOrder'
           /\ LET o == Head(outputQueue).client IN
              \A a : /\ Removing(a) <=> Removing(a)' \/ (type = "remove" /\ a = o)
                     /\ Adding(a) <=> Adding(a)' \/ (type = "add" /\ a = o)
<1> DEFINE o == Head(outputQueue).client
           q == outputQueue
           L == Len(outputQueue)
           qq == outputQueue'
<1>1. /\ q[1] = Output(type, o) /\ q[1].type = type /\ q[1].client = o
      /\ o \in Objects /\ clientID[o] \in ClientIDs
      /\ clients[clientID[o]] = IF type = "add" THEN Null ELSE o
      /\ L \in Nat /\ DOMAIN q = 1 .. L /\ 1 \in DOMAIN q
      /\ DOMAIN qq = 1 .. L - 1 /\ Len(qq) = L - 1
      /\ \A n \in 1 .. L - 1 : qq[n] = q[n + 1]
  BY Popped DEF Output
<1>2. clients \in [ClientIDs -> Pointer]
      /\ \A c \in ClientIDs : clients'[c] =
            IF c = clientID[o] THEN (IF type = "remove" THEN Null ELSE o) ELSE clients[c]
  BY DEF IInv, TypeOK
<1> HIDE DEF o
<1>3. /\ AddsFirst(q, clients) /\ AddedBefore(q, clients) /\ RemovesLast(q)
      /\ KnownGoesFirst(q, clients) /\ AddedGoesFirst(q)
  BY DEF IInv, QueueOrder
<1>4. \A n \in 1 .. L : /\ q[n].client \in Objects /\ q[n].client # Null
                        /\ clientID[q[n].client] \in ClientIDs
  BY <1>1, QueueType DEF IInv, LivesFit, Objects, Null
<1>5. \A x, y, a, b : Output(x, a) = Output(y, b) <=> x = y /\ a = b
  BY DEF Output
<1>7. AddsFirst(outputQueue, clients)'
  <2>1. ASSUME NEW n \in 1 .. L - 1, qq[n].type = "add"
        PROVE  /\ clients'[clientID[qq[n].client]] # qq[n].client
               /\ \A m \in 1 .. n - 1 : qq[m].client # qq[n].client
    <3>1. n + 1 \in 1 .. L /\ qq[n] = q[n + 1]
      BY <1>1
    <3>2. /\ clients[clientID[q[n + 1].client]] # q[n + 1].client
          /\ \A m \in 1 .. (n + 1) - 1 : q[m].client # q[n + 1].client
      BY <1>1, <1>3, <2>1, <3>1 DEF AddsFirst
    <3>3. o # q[n + 1].client
      BY <1>1, <3>2
    <3>4. clientID[q[n + 1].client] \in ClientIDs /\ q[n + 1].client # Null
      BY <1>4, <3>1
    <3>5. clients'[clientID[q[n + 1].client]] # q[n + 1].client
      BY <1>2, <3>2, <3>3, <3>4
    <3>6. ASSUME NEW m \in 1 .. n - 1 PROVE qq[m].client # q[n + 1].client
      <4>1. m \in 1 .. L - 1 /\ m + 1 \in 1 .. (n + 1) - 1
        BY <1>1
      <4> QED
        BY <1>1, <3>2, <4>1
    <3> QED
      BY <3>1, <3>5, <3>6
  <2> QED
    BY <1>1, <2>1 DEF AddsFirst
<1>8. AddedBefore(outputQueue, clients)'
  <2>1. ASSUME NEW n \in 1 .. L - 1, qq[n].type # "add"
        PROVE  \/ clients'[clientID[qq[n].client]] = qq[n].client
               \/ \E m \in 1 .. n - 1 : qq[m] = Output("add", qq[n].client)
    <3> DEFINE b == q[n + 1].client
    <3>1. n + 1 \in 1 .. L /\ qq[n] = q[n + 1] /\ q[n + 1].type # "add"
          /\ clientID[b] \in ClientIDs /\ b # Null
      BY <1>1, <1>4, <2>1
    <3>2. \/ clients[clientID[b]] = b
          \/ \E m \in 1 .. n : q[m] = Output("add", b)
      BY <1>1, <1>3, <3>1 DEF AddedBefore
    <3> HIDE DEF b
    <3>3. CASE clients[clientID[b]] = b
      <4>1. type = "remove" => b # o
        BY SMTT(60), <1>1, <1>3, <3>1 DEF RemovesLast, b
      <4>2. clientID[b] = clientID[o] => b = o /\ type # "remove"
        BY <1>1, <3>1, <3>3, <4>1
      <4> QED
        BY <1>2, <3>1, <3>3, <4>2 DEF b
    <3>4. CASE \E m \in 1 .. n : q[m] = Output("add", b)
      <4>1. PICK m \in 1 .. n : q[m] = Output("add", b)
        BY <3>4
      <4>2. CASE m = 1
        BY <1>1, <1>2, <1>5, <3>1, <4>1, <4>2 DEF b
      <4>3. CASE m # 1
        <5>1. m - 1 \in 1 .. n - 1 /\ qq[m - 1] = Output("add", b)
          BY <1>1, <4>1, <4>3
        <5> QED
          BY <3>1, <5>1 DEF b
      <4> QED
        BY <4>2, <4>3
    <3> QED
      BY <3>2, <3>3, <3>4
  <2> QED
    BY <1>1, <2>1 DEF AddedBefore
<1>9. RemovesLast(outputQueue)'
  <2>1. ASSUME NEW n \in 1 .. L - 1, qq[n].type = "remove", NEW m \in n + 1 .. L - 1
        PROVE  qq[m].client # qq[n].client
    <3>1. /\ n + 1 \in 1 .. L /\ m + 1 \in (n + 1) + 1 .. L
          /\ qq[n] = q[n + 1] /\ qq[m] = q[m + 1]
      BY <1>1
    <3> QED
      BY <1>1, <1>3, <2>1, <3>1 DEF RemovesLast
  <2> QED
    BY <1>1, <2>1 DEF RemovesLast
<1>10. KnownGoesFirst(outputQueue, clients)'
  <2>1. ASSUME NEW n \in 1 .. L - 1, qq[n].type = "add",
               clients'[clientID[qq[n].client]] # Null
        PROVE  \E m \in 1 .. n - 1 : qq[m] = Output("remove", clients'[clientID[qq[n].client]])
    <3> DEFINE c == clientID[q[n + 1].client]
    <3>1. /\ n + 1 \in 1 .. L /\ qq[n] = q[n + 1] /\ q[n + 1].type = "add"
          /\ c \in ClientIDs
      BY <1>1, <1>4, <2>1
    <3>2. clients[c] # Null => \E m \in 1 .. n : q[m] = Output("remove", clients[c])
      BY <1>1, <1>3, <3>1 DEF KnownGoesFirst
    <3>3. type = "add" /\ c = clientID[o] =>
             \E m \in 2 .. n : q[m] = Output("remove", o)
      <4>1. 1 \in 1 .. (n + 1) - 1
        OBVIOUS
      <4>2. type = "add" /\ c = clientID[o] =>
             \E m \in 1 + 1 .. (n + 1) - 1 : q[m] = Output("remove", q[1].client)
        BY <1>1, <1>3, <3>1, <4>1 DEF AddedGoesFirst
      <4> QED
        BY <1>1, <4>2
    <3> HIDE DEF c
    <3>4. CASE c = clientID[o] /\ type = "add"
      <4>1. PICK m \in 2 .. n : q[m] = Output("remove", o)
        BY <3>3, <3>4
      <4>2. m - 1 \in 1 .. n - 1 /\ qq[m - 1] = Output("remove", o)
        BY <1>1, <4>1
      <4> QED
        BY <1>2, <3>1, <3>4, <4>2 DEF c
    <3>5. CASE ~(c = clientID[o] /\ type = "add")
      <4>1. clients[c] # Null /\ clients'[c] = clients[c] /\ (type = "remove" => c # clientID[o])
        BY <1>1, <1>2, <2>1, <3>1, <3>5 DEF c
      <4>2. PICK m \in 1 .. n : q[m] = Output("remove", clients[c])
        BY <3>2, <4>1
      <4>3. clients[c] = o => c = clientID[o]
        BY <3>1, <4>1 DEF IInv, ClientsFit
      <4>4. m # 1
        BY <1>1, <1>5, <4>1, <4>2, <4>3
      <4>5. m - 1 \in 1 .. n - 1 /\ qq[m - 1] = Output("remove", clients[c])
        BY <1>1, <4>2, <4>4
      <4> QED
        BY <3>1, <4>1, <4>5 DEF c
    <3> QED
      BY <3>4, <3>5
  <2> QED
    BY <1>1, <2>1 DEF KnownGoesFirst
<1>11. AddedGoesFirst(outputQueue)'
  <2>1. ASSUME NEW n \in 1 .. L - 1, NEW m \in 1 .. n - 1,
               qq[n].type = "add", qq[m].type = "add",
               clientID[qq[n].client] = clientID[qq[m].client]
        PROVE  \E k \in m + 1 .. n - 1 : qq[k] = Output("remove", qq[m].client)
    <3>1. /\ n + 1 \in 1 .. L /\ m + 1 \in 1 .. (n + 1) - 1
          /\ qq[n] = q[n + 1] /\ qq[m] = q[m + 1]
      BY <1>1
    <3>2. \E k \in (m + 1) + 1 .. (n + 1) - 1 : q[k] = Output("remove", q[m + 1].client)
      BY SMTT(60), <1>1, <1>3, <2>1, <3>1 DEF AddedGoesFirst
    <3>3. PICK k \in m + 2 .. n : q[k] = Output("remove", q[m + 1].client)
      BY <3>2
    <3>4. k - 1 \in m + 1 .. n - 1 /\ qq[k - 1] = Output("remove", qq[m].client)
      BY <1>1, <3>1, <3>3
    <3> QED
      BY <3>4
  <2> QED
    BY <1>1, <2>1 DEF AddedGoesFirst
<1>12. \A a : /\ Removing(a) <=> Removing(a)' \/ (type = "remove" /\ a = o)
              /\ Adding(a) <=> Adding(a)' \/ (type = "add" /\ a = o)
  <2>1. \A x : (\E n \in 1 .. L : q[n] = x) <=> (\E n \in 1 .. L - 1 : qq[n] = x) \/ q[1] = x
    <3>1. ASSUME NEW n \in 1 .. L, q[n] # q[1]
          PROVE  n - 1 \in 1 .. L - 1 /\ qq[n - 1] = q[n]
      BY <1>1, <3>1
    <3>2. \A n \in 1 .. L - 1 : n + 1 \in 1 .. L
      BY <1>1
    <3> QED
      BY <1>1, <3>1, <3>2
  <2>2. \A a : /\ Output("remove", a) = q[1] <=> type = "remove" /\ a = o
               /\ Output("add", a) = q[1] <=> type = "add" /\ a = o
    BY <1>1, <1>5
  <2>3. \A x : (\E n \in DOMAIN q : q[n] = x) <=> (\E n \in DOMAIN qq : qq[n] = x) \/ q[1] = x
    BY <1>1, <2>1
  <2> HIDE DEF o
  <2> QED
    BY <2>2, <2>3 DEF Removing, Adding
<1>13. QueueOrder'
  BY <1>7, <1>8, <1>9, <1>10, <1>11 DEF QueueOrder
<1> QED
  BY <1>12, <1>13 DEF o

\* The event loop's steps.
LEMMA OwnerKeeps ==
    ASSUME IInv, AddClient \/ RemoveClient \/ ClientDataReceived
    PROVE  IInv'
<1> DEFINE o == Head(outputQueue).client
<1>1. PICK type \in {"add", "remove", "data"} :
          /\ Pops(type)
          /\ clients' = [clients EXCEPT ![clientID[o]] = IF type = "remove" THEN Null ELSE o]
          /\ IF type = "remove" THEN memory' = [memory EXCEPT ![o] = "freed"]
                                ELSE memory' = memory
          /\ IF type = "data" THEN serving' = o /\ answersLeft' \in 0 .. 2
                              ELSE UNCHANGED <<serving, answersLeft>>
  <2>1. CASE AddClient
    BY <2>1 DEF AddClient, objectVars
  <2>2. CASE RemoveClient
    BY <2>2 DEF RemoveClient
  <2>3. CASE ClientDataReceived
    <3>1. Pops("data") /\ clients' = clients /\ memory' = memory
          /\ serving' = o /\ answersLeft' \in 0 .. 2
      BY <2>3 DEF ClientDataReceived, objectVars
    <3>2. clients[clientID[o]] = o
      BY <3>1, Popped
    <3>3. clients = [clients EXCEPT ![clientID[o]] = o]
      BY <3>2 DEF IInv, TypeOK
    <3> HIDE DEF o
    <3> QED
      BY <3>1, <3>3
  <2> QED
    BY <2>1, <2>2, <2>3
<1>2. /\ UNCHANGED <<pcNet, joining, mapVars, inputQueue, clientID, enetPeer, rejected,
                     link, remote, pending, joins, requests>>
      /\ UNCHANGED <<connectedClientsByEnetPeer, connectedClientsByClientID>>
  BY DEF AddClient, RemoveClient, ClientDataReceived, mapVars, objectVars, enetVars
<1>3. /\ outputQueue[1] = Output(type, o) /\ 1 \in DOMAIN outputQueue
      /\ o \in Objects /\ memory[o] = "alive" /\ clientID[o] \in ClientIDs
      /\ o # joining /\ o \notin rejected
      /\ clients[clientID[o]] = IF type = "add" THEN Null ELSE o
      /\ Len(outputQueue) \in Nat /\ DOMAIN outputQueue = 1 .. Len(outputQueue)
      /\ DOMAIN outputQueue' = 1 .. Len(outputQueue) - 1
      /\ \A n \in 1 .. Len(outputQueue) - 1 : outputQueue'[n] = outputQueue[n + 1]
      /\ outputQueue' \in Seq(Outputs)
  BY <1>1, Popped
<1>4. /\ QueueOrder'
      /\ \A a : /\ Removing(a) <=> Removing(a)' \/ (type = "remove" /\ a = o)
                /\ Adding(a) <=> Adding(a)' \/ (type = "add" /\ a = o)
  BY <1>1, <1>2, QueueShrinks
<1> HIDE DEF o
<1>5. /\ \A c \in ClientIDs : clients'[c] =
            IF c = clientID[o] THEN (IF type = "remove" THEN Null ELSE o) ELSE clients[c]
      /\ \A a \in Objects : memory'[a] =
            IF type = "remove" /\ a = o THEN "freed" ELSE memory[a]
      /\ o # Null /\ answersLeft = 0
  <2>1. clients \in [ClientIDs -> Pointer] /\ memory \in [Objects -> {"unused", "alive", "freed"}]
    BY DEF IInv, TypeOK
  <2>2. o # Null /\ answersLeft = 0
    BY <1>1, <1>3 DEF Objects, Null, Pops
  <2> QED
    BY <1>1, <2>1, <2>2
<1>6. type = "remove" => ~Mapped(o)
  BY <1>3, <1>4 DEF IInv, LivesFit
<1>7. TypeOK'
  <2>1. clients' \in [ClientIDs -> Pointer] /\ serving' \in Pointer /\ answersLeft' \in 0 .. 2
        /\ memory' \in [Objects -> {"unused", "alive", "freed"}]
    BY <1>1, <1>3 DEF IInv, TypeOK, Pointer
  <2> QED
    BY <1>2, <1>3, <2>1 DEF IInv, TypeOK, Outputs
<1>8. SlotsFit' /\ MapsAgree'
  BY <1>2 DEF IInv, SlotsFit, MapsAgree
<1>9. JoiningFits'
  BY <1>2, <1>3, <1>5 DEF IInv, JoiningFits, TypeOK, Pointer
<1>10. LivesFit'
  <2> DEFINE Lives(a) ==
          /\ memory[a] # "unused" <=> clientID[a] \in ClientIDs
          /\ memory[a] # "unused" => enetPeer[a] \in Peers
          /\ memory[a] = "alive" => joining = a \/ Mapped(a) \/ a \in rejected \/ Removing(a)
          /\ a \in rejected => memory[a] = "alive"
          /\ Mapped(a) => /\ memory[a] = "alive" /\ joining # a /\ a \notin rejected
                          /\ ~Removing(a)
                          /\ clients[clientID[a]] = a \/ Adding(a)
  <2>1. ASSUME NEW a \in Objects PROVE Lives(a)'
    <3>1. Lives(a) /\ a # Null
      BY DEF IInv, LivesFit, Objects, Null
    <3>2. Mapped(a)' <=> Mapped(a)
      BY <1>2 DEF Mapped
    <3>3. CASE a = o
      BY <1>2, <1>3, <1>4, <1>5, <1>6, <3>1, <3>2, <3>3
    <3>4. CASE a # o
      <4>1. clientID[a] \in ClientIDs /\ clients[clientID[a]] = a => clientID[a] # clientID[o]
        BY <1>3, <3>1, <3>4
      <4>2. memory'[a] = memory[a] /\ (Removing(a)' <=> Removing(a)) /\ (Adding(a)' <=> Adding(a))
        BY <1>4, <1>5, <3>4
      <4>3. clientID[a] \in ClientIDs /\ clients[clientID[a]] = a => clients'[clientID[a]] = a
        BY <1>5, <4>1
      <4> QED
        BY <1>2, <3>1, <3>2, <4>2, <4>3
    <3> QED
      BY <3>3, <3>4
  <2> QED
    BY <2>1 DEF LivesFit
<1>11. ClientsFit'
  <2>1. \A c \in ClientIDs : clients[c] # Null => clients[c] \in Objects
    BY DEF IInv, TypeOK, Pointer
  <2>2. \A c \in ClientIDs : clients[c] = o => c = clientID[o]
    BY <1>5 DEF IInv, ClientsFit
  <2> QED
    BY <1>2, <1>3, <1>5, <2>1, <2>2 DEF IInv, ClientsFit
<1>12. QueueAlive'
  <2>1. ASSUME NEW n \in 1 .. Len(outputQueue) - 1
        PROVE  /\ outputQueue'[n] = outputQueue[n + 1]
               /\ n + 1 \in DOMAIN outputQueue /\ n + 1 \in 1 + 1 .. Len(outputQueue)
               /\ outputQueue[n + 1].client \in Objects
    BY <1>3, QueueType
  <2>2. ASSUME type = "remove", NEW n \in 1 + 1 .. Len(outputQueue)
        PROVE  outputQueue[n].client # o
    <3>1. outputQueue[1].type = "remove" /\ outputQueue[1].client = o
      BY <1>3, <2>2 DEF Output
    <3> QED
      BY <1>3, <2>2, <3>1 DEF IInv, QueueOrder, RemovesLast
  <2>3. ASSUME NEW n \in 1 .. Len(outputQueue) - 1
        PROVE  LET x == outputQueue'[n].client
               IN  memory'[x] = "alive" /\ joining' # x /\ x \notin rejected'
    <3> DEFINE x == outputQueue[n + 1].client
    <3>1. x \in Objects /\ memory[x] = "alive" /\ joining # x /\ x \notin rejected
      BY <2>1 DEF IInv, QueueAlive
    <3>2. type = "remove" => x # o
      BY <2>1, <2>2
    <3> HIDE DEF x
    <3>3. memory'[x] = "alive" /\ joining' # x /\ x \notin rejected'
      BY <1>2, <1>5, <3>1, <3>2
    <3> QED
      BY <2>1, <3>3 DEF x
  <2> QED
    BY <1>3, <2>3 DEF QueueAlive
<1>13. ServingFits'
  BY <1>1, <1>3, <1>5 DEF IInv, ServingFits, TypeOK, Pointer
<1> QED
  BY <1>4, <1>7, <1>8, <1>9, <1>10, <1>11, <1>12, <1>13 DEF IInv

-----------------------------------------------------------------------------
LEMMA NextKeeps == IInv /\ [Next]_vars => IInv'
<1> SUFFICES ASSUME IInv, [Next]_vars PROVE IInv'
  OBVIOUS
<1>1. CASE NetStep
  BY <1>1, AnswersKeep, SlotsKeep, RejectKeeps, JoinKeeps, JoinedKeeps, DataKeeps,
     DisconnectKeeps DEF NetStep
<1>2. CASE OwnerStep
  BY <1>2, OwnerKeeps, AnswersKeep DEF OwnerStep
<1>3. CASE Relay
  BY <1>3, AnswersKeep
<1>4. CASE EnetStep
  BY <1>4, SlotsKeep
<1>5. CASE UNCHANGED vars
  <2>1. UNCHANGED coreVars /\ UNCHANGED <<pcNet, inputQueue, serving, answersLeft, link,
           remote, pending, joins, requests, connectedClientsByEnetPeer>>
    BY <1>5 DEF vars, coreVars, mapVars, ownerVars, enetVars
  <2>2. TypeOK'
    BY <2>1 DEF IInv, TypeOK, coreVars, mapVars, objectVars
  <2>3. SlotsFit' /\ JoiningFits' /\ ServingFits'
    BY <2>1 DEF IInv, SlotsFit, JoiningFits, ServingFits, coreVars, mapVars, objectVars
  <2> QED
    BY <2>1, <2>2, <2>3, CoreUnchanged DEF IInv
<1> QED
  BY <1>1, <1>2, <1>3, <1>4, <1>5 DEF Next

LEMMA Sound == Spec => []IInv
  BY InitSound, NextKeeps, PTL DEF Spec

\* Every variable of a port keeps its type, in particular joining: whatever is
\* being joined was made for a slot nobody else holds (checkEnetEvents).
THEOREM TypesHold == Spec => []TypeOK
<1>1. IInv => TypeOK
  BY DEF IInv
<1> QED
  BY <1>1, Sound, PTL

\* The net thread's maps list the same clients, whatever replaces what.
THEOREM MapsHold == Spec => []MapsAgree
<1>1. IInv => MapsAgree
  BY DEF IInv
<1> QED
  BY <1>1, Sound, PTL

\* No thread follows a pointer to a NetServerClient that was deleted: update
\* deletes one only when the maps, Server.clients and the queue have let it go.
THEOREM PointersHold == Spec => []PointersAlive
<1>1. ASSUME IInv PROVE PointersAlive
  <2>1. \A p \in Peers : connectedClientsByEnetPeer[p] # Null
                            => memory[connectedClientsByEnetPeer[p]] = "alive"
    BY <1>1, MappedSlot DEF IInv, LivesFit
  <2>2. \A c \in ClientIDs : connectedClientsByClientID[c] # Null
                                => memory[connectedClientsByClientID[c]] = "alive"
    <3>1. ASSUME NEW c \in ClientIDs, NEW o, o = connectedClientsByClientID[c], o # Null
          PROVE  memory[o] = "alive"
      <4>1. /\ o \in Objects /\ clientID[o] \in ClientIDs
            /\ connectedClientsByEnetPeer[enetPeer[o]] = o
        BY <1>1, <3>1 DEF IInv, TypeOK, Pointer, MapsAgree
      <4>2. enetPeer[o] \in Peers
        BY <1>1, <4>1 DEF IInv, LivesFit
      <4> QED
        BY <1>1, <4>1, <4>2 DEF IInv, LivesFit, Mapped
    <3> QED
      BY <3>1
  <2>3. \A c \in ClientIDs : clients[c] # Null => memory[clients[c]] = "alive"
    BY <1>1 DEF IInv, ClientsFit
  <2>4. /\ \A n \in DOMAIN outputQueue : memory[outputQueue[n].client] = "alive"
        /\ answersLeft > 0 => memory[serving] = "alive"
    BY <1>1 DEF IInv, QueueAlive, ServingFits
  <2> QED
    BY <2>1, <2>2, <2>3, <2>4 DEF PointersAlive
<1> QED
  BY <1>1, Sound, PTL

\* A REMOVE_CLIENT is queued once, for a client in no other stage of its life.
LEMMA QueuedOnce ==
    ASSUME IInv, NEW o \in Objects
    PROVE  Cardinality(Queued("remove", o)) = IF Removing(o) THEN 1 ELSE 0
<1>1. CASE ~Removing(o)
  <2>1. Queued("remove", o) = {}
    BY <1>1 DEF Queued, Removing
  <2> QED
    BY <1>1, <2>1, FS_EmptySet
<1>2. CASE Removing(o)
  <2>1. PICK n \in DOMAIN outputQueue : outputQueue[n] = Output("remove", o)
    BY <1>2 DEF Removing
  <2>2. /\ DOMAIN outputQueue = 1 .. Len(outputQueue) /\ Len(outputQueue) \in Nat
        /\ RemovesLast(outputQueue)
    BY QueueType DEF IInv, QueueOrder
  <2>3. \A m \in DOMAIN outputQueue : outputQueue[m] = Output("remove", o) =>
           outputQueue[m].type = "remove" /\ outputQueue[m].client = o
    BY DEF Output
  <2>4. \A m \in DOMAIN outputQueue : outputQueue[m] = Output("remove", o) => m = n
    BY <2>1, <2>2, <2>3 DEF RemovesLast
  <2>5. Queued("remove", o) = {n}
    BY <2>1, <2>4 DEF Queued
  <2> QED
    BY <1>2, <2>5, FS_Singleton
<1> QED
  BY <1>1, <1>2

\* A NetServerClient is never leaked and never deleted twice, however joins,
\* replacements and disconnections interleave with the event loop.
THEOREM LivesHold == Spec => []OneLife
<1>1. ASSUME IInv, NEW o \in Objects, memory[o] # "unused"
      PROVE  Cardinality(Queued("remove", o))
               + Cardinality({s \in DOMAIN Stages(o) : Stages(o)[s]}) = 1
  <2> DEFINE stages == {s \in DOMAIN Stages(o) : Stages(o)[s]}
  <2>1. stages = {s \in {"joining", "mapped", "freed", "rejected"} :
                     \/ s = "joining" /\ joining = o
                     \/ s = "mapped" /\ Mapped(o)
                     \/ s = "freed" /\ memory[o] = "freed"
                     \/ s = "rejected" /\ o \in rejected}
    <3>1. DOMAIN Stages(o) = {"joining", "mapped", "freed", "rejected"}
      BY DEF Stages
    <3>2. /\ Stages(o)["joining"] <=> joining = o
          /\ Stages(o)["mapped"] <=> Mapped(o)
          /\ Stages(o)["freed"] <=> memory[o] = "freed"
          /\ Stages(o)["rejected"] <=> o \in rejected
      BY Zenon DEF Stages
    <3> QED
      BY <3>1, <3>2
  <2>2. /\ memory[o] \in {"alive", "freed"}
        /\ memory[o] = "alive" => joining = o \/ Mapped(o) \/ o \in rejected \/ Removing(o)
        /\ joining = o => memory[o] = "alive" /\ ~Mapped(o) /\ o \notin rejected /\ ~Removing(o)
        /\ Mapped(o) => memory[o] = "alive" /\ o \notin rejected /\ ~Removing(o)
        /\ o \in rejected => memory[o] = "alive" /\ ~Removing(o)
        /\ Removing(o) => memory[o] = "alive"
    <3>1. Removing(o) => memory[o] = "alive" /\ joining # o /\ o \notin rejected
      BY <1>1 DEF Removing, Output, IInv, QueueAlive
    <3>2. joining = o => memory[o] = "alive" /\ o \notin rejected
      BY <1>1 DEF IInv, JoiningFits, Objects, Null
    <3>3. memory[o] \in {"unused", "alive", "freed"}
      BY <1>1 DEF IInv, TypeOK
    <3> QED
      BY <1>1, <3>1, <3>2, <3>3 DEF IInv, LivesFit
  <2> HIDE DEF stages
  <2>3. stages = IF Removing(o) THEN {}
                 ELSE IF joining = o THEN {"joining"}
                 ELSE IF Mapped(o) THEN {"mapped"}
                 ELSE IF o \in rejected THEN {"rejected"} ELSE {"freed"}
    BY <2>1, <2>2
  <2>4. Cardinality(stages) = IF Removing(o) THEN 0 ELSE 1
    BY <2>3, FS_EmptySet, FS_Singleton
  <2>5. Cardinality(Queued("remove", o)) = IF Removing(o) THEN 1 ELSE 0
    BY <1>1, QueuedOnce
  <2>6. Cardinality(Queued("remove", o)) + Cardinality(stages) = 1
    BY <2>4, <2>5
  <2> QED
    BY <2>6 DEF stages
<1>2. IInv => OneLife
  BY <1>1 DEF OneLife
<1> QED
  BY <1>2, Sound, PTL

\* Popping an ADD, a REMOVE or a data output is Connected, Disconnected and
\* Request of module Sessions; nothing else is seen by the scripts.
LEMMA SessionsStep ==
    ASSUME IInv, [Next]_vars
    PROVE  [S!Next]_S!sessionVars
<1> DEFINE o == Head(outputQueue).client
           known == {c \in ClientIDs : clients[c] # Null}
           served == IF serving = Null THEN NoID ELSE clientID[serving]
<1>1. CASE AddClient
  <2>1. /\ o \in Objects /\ clientID[o] \in ClientIDs /\ clients[clientID[o]] = Null
        /\ clients \in [ClientIDs -> Pointer] /\ o # Null
    BY SMTT(60), <1>1, Popped DEF AddClient, IInv, TypeOK, Objects, Null
  <2>2. /\ clients' = [clients EXCEPT ![clientID[o]] = o]
        /\ clientID' = clientID /\ serving' = serving
    BY <1>1 DEF AddClient, objectVars
  <2> HIDE DEF o
  <2>3. known' = known \cup {clientID[o]} /\ clientID[o] \in ClientIDs \ known /\ served' = served
    BY <2>1, <2>2
  <2>4. PICK id \in ClientIDs : id = clientID[o]
    BY <2>1
  <2>5. S!Connected(id)
    BY <2>3, <2>4 DEF S!Connected
  <2> QED
    BY <2>5 DEF S!Next
<1>2. CASE RemoveClient
  <2>1. /\ o \in Objects /\ clientID[o] \in ClientIDs /\ clients[clientID[o]] = o
        /\ clients \in [ClientIDs -> Pointer] /\ o # Null
    <3>1. Pops("remove")
      BY <1>2 DEF RemoveClient
    <3>2. /\ o \in Objects /\ clientID[o] \in ClientIDs
          /\ clients[clientID[o]] = IF "remove" = "add" THEN Null ELSE o
      BY <3>1, Popped
    <3> QED
      BY <3>2 DEF IInv, TypeOK, Objects, Null
  <2>2. /\ clients' = [clients EXCEPT ![clientID[o]] = Null]
        /\ clientID' = clientID /\ serving' = serving
    BY <1>2 DEF RemoveClient
  <2> HIDE DEF o
  <2>3. known' = known \ {clientID[o]} /\ clientID[o] \in known /\ served' = served
    BY <2>1, <2>2
  <2>4. PICK id \in ClientIDs : id = clientID[o]
    BY <2>1
  <2>5. S!Disconnected(id)
    BY <2>3, <2>4 DEF S!Disconnected
  <2> QED
    BY <2>5 DEF S!Next
<1>3. CASE ClientDataReceived
  <2>1. /\ o \in Objects /\ clientID[o] \in ClientIDs /\ clients[clientID[o]] = o
        /\ o # Null
    <3>1. Pops("data")
      BY <1>3 DEF ClientDataReceived
    <3>2. /\ o \in Objects /\ clientID[o] \in ClientIDs
          /\ clients[clientID[o]] = IF "data" = "add" THEN Null ELSE o
      BY <3>1, Popped
    <3> QED
      BY <3>2 DEF Objects, Null
  <2>2. clients' = clients /\ clientID' = clientID /\ serving' = o
    BY <1>3 DEF ClientDataReceived, objectVars
  <2> HIDE DEF o
  <2>3. known' = known /\ clientID[o] \in known /\ served' = clientID[o]
    BY <2>1, <2>2
  <2>4. PICK id \in ClientIDs : id = clientID[o]
    BY <2>1
  <2>5. S!Request(id)
    BY <2>3, <2>4 DEF S!Request
  <2> QED
    BY <2>5 DEF S!Next
<1>4. CASE ~(AddClient \/ RemoveClient \/ ClientDataReceived)
  <2>1. clients' = clients /\ serving' = serving
    BY <1>4 DEF Next, NetStep, OwnerStep, NetSend, NetDrainDone, NetJoined, NetServiceDone,
       NetConnect, NetReject, NetJoin, NetData, NetDisconnect, Answer, Relay, EnetStep,
       RemoteConnects, RemoteJoins, RemoteRequests, RemoteDrops, ownerVars, enetOnly, vars
  <2>2. serving # Null => clientID'[serving] = clientID[serving]
    <3>1. serving # Null => serving \in Objects /\ memory[serving] # "unused"
      BY DEF IInv, TypeOK, ServingFits, Pointer
    <3>2. CASE clientID' = clientID
      BY <3>2
    <3>3. CASE \E p \in Peers : NetReject(p) \/ NetJoin(p)
      <4>1. PICK p \in Peers, x \in Objects : NewClient(x, p)
        BY <3>3 DEF NetReject, NetJoin
      <4>2. x # serving \/ serving = Null
        BY <3>1, <4>1 DEF NewClient, Fresh
      <4> QED
        BY <3>1, <4>1, <4>2 DEF NewClient, IInv, TypeOK
    <3> QED
      BY <1>4, <3>2, <3>3 DEF Next, NetStep, OwnerStep, NetSend, NetDrainDone, NetJoined,
         NetServiceDone, NetConnect, NetData, NetDisconnect, Answer, Relay, EnetStep,
         RemoteConnects, RemoteJoins, RemoteRequests, RemoteDrops, objectVars, enetOnly, vars
  <2>3. known' = known /\ served' = served
    BY <2>1, <2>2
  <2> QED
    BY <2>3 DEF S!sessionVars
<1> QED
  BY <1>1, <1>2, <1>3, <1>4

\* The scripts bound to a port see what Sessions promises: each client's
\* sessions one after the other, and requests within a session only.
THEOREM SessionsHold == Spec => ImplementsSessions
<1>1. Init => S!Init
  BY DEF Init, S!Init
<1> QED
  BY <1>1, SessionsStep, Sound, PTL DEF Spec, ImplementsSessions, S!Spec

-----------------------------------------------------------------------------
(***************************************************************************)
(* The tracker on its two ports.  Its registry is sound for any hosts,     *)
(* clients and nameKeys.  The inductive invariant is TrackerTypeOK /\      *)
(* RegistryMatches: a host is connected afresh only when it is not known   *)
(* (Sessions), so it is in neither table; that it is known while it is in  *)
(* one is RegistryMatches.                                                 *)
(***************************************************************************)
USE DEF hostServer!Connected, hostServer!Disconnected, hostServer!Request,
        clientServer!Connected, clientServer!Disconnected, clientServer!Request

LEMMA RegistryStarts == TrackerInit => TrackerTypeOK /\ RegistryMatches
<1> SUFFICES ASSUME TrackerInit PROVE TrackerTypeOK /\ RegistryMatches
  OBVIOUS
<1> DEFINE Records == Seq(Packets)
<1>1. sent = <<>> /\ <<>> \in Records
  BY DEF TrackerInit
<1>2. sent \in Records
  BY <1>1
<1> HIDE DEF Records
<1>3. RegistryMatches
  BY TrackerAssumption DEF TrackerInit, RegistryMatches, hostServer!Init, clientServer!Init
<1>4. sent \in Seq(Packets)
  BY <1>2 DEF Records
<1> QED
  BY <1>3, <1>4, TrackerAssumption
  DEF TrackerInit, TrackerTypeOK, hostServer!Init, clientServer!Init

-----------------------------------------------------------------------------
\* The handlers that leave the tables and the known hosts alone.
Elsewhere ==
    \/ Start
    \/ \E h \in Hosts, r \in Requests : HostAnswers(h, r)
    \/ \E c \in Clients :
          \/ ClientConnected(c) \/ ClientDisconnected(c)
          \/ GetSiteKey(c) \/ GetSitesForBroadcastKey(c)
          \/ \E h \in Hosts : RemoteHostRequest(c, h)

LEMMA NextCases ==
    TrackerNext => \/ Elsewhere
                   \/ \E h \in Hosts : HostConnected(h) \/ HostDisconnected(h)
  BY DEF TrackerNext, Elsewhere

LEMMA ElsewhereUnchanged == Elsewhere => UNCHANGED <<siteVars, knownHosts>>
<1> USE DEF siteVars, hostVars
<1>1. Start => UNCHANGED <<siteVars, knownHosts>>
  BY DEF Start
<1>2. ASSUME NEW h \in Hosts, NEW r \in Requests, HostAnswers(h, r)
      PROVE  UNCHANGED <<siteVars, knownHosts>>
  BY <1>2 DEF HostAnswers
<1>3. ASSUME NEW c \in Clients,
             \/ ClientConnected(c) \/ ClientDisconnected(c)
             \/ GetSiteKey(c) \/ GetSitesForBroadcastKey(c)
             \/ \E h \in Hosts : RemoteHostRequest(c, h)
      PROVE  UNCHANGED <<siteVars, knownHosts>>
  BY <1>3 DEF ClientConnected, ClientDisconnected, GetSiteKey,
     GetSitesForBroadcastKey, RemoteHostRequest
<1> QED
  BY <1>1, <1>2, <1>3 DEF Elsewhere

LEMMA ElsewhereSent == TrackerTypeOK /\ Elsewhere => sent' \in Seq(Packets)
<1> SUFFICES ASSUME TrackerTypeOK, Elsewhere PROVE sent' \in Seq(Packets)
  OBVIOUS
<1>1. sent \in Seq(Packets) /\ <<>> \in Seq(Packets)
  BY DEF TrackerTypeOK
<1>2. \A p \in Packets : <<p>> \in Seq(Packets)
  OBVIOUS
<1>3. \A p, q \in Packets : <<p, q>> \in Seq(Packets)
  OBVIOUS
<1>4. ASSUME NEW c \in Clients PROVE Packet(c, "error", NoOne) \in Packets
  BY DEF Packet, Packets
<1>5. CASE Start
  BY <1>1, <1>5 DEF Start
<1>6. ASSUME NEW h \in Hosts, NEW r \in Requests, HostAnswers(h, r)
      PROVE  sent' \in Seq(Packets)
  <2>1. CASE Requester(r) = {}
    BY <1>1, <1>6, <2>1 DEF HostAnswers
  <2>2. CASE Requester(r) # {}
    <3> DEFINE c == CHOOSE x \in Requester(r) : TRUE
    <3>1. c \in Clients
      BY <2>2 DEF Requester, TrackerTypeOK
    <3>2. sent' = << Packet(c, "part", r) >>
      BY <1>6, <2>2 DEF HostAnswers
    <3> HIDE DEF c
    <3>3. Packet(c, "part", r) \in Packets
      BY <3>1 DEF Packet, Packets
    <3> QED
      BY <1>2, <3>2, <3>3
  <2> QED
    BY <2>1, <2>2
<1>7. ASSUME NEW c \in Clients, GetSiteKey(c) PROVE sent' \in Seq(Packets)
  <2>1. PICK k \in NameKeys \cup {NoKey} :
            sent' = IF k # NoKey /\ siteInfosBySiteKeys[k] # NoOne
                    THEN << Packet(c, "siteKey", siteInfosBySiteKeys[k]) >>
                    ELSE << Packet(c, "error", NoOne) >>
    BY <1>7, TrackerAssumption DEF GetSiteKey
  <2>2. CASE k # NoKey /\ siteInfosBySiteKeys[k] # NoOne
    <3>1. siteInfosBySiteKeys[k] \in Hosts
      BY <2>2 DEF TrackerTypeOK
    <3>2. Packet(c, "siteKey", siteInfosBySiteKeys[k]) \in Packets
      BY <3>1 DEF Packet, Packets
    <3> QED
      BY <1>2, <2>1, <2>2, <3>2
  <2>3. CASE ~(k # NoKey /\ siteInfosBySiteKeys[k] # NoOne)
    BY <1>2, <1>4, <2>1, <2>3
  <2> QED
    BY <2>2, <2>3
<1>8. ASSUME NEW c \in Clients, GetSitesForBroadcastKey(c) PROVE sent' \in Seq(Packets)
  <2>1. Packet(c, "sites", NoOne) \in Packets
    BY DEF Packet, Packets
  <2>2. \/ sent' = << Packet(c, "sites", NoOne), Packet(c, "error", NoOne) >>
        \/ sent' = << Packet(c, "error", NoOne) >>
    BY <1>8 DEF GetSitesForBroadcastKey
  <2> QED
    BY <1>2, <1>3, <1>4, <2>1, <2>2
<1>9. ASSUME NEW c \in Clients, NEW h \in Hosts, RemoteHostRequest(c, h)
      PROVE  sent' \in Seq(Packets)
  <2>1. CASE Reachable(h)
    <3>1. PICK r \in Requests : sent' = << Packet(h, "request", r) >>
      BY <1>9, <2>1 DEF RemoteHostRequest
    <3>2. Packet(h, "request", r) \in Packets
      BY DEF Packet, Packets
    <3> QED
      BY <1>2, <3>1, <3>2
  <2>2. CASE ~Reachable(h)
    BY <1>2, <1>4, <1>9, <2>2 DEF RemoteHostRequest
  <2> QED
    BY <2>1, <2>2
<1>10. ASSUME NEW c \in Clients, ClientConnected(c) \/ ClientDisconnected(c)
       PROVE  sent' \in Seq(Packets)
  BY <1>1, <1>10 DEF ClientConnected, ClientDisconnected
<1> QED
  BY <1>5, <1>6, <1>7, <1>8, <1>9, <1>10 DEF Elsewhere

LEMMA ElsewhereTyped == TrackerTypeOK /\ Elsewhere => TrackerTypeOK'
<1> SUFFICES ASSUME TrackerTypeOK, Elsewhere PROVE TrackerTypeOK'
  OBVIOUS
<1>1. UNCHANGED <<siteVars, knownHosts>>
  BY ElsewhereUnchanged
<1>2. running' \subseteq {"hostServer", "clientServer"} /\ looping' \in BOOLEAN
  <2>1. Start => running' \subseteq {"hostServer", "clientServer"} /\ looping' \in BOOLEAN
    BY DEF Start, Opened, TrackerTypeOK
  <2>2. ~Start => UNCHANGED startVars
    BY DEF Elsewhere, HostAnswers, ClientConnected, ClientDisconnected,
       GetSiteKey, GetSitesForBroadcastKey, RemoteHostRequest
  <2> QED
    BY <2>1, <2>2 DEF startVars, TrackerTypeOK
<1>3. hostServed' \in Hosts \cup {NoOne}
  BY DEF Elsewhere, Start, HostAnswers, ClientConnected, ClientDisconnected,
     GetSiteKey, GetSitesForBroadcastKey, RemoteHostRequest, hostVars, TrackerTypeOK
<1>4. knownClients' \subseteq Clients /\ clientServed' \in Clients \cup {NoOne}
  BY DEF Elsewhere, Start, HostAnswers, ClientConnected, ClientDisconnected,
     GetSiteKey, GetSitesForBroadcastKey, RemoteHostRequest, clientVars, TrackerTypeOK
<1>5. /\ clientsByHostRequestIDs' \in [Requests -> Clients \cup {NoOne}]
      /\ relayedTo' \in [Requests -> Hosts \cup {NoOne}]
  BY DEF Elsewhere, Start, HostAnswers, ClientConnected, ClientDisconnected,
     GetSiteKey, GetSitesForBroadcastKey, RemoteHostRequest, relayVars, TrackerTypeOK
<1>6. sent' \in Seq(Packets)
  BY ElsewhereSent
<1> QED
  BY <1>1, <1>2, <1>3, <1>4, <1>5, <1>6 DEF TrackerTypeOK, siteVars

-----------------------------------------------------------------------------
LEMMA ConnectedSound ==
    ASSUME TrackerTypeOK, RegistryMatches, NEW h \in Hosts, HostConnected(h)
    PROVE  TrackerTypeOK' /\ RegistryMatches'
<1>1. PICK k \in NameKeys \cup {NoKey} :
          nameKey' = [nameKey EXCEPT ![h] = k] /\ Register(h, k)
  BY DEF HostConnected
<1>6. sent' \in Seq(Packets)
  BY DEF HostConnected
<1>2. /\ h \notin knownHosts /\ knownHosts' = knownHosts \cup {h}
      /\ UNCHANGED <<hostServed, startVars, clientVars, relayVars>>
  BY DEF HostConnected
<1>3. siteInfosByHostIDs[h] = NoKey /\ \A j \in NameKeys : siteInfosBySiteKeys[j] # h
  BY <1>2, TrackerAssumption DEF TrackerTypeOK, RegistryMatches
<1>4. CASE k # NoKey /\ siteInfosBySiteKeys[k] = NoOne
  <2>1. /\ siteInfosBySiteKeys' = [siteInfosBySiteKeys EXCEPT ![k] = h]
        /\ siteInfosByHostIDs' = [siteInfosByHostIDs EXCEPT ![h] = k]
    BY <1>1, <1>4 DEF Register
  <2>2. TrackerTypeOK'
    BY <1>1, <1>2, <1>4, <1>6, <2>1 DEF TrackerTypeOK, startVars, clientVars, relayVars
  <2>3. RegistryMatches'
    BY <1>1, <1>2, <1>3, <1>4, <2>1, TrackerAssumption DEF TrackerTypeOK, RegistryMatches
  <2> QED
    BY <2>2, <2>3
<1>5. CASE ~(k # NoKey /\ siteInfosBySiteKeys[k] = NoOne)
  <2>1. UNCHANGED <<siteInfosBySiteKeys, siteInfosByHostIDs>>
    BY <1>1, <1>5 DEF Register
  <2>2. TrackerTypeOK'
    BY <1>1, <1>2, <1>6, <2>1 DEF TrackerTypeOK, startVars, clientVars, relayVars
  <2>3. RegistryMatches'
    BY <1>1, <1>2, <1>3, <2>1 DEF TrackerTypeOK, RegistryMatches
  <2> QED
    BY <2>2, <2>3
<1> QED
  BY <1>4, <1>5

LEMMA DisconnectedSound ==
    ASSUME TrackerTypeOK, RegistryMatches, NEW h \in Hosts, HostDisconnected(h)
    PROVE  TrackerTypeOK' /\ RegistryMatches'
<1>1. /\ knownHosts' = knownHosts \ {h} /\ Unregister(h)
      /\ UNCHANGED <<hostServed, startVars, clientVars, nameKey, relayVars>>
  BY DEF HostDisconnected
<1>4. sent' \in Seq(Packets)
  BY DEF HostDisconnected
<1>2. CASE siteInfosByHostIDs[h] # NoKey
  <2> DEFINE k == siteInfosByHostIDs[h]
  <2>1. /\ siteInfosBySiteKeys' = [siteInfosBySiteKeys EXCEPT ![k] = NoOne]
        /\ siteInfosByHostIDs' = [siteInfosByHostIDs EXCEPT ![h] = NoKey]
    BY <1>1, <1>2 DEF Unregister
  <2>2. k \in NameKeys /\ siteInfosBySiteKeys[k] = h
    BY <1>2 DEF TrackerTypeOK, RegistryMatches
  <2>3. TrackerTypeOK'
    BY <1>1, <1>4, <2>1, <2>2 DEF TrackerTypeOK, startVars, clientVars, relayVars
  <2>4. RegistryMatches'
    BY <1>1, <2>1, <2>2, TrackerAssumption DEF TrackerTypeOK, RegistryMatches
  <2> QED
    BY <2>3, <2>4
<1>3. CASE siteInfosByHostIDs[h] = NoKey
  <2>1. UNCHANGED <<siteInfosBySiteKeys, siteInfosByHostIDs>>
    BY <1>1, <1>3 DEF Unregister
  <2>2. \A j \in NameKeys : siteInfosBySiteKeys[j] # h
    BY <1>3, TrackerAssumption DEF TrackerTypeOK, RegistryMatches
  <2>3. TrackerTypeOK'
    BY <1>1, <1>4, <2>1 DEF TrackerTypeOK, startVars, clientVars, relayVars
  <2>4. RegistryMatches'
    BY <1>1, <2>1, <2>2 DEF TrackerTypeOK, RegistryMatches
  <2> QED
    BY <2>3, <2>4
<1> QED
  BY <1>2, <1>3

LEMMA RegistryStep ==
    TrackerTypeOK /\ RegistryMatches /\ [TrackerNext]_trackerVars
       => TrackerTypeOK' /\ RegistryMatches'
<1> SUFFICES ASSUME TrackerTypeOK, RegistryMatches, [TrackerNext]_trackerVars
             PROVE  TrackerTypeOK' /\ RegistryMatches'
  OBVIOUS
<1>1. CASE Elsewhere
  BY <1>1, ElsewhereTyped, ElsewhereUnchanged DEF RegistryMatches, siteVars
<1>2. CASE \E h \in Hosts : HostConnected(h) \/ HostDisconnected(h)
  BY <1>2, ConnectedSound, DisconnectedSound
<1>3. CASE UNCHANGED trackerVars
  BY <1>3 DEF trackerVars, startVars, hostVars, clientVars, siteVars, relayVars,
     TrackerTypeOK, RegistryMatches
<1> QED
  BY <1>1, <1>2, <1>3, NextCases

\* The two tables always describe the same sites of connected hosts.
THEOREM RegistryHolds == TrackerSpec => [](TrackerTypeOK /\ RegistryMatches)
  BY RegistryStarts, RegistryStep, PTL DEF TrackerSpec

\* Every variable of the tracker keeps its type, whatever the hosts and the
\* clients do and however the two ports open.
THEOREM TrackerTypesHold == TrackerSpec => []TrackerTypeOK
  BY RegistryHolds, PTL

-----------------------------------------------------------------------------
\* No step takes a nameKey from a host that stays connected.
LEMMA NameStep ==
    ASSUME TrackerTypeOK, RegistryMatches, [TrackerNext]_trackerVars, NEW k \in NameKeys,
           siteInfosBySiteKeys[k] # NoOne,
           siteInfosBySiteKeys'[k] # siteInfosBySiteKeys[k]
    PROVE  siteInfosBySiteKeys[k] \notin knownHosts'
<1>1. ~Elsewhere /\ ~UNCHANGED trackerVars
  BY ElsewhereUnchanged DEF siteVars, trackerVars
<1>2. ASSUME NEW h \in Hosts, HostConnected(h) PROVE FALSE
  BY <1>2 DEF HostConnected, Register, TrackerTypeOK
<1>3. ASSUME NEW h \in Hosts, HostDisconnected(h)
      PROVE  siteInfosBySiteKeys[k] \notin knownHosts'
  <2>1. knownHosts' = knownHosts \ {h} /\ Unregister(h)
    BY <1>3 DEF HostDisconnected
  <2>2. k = siteInfosByHostIDs[h] /\ k # NoKey
    BY <2>1, TrackerAssumption DEF Unregister, TrackerTypeOK
  <2> QED
    BY <2>1, <2>2 DEF TrackerTypeOK, RegistryMatches
<1> QED
  BY <1>1, <1>2, <1>3, NextCases

\* A nameKey changes hands only once its holder is gone (tracker.tui).
THEOREM NameKept == TrackerSpec => NameKeptByHolder
<1>1. TrackerTypeOK /\ RegistryMatches /\ [TrackerNext]_trackerVars =>
         [\A k \in NameKeys :
             siteInfosBySiteKeys[k] # NoOne
             /\ siteInfosBySiteKeys'[k] # siteInfosBySiteKeys[k]
                => siteInfosBySiteKeys[k] \notin knownHosts']_trackerVars
  BY NameStep
<1> QED
  BY <1>1, RegistryHolds, PTL DEF TrackerSpec, NameKeptByHolder

=============================================================================
