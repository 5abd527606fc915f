------------------------------- MODULE Tracker -------------------------------
(***************************************************************************)
(* A tracker: Tracker (src/core/Tracker.cpp) starts two Servers, one for   *)
(* hosts and one for clients, and one event loop that runs the handlers of *)
(* both in any order.  Each Server is the Sessions that ServerNet          *)
(* implements; this module composes the two with what the handlers do: the *)
(* registry of sites (apps/katipoTracker/scripts/tracker.tui) and the      *)
(* relaying of requests to hosts and of their answers (Server.cpp).  A     *)
(* handler runs to its end before the next, so each is one action.         *)
(*                                                                         *)
(* A siteInfo is the host that sent it and its nameKey.  A host id stands  *)
(* for a public key.  No name is ServerNet's, so that one module can prove *)
(* things of both.                                                         *)
(***************************************************************************)
EXTENDS Integers, Sequences

CONSTANTS Hosts, Clients, NameKeys,
          NoOne, NoKey,
          DefaultHost,  \* katipo.defaultHost, or NoKey
          MaxRelayed    \* bound: requests relayed to hosts

ASSUME TrackerAssumption ==
    /\ NoOne \notin Hosts \cup Clients
    /\ NoKey \notin NameKeys
    /\ DefaultHost \in NameKeys \cup {NoKey}
    /\ MaxRelayed \in Nat

Requests == 1 .. MaxRelayed  \* the random ids of relayed requests, by age

VARIABLES
    running,      \* the Servers whose port is open
    looping,      \* serverEventLoop has been started
    knownHosts, hostServed, knownClients, clientServed,
    nameKey,      \* the nameKey each host joined with last
    siteInfosBySiteKeys,     \* the host registered under each nameKey
    siteInfosByHostIDs,      \* the nameKey each host is registered under
    clientsByHostRequestIDs,
    relayedTo,    \* history: the host each request was relayed to
    sent          \* the packets the last handler queued

hostVars   == <<knownHosts, hostServed>>
clientVars == <<knownClients, clientServed>>
siteVars   == <<nameKey, siteInfosBySiteKeys, siteInfosByHostIDs>>
relayVars  == <<clientsByHostRequestIDs, relayedTo>>
startVars  == <<running, looping>>
trackerVars == <<startVars, hostVars, clientVars, siteVars, relayVars, sent>>

hostServer   == INSTANCE Sessions WITH IDs <- Hosts, NoID <- NoOne,
                                       known <- knownHosts, served <- hostServed
clientServer == INSTANCE Sessions WITH IDs <- Clients, NoID <- NoOne,
                                       known <- knownClients, served <- clientServed

Packet(to, type, about) == [to |-> to, type |-> type, about |-> about]

TrackerInit ==
    /\ running = {} /\ looping = FALSE
    /\ hostServer!Init /\ clientServer!Init
    /\ nameKey = [h \in Hosts |-> NoKey]
    /\ siteInfosBySiteKeys = [k \in NameKeys |-> NoOne]
    /\ siteInfosByHostIDs = [h \in Hosts |-> NoKey]
    /\ clientsByHostRequestIDs = [r \in Requests |-> NoOne]
    /\ relayedTo = [r \in Requests |-> NoOne]
    /\ sent = <<>>

-----------------------------------------------------------------------------
(***************************************************************************)
(* katipo.start.  Server::start fails when its port is in use, and the     *)
(* second Server is tried only after the first has started.                *)
(***************************************************************************)
Opened == {{}, {"hostServer"}, {"hostServer", "clientServer"}}

Start ==
    /\ "hostServer" \notin running
    /\ running' \in Opened
    /\ looping' = (looping \/ "clientServer" \in running')
    /\ UNCHANGED <<hostVars, clientVars, siteVars, relayVars, sent>>

-----------------------------------------------------------------------------
(***************************************************************************)
(* The host server's handlers.                                             *)
(***************************************************************************)

\* Mutants of Register: the key is stored for the site, or not looked up first.
RegisterSwapped(h, k) ==
    IF k # NoKey /\ siteInfosBySiteKeys[k] = NoOne
    THEN /\ siteInfosBySiteKeys' = [siteInfosBySiteKeys EXCEPT ![k] = k]
         /\ siteInfosByHostIDs' = [siteInfosByHostIDs EXCEPT ![h] = k]
    ELSE UNCHANGED <<siteInfosBySiteKeys, siteInfosByHostIDs>>
RegisterAlways(h, k) ==
    IF k # NoKey
    THEN /\ siteInfosBySiteKeys' = [siteInfosBySiteKeys EXCEPT ![k] = h]
         /\ siteInfosByHostIDs' = [siteInfosByHostIDs EXCEPT ![h] = k]
    ELSE UNCHANGED <<siteInfosBySiteKeys, siteInfosByHostIDs>>

\* A site without a nameKey, or with one that is taken, is refused, but
\* addClient ignores what the script returns and the host stays connected.
Register(h, k) ==
    IF k # NoKey /\ siteInfosBySiteKeys[k] = NoOne
    THEN /\ siteInfosBySiteKeys' = [siteInfosBySiteKeys EXCEPT ![k] = h]
         /\ siteInfosByHostIDs' = [siteInfosByHostIDs EXCEPT ![h] = k]
    ELSE UNCHANGED <<siteInfosBySiteKeys, siteInfosByHostIDs>>

\* hostServer.clientConnected; a siteInfo may lack a nameKey.
HostConnected(h) ==
    /\ looping
    /\ hostServer!Connected(h)
    /\ \E k \in NameKeys \cup {NoKey} :
          /\ nameKey' = [nameKey EXCEPT ![h] = k]
          /\ Register(h, k)
    /\ sent' = <<>>
    /\ UNCHANGED <<startVars, clientVars, relayVars>>

\* Mutant of Unregister: the entry goes by the nameKey the host joined with.
UnregisterByName(h) ==
    /\ siteInfosBySiteKeys' = [k \in NameKeys |->
          IF k = nameKey[h] THEN NoOne ELSE siteInfosBySiteKeys[k]]
    /\ siteInfosByHostIDs' = [siteInfosByHostIDs EXCEPT ![h] = NoKey]

\* hostServer.clientDisconnected
Unregister(h) ==
    IF siteInfosByHostIDs[h] # NoKey
    THEN /\ siteInfosBySiteKeys' =
               [siteInfosBySiteKeys EXCEPT ![siteInfosByHostIDs[h]] = NoOne]
         /\ siteInfosByHostIDs' = [siteInfosByHostIDs EXCEPT ![h] = NoKey]
    ELSE UNCHANGED <<siteInfosBySiteKeys, siteInfosByHostIDs>>

HostDisconnected(h) ==
    /\ looping
    /\ hostServer!Disconnected(h)
    /\ Unregister(h)
    /\ sent' = <<>>
    /\ UNCHANGED <<startVars, clientVars, nameKey, relayVars>>

\* The client that asked, if it is connected, now or again.
Requester(r) == {clientsByHostRequestIDs[r]} \cap knownClients

\* A part of host h's answer to request r: relayHostResponseToClient.
HostAnswers(h, r) ==
    /\ looping
    /\ relayedTo[r] = h
    /\ hostServer!Request(h)
    /\ sent' = IF Requester(r) = {} THEN <<>>
               ELSE << Packet(CHOOSE c \in Requester(r) : TRUE, "part", r) >>
    /\ UNCHANGED <<startVars, clientVars, siteVars, relayVars>>

-----------------------------------------------------------------------------
(***************************************************************************)
(* The client server's handlers.                                           *)
(***************************************************************************)
ClientConnected(c) ==
    /\ looping
    /\ clientServer!Connected(c)
    /\ sent' = <<>>
    /\ UNCHANGED <<startVars, hostVars, siteVars, relayVars>>

ClientDisconnected(c) ==
    /\ looping
    /\ clientServer!Disconnected(c)
    /\ sent' = <<>>
    /\ UNCHANGED <<startVars, hostVars, siteVars, relayVars>>

\* getSiteKey; an empty nameKey asks for the default host.
GetSiteKey(c) ==
    /\ looping
    /\ clientServer!Request(c)
    /\ \E asked \in NameKeys \cup {NoKey} :
          LET k == IF asked = NoKey THEN DefaultHost ELSE asked
          IN  sent' = IF k # NoKey /\ siteInfosBySiteKeys[k] # NoOne
                      THEN << Packet(c, "siteKey", siteInfosBySiteKeys[k]) >>
                      ELSE << Packet(c, "error", NoOne) >>
    /\ UNCHANGED <<startVars, hostVars, siteVars, relayVars>>

\* getSitesForBroadcastKey, which goes on after its answer to the error.
GetSitesForBroadcastKey(c) ==
    /\ looping
    /\ clientServer!Request(c)
    /\ sent' \in { << Packet(c, "sites", NoOne), Packet(c, "error", NoOne) >>,
                   << Packet(c, "error", NoOne) >> }
    /\ UNCHANGED <<startVars, hostVars, siteVars, relayVars>>

\* hostServer->clients knows the host.
Reachable(h) == h \in knownHosts

\* KATIPO_NET_TYPE_REMOTE_HOST_REQUEST, by the public key of a host that may
\* be gone.  The entry in clientsByHostRequestIDs is never removed.
RemoteHostRequest(c, h) ==
    /\ looping
    /\ clientServer!Request(c)
    /\ IF Reachable(h)
       THEN \E r \in Requests :
               /\ relayedTo[r] = NoOne
               /\ \A q \in Requests : q < r => relayedTo[q] # NoOne
               /\ clientsByHostRequestIDs' =
                     [clientsByHostRequestIDs EXCEPT ![r] = c]
               /\ relayedTo' = [relayedTo EXCEPT ![r] = h]
               /\ sent' = << Packet(h, "request", r) >>
       ELSE /\ sent' = << Packet(c, "error", NoOne) >>
            /\ UNCHANGED relayVars
    /\ UNCHANGED <<startVars, hostVars, siteVars>>

-----------------------------------------------------------------------------
TrackerNext ==
    \/ Start
    \/ \E h \in Hosts : \/ HostConnected(h) \/ HostDisconnected(h)
                        \/ \E r \in Requests : HostAnswers(h, r)
    \/ \E c \in Clients : \/ ClientConnected(c) \/ ClientDisconnected(c)
                          \/ GetSiteKey(c) \/ GetSitesForBroadcastKey(c)
                          \/ \E h \in Hosts : RemoteHostRequest(c, h)

TrackerSpec == TrackerInit /\ [][TrackerNext]_trackerVars

-----------------------------------------------------------------------------
(***************************************************************************)
(* Properties.                                                             *)
(***************************************************************************)

\* A host is asked by requests; a client is told of a site's host, of the parts
\* of an answer, or of nothing more.
Packets ==
    [to : Hosts, type : {"request"}, about : Requests]
        \cup [to : Clients, type : {"part"}, about : Requests]
        \cup [to : Clients, type : {"siteKey"}, about : Hosts]
        \cup [to : Clients, type : {"sites", "error"}, about : {NoOne}]

\* Every variable keeps its type.
TrackerTypeOK ==
    /\ running \subseteq {"hostServer", "clientServer"} /\ looping \in BOOLEAN
    /\ knownHosts \subseteq Hosts /\ hostServed \in Hosts \cup {NoOne}
    /\ knownClients \subseteq Clients /\ clientServed \in Clients \cup {NoOne}
    /\ nameKey \in [Hosts -> NameKeys \cup {NoKey}]
    /\ siteInfosBySiteKeys \in [NameKeys -> Hosts \cup {NoOne}]
    /\ siteInfosByHostIDs \in [Hosts -> NameKeys \cup {NoKey}]
    /\ clientsByHostRequestIDs \in [Requests -> Clients \cup {NoOne}]
    /\ relayedTo \in [Requests -> Hosts \cup {NoOne}]
    /\ sent \in Seq(Packets)

\* The two tables of tracker.tui describe the same sites, each of a host that
\* is connected and under the nameKey that host joined with.
RegistryMatches ==
    /\ \A k \in NameKeys : LET h == siteInfosBySiteKeys[k]
          IN h # NoOne => h \in knownHosts /\ nameKey[h] = k /\ siteInfosByHostIDs[h] = k
    /\ \A h \in Hosts : LET k == siteInfosByHostIDs[h]
          IN k # NoKey => siteInfosBySiteKeys[k] = h

\* A nameKey goes to another host only once its holder is gone
\* ("nameKey already in use by another host", tracker.tui).
NameKeptByHolder ==
    [][\A k \in NameKeys :
          siteInfosBySiteKeys[k] # NoOne /\ siteInfosBySiteKeys'[k] # siteInfosBySiteKeys[k]
             => siteInfosBySiteKeys[k] \notin knownHosts']_trackerVars

\* A host that is told "Successfully connected to katipo tracker server, with
\* host name: " its nameKey (host.tui) is the one found under that name.
FoundByName ==
    \A h \in knownHosts : nameKey[h] # NoKey => siteInfosBySiteKeys[nameKey[h]] = h

=============================================================================
