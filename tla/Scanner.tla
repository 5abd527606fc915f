------------------------------- MODULE Scanner -------------------------------
(***************************************************************************)
(* Scanner (src/core/Scanner.cpp) looks for trackers on the local network: *)
(* it connects to every address of the networks this machine is on, a      *)
(* batch in each update, turns each connection that brings a tracker's     *)
(* handshake into a ClientNetInterface, asks that tracker for its sites    *)
(* and reports the answer to the callback of startScan.  An address whose  *)
(* connection closes, or whose sites the callback refuses, is erased.      *)
(* When the whole list has been tried and nothing is left, it is tried     *)
(* once more, and then the scan is complete.                               *)
(*                                                                         *)
(* update() runs in the caller's loop; its parts are the values of pc.     *)
(* The caller starts scans and takes connections between two updates.      *)
(*                                                                         *)
(* An address is <<net, number>>.  connectionsByIP holds for each address  *)
(*   "none"        no entry                                                *)
(*   "raw"         an enet host of the Scanner's, connecting or connected  *)
(*   "handshake", "other", "disconnect"   the same, with an event to serve *)
(*   "closed"      an entry whose host has been destroyed                  *)
(*   "asked"       a ClientNetInterface that has asked for the sites       *)
(*   "answered"    the same, with the answer in its output queue           *)
(*   "reported"    the same, with the answer handed to the callback        *)
(***************************************************************************)
EXTENDS Integers, FiniteSets, SequencesExt

CONSTANTS
    Nets,            \* networks
    LastNumber,      \* the last address of a network (255)
    LocalIPLists,    \* what getLocalIPs may return
    MaxCount,        \* addresses tried in one update (64)
    MaxScans,        \* bound: calls of startScan
    MaxTaken         \* bound: connections taken by the caller

Numbers == 0 .. LastNumber

ASSUME ScannerAssumption ==
    /\ IsFiniteSet(Nets) /\ "localhost" \notin Nets
    /\ LastNumber \in Nat \ {0}
    /\ LocalIPLists \subseteq Seq(Nets \X Numbers)
    /\ MaxCount \in Nat \ {0} /\ MaxScans \in Nat /\ MaxTaken \in Nat

Loopback == <<"localhost", 1>>  \* 127.0.0.1
IPs == {Loopback} \cup (Nets \X Numbers)

Raw       == {"raw", "handshake", "other", "disconnect"}
Interface == {"asked", "answered", "reported"}
Entries   == {"none", "closed"} \cup Raw \cup Interface

VARIABLES
    pc,                  \* where update() is; "idle" between two updates
    complete, hasTriedAgain, scanIndex, scanIPs,
    callbackFunction,    \* it is set
    connectionsByIP, completedIPsToRemove,
    scans,               \* number of scans started
    taken,               \* number of connections taken by the caller
    enetHosts,           \* number of enet hosts created and not destroyed
    tried,       \* history: the <<pass, address>> pairs of this scan tried
    accepted     \* history: the callback accepted an answer of this scan

scanVars == <<complete, hasTriedAgain, scanIndex, scanIPs, callbackFunction>>
mapVars  == <<connectionsByIP, completedIPsToRemove>>
vars == <<pc, scanVars, mapVars, scans, taken, enetHosts, tried, accepted>>

Having(S) == {ip \in IPs : connectionsByIP[ip] \in S}

TypeOK ==
    /\ pc \in {"idle", "poll", "connect", "service", "remove", "finish"}
    /\ complete \in BOOLEAN /\ hasTriedAgain \in BOOLEAN
    /\ scanIPs \in Seq(IPs) /\ scanIndex \in 0 .. Len(scanIPs)
    /\ callbackFunction \in BOOLEAN
    /\ connectionsByIP \in [IPs -> Entries]
    /\ completedIPsToRemove \subseteq IPs
    /\ scans \in 0 .. MaxScans /\ taken \in 0 .. MaxTaken
    /\ enetHosts \in 0 .. (Cardinality(IPs) + MaxTaken)
    /\ tried \subseteq {1, 2} \X IPs /\ accepted \in BOOLEAN

Init ==
    /\ pc = "idle"
    /\ complete = FALSE /\ hasTriedAgain = FALSE
    /\ scanIndex = 0 /\ scanIPs = <<>>
    /\ callbackFunction = FALSE
    /\ connectionsByIP = [ip \in IPs |-> "none"]
    /\ completedIPsToRemove = {}
    /\ scans = 0 /\ taken = 0 /\ enetHosts = 0
    /\ tried = {} /\ accepted = FALSE

pass == IF hasTriedAgain THEN 2 ELSE 1

-----------------------------------------------------------------------------
(***************************************************************************)
(* The caller.                                                             *)
(***************************************************************************)

\* The other addresses of localIP's network, in order.
NetworkOf(localIP) ==
    [n \in 1 .. LastNumber |-> <<localIP[1], IF n <= localIP[2] THEN n - 1 ELSE n>>]

\* An address may come twice: two adapters may be on one network.
getScanIPs(localIPs) ==
    <<Loopback>> \o FlattenSeq([i \in DOMAIN localIPs |-> NetworkOf(localIPs[i])])

\* Mutant of cleanupPreviousScan: hosts that are no interface are left open.
CleanupInterfacesOnly ==
    /\ connectionsByIP' = [ip \in IPs |-> "none"]
    /\ completedIPsToRemove' = {}
    /\ enetHosts' = enetHosts - Cardinality(Having(Interface))

\* Deleting an interface makes it answer the call that is out, but the
\* callback is gone by then and hears nothing.
cleanupPreviousScan ==
    /\ connectionsByIP' = [ip \in IPs |-> "none"]
    /\ completedIPsToRemove' = {}
    /\ enetHosts' = enetHosts - Cardinality(Having(Raw \cup Interface))

\* scanIPs has the loopback address at least: the branch that reports "error"
\* and completes at once is never taken.
StartScan ==
    /\ pc = "idle" /\ scans < MaxScans
    /\ scans' = scans + 1
    /\ cleanupPreviousScan
    /\ callbackFunction' \in BOOLEAN
    /\ complete' = FALSE /\ hasTriedAgain' = FALSE /\ scanIndex' = 0
    /\ \E localIPs \in LocalIPLists : scanIPs' = getScanIPs(localIPs)
    /\ tried' = {} /\ accepted' = FALSE
    /\ UNCHANGED <<pc, taken>>

\* The caller owns the connection from now on.  It asks for the address of a
\* connection it was told of.
GetConnection(ip) ==
    /\ pc = "idle" /\ taken < MaxTaken
    /\ connectionsByIP[ip] = "reported"
    /\ connectionsByIP' = [connectionsByIP EXCEPT ![ip] = "none"]
    /\ taken' = taken + 1
    /\ UNCHANGED <<pc, scanVars, completedIPsToRemove, scans, enetHosts,
                   tried, accepted>>

-----------------------------------------------------------------------------
(***************************************************************************)
(* update(): poll the interfaces, try a batch, service the others, remove  *)
(* what is done, and see whether the pass is over.                         *)
(***************************************************************************)
BeginUpdate ==
    /\ pc = "idle"
    /\ pc' = IF complete THEN "service" ELSE "poll"
    /\ UNCHANGED <<scanVars, mapVars, scans, taken, enetHosts, tried, accepted>>

\* The getSites callback.  The call was answered, or its link was lost and the
\* interface answered for the tracker: both are reported as "connected".  An
\* address the callback refuses is to be removed.
PollAnswer(ip) ==
    /\ pc = "poll"
    /\ connectionsByIP[ip] = "answered"
    /\ connectionsByIP' = [connectionsByIP EXCEPT ![ip] = "reported"]
    /\ IF callbackFunction
       THEN \/ /\ accepted' = TRUE
               /\ UNCHANGED completedIPsToRemove
            \/ /\ completedIPsToRemove' = completedIPsToRemove \cup {ip}
               /\ UNCHANGED accepted
       ELSE UNCHANGED <<accepted, completedIPsToRemove>>
    /\ UNCHANGED <<pc, scanVars, scans, taken, enetHosts, tried>>

\* An answer that comes after its interface was polled waits for the next
\* update, as does one that comes after this step.
PollDone ==
    /\ pc = "poll" /\ Having({"answered"}) = {}
    /\ pc' = "connect"
    /\ UNCHANGED <<scanVars, mapVars, scans, taken, enetHosts, tried, accepted>>

batchEnd ==
    IF scanIndex + MaxCount < Len(scanIPs) THEN scanIndex + MaxCount
    ELSE Len(scanIPs)

\* The addresses of the batch without a host or an interface; creating the host
\* of some of them may fail, and their entries are erased.
Connect ==
    LET batch == {scanIPs[i] : i \in (scanIndex + 1) .. batchEnd}
        new   == batch \cap Having({"none", "closed"})
    IN  /\ pc = "connect"
        /\ scanIndex' = batchEnd
        /\ \E failed \in SUBSET new :
              /\ connectionsByIP' = [ip \in IPs |->
                    CASE ip \in failed       -> "none"
                      [] ip \in new \ failed -> "raw"
                      [] OTHER               -> connectionsByIP[ip]]
              /\ enetHosts' = enetHosts + Cardinality(new \ failed)
        /\ tried' = tried \cup ({pass} \X batch)
        /\ pc' = "service"
        /\ UNCHANGED <<complete, hasTriedAgain, scanIPs, callbackFunction,
                       completedIPsToRemove, scans, taken, accepted>>

\* The host is destroyed, and the entry is left for the end of the update.
Close(ip) ==
    /\ connectionsByIP' = [connectionsByIP EXCEPT ![ip] = "closed"]
    /\ completedIPsToRemove' = completedIPsToRemove \cup {ip}
    /\ enetHosts' = enetHosts - 1

\* Mutant of ServiceDisconnect: an entry whose host is destroyed is never removed.
DisconnectForgotten(ip) ==
    /\ pc = "service"
    /\ connectionsByIP[ip] = "disconnect"
    /\ connectionsByIP' = [connectionsByIP EXCEPT ![ip] = "closed"]
    /\ enetHosts' = enetHosts - 1
    /\ UNCHANGED <<pc, scanVars, completedIPsToRemove, scans, taken, tried, accepted>>

\* The interface takes the host over, and its thread sends the call.
Handshake(ip) ==
    /\ connectionsByIP' = [connectionsByIP EXCEPT ![ip] = "asked"]
    /\ UNCHANGED <<completedIPsToRemove, enetHosts>>

\* A packet: anything but a handshake ends the connection.
HandleReceivedData(ip) ==
    /\ pc = "service"
    /\ connectionsByIP[ip] \in {"handshake", "other"}
    /\ IF connectionsByIP[ip] = "handshake" THEN Handshake(ip) ELSE Close(ip)
    /\ UNCHANGED <<pc, scanVars, scans, taken, tried, accepted>>

ServiceDisconnect(ip) ==
    /\ pc = "service"
    /\ connectionsByIP[ip] = "disconnect"
    /\ Close(ip)
    /\ UNCHANGED <<pc, scanVars, scans, taken, tried, accepted>>

ServiceDone ==
    /\ pc = "service" /\ Having({"handshake", "other", "disconnect"}) = {}
    /\ pc' = "remove"
    /\ UNCHANGED <<scanVars, mapVars, scans, taken, enetHosts, tried, accepted>>

\* Mutant of RemoveCompleted: the interface is not deleted.
RemoveEntryOnly ==
    /\ pc = "remove"
    /\ connectionsByIP' = [ip \in IPs |->
          IF ip \in completedIPsToRemove THEN "none" ELSE connectionsByIP[ip]]
    /\ completedIPsToRemove' = {}
    /\ pc' = "finish"
    /\ UNCHANGED <<scanVars, scans, taken, enetHosts, tried, accepted>>

RemoveCompleted ==
    /\ pc = "remove"
    /\ connectionsByIP' = [ip \in IPs |->
          IF ip \in completedIPsToRemove THEN "none" ELSE connectionsByIP[ip]]
    /\ enetHosts' = enetHosts - Cardinality(completedIPsToRemove \cap Having(Interface))
    /\ completedIPsToRemove' = {}
    /\ pc' = "finish"
    /\ UNCHANGED <<scanVars, scans, taken, tried, accepted>>

\* Mutant of passOver: the rest of the list is not waited for.
MapOver == ~complete /\ Having(Entries \ {"none"}) = {}
passOver ==
    /\ ~complete
    /\ scanIndex >= Len(scanIPs)
    /\ Having(Entries \ {"none"}) = {}

Finish ==
    /\ pc = "finish"
    /\ \/ /\ ~passOver
          /\ UNCHANGED <<complete, hasTriedAgain, scanIndex, callbackFunction>>
       \/ /\ passOver /\ ~hasTriedAgain
          /\ hasTriedAgain' = TRUE /\ scanIndex' = 0
          /\ UNCHANGED <<complete, callbackFunction>>
       \/ /\ passOver /\ hasTriedAgain
          /\ complete' = TRUE /\ callbackFunction' = FALSE
          /\ UNCHANGED <<hasTriedAgain, scanIndex>>
    /\ pc' = "idle"
    /\ UNCHANGED <<scanIPs, mapVars, scans, taken, enetHosts, tried, accepted>>

Update ==
    \/ BeginUpdate \/ PollDone \/ Connect \/ ServiceDone \/ RemoveCompleted \/ Finish
    \/ \E ip \in IPs : PollAnswer(ip) \/ HandleReceivedData(ip) \/ ServiceDisconnect(ip)

-----------------------------------------------------------------------------
(***************************************************************************)
(* The network: enet and the interfaces' threads, at any time.             *)
(***************************************************************************)

\* enet_peer_timeout makes a connection that nobody answers disconnect.
Arrives(ip) ==
    /\ connectionsByIP[ip] = "raw"
    /\ \E event \in {"handshake", "other", "disconnect"} :
          connectionsByIP' = [connectionsByIP EXCEPT ![ip] = event]
    /\ UNCHANGED <<pc, scanVars, completedIPsToRemove, scans, taken, enetHosts,
                   tried, accepted>>

\* The tracker's answer, or the interface's own when the link is lost.
Answers(ip) ==
    /\ connectionsByIP[ip] = "asked"
    /\ connectionsByIP' = [connectionsByIP EXCEPT ![ip] = "answered"]
    /\ UNCHANGED <<pc, scanVars, completedIPsToRemove, scans, taken, enetHosts,
                   tried, accepted>>

Next ==
    \/ StartScan \/ Update
    \/ \E ip \in IPs : GetConnection(ip) \/ Arrives(ip) \/ Answers(ip)

Spec == Init /\ [][Next]_vars

\* update() is called again and again and returns; a connection brings an event
\* (its timeout, at the latest); an interface answers every call.
FairSpec ==
    /\ Spec /\ WF_vars(Update)
    /\ \A ip \in IPs : WF_vars(Arrives(ip)) /\ WF_vars(Answers(ip))

-----------------------------------------------------------------------------
(***************************************************************************)
(* Properties.                                                             *)
(***************************************************************************)

\* Every enet host is destroyed once: the open ones are those of the map's
\* connections and those of the connections that were taken (the branches of
\* update, handleReceivedData and cleanupPreviousScan that destroy hosts).
HostsOwned == enetHosts = Cardinality(Having(Raw \cup Interface)) + taken

\* When a scan is complete every address has been tried twice, whatever the
\* batches, the failures to create a host and the connections taken meanwhile,
\* and nothing is left in the map (the last test of update).
CompleteScanTriedAll ==
    complete => /\ {1, 2} \X ToSet(scanIPs) \subseteq tried
                /\ Having(Entries \ {"none"}) = {}

\* A scan completes, unless a connection that was reported and accepted is never
\* taken: every other address leaves the map (update, completedIPsToRemove).
Untaken == Having({"reported"}) \ completedIPsToRemove # {}
ScanCompletes == ~complete ~> (complete \/ Untaken)

\* The log of update at the second pass, "Found no results, trying again...":
\* the list is tried again only when no tracker of the first pass was accepted.
RetriedWithoutResults == [][hasTriedAgain' /\ ~hasTriedAgain => ~accepted]_vars

=============================================================================
