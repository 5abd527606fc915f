------------------------------ MODULE ClientNet ------------------------------
(***************************************************************************)
(* ClientNetInterface (src/core/ClientNetInterface.cpp): one connection of *)
(* a client or of a scanner to a tracker.  Two threads share the object.   *)
(* The "net" thread (startThread) owns the enet host: it drains inputQueue *)
(* into the peer and turns enet events into outputs.  The "owner" thread   *)
(* polls (pollNetEvents): it runs the script callbacks, tears the          *)
(* connection down (disconnect) and brings it up again (connect).          *)
(*                                                                         *)
(* A payload is the identity of the call it belongs to.  enet is external: *)
(* a session is a FIFO reliable link that may drop at any moment, and then *)
(* loses what was in flight and reports DISCONNECT as its last event.      *)
(* enet changes state only inside enet_host_service, that is while the net *)
(* thread is at "service".                                                 *)
(***************************************************************************)
EXTENDS Integers, Sequences, FiniteSets

CONSTANTS MaxCalls,      \* bound: the calls a run places
          Parts,         \* packets of a host's multipart answer
          MaxSessions,   \* bound: connections a run opens
          Retry          \* katipo.retry

ASSUME ConstantsAssumption ==
    /\ MaxCalls \in Nat \ {0}
    /\ Parts \in Nat \ {0}
    /\ MaxSessions \in Nat \ {0}
    /\ Retry \in BOOLEAN

CallIDs == 0 .. MaxCalls - 1
Offsets == 0 .. Parts - 1

VARIABLES
    pc,                 \* where each thread stands
    connected, disconnected, needsToExit,
    peer,               \* enetPeer is not null
    reconnectTimer,     \* reconnectTimer is not null
    destroying,         \* disconnect() runs inside the destructor
    inputQueue, outputQueue,
    callbacksByID,      \* "absent", "live", or "null" (an entry without func)
    callbacksByIDCopy,  \* the copy disconnect() walks
    functionCallbackIDCounter,
    downloads,          \* inProgressMultiPartDownloadsByRequestID
    pushing,            \* the call whose packet a thread is about to queue
    kind,               \* whom a call addresses
    events, link, wire, \* enet: pending events, peer state, requests in flight
    hostNext,           \* next part of each relayed call, 0 if not relayed
    session,            \* connections opened so far
    called,             \* history: times each script callback ran
    encodeFailed,       \* history: host calls that failed to encode
    crashed             \* "no", or the null pointer the process died of

threadVars == <<pc, pushing>>
flagVars   == <<connected, disconnected, needsToExit, peer, reconnectTimer,
                destroying>>
callVars   == <<callbacksByID, functionCallbackIDCounter, kind, called,
                encodeFailed>>
enetVars   == <<events, link, wire, hostNext, session>>
vars == <<threadVars, flagVars, inputQueue, outputQueue, callVars,
          callbacksByIDCopy, downloads, enetVars, crashed>>

Thread     == {"net", "owner"}
NetPC      == {"none", "top", "drain", "service", "handshake", "onConnected",
               "push", "exited"}
OwnerPC    == {"created", "poll", "push", "notify", "join", "fail", "dead"}
EntryState == {"absent", "live", "null"}

\* What enet delivers and what the net thread puts in outputQueue.
Message == [type : {"handshake", "response", "part", "disconnect"},
            id : CallIDs, offset : Offsets]
Handshake       == [type |-> "handshake",  id |-> 0, offset |-> 0]
Disconnect      == [type |-> "disconnect", id |-> 0, offset |-> 0]
Response(id)    == [type |-> "response", id |-> id, offset |-> 0]
Part(id, n)     == [type |-> "part", id |-> id, offset |-> n]

NoCallbacks == [id \in CallIDs |-> "absent"]
NoDownload  == [recievedBytes |-> 0, data |-> {}]

\* Thread t stands at this label, in a process that has not died.
At(t, label)   == crashed = "no" /\ pc[t] = label
Goto(t, label) == pc' = [pc EXCEPT ![t] = label]

-----------------------------------------------------------------------------
(***************************************************************************)
(* Both constructors.  The scanner's takes over a peer that has already    *)
(* been greeted, sends the join request itself and only then starts the    *)
(* net thread; Scanner::handleReceivedData next places its one call.       *)
(***************************************************************************)
Init ==
    /\ \E fromScanner \in BOOLEAN :
          /\ pc = [t \in Thread |-> IF t = "net" THEN "top"
                                    ELSE IF fromScanner THEN "created" ELSE "poll"]
          /\ connected = fromScanner
          /\ link = IF fromScanner THEN "joined" ELSE "connecting"
    /\ disconnected = FALSE
    /\ needsToExit = FALSE
    /\ peer = TRUE
    /\ reconnectTimer = FALSE
    /\ destroying = FALSE
    /\ inputQueue = <<>>
    /\ outputQueue = <<>>
    /\ callbacksByID = NoCallbacks
    /\ callbacksByIDCopy = NoCallbacks
    /\ functionCallbackIDCounter = 0
    /\ downloads = [id \in CallIDs |-> NoDownload]
    /\ pushing = [t \in Thread |-> 0]
    /\ kind = [id \in CallIDs |-> "tracker"]
    /\ events = <<>>
    /\ wire = {}
    /\ hostNext = [id \in CallIDs |-> 0]
    /\ session = 1
    /\ called = [id \in CallIDs |-> 0]
    /\ encodeFailed = {}
    /\ crashed = "no"

-----------------------------------------------------------------------------
(***************************************************************************)
(* Placing a call.  Whatever callback runs may place one or not.  `entries`*)
(* and `calls` are callbacksByID and called as the running callback finds  *)
(* them, and `after` is where the thread goes if nothing is to be queued.  *)
(***************************************************************************)

\* sendData's test; the push itself is a later step of the same thread.
CanSend == peer /\ ~disconnected

PlaceNone(t, entries, calls, after) ==
    /\ callbacksByID' = entries
    /\ called' = calls
    /\ Goto(t, after)
    /\ UNCHANGED <<functionCallbackIDCounter, kind, encodeFailed, pushing>>

\* callTrackerFunction or callRemoteHostFunction, encoded and handed to sendData.
PlaceEncoded(t, k, entries, calls, after) ==
    LET id == functionCallbackIDCounter
    IN  /\ id < MaxCalls
        /\ functionCallbackIDCounter' = id + 1
        /\ kind' = [kind EXCEPT ![id] = k]
        /\ callbacksByID' = [entries EXCEPT ![id] = "live"]
        /\ called' = calls
        /\ pushing' = [pushing EXCEPT ![t] = IF CanSend THEN id ELSE @]
        /\ Goto(t, IF CanSend THEN "push" ELSE after)
        /\ UNCHANGED encodeFailed

\* crypto_box_easy may refuse a key.  The encode error paths run the callback at
\* once.  callTrackerFunction then erases the entry; callRemoteHostFunction
\* returns and leaves it registered.
PlaceUnencodable(t, k, entries, calls, after) ==
    LET id == functionCallbackIDCounter
    IN  /\ id < MaxCalls
        /\ functionCallbackIDCounter' = id + 1
        /\ kind' = [kind EXCEPT ![id] = k]
        /\ callbacksByID' =
              [entries EXCEPT ![id] = IF k = "host" THEN "live" ELSE "absent"]
        /\ called' = [calls EXCEPT ![id] = @ + 1]
        /\ encodeFailed' =
              IF k = "host" THEN encodeFailed \cup {id} ELSE encodeFailed
        /\ Goto(t, after)
        /\ UNCHANGED pushing

PlaceCall(t, kinds, entries, calls, after) ==
    \/ PlaceNone(t, entries, calls, after)
    \/ \E k \in kinds : \/ PlaceEncoded(t, k, entries, calls, after)
                        \/ PlaceUnencodable(t, k, entries, calls, after)

\* sendData's inputQueue->push, by either thread.
Push(t, after) ==
    /\ At(t, "push")
    /\ inputQueue' = Append(inputQueue, pushing[t])
    /\ Goto(t, after)
    /\ UNCHANGED <<flagVars, outputQueue, callVars, callbacksByIDCopy,
                   downloads, pushing, enetVars, crashed>>

-----------------------------------------------------------------------------
(***************************************************************************)
(* The net thread.                                                         *)
(***************************************************************************)
\* Mutant of NetTop: drains before the join request is sent.
NetTopAlwaysDrains ==
    /\ At("net", "top")
    /\ Goto("net", "drain")
    /\ UNCHANGED <<pushing, flagVars, inputQueue, outputQueue, callVars,
                   callbacksByIDCopy, downloads, enetVars, crashed>>

NetTop ==
    /\ At("net", "top")
    /\ Goto("net", IF connected THEN "drain" ELSE "service")
    /\ UNCHANGED <<pushing, flagVars, inputQueue, outputQueue, callVars,
                   callbacksByIDCopy, downloads, enetVars, crashed>>

\* One turn of the drain loop.  enet_peer_send refuses a peer that is not
\* connected, and the request is lost; it dereferences a null peer.
NetSend ==
    /\ At("net", "drain")
    /\ inputQueue # <<>>
    /\ inputQueue' = Tail(inputQueue)
    /\ IF peer
       THEN /\ wire' = IF link \notin {"down", "connecting"}
                       THEN wire \cup {Head(inputQueue)} ELSE wire
            /\ UNCHANGED crashed
       ELSE /\ crashed' = "nullPeer"
            /\ UNCHANGED wire
    /\ UNCHANGED <<threadVars, flagVars, outputQueue, callVars,
                   callbacksByIDCopy, downloads, events, link, hostNext,
                   session>>

NetDrainDone ==
    /\ At("net", "drain")
    /\ inputQueue = <<>>
    /\ Goto("net", "service")
    /\ UNCHANGED <<pushing, flagVars, inputQueue, outputQueue, callVars,
                   callbacksByIDCopy, downloads, enetVars, crashed>>

\* enet_host_service returned an event of this type and needsToExit is not set.
Receives(type) ==
    /\ At("net", "service")
    /\ ~needsToExit
    /\ events # <<>>
    /\ Head(events).type = type
    /\ events' = Tail(events)

NetHandshake ==
    /\ Receives("handshake")
    /\ Goto("net", "handshake")
    /\ UNCHANGED <<pushing, flagVars, inputQueue, outputQueue, callVars,
                   callbacksByIDCopy, downloads, link, wire, hostNext, session,
                   crashed>>

\* sendInitialData: the join request, then connected = true.
NetSendInitialData ==
    /\ At("net", "handshake")
    /\ link' = IF link = "greeted" THEN "joined" ELSE link
    /\ connected' = TRUE
    /\ Goto("net", "onConnected")
    /\ UNCHANGED <<pushing, disconnected, needsToExit, peer, reconnectTimer,
                   destroying, inputQueue, outputQueue, callVars,
                   callbacksByIDCopy, downloads, events, wire, hostNext,
                   session, crashed>>

\* The script's onConnected, run on this thread.
NetOnConnected ==
    /\ At("net", "onConnected")
    /\ PlaceCall("net", {"tracker"}, callbacksByID, called, "service")
    /\ UNCHANGED <<flagVars, inputQueue, outputQueue, callbacksByIDCopy,
                   downloads, enetVars, crashed>>

NetPush == Push("net", "service")

NetData ==
    /\ Receives("response") \/ Receives("part")
    /\ outputQueue' = Append(outputQueue, Head(events))
    /\ UNCHANGED <<threadVars, flagVars, inputQueue, callVars,
                   callbacksByIDCopy, downloads, link, wire, hostNext, session,
                   crashed>>

\* gotDisconnectEvent leaves the event loop, and startThread goes round again.
NetDisconnectEvent ==
    /\ Receives("disconnect")
    /\ peer' = FALSE
    /\ outputQueue' = Append(outputQueue, Disconnect)
    /\ Goto("net", "top")
    /\ UNCHANGED <<pushing, connected, disconnected, needsToExit,
                   reconnectTimer, destroying, inputQueue, callVars,
                   callbacksByIDCopy, downloads, link, wire, hostNext, session,
                   crashed>>

NetServiceDone ==
    /\ At("net", "service")
    /\ ~needsToExit
    /\ events = <<>>
    /\ Goto("net", "top")
    /\ UNCHANGED <<pushing, flagVars, inputQueue, outputQueue, callVars,
                   callbacksByIDCopy, downloads, enetVars, crashed>>

\* needsToExit is tested after each event and after the loop: what enet still
\* held is dropped and the thread function returns.
NetExit ==
    /\ At("net", "service")
    /\ needsToExit
    /\ Goto("net", "exited")
    /\ UNCHANGED <<pushing, flagVars, inputQueue, outputQueue, callVars,
                   callbacksByIDCopy, downloads, enetVars, crashed>>

NetStep == \/ NetTop \/ NetSend \/ NetDrainDone \/ NetHandshake
           \/ NetSendInitialData \/ NetOnConnected \/ NetPush \/ NetData
           \/ NetDisconnectEvent \/ NetServiceDone \/ NetExit

-----------------------------------------------------------------------------
(***************************************************************************)
(* The owner thread: pollNetEvents and what it calls.                      *)
(***************************************************************************)

\* Scanner::handleReceivedData calls getSitesForBroadcastKey on the new object.
ScannerCall ==
    /\ At("owner", "created")
    /\ PlaceCall("owner", {"tracker"}, callbacksByID, called, "poll")
    /\ UNCHANGED <<flagVars, inputQueue, outputQueue, callbacksByIDCopy,
                   downloads, enetVars, crashed>>

OwnerPush == Push("owner", "poll")

StartReconnectTimer ==
    /\ At("owner", "poll")
    /\ disconnected /\ ~reconnectTimer /\ Retry
    /\ reconnectTimer' = TRUE
    /\ UNCHANGED <<threadVars, connected, disconnected, needsToExit, peer,
                   destroying, inputQueue, outputQueue, callVars,
                   callbacksByIDCopy, downloads, enetVars, crashed>>

ResetFlags == disconnected' = FALSE /\ needsToExit' = FALSE

\* Mutant of NewPeer: the host is made and no peer asked for.
NewPeerForgotten == link' = "connecting" /\ UNCHANGED peer

NewPeer == peer' = TRUE /\ link' = "connecting"

\* The timer has run out: connect().  Nothing clears the queues, callbacksByID
\* or connected, and the keys are those of the first session.
Reconnect ==
    /\ At("owner", "poll")
    /\ disconnected /\ reconnectTimer
    /\ pc["net"] = "none"
    /\ session < MaxSessions
    /\ reconnectTimer' = FALSE
    /\ ResetFlags
    /\ NewPeer
    /\ session' = session + 1
    /\ Goto("net", "top")
    /\ UNCHANGED <<pushing, connected, destroying, inputQueue, outputQueue,
                   callVars, callbacksByIDCopy, downloads, events, wire,
                   hostNext, crashed>>

\* Mutant of Polls: a disconnection overtakes what was received before it.
PollsUrgentFirst(type) ==
    /\ At("owner", "poll")
    /\ ~disconnected
    /\ \E n \in DOMAIN outputQueue :
          /\ outputQueue[n].type = type
          /\ type = "disconnect" \/ n = 1
          /\ outputQueue' = SubSeq(outputQueue, 1, n - 1)
                               \o SubSeq(outputQueue, n + 1, Len(outputQueue))

\* pollNetEvents pops an output of this type.
Polls(type) ==
    /\ At("owner", "poll")
    /\ ~disconnected
    /\ outputQueue # <<>>
    /\ Head(outputQueue).type = type
    /\ outputQueue' = Tail(outputQueue)

\* func->call on an entry of callbacksByID, which is then gone.  An absent
\* entry is skipped (count), an entry made by operator[] has no func.
CallBack(id) ==
    \/ /\ callbacksByID[id] = "absent"
       /\ UNCHANGED <<callVars, threadVars, crashed>>
    \/ /\ callbacksByID[id] = "null"
       /\ crashed' = "nullFunc"
       /\ UNCHANGED <<callVars, threadVars>>
    \/ /\ callbacksByID[id] = "live"
       /\ PlaceCall("owner", {"tracker", "host"},
                    [callbacksByID EXCEPT ![id] = "absent"],
                    [called EXCEPT ![id] = @ + 1], "poll")
       /\ UNCHANGED crashed

\* FUNCTION_CALL_RESPONSE_TO_CLIENT_FROM_TRACKER
PollResponse ==
    /\ Polls("response")
    /\ CallBack(Head(outputQueue).id)
    /\ UNCHANGED <<flagVars, inputQueue, callbacksByIDCopy, downloads, enetVars>>

\* Mutant of Filled: the part is copied one place too far.
FilledOffByOne(download, n) == [recievedBytes |-> download.recievedBytes + 1,
                                data |-> download.data \cup {n + 1}]

\* Mutant of IsComplete: the test of the code commented out in checkEnetEvents,
\* which takes the part that reaches the end for the last to arrive.
IsAtEnd(download) == Parts - 1 \in download.data

\* The download once the part is copied in; a part counts one.
Filled(download, n) == [recievedBytes |-> download.recievedBytes + 1,
                        data |-> download.data \cup {n}]
IsComplete(download) == download.recievedBytes >= Parts

\* GET_RESPONSE_TO_CLIENT_FROM_HOST, the part that completes the count.
PollLastPart ==
    /\ Polls("part")
    /\ LET m == Head(outputQueue)
       IN  /\ IsComplete(Filled(downloads[m.id], m.offset))
           /\ downloads' = [downloads EXCEPT ![m.id] = NoDownload]
           /\ CallBack(m.id)
    /\ UNCHANGED <<flagVars, inputQueue, callbacksByIDCopy, enetVars>>

\* An earlier part: reading callbacksByID[callbackID].progressCallback makes
\* an entry when there is none.
PollProgress ==
    /\ Polls("part")
    /\ LET m == Head(outputQueue)
           download == Filled(downloads[m.id], m.offset)
       IN  /\ ~IsComplete(download)
           /\ downloads' = [downloads EXCEPT ![m.id] = download]
           /\ callbacksByID' = [callbacksByID EXCEPT
                 ![m.id] = IF @ = "absent" THEN "null" ELSE @]
    /\ UNCHANGED <<threadVars, flagVars, inputQueue, functionCallbackIDCounter,
                   kind, called, encodeFailed, callbacksByIDCopy, enetVars,
                   crashed>>

RaiseFlags == needsToExit' = TRUE /\ disconnected' = TRUE

\* disconnect() as far as the flags; Destroy is its call by the destructor.
BeginDisconnect ==
    /\ RaiseFlags
    /\ Goto("owner", "notify")
    /\ UNCHANGED <<pushing, connected, peer, reconnectTimer, inputQueue,
                   callVars, callbacksByIDCopy, downloads, enetVars, crashed>>

PollDisconnected ==
    /\ Polls("disconnect")
    /\ BeginDisconnect
    /\ UNCHANGED destroying

\* The owner deletes the interface, as the scanner does when it is done with
\* one; disconnect() returns at once when it has already run.
Destroy ==
    /\ At("owner", "poll")
    /\ destroying' = TRUE
    /\ \/ /\ ~disconnected
          /\ BeginDisconnect
          /\ UNCHANGED outputQueue
       \/ /\ disconnected
          /\ Goto("owner", "dead")
          /\ UNCHANGED <<pushing, connected, disconnected, needsToExit, peer,
                         reconnectTimer, inputQueue, outputQueue, callVars,
                         callbacksByIDCopy, downloads, enetVars, crashed>>

\* onDisconnected or onConnectionFailed, then connected = false.
Notify ==
    /\ At("owner", "notify")
    /\ PlaceCall("owner", {"tracker"}, callbacksByID, called, "join")
    /\ connected' = FALSE
    /\ UNCHANGED <<disconnected, needsToExit, peer, reconnectTimer, destroying,
                   inputQueue, outputQueue, callbacksByIDCopy, downloads,
                   enetVars, crashed>>

\* Mutants of TakeCallbacks: the map is not cleared, or not copied.
TakeCallbacksUncleared ==
    callbacksByIDCopy' = callbacksByID /\ UNCHANGED callbacksByID
TakeCallbacksUncopied ==
    callbacksByID' = NoCallbacks /\ UNCHANGED callbacksByIDCopy

TakeCallbacks ==
    callbacksByIDCopy' = callbacksByID /\ callbacksByID' = NoCallbacks

\* thread->join() returns; the peer and the enet host go, and callbacksByID is
\* moved to the copy that is walked next.
Join ==
    /\ At("owner", "join")
    /\ pc["net"] = "exited"
    /\ pc' = [pc EXCEPT !["net"] = "none", !["owner"] = "fail"]
    /\ peer' = FALSE
    /\ link' = "down"
    /\ events' = <<>>
    /\ wire' = {}
    /\ TakeCallbacks
    /\ UNCHANGED <<pushing, connected, disconnected, needsToExit,
                   reconnectTimer, destroying, inputQueue, outputQueue,
                   functionCallbackIDCounter, kind, called, encodeFailed,
                   downloads, hostNext, session, crashed>>

\* The next entry of the copy, in the order of the ids, hears 'not connected'.
FailCallback ==
    /\ At("owner", "fail")
    /\ \E id \in CallIDs :
          /\ callbacksByIDCopy[id] # "absent"
          /\ \A j \in CallIDs : j < id => callbacksByIDCopy[j] = "absent"
          /\ callbacksByIDCopy' = [callbacksByIDCopy EXCEPT ![id] = "absent"]
          /\ \/ /\ callbacksByIDCopy[id] = "null"
                /\ crashed' = "nullFunc"
                /\ UNCHANGED <<callVars, threadVars>>
             \/ /\ callbacksByIDCopy[id] = "live"
                /\ PlaceCall("owner", {"tracker"}, callbacksByID,
                             [called EXCEPT ![id] = @ + 1], "fail")
                /\ UNCHANGED crashed
    /\ UNCHANGED <<flagVars, inputQueue, outputQueue, downloads, enetVars>>

FailDone ==
    /\ At("owner", "fail")
    /\ callbacksByIDCopy = NoCallbacks
    /\ Goto("owner", IF destroying THEN "dead" ELSE "poll")
    /\ UNCHANGED <<pushing, flagVars, inputQueue, outputQueue, callVars,
                   callbacksByIDCopy, downloads, enetVars, crashed>>

OwnerStep == \/ ScannerCall \/ OwnerPush \/ StartReconnectTimer \/ Reconnect
             \/ PollResponse \/ PollLastPart \/ PollProgress
             \/ PollDisconnected \/ Notify \/ Join \/ FailCallback \/ FailDone

-----------------------------------------------------------------------------
(***************************************************************************)
(* enet, the tracker and the hosts behind it.                              *)
(***************************************************************************)
enetOnly == <<threadVars, flagVars, inputQueue, outputQueue, callVars,
              callbacksByIDCopy, downloads, session, crashed>>

\* The CONNECT event is only logged.
EnetConnect ==
    /\ At("net", "service")
    /\ link = "connecting"
    /\ link' = "connected"
    /\ UNCHANGED <<enetOnly, events, wire, hostNext>>

\* The tracker greets every new peer (sendInitialHandshake).
TrackerGreets ==
    /\ At("net", "service")
    /\ link = "connected"
    /\ link' = "greeted"
    /\ events' = Append(events, Handshake)
    /\ UNCHANGED <<enetOnly, wire, hostNext>>

\* A timeout, a refusal or a reset: received packets not yet delivered are gone.
EnetDrop ==
    /\ At("net", "service")
    /\ link # "down"
    /\ link' = "down"
    /\ events' = <<Disconnect>>
    /\ wire' = {}
    /\ UNCHANGED <<enetOnly, hostNext>>

\* A registered function answers once, not at all, or twice
\* (getSitesForBroadcastKey in tracker.tui lacks a return).
TrackerAnswers ==
    /\ At("net", "service")
    /\ link = "joined"
    /\ \E id \in wire :
          /\ kind[id] = "tracker"
          /\ wire' = wire \ {id}
          /\ \E answers \in {<<>>, <<Response(id)>>, <<Response(id), Response(id)>>} :
                events' = events \o answers
    /\ UNCHANGED <<enetOnly, link, hostNext>>

\* A remote host request is relayed, or answered with an error.
TrackerRelays ==
    /\ At("net", "service")
    /\ link = "joined"
    /\ \E id \in wire :
          /\ kind[id] = "host"
          /\ wire' = wire \ {id}
          /\ \/ /\ hostNext' = [hostNext EXCEPT ![id] = 1]
                /\ UNCHANGED events
             \/ /\ events' = Append(events, Response(id))
                /\ UNCHANGED hostNext
    /\ UNCHANGED <<enetOnly, link>>

\* The tracker hands on the next part of a host's answer, to whatever session
\* of this client is joined, or loses it when there is none.
HostPart ==
    /\ crashed = "no"
    /\ \E id \in CallIDs :
          /\ hostNext[id] \in 1 .. Parts
          /\ hostNext' = [hostNext EXCEPT ![id] = @ + 1]
          /\ \/ /\ link = "joined" /\ At("net", "service")
                /\ events' = Append(events, Part(id, hostNext[id] - 1))
             \/ /\ link # "joined"
                /\ UNCHANGED events
    /\ UNCHANGED <<enetOnly, link, wire>>

EnetStep == \/ EnetConnect \/ TrackerGreets \/ EnetDrop
            \/ TrackerAnswers \/ TrackerRelays \/ HostPart

-----------------------------------------------------------------------------
Next == NetStep \/ OwnerStep \/ Destroy \/ EnetStep

Spec == Init /\ [][Next]_vars

\* Both threads are scheduled by the operating system; nothing is assumed of
\* the network or of the tracker.
FairSpec == /\ Spec
            /\ WF_vars(NetStep)
            /\ WF_vars(OwnerStep)

-----------------------------------------------------------------------------
(***************************************************************************)
(* Invariants.                                                             *)
(***************************************************************************)

ThreadsTyped ==
    /\ pc \in [Thread -> NetPC \cup OwnerPC]
    /\ pc["net"] \in NetPC /\ pc["owner"] \in OwnerPC
    /\ pushing \in [Thread -> CallIDs]
FlagsTyped ==
    /\ connected \in BOOLEAN /\ disconnected \in BOOLEAN
    /\ needsToExit \in BOOLEAN /\ peer \in BOOLEAN
    /\ reconnectTimer \in BOOLEAN /\ destroying \in BOOLEAN
    /\ crashed \in {"no", "nullPeer", "nullFunc"}
QueuesTyped ==
    /\ inputQueue \in Seq(CallIDs)
    /\ outputQueue \in Seq(Message)
CallsTyped ==
    /\ callbacksByID \in [CallIDs -> EntryState]
    /\ functionCallbackIDCounter \in 0 .. MaxCalls
    /\ kind \in [CallIDs -> {"tracker", "host"}]
    /\ called \in [CallIDs -> Nat]
    /\ encodeFailed \subseteq CallIDs
TablesTyped ==
    /\ callbacksByIDCopy \in [CallIDs -> EntryState]
    /\ downloads \in [CallIDs -> [recievedBytes : Nat, data : SUBSET Offsets]]
EnetTyped ==
    /\ events \in Seq(Message)
    /\ link \in {"down", "connecting", "connected", "greeted", "joined"}
    /\ wire \subseteq CallIDs
    /\ hostNext \in [CallIDs -> 0 .. Parts + 1]
    /\ session \in 1 .. MaxSessions

\* Every variable keeps its type, and each thread its own labels.
TypeOK == /\ ThreadsTyped /\ FlagsTyped /\ QueuesTyped
          /\ CallsTyped /\ TablesTyped /\ EnetTyped

\* The call still has a callback waiting, in the map or in the copy that
\* disconnect() walks.
Owed(id) == callbacksByID[id] = "live" \/ callbacksByIDCopy[id] = "live"

\* Each call the script placed is accounted for: its callback is still owed an
\* answer and has had none, or it has run exactly once and is forgotten.  No
\* order of answers, disconnections, reconnections and late host parts loses a
\* callback or runs it twice (callbacksByID in pollNetEvents and disconnect).
\* Host calls that failed to encode are the exception: callRemoteHostFunction runs
\* their callback and leaves it registered, and disconnect() runs it again.
Accounting ==
    \A id \in CallIDs :
        /\ ~(callbacksByID[id] = "live" /\ callbacksByIDCopy[id] = "live")
        /\ id < functionCallbackIDCounter /\ id \notin encodeFailed =>
              called[id] = IF Owed(id) THEN 0 ELSE 1

\* enet_peer_send is handed the null peer of a lost connection, or a callback is
\* called through an entry that operator[] made: each needs a loss.  The first is
\* possible until the owner has torn that connection down, the second for what
\* hosts still answer to an earlier session; a first session that stays up, and
\* a new one before anything of the old arrives, is free of both.
CrashesOnlyAfterLoss ==
    /\ crashed = "nullPeer" =>
          disconnected \/ \E n \in DOMAIN outputQueue : outputQueue[n] = Disconnect
    /\ crashed = "nullFunc" => \E id \in CallIDs : hostNext[id] > 0 /\ session > 1

\* connect() does not clear outputQueue, and need not: until a session is
\* greeted the only output there can be is its own failure.  A stale
\* DISCONNECTED would tear the new connection down.
NoStaleOutput ==
    (pc["net"] \notin {"none", "exited"} /\ ~connected /\ ~disconnected)
        => \/ outputQueue = <<>>
           \/ outputQueue = <<Disconnect>> /\ ~peer

\* The owner is about to read or write callbacksByID.
OwnerUsesCallbacks ==
    \/ pc["owner"] \in {"created", "notify", "fail"}
    \/ /\ pc["owner"] = "poll" /\ ~disconnected
       /\ outputQueue # <<>> /\ Head(outputQueue).type \in {"response", "part"}

\* "hmmm not thread safe?", asks the code where the net thread runs the script's
\* onConnected, which places calls.  The owner is then never at callbacksByID,
\* unless it is deleting the interface.
CallbacksNotShared ==
    pc["net"] = "onConnected" /\ OwnerUsesCallbacks => destroying

-----------------------------------------------------------------------------
(***************************************************************************)
(* Action and liveness properties.                                         *)
(***************************************************************************)

\* A host's answer reaches the script only when every part of it is in place,
\* although completion is decided by a count of bytes and parts sent while the
\* client was away are lost.
AnswersAreWhole ==
    [][\A id \in CallIDs :
          PollLastPart /\ Head(outputQueue).id = id
             => downloads[id].data \cup {Head(outputQueue).offset} = Offsets]_vars

\* While the peer is there, a request is handed to enet only after the join
\* request: enet refuses the packet of a peer that is not connected, and the
\* tracker ignores the data of one that has not joined.  The flag `connected`
\* is all that says so, and it is not reset where the peer is made.
SendsAfterJoin == [][NetSend /\ peer => link = "joined"]_vars

\* A call outstanding when the connection is torn down is answered: the net thread
\* returns for the join, although its flags change under it, and every callback
\* is reached unless the process dies.
OutstandingAnswered ==
    \A id \in CallIDs :
        (pc["owner"] = "notify" /\ callbacksByID[id] = "live")
            ~> (called[id] > 0 \/ crashed # "no")

=============================================================================
