-------------------------------- MODULE Relay --------------------------------
(***************************************************************************)
(* A call of a host through the tracker: ClientNetInterface on the clients *)
(* and on the host (src/core/ClientNetInterface.cpp), composed with the    *)
(* tracker's two Servers (src/core/Server.cpp).  ClientNet and ServerNet   *)
(* show what happens inside one end of a connection; here an end is its    *)
(* queues, and a connection a FIFO in each direction (every packet goes on *)
(* one enet channel) that may be lost with whatever it held.  The loss     *)
(* comes to either end as the last event of its queue.                     *)
(*                                                                         *)
(* A message carries the identity of its call, which stands for the key    *)
(* and the callbackID the client put in it and for its 16 random bytes.    *)
(* The site's get answers a request once, when it returns or later.        *)
(***************************************************************************)
EXTENDS Integers, Sequences, FiniteSetsExt

CONSTANTS Clients, Host,
          Parts,         \* packets of an answer
          MaxCalls,      \* bound: calls placed
          MaxFaults      \* bound: connections lost and processes restarted

ASSUME RelayAssumption ==
    /\ Host \notin Clients /\ "nobody" \notin Clients \cup {Host}
    /\ Parts \in Nat \ {0}
    /\ MaxCalls \in Nat

VARIABLES
    calls,       \* history: who placed each call, under which key and callbackID
    status,      \* history: what became of each call
    answer,      \* history: whose answer its callback was given
    runs,        \* history: times the host ran it
    forgotten,   \* history: calls nobody will answer any more
    key,         \* sessionTransientPublicKey of each client
    functionCallbackIDCounter, callbacksByID,
    downloads,   \* parts in inProgressMultiPartDownloadsByRequestID
    inputQueue,  \* of each end: what its net thread has not handed to enet
    disconnected,
    up, down,    \* what each end, and the tracker, has sent and not handled
    joined,      \* the ends in the tracker's two Server.clients
    clientsByHostRequestIDs,
    getSet,      \* the host's script has set katipo.get
    answering,   \* requests the host's script has not answered yet
    faults

historyVars == <<calls, status, answer, runs, forgotten>>
clientVars  == <<key, functionCallbackIDCounter, callbacksByID, downloads>>
endVars     == <<inputQueue, disconnected>>
hostVars    == <<getSet, answering>>
trackerVars == <<joined, clientsByHostRequestIDs>>
vars == <<historyVars, clientVars, endVars, up, down, hostVars, trackerVars,
          faults>>

Ends == Clients \cup {Host}
Calls == 1 .. MaxCalls
CallbackIDs == 0 .. MaxCalls - 1

Join == [type |-> "join", call |-> 0, part |-> 0]
Gone == [type |-> "gone", call |-> 0, part |-> 0]
Request(c) == [type |-> "request", call |-> c, part |-> 0]
Error(c)   == [type |-> "error", call |-> c, part |-> 0]
Part(c, i) == [type |-> "part", call |-> c, part |-> i]
Answer(c)  == [i \in 1 .. Parts |-> Part(c, i)]

NoCallbacks == [id \in CallbackIDs |-> "absent"]
NoDownloads == [c \in Calls |-> 0]
Nobody == "nobody"

Init ==
    /\ calls = <<>>
    /\ status = [c \in Calls |-> "unplaced"]
    /\ answer = [c \in Calls |-> 0]
    /\ runs = [c \in Calls |-> 0]
    /\ forgotten = {}
    /\ key = [k \in Clients |-> 0]
    /\ functionCallbackIDCounter = [k \in Clients |-> 0]
    /\ callbacksByID = [k \in Clients |-> NoCallbacks]
    /\ downloads = [k \in Clients |-> NoDownloads]
    /\ inputQueue = [n \in Ends |-> <<>>]
    /\ disconnected = [n \in Ends |-> FALSE]
    /\ up = [n \in Ends |-> <<Join>>]
    /\ down = [n \in Ends |-> <<>>]
    /\ joined = {}
    /\ clientsByHostRequestIDs = [id \in Calls |-> Nobody]
    /\ getSet = FALSE
    /\ answering = {}
    /\ faults = 0

-----------------------------------------------------------------------------
(***************************************************************************)
(* Connections, and the thread that sends on one.                          *)
(***************************************************************************)
Holds(q, m) == \E i \in DOMAIN q : q[i] = m
LastGone(q) == Max({0} \cup {i \in DOMAIN q : q[i] = Gone})

\* What may still arrive of a queue whose connection is lost: the events of an
\* earlier connection have arrived.
Arrives(q) == {SubSeq(q, 1, i) : i \in LastGone(q) .. Len(q)}
CallsIn(q) == {q[i].call : i \in DOMAIN q} \ {0}
CallsLost(q, arrived) == CallsIn(SubSeq(q, Len(arrived) + 1, Len(q)))

\* End n has lost its connection and has not polled the event yet.
Lost(n) == Holds(down[n], Gone)

\* startThread drains inputQueue into the connection, which may be gone.
NetSends(n) ==
    /\ ~disconnected[n]
    /\ inputQueue[n] # <<>>
    /\ inputQueue' = [inputQueue EXCEPT ![n] = Tail(@)]
    /\ IF Lost(n)
       THEN /\ forgotten' = forgotten \cup
                  (IF n = Host THEN {Head(inputQueue[n]).call} ELSE {})
            /\ UNCHANGED up
       ELSE /\ up' = [up EXCEPT ![n] = Append(@, Head(inputQueue[n]))]
            /\ UNCHANGED forgotten
    /\ UNCHANGED <<calls, status, answer, runs, clientVars, disconnected, down,
                   hostVars, trackerVars, faults>>

\* The connection of end n times out on both sides.
Lose(n) ==
    /\ faults < MaxFaults
    /\ ~disconnected[n] /\ ~Lost(n)
    /\ \E u \in Arrives(up[n]), d \in Arrives(down[n]) :
        /\ up' = [up EXCEPT ![n] = Append(u, Gone)]
        /\ down' = [down EXCEPT ![n] = Append(d, Gone)]
        /\ forgotten' =
              IF n = Host
              THEN forgotten \cup CallsLost(up[n], u) \cup CallsLost(down[n], d)
              ELSE forgotten
    /\ faults' = faults + 1
    /\ UNCHANGED <<calls, status, answer, runs, clientVars, endVars, hostVars,
                   trackerVars>>

\* connect() on the reconnect timer.  inputQueue, callbacksByID and the key stay.
Reconnect(n) ==
    /\ disconnected[n]
    /\ disconnected' = [disconnected EXCEPT ![n] = FALSE]
    /\ up' = [up EXCEPT ![n] = Append(@, Join)]
    /\ UNCHANGED <<historyVars, clientVars, inputQueue, down, hostVars,
                   trackerVars, faults>>

-----------------------------------------------------------------------------
(***************************************************************************)
(* The client.                                                             *)
(***************************************************************************)

\* The call whose callback client k has under this id.
CallOf(k, id) ==
    Max({c \in DOMAIN calls : calls[c].client = k /\ calls[c].callbackID = id})
Waiting(k) == {id \in CallbackIDs : callbacksByID[k][id] = "live"}

\* callRemoteHostFunction.  sendData drops the request when the connection is
\* known to be gone; the callback stays registered.
CallRemoteHostFunction(k) ==
    /\ Len(calls) < MaxCalls
    /\ LET c  == Len(calls) + 1
           id == functionCallbackIDCounter[k]
       IN  /\ calls' = Append(calls, [client |-> k, key |-> key[k],
                                      callbackID |-> id])
           /\ status' = [status EXCEPT ![c] = "waiting"]
           /\ functionCallbackIDCounter' =
                 [functionCallbackIDCounter EXCEPT ![k] = id + 1]
           /\ callbacksByID' = [callbacksByID EXCEPT ![k][id] = "live"]
           /\ \/ /\ ~disconnected[k]
                 /\ inputQueue' = [inputQueue EXCEPT ![k] = Append(@, Request(c))]
                 /\ UNCHANGED forgotten
              \/ /\ disconnected[k] \/ Lost(k)
                 /\ forgotten' = IF disconnected[k] THEN forgotten \cup {c}
                                 ELSE forgotten
                 /\ UNCHANGED inputQueue
    /\ UNCHANGED <<answer, runs, key, downloads, disconnected, up, down,
                   hostVars, trackerVars, faults>>

\* The keys are made in the constructor, once per process.
NewKeyKept(k) == key
NewKey(k) == [key EXCEPT ![k] = @ + 1]

\* The process of client k is gone and runs again: its callbacks, those it has
\* called already apart, are lost with it.  It joins anew.
Die(k, failed) ==
    /\ status' = [c \in Calls |->
          IF c \in failed THEN "failed"
          ELSE IF \E id \in Waiting(k) : c = CallOf(k, id) THEN "lost"
          ELSE status[c]]
    /\ key' = NewKey(k)
    /\ functionCallbackIDCounter' = [functionCallbackIDCounter EXCEPT ![k] = 0]
    /\ callbacksByID' = [callbacksByID EXCEPT ![k] = NoCallbacks]
    /\ downloads' = [downloads EXCEPT ![k] = NoDownloads]
    /\ inputQueue' = [inputQueue EXCEPT ![k] = <<>>]
    /\ disconnected' = [disconnected EXCEPT ![k] = FALSE]
    /\ down' = [down EXCEPT ![k] = <<>>]
    /\ \E u \in Arrives(up[k]) : up' = [up EXCEPT ![k] = u \o <<Gone, Join>>]

Restart(k) ==
    /\ faults < MaxFaults
    /\ faults' = faults + 1
    /\ Die(k, {})
    /\ UNCHANGED <<calls, answer, runs, forgotten, hostVars, trackerVars>>

\* Client k polls an event of this type.
Polls(k, type) ==
    /\ ~disconnected[k]
    /\ down[k] # <<>>
    /\ Head(down[k]).type = type

\* func->call, which leaves its entry absent.  An entry made by operator[] has
\* no func: the process dies.
CallBack(k, id, result, call, rest) ==
    IF callbacksByID[k][id] = "null"
    THEN Die(k, {}) /\ UNCHANGED answer
    ELSE /\ IF callbacksByID[k][id] = "live"
            THEN /\ status' = [status EXCEPT ![CallOf(k, id)] = result]
                 /\ answer' = [answer EXCEPT ![CallOf(k, id)] = call]
                 /\ callbacksByID' = [callbacksByID EXCEPT ![k][id] = "absent"]
            ELSE UNCHANGED <<status, answer, callbacksByID>>
         /\ downloads' = rest
         /\ down' = [down EXCEPT ![k] = Tail(@)]
         /\ UNCHANGED <<key, functionCallbackIDCounter, endVars, up>>

\* FUNCTION_CALL_RESPONSE_TO_CLIENT_FROM_TRACKER
PollError(k) ==
    /\ Polls(k, "error")
    /\ LET c == Head(down[k]).call
       IN  CallBack(k, calls[c].callbackID, "refused", c, downloads)
    /\ UNCHANGED <<calls, runs, forgotten, hostVars, trackerVars, faults>>

\* GET_RESPONSE_TO_CLIENT_FROM_HOST.  What another key locked is dropped; a part
\* that does not complete its answer makes an entry when there is none.
PollPart(k) ==
    /\ Polls(k, "part")
    /\ LET c  == Head(down[k]).call
           id == calls[c].callbackID
           received == downloads[k][c] + 1
       IN  CASE calls[c].client # k \/ calls[c].key # key[k] ->
                   /\ down' = [down EXCEPT ![k] = Tail(@)]
                   /\ UNCHANGED <<status, answer, clientVars, endVars, up>>
             [] calls[c].client = k /\ calls[c].key = key[k]
                   /\ received >= Parts ->
                   CallBack(k, id, "ok", c, [downloads EXCEPT ![k][c] = 0])
             [] OTHER ->
                   /\ callbacksByID' = [callbacksByID EXCEPT
                         ![k][id] = IF @ = "absent" THEN "null" ELSE @]
                   /\ downloads' = [downloads EXCEPT ![k][c] = received]
                   /\ down' = [down EXCEPT ![k] = Tail(@)]
                   /\ UNCHANGED <<status, answer, key,
                                  functionCallbackIDCounter, endVars, up>>
    /\ UNCHANGED <<calls, runs, forgotten, hostVars, trackerVars, faults>>

\* disconnect() clears the map before it calls what was in it.
AfterDisconnectKept(k) == callbacksByID
AfterDisconnect(k) == [callbacksByID EXCEPT ![k] = NoCallbacks]

\* disconnect(): every callback is told "not connected", in the order of ids, up
\* to an entry that has none.
PollGone(k) ==
    /\ Polls(k, "gone")
    /\ LET nulls  == {id \in CallbackIDs : callbacksByID[k][id] = "null"}
           failed == {CallOf(k, id) : id \in
                        {i \in Waiting(k) : \A n \in nulls : i < n}}
       IN  IF nulls # {}
           THEN Die(k, failed)
           ELSE /\ status' = [c \in Calls |-> IF c \in failed THEN "failed"
                                              ELSE status[c]]
                /\ callbacksByID' = AfterDisconnect(k)
                /\ disconnected' = [disconnected EXCEPT ![k] = TRUE]
                /\ down' = [down EXCEPT ![k] = Tail(@)]
                /\ UNCHANGED <<key, functionCallbackIDCounter, downloads,
                               inputQueue, up>>
    /\ UNCHANGED <<calls, answer, runs, forgotten, hostVars, trackerVars, faults>>

-----------------------------------------------------------------------------
(***************************************************************************)
(* The host.                                                               *)
(***************************************************************************)

\* host.tui sets katipo.get after katipo.init has started the connection.
HostSetsGet ==
    /\ ~getSet
    /\ getSet' = TRUE
    /\ UNCHANGED <<historyVars, clientVars, endVars, up, down, answering,
                   trackerVars, faults>>

\* processGetRequest: without katipo.get the request is dropped.
ProcessGetRequest ==
    /\ Polls(Host, "request")
    /\ down' = [down EXCEPT ![Host] = Tail(@)]
    /\ LET c == Head(down[Host]).call
       IN  IF getSet
           THEN /\ runs' = [runs EXCEPT ![c] = @ + 1]
                /\ answering' = answering \cup {c}
                /\ UNCHANGED forgotten
           ELSE /\ forgotten' = forgotten \cup {c}
                /\ UNCHANGED <<runs, answering>>
    /\ UNCHANGED <<calls, status, answer, clientVars, endVars, up, getSet,
                   trackerVars, faults>>

\* sendMultipartTuiData, which sends nothing when the connection is known to be
\* gone.
HostAnswers(c) ==
    /\ c \in answering
    /\ answering' = answering \ {c}
    /\ \/ /\ ~disconnected[Host]
          /\ inputQueue' = [inputQueue EXCEPT ![Host] = @ \o Answer(c)]
          /\ UNCHANGED forgotten
       \/ /\ disconnected[Host] \/ Lost(Host)
          /\ forgotten' = forgotten \cup {c}
          /\ UNCHANGED inputQueue
    /\ UNCHANGED <<calls, status, answer, runs, clientVars, disconnected, up,
                   down, getSet, trackerVars, faults>>

HostPollsGone ==
    /\ Polls(Host, "gone")
    /\ down' = [down EXCEPT ![Host] = Tail(@)]
    /\ disconnected' = [disconnected EXCEPT ![Host] = TRUE]
    /\ UNCHANGED <<historyVars, clientVars, inputQueue, up, hostVars,
                   trackerVars, faults>>

HostRestart ==
    /\ faults < MaxFaults
    /\ faults' = faults + 1
    /\ \E u \in Arrives(up[Host]) :
        /\ up' = [up EXCEPT ![Host] = u \o <<Gone, Join>>]
        /\ forgotten' = forgotten \cup answering \cup CallsIn(down[Host])
                            \cup CallsIn(inputQueue[Host])
                            \cup CallsLost(up[Host], u)
    /\ down' = [down EXCEPT ![Host] = <<>>]
    /\ inputQueue' = [inputQueue EXCEPT ![Host] = <<>>]
    /\ disconnected' = [disconnected EXCEPT ![Host] = FALSE]
    /\ getSet' = FALSE
    /\ answering' = {}
    /\ UNCHANGED <<calls, status, answer, runs, clientVars, trackerVars>>

-----------------------------------------------------------------------------
(***************************************************************************)
(* The tracker: one thread runs both Servers.                              *)
(***************************************************************************)
Handles(n, type) ==
    /\ up[n] # <<>>
    /\ Head(up[n]).type = type

\* A Server knows an end whose connection may already be gone.
Reaches(n) == n \in joined /\ ~Holds(up[n], Gone)
SentToKnown(n, m) ==
    IF n \in joined THEN [down EXCEPT ![n] = Append(@, m)] ELSE down
SentTo(n, m) == IF Reaches(n) THEN [down EXCEPT ![n] = Append(@, m)] ELSE down

TrackerAddsOrRemoves(n) ==
    /\ \/ Handles(n, "join") /\ joined' = joined \cup {n}
       \/ Handles(n, "gone") /\ joined' = joined \ {n}
    /\ up' = [up EXCEPT ![n] = Tail(@)]
    /\ UNCHANGED <<historyVars, clientVars, endVars, down, hostVars,
                   clientsByHostRequestIDs, faults>>

\* 16 random bytes, of which no two requests get the same.
RequestID(c) == c

\* Without a host to relay to, the client is told so.
RefusalSilent(k, c) == down
Refusal(k, c) == SentTo(k, Error(c))

\* Server::clientDataReceived: REMOTE_HOST_REQUEST of client k.
RelayRequest(k) ==
    /\ Handles(k, "request")
    /\ up' = [up EXCEPT ![k] = Tail(@)]
    /\ LET c == Head(up[k]).call
       IN  IF Host \in joined
           THEN /\ clientsByHostRequestIDs' =
                      [clientsByHostRequestIDs EXCEPT ![RequestID(c)] = k]
                /\ down' = SentTo(Host, Request(c))
                /\ forgotten' = IF Reaches(Host) THEN forgotten
                                ELSE forgotten \cup {c}
           ELSE /\ down' = Refusal(k, c)
                /\ UNCHANGED <<clientsByHostRequestIDs, forgotten>>
    /\ UNCHANGED <<calls, status, answer, runs, clientVars, endVars, hostVars,
                   joined, faults>>

\* GET_RESPONSE_TO_CLIENT_FROM_HOST and relayHostResponseToClient.
RelayAnswer ==
    /\ Handles(Host, "part")
    /\ up' = [up EXCEPT ![Host] = Tail(@)]
    /\ LET m == Head(up[Host])
           client == clientsByHostRequestIDs[RequestID(m.call)]
       IN  down' = SentTo(client, m)
    /\ UNCHANGED <<historyVars, clientVars, endVars, hostVars, trackerVars,
                   faults>>

\* The tracker's process is gone and runs again: no connection survives it, and
\* clientsByHostRequestIDs is empty.
TrackerRestart ==
    /\ faults < MaxFaults
    /\ faults' = faults + 1
    /\ joined' = {}
    /\ clientsByHostRequestIDs' = [id \in Calls |-> Nobody]
    /\ up' = [n \in Ends |-> <<>>]
    /\ \E arrived \in [Ends -> 0 .. Parts * MaxCalls] :
        /\ \A n \in Ends : arrived[n] <= Len(down[n])
        /\ down' = [n \in Ends |->
              IF disconnected[n] \/ Lost(n) THEN down[n]
              ELSE Append(SubSeq(down[n], 1, arrived[n]), Gone)]
    /\ UNCHANGED <<historyVars, clientVars, endVars, hostVars>>

-----------------------------------------------------------------------------
ClientPolls(k) == PollError(k) \/ PollPart(k) \/ PollGone(k)
HostPolls == ProcessGetRequest \/ HostPollsGone
TrackerHandles(n) == TrackerAddsOrRemoves(n) \/ RelayRequest(n)

Next ==
    \/ \E n \in Ends : \/ NetSends(n) \/ Lose(n) \/ Reconnect(n)
                       \/ TrackerAddsOrRemoves(n)
    \/ \E k \in Clients : \/ CallRemoteHostFunction(k) \/ Restart(k)
                          \/ ClientPolls(k) \/ RelayRequest(k)
    \/ HostSetsGet \/ HostPolls \/ HostRestart
    \/ \E c \in Calls : HostAnswers(c)
    \/ RelayAnswer \/ TrackerRestart

Spec == Init /\ [][Next]_vars

\* Every thread runs, the site's get answers every request, and the host, whose
\* script sets katipo.retry, reconnects.  Nothing obliges a client to reconnect
\* or the host's script to set katipo.get.
FairSpec ==
    /\ Spec
    /\ \A n \in Ends : WF_vars(NetSends(n)) /\ WF_vars(TrackerAddsOrRemoves(n))
    /\ \A k \in Clients : WF_vars(ClientPolls(k)) /\ WF_vars(RelayRequest(k))
    /\ WF_vars(HostPolls) /\ WF_vars(Reconnect(Host)) /\ WF_vars(RelayAnswer)
    /\ \A c \in Calls : WF_vars(HostAnswers(c))

-----------------------------------------------------------------------------
(***************************************************************************)
(* Properties.                                                             *)
(***************************************************************************)
Message == [type : {"join", "gone", "request", "error", "part"},
            call : 0 .. MaxCalls, part : 0 .. Parts]

\* Every variable keeps its type, and the loss of a connection is the last event
\* an end polls of it.
TypeOK ==
    /\ calls \in Seq([client : Clients, key : Nat, callbackID : CallbackIDs])
    /\ status \in [Calls -> {"unplaced", "waiting", "ok", "refused", "failed",
                             "lost"}]
    /\ answer \in [Calls -> 0 .. MaxCalls]
    /\ runs \in [Calls -> 0 .. 1]
    /\ forgotten \subseteq DOMAIN calls
    /\ key \in [Clients -> Nat]
    /\ functionCallbackIDCounter \in [Clients -> 0 .. MaxCalls]
    /\ callbacksByID \in [Clients -> [CallbackIDs -> {"absent", "live", "null"}]]
    /\ downloads \in [Clients -> [Calls -> 0 .. Parts - 1]]
    /\ inputQueue \in [Ends -> Seq(Message)]
    /\ disconnected \in [Ends -> BOOLEAN]
    /\ up \in [Ends -> Seq(Message)]
    /\ down \in [Ends -> Seq(Message)]
    /\ \A n \in Ends : Lost(n) => LastGone(down[n]) = Len(down[n])
    /\ joined \subseteq Ends
    /\ clientsByHostRequestIDs \in [Calls -> Clients \cup {Nobody}]
    /\ getSet \in BOOLEAN
    /\ answering \subseteq Calls

\* A callback is given the answer to its own call, although a client that runs
\* again counts its callbacksByID from 0 again, keeps its clientID and gets what
\* the host still answers to the calls of the process before.
RightAnswer == \A c \in Calls : answer[c] \in {0, c}

\* A call waits for ever only if it was placed on a lost connection, or the host
\* has lost it: with its connection or its process, for want of katipo.get, or
\* answering while it was disconnected.  The client's own losses, the
\* tracker's and their restarts leave no callback uncalled.
WaitsOnlyForHost ==
    \A c \in Calls : status[c] = "waiting" ~>
                        (status[c] # "waiting" \/ c \in forgotten)

\* The three processes implement the call the client's script sees.
Promise == INSTANCE RemoteCall
ImplementsRemoteCall == Promise!Spec

=============================================================================
