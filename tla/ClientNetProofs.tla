--------------------------- MODULE ClientNetProofs ---------------------------
(***************************************************************************)
(* ClientNet, for every number of calls, parts and sessions, with or       *)
(* without retry, encode failures and the scanner's constructor.  First    *)
(* its types and Accounting: every call's callback is either owed or has   *)
(* run once.  Then the link of a connection: which flags, queues and       *)
(* thread labels go with each state of the enet peer, and what follows for *)
(* reconnecting, for the join request and for the two threads.  Then a     *)
(* host's multipart answer: no part is counted twice, so a count that is   *)
(* complete means that every part is in place.                             *)
(***************************************************************************)
EXTENDS ClientNet, FiniteSetTheorems, SequenceTheorems, TLAPS

\* Taking the head of a queue, and adding to its end, keep its type.
LEMMA QueueType ==
    ASSUME NEW S, NEW q \in Seq(S)
    PROVE  /\ q # <<>> => Head(q) \in S /\ Tail(q) \in Seq(S)
           /\ \A e \in S : Append(q, e) \in Seq(S)
  OBVIOUS

\* The messages enet can deliver are messages.
LEMMA MessageType ==
    /\ Handshake \in Message /\ Disconnect \in Message
    /\ \A id \in CallIDs : Response(id) \in Message
    /\ \A id \in CallIDs, n \in Offsets : Part(id, n) \in Message
  BY ConstantsAssumption
  DEF Message, Handshake, Disconnect, Response, Part, CallIDs, Offsets

\* Where each thread may be sent.
LabelOf(t) == IF t = "net" THEN NetPC ELSE OwnerPC

\* A thread that goes to one of its own labels leaves the threads well typed.
LEMMA GotoType ==
    ASSUME ThreadsTyped, NEW t \in Thread, NEW label \in LabelOf(t),
           Goto(t, label), pushing' \in [Thread -> CallIDs]
    PROVE  ThreadsTyped'
  BY DEF ThreadsTyped, Goto, Thread, LabelOf

\* Placing a call, in whichever way it ends, keeps the types.
LEMMA PlaceCallType ==
    ASSUME ThreadsTyped, CallsTyped,
           NEW t \in Thread, NEW kinds \in SUBSET {"tracker", "host"},
           NEW entries \in [CallIDs -> EntryState],
           NEW calls \in [CallIDs -> Nat], NEW after \in LabelOf(t),
           PlaceCall(t, kinds, entries, calls, after)
    PROVE  ThreadsTyped' /\ CallsTyped'
<1> USE ConstantsAssumption
<1>1. CASE PlaceNone(t, entries, calls, after)
  <2>1. Goto(t, after) /\ pushing' \in [Thread -> CallIDs]
    BY <1>1 DEF PlaceNone, ThreadsTyped
  <2> QED
    BY <1>1, <2>1, GotoType DEF PlaceNone, CallsTyped
<1>2. ASSUME NEW k \in kinds, PlaceEncoded(t, k, entries, calls, after)
      PROVE  ThreadsTyped' /\ CallsTyped'
  <2> DEFINE id == functionCallbackIDCounter
  <2>1. /\ id \in CallIDs /\ id + 1 \in 0 .. MaxCalls
        /\ k \in {"tracker", "host"}
    BY <1>2 DEF PlaceEncoded, CallsTyped, CallIDs
  <2>2. pushing' \in [Thread -> CallIDs]
    BY <1>2, <2>1 DEF PlaceEncoded, ThreadsTyped
  <2>3. Goto(t, IF CanSend THEN "push" ELSE after) /\ (IF CanSend THEN "push" ELSE after) \in LabelOf(t)
    BY <1>2 DEF PlaceEncoded, LabelOf, NetPC, OwnerPC
  <2>4. ThreadsTyped'
    BY <2>2, <2>3, GotoType
  <2>5. callbacksByID' \in [CallIDs -> EntryState]
    BY <1>2, <2>1 DEF PlaceEncoded, EntryState
  <2>6. called' \in [CallIDs -> Nat]
    BY <1>2, <2>1 DEF PlaceEncoded
  <2>7. kind' \in [CallIDs -> {"tracker", "host"}]
    BY <1>2, <2>1 DEF PlaceEncoded, CallsTyped
  <2>8. /\ functionCallbackIDCounter' \in 0 .. MaxCalls
        /\ encodeFailed' \subseteq CallIDs
    BY <1>2, <2>1 DEF PlaceEncoded, CallsTyped
  <2> QED
    BY <2>4, <2>5, <2>6, <2>7, <2>8 DEF CallsTyped
<1>3. ASSUME NEW k \in kinds, PlaceUnencodable(t, k, entries, calls, after)
      PROVE  ThreadsTyped' /\ CallsTyped'
  <2> DEFINE id == functionCallbackIDCounter
  <2>1. /\ id \in CallIDs /\ id + 1 \in 0 .. MaxCalls
        /\ k \in {"tracker", "host"}
    BY <1>3 DEF PlaceUnencodable, CallsTyped, CallIDs
  <2>2. pushing' \in [Thread -> CallIDs]
    BY <1>3, <2>1 DEF PlaceUnencodable, ThreadsTyped
  <2>3. Goto(t, after) /\ (after) \in LabelOf(t)
    BY <1>3 DEF PlaceUnencodable, LabelOf, NetPC, OwnerPC
  <2>4. ThreadsTyped'
    BY <2>2, <2>3, GotoType
  <2>5. callbacksByID' \in [CallIDs -> EntryState]
    BY <1>3, <2>1 DEF PlaceUnencodable, EntryState
  <2>6. called' \in [CallIDs -> Nat]
    BY <1>3, <2>1 DEF PlaceUnencodable
  <2>7. kind' \in [CallIDs -> {"tracker", "host"}]
    BY <1>3, <2>1 DEF PlaceUnencodable, CallsTyped
  <2>8. /\ functionCallbackIDCounter' \in 0 .. MaxCalls
        /\ encodeFailed' \subseteq CallIDs
    BY <1>3, <2>1 DEF PlaceUnencodable, CallsTyped
  <2> QED
    BY <2>4, <2>5, <2>6, <2>7, <2>8 DEF CallsTyped
<1> QED
  BY <1>1, <1>2, <1>3 DEF PlaceCall

-----------------------------------------------------------------------------
\* The initial state is well typed.
LEMMA InitType == Init => TypeOK
<1> SUFFICES ASSUME Init PROVE TypeOK
  OBVIOUS
<1> USE ConstantsAssumption
<1>1. 0 \in CallIDs
  BY DEF CallIDs
<1>2. ThreadsTyped
  BY <1>1 DEF Init, ThreadsTyped, Thread, NetPC, OwnerPC
<1>3. FlagsTyped /\ QueuesTyped
  BY ConstantsAssumption, <<>> \in Seq(CallIDs), <<>> \in Seq(Message)
  DEF Init, FlagsTyped, QueuesTyped
<1>4. CallsTyped
  BY <1>1 DEF Init, CallsTyped, NoCallbacks, EntryState
<1>5. TablesTyped
  BY DEF Init, TablesTyped, NoCallbacks, EntryState, NoDownload
<1>6. EnetTyped
  BY DEF Init, EnetTyped
<1> QED
  BY <1>2, <1>3, <1>4, <1>5, <1>6 DEF TypeOK

\* Every step of the net thread keeps the types.
LEMMA NetStepType == TypeOK /\ NetStep => TypeOK'
<1> SUFFICES ASSUME TypeOK, NetStep PROVE TypeOK'
  OBVIOUS
<1> USE ConstantsAssumption DEF TypeOK, threadVars, flagVars, callVars, enetVars
<1>1. CASE NetTop
  <2>1. ThreadsTyped'
    BY <1>1 DEF NetTop, ThreadsTyped, At, Goto, Thread, NetPC
  <2>2. FlagsTyped' /\ QueuesTyped' /\ CallsTyped' /\ TablesTyped' /\ EnetTyped'
    BY <1>1 DEF NetTop, FlagsTyped, QueuesTyped, CallsTyped, TablesTyped, EnetTyped
  <2> QED
    BY <2>1, <2>2 DEF TypeOK
<1>2. CASE NetSend
  <2>1. QueuesTyped'
    BY <1>2, QueueType DEF NetSend, QueuesTyped
  <2>2. EnetTyped'
    BY <1>2, QueueType DEF NetSend, EnetTyped, QueuesTyped
  <2>3. FlagsTyped'
    BY <1>2 DEF NetSend, FlagsTyped
  <2>4. ThreadsTyped' /\ CallsTyped' /\ TablesTyped'
    BY <1>2 DEF NetSend, ThreadsTyped, CallsTyped, TablesTyped
  <2> QED
    BY <2>1, <2>2, <2>3, <2>4 DEF TypeOK
<1>3. CASE NetDrainDone
  <2>1. ThreadsTyped'
    BY <1>3 DEF NetDrainDone, ThreadsTyped, At, Goto, Thread, NetPC
  <2>2. FlagsTyped' /\ QueuesTyped' /\ CallsTyped' /\ TablesTyped' /\ EnetTyped'
    BY <1>3 DEF NetDrainDone, FlagsTyped, QueuesTyped, CallsTyped, TablesTyped, EnetTyped
  <2> QED
    BY <2>1, <2>2 DEF TypeOK
<1>4. CASE NetHandshake
  <2>1. ThreadsTyped'
    BY <1>4 DEF NetHandshake, ThreadsTyped, At, Goto, Thread, NetPC, Receives
  <2>2. EnetTyped'
    BY <1>4, QueueType DEF NetHandshake, EnetTyped, Receives
  <2>3. FlagsTyped' /\ QueuesTyped' /\ CallsTyped' /\ TablesTyped'
    BY <1>4 DEF NetHandshake, FlagsTyped, QueuesTyped, CallsTyped, TablesTyped
  <2> QED
    BY <2>1, <2>2, <2>3 DEF TypeOK
<1>5. CASE NetSendInitialData
  <2>1. ThreadsTyped'
    BY <1>5 DEF NetSendInitialData, ThreadsTyped, At, Goto, Thread, NetPC
  <2>2. FlagsTyped'
    BY <1>5 DEF NetSendInitialData, FlagsTyped
  <2>3. EnetTyped'
    BY <1>5 DEF NetSendInitialData, EnetTyped
  <2>4. QueuesTyped' /\ CallsTyped' /\ TablesTyped'
    BY <1>5 DEF NetSendInitialData, QueuesTyped, CallsTyped, TablesTyped
  <2> QED
    BY <2>1, <2>2, <2>3, <2>4 DEF TypeOK
<1>6. CASE NetOnConnected
  <2>1. "service" \in LabelOf("net") /\ "net" \in Thread
    BY DEF LabelOf, NetPC, Thread
  <2>2. ThreadsTyped' /\ CallsTyped'
    BY <1>6, <2>1, PlaceCallType DEF NetOnConnected, CallsTyped
  <2>3. FlagsTyped' /\ QueuesTyped' /\ TablesTyped' /\ EnetTyped'
    BY <1>6 DEF NetOnConnected, FlagsTyped, QueuesTyped, TablesTyped, EnetTyped
  <2> QED
    BY <2>2, <2>3 DEF TypeOK
<1>7. CASE NetPush
  <2>1. ThreadsTyped'
    BY <1>7 DEF NetPush, ThreadsTyped, At, Goto, Thread, NetPC, Push
  <2>2. QueuesTyped'
    BY <1>7, QueueType DEF NetPush, QueuesTyped, Push, ThreadsTyped, Thread
  <2>3. FlagsTyped' /\ CallsTyped' /\ TablesTyped' /\ EnetTyped'
    BY <1>7 DEF NetPush, FlagsTyped, CallsTyped, TablesTyped, EnetTyped, Push
  <2> QED
    BY <2>1, <2>2, <2>3 DEF TypeOK
<1>8. CASE NetData
  <2>1. QueuesTyped'
    BY <1>8, QueueType DEF NetData, QueuesTyped, Receives, EnetTyped
  <2>2. EnetTyped'
    BY <1>8, QueueType DEF NetData, EnetTyped, Receives
  <2>3. ThreadsTyped' /\ FlagsTyped' /\ CallsTyped' /\ TablesTyped'
    BY <1>8 DEF NetData, ThreadsTyped, FlagsTyped, CallsTyped, TablesTyped
  <2> QED
    BY <2>1, <2>2, <2>3 DEF TypeOK
<1>9. CASE NetDisconnectEvent
  <2>1. ThreadsTyped'
    BY <1>9 DEF NetDisconnectEvent, ThreadsTyped, At, Goto, Thread, NetPC, Receives
  <2>2. FlagsTyped'
    BY <1>9 DEF NetDisconnectEvent, FlagsTyped
  <2>3. QueuesTyped'
    BY <1>9, QueueType, MessageType DEF NetDisconnectEvent, QueuesTyped
  <2>4. EnetTyped'
    BY <1>9, QueueType DEF NetDisconnectEvent, EnetTyped, Receives
  <2>5. CallsTyped' /\ TablesTyped'
    BY <1>9 DEF NetDisconnectEvent, CallsTyped, TablesTyped
  <2> QED
    BY <2>1, <2>2, <2>3, <2>4, <2>5 DEF TypeOK
<1>10. CASE NetServiceDone
  <2>1. ThreadsTyped'
    BY <1>10 DEF NetServiceDone, ThreadsTyped, At, Goto, Thread, NetPC
  <2>2. FlagsTyped' /\ QueuesTyped' /\ CallsTyped' /\ TablesTyped' /\ EnetTyped'
    BY <1>10 DEF NetServiceDone, FlagsTyped, QueuesTyped, CallsTyped, TablesTyped, EnetTyped
  <2> QED
    BY <2>1, <2>2 DEF TypeOK
<1>11. CASE NetExit
  <2>1. ThreadsTyped'
    BY <1>11 DEF NetExit, ThreadsTyped, At, Goto, Thread, NetPC
  <2>2. FlagsTyped' /\ QueuesTyped' /\ CallsTyped' /\ TablesTyped' /\ EnetTyped'
    BY <1>11 DEF NetExit, FlagsTyped, QueuesTyped, CallsTyped, TablesTyped, EnetTyped
  <2> QED
    BY <2>1, <2>2 DEF TypeOK
<1> QED
  BY <1>1, <1>2, <1>3, <1>4, <1>5, <1>6, <1>7, <1>8, <1>9, <1>10, <1>11 DEF NetStep

\* Running a callback, which may place a call, keeps the types.
LEMMA CallBackType ==
    ASSUME TypeOK, NEW id \in CallIDs, CallBack(id)
    PROVE  /\ ThreadsTyped' /\ CallsTyped'
           /\ crashed' \in {"no", "nullPeer", "nullFunc"}
<1> USE DEF TypeOK, FlagsTyped
<1>1. CASE callbacksByID[id] = "live"
  <2>1. PlaceCall("owner", {"tracker", "host"},
                  [callbacksByID EXCEPT ![id] = "absent"],
                  [called EXCEPT ![id] = @ + 1], "poll")
        /\ UNCHANGED crashed
    BY <1>1 DEF CallBack
  <2>2. /\ [callbacksByID EXCEPT ![id] = "absent"] \in [CallIDs -> EntryState]
        /\ [called EXCEPT ![id] = @ + 1] \in [CallIDs -> Nat]
    BY DEF CallsTyped, EntryState
  <2>3. "owner" \in Thread /\ "poll" \in LabelOf("owner")
    BY DEF Thread, LabelOf, OwnerPC
  <2> QED
    BY <2>1, <2>2, <2>3, PlaceCallType
<1>2. CASE callbacksByID[id] # "live"
  BY <1>2 DEF CallBack, threadVars, callVars, ThreadsTyped, CallsTyped
<1> QED
  BY <1>1, <1>2

\* A part copied into a download leaves it well typed.
LEMMA FilledType ==
    ASSUME TablesTyped, NEW id \in CallIDs, NEW n \in Offsets
    PROVE  Filled(downloads[id], n) \in [recievedBytes : Nat, data : SUBSET Offsets]
  BY DEF TablesTyped, Filled

\* Every step of the owner thread keeps the types.
LEMMA OwnerStepType == TypeOK /\ OwnerStep => TypeOK'
<1> SUFFICES ASSUME TypeOK, OwnerStep PROVE TypeOK'
  OBVIOUS
<1> USE ConstantsAssumption DEF TypeOK, threadVars, flagVars, callVars, enetVars
<1>1. CASE ScannerCall
  <2>1. "poll" \in LabelOf("owner") /\ "owner" \in Thread
    BY DEF LabelOf, OwnerPC, Thread
  <2>2. ThreadsTyped' /\ CallsTyped'
    BY <1>1, <2>1, PlaceCallType DEF ScannerCall, CallsTyped
  <2>3. FlagsTyped' /\ QueuesTyped' /\ TablesTyped' /\ EnetTyped'
    BY <1>1 DEF ScannerCall, FlagsTyped, QueuesTyped, TablesTyped, EnetTyped
  <2> QED
    BY <2>2, <2>3 DEF TypeOK
<1>2. CASE OwnerPush
  <2>1. ThreadsTyped'
    BY <1>2 DEF OwnerPush, ThreadsTyped, At, Goto, Thread, OwnerPC, Push
  <2>2. QueuesTyped'
    BY <1>2, QueueType DEF OwnerPush, QueuesTyped, Push, ThreadsTyped, Thread
  <2>3. FlagsTyped' /\ CallsTyped' /\ TablesTyped' /\ EnetTyped'
    BY <1>2 DEF OwnerPush, FlagsTyped, CallsTyped, TablesTyped, EnetTyped, Push
  <2> QED
    BY <2>1, <2>2, <2>3 DEF TypeOK
<1>3. CASE StartReconnectTimer
  <2>1. FlagsTyped'
    BY <1>3 DEF StartReconnectTimer, FlagsTyped
  <2>2. ThreadsTyped' /\ QueuesTyped' /\ CallsTyped' /\ TablesTyped' /\ EnetTyped'
    BY <1>3 DEF StartReconnectTimer, ThreadsTyped, QueuesTyped, CallsTyped, TablesTyped, EnetTyped
  <2> QED
    BY <2>1, <2>2 DEF TypeOK
<1>4. CASE Reconnect
  <2>1. ThreadsTyped'
    BY <1>4 DEF Reconnect, ThreadsTyped, At, Goto, Thread, NetPC
  <2>2. FlagsTyped'
    BY <1>4 DEF Reconnect, FlagsTyped, ResetFlags, NewPeer
  <2>3. EnetTyped'
    BY <1>4 DEF Reconnect, EnetTyped, NewPeer
  <2>4. QueuesTyped' /\ CallsTyped' /\ TablesTyped'
    BY <1>4 DEF Reconnect, QueuesTyped, CallsTyped, TablesTyped
  <2> QED
    BY <2>1, <2>2, <2>3, <2>4 DEF TypeOK
<1>5. CASE PollResponse
  <2>1. Head(outputQueue) \in Message /\ QueuesTyped'
    BY <1>5, QueueType DEF PollResponse, Polls, QueuesTyped
  <2>2. CallBack(Head(outputQueue).id)
    BY <1>5 DEF PollResponse
  <2>3. ThreadsTyped' /\ CallsTyped' /\ crashed' \in {"no", "nullPeer", "nullFunc"}
    BY <2>1, <2>2, CallBackType DEF Message
  <2>4. FlagsTyped' /\ EnetTyped'
    BY <1>5, <2>3 DEF PollResponse, FlagsTyped, EnetTyped
  <2>5. TablesTyped'
    BY <1>5, <2>1 DEF PollResponse, TablesTyped, Message
  <2> QED
    BY <2>1, <2>3, <2>4, <2>5 DEF TypeOK
<1>6. CASE PollLastPart
  <2>1. Head(outputQueue) \in Message /\ QueuesTyped'
    BY <1>6, QueueType DEF PollLastPart, Polls, QueuesTyped
  <2>2. CallBack(Head(outputQueue).id)
    BY <1>6 DEF PollLastPart
  <2>3. ThreadsTyped' /\ CallsTyped' /\ crashed' \in {"no", "nullPeer", "nullFunc"}
    BY <2>1, <2>2, CallBackType DEF Message
  <2>4. FlagsTyped' /\ EnetTyped'
    BY <1>6, <2>3 DEF PollLastPart, FlagsTyped, EnetTyped
  <2>5. TablesTyped'
    BY <1>6, <2>1 DEF PollLastPart, TablesTyped, Message, NoDownload
  <2> QED
    BY <2>1, <2>3, <2>4, <2>5 DEF TypeOK
<1>7. CASE PollProgress
  <2>1. Head(outputQueue) \in Message /\ QueuesTyped'
    BY <1>7, QueueType DEF PollProgress, Polls, QueuesTyped
  <2>2. Head(outputQueue).id \in CallIDs /\ Head(outputQueue).offset \in Offsets
    BY <2>1 DEF Message
  <2>3. TablesTyped'
    BY <1>7, <2>2, FilledType DEF PollProgress, TablesTyped
  <2>4. CallsTyped'
    BY <1>7, <2>2 DEF PollProgress, CallsTyped, EntryState
  <2>5. ThreadsTyped' /\ FlagsTyped' /\ EnetTyped'
    BY <1>7 DEF PollProgress, ThreadsTyped, FlagsTyped, EnetTyped
  <2> QED
    BY <2>1, <2>3, <2>4, <2>5 DEF TypeOK
<1>8. CASE PollDisconnected
  <2>1. ThreadsTyped'
    BY <1>8 DEF PollDisconnected, ThreadsTyped, At, Goto, Thread, OwnerPC, BeginDisconnect
  <2>2. FlagsTyped'
    BY <1>8 DEF PollDisconnected, FlagsTyped, BeginDisconnect, RaiseFlags
  <2>3. QueuesTyped'
    BY <1>8, QueueType DEF PollDisconnected, QueuesTyped, Polls, BeginDisconnect
  <2>4. CallsTyped' /\ TablesTyped' /\ EnetTyped'
    BY <1>8 DEF PollDisconnected, CallsTyped, TablesTyped, EnetTyped, BeginDisconnect
  <2> QED
    BY <2>1, <2>2, <2>3, <2>4 DEF TypeOK
<1>9. CASE Notify
  <2>1. "join" \in LabelOf("owner") /\ "owner" \in Thread
    BY DEF LabelOf, OwnerPC, Thread
  <2>2. ThreadsTyped' /\ CallsTyped'
    BY <1>9, <2>1, PlaceCallType DEF Notify, CallsTyped
  <2>3. FlagsTyped' /\ QueuesTyped' /\ TablesTyped' /\ EnetTyped'
    BY <1>9 DEF Notify, FlagsTyped, QueuesTyped, TablesTyped, EnetTyped
  <2> QED
    BY <2>2, <2>3 DEF TypeOK
<1>10. CASE Join
  <2>1. ThreadsTyped'
    BY <1>10 DEF Join, ThreadsTyped, At, Goto, Thread, NetPC, OwnerPC
  <2>2. FlagsTyped'
    BY <1>10 DEF Join, FlagsTyped
  <2>3. CallsTyped'
    BY <1>10 DEF Join, CallsTyped, TakeCallbacks, NoCallbacks, EntryState
  <2>4. TablesTyped'
    BY <1>10 DEF Join, TablesTyped, TakeCallbacks, CallsTyped
  <2>5. EnetTyped'
    BY <1>10 DEF Join, EnetTyped
  <2>6. QueuesTyped'
    BY <1>10 DEF Join, QueuesTyped
  <2> QED
    BY <2>1, <2>2, <2>3, <2>4, <2>5, <2>6 DEF TypeOK
<1>11. CASE FailCallback
  <2>1. PICK id \in CallIDs :
          /\ callbacksByIDCopy' = [callbacksByIDCopy EXCEPT ![id] = "absent"]
          /\ \/ crashed' = "nullFunc" /\ UNCHANGED <<callVars, threadVars>>
             \/ /\ PlaceCall("owner", {"tracker"}, callbacksByID,
                             [called EXCEPT ![id] = @ + 1], "fail")
                /\ UNCHANGED crashed
    BY <1>11 DEF FailCallback
  <2>2. TablesTyped'
    BY <1>11, <2>1 DEF FailCallback, TablesTyped, EntryState
  <2>3. [called EXCEPT ![id] = @ + 1] \in [CallIDs -> Nat]
    BY DEF CallsTyped
  <2>4. "owner" \in Thread /\ "fail" \in LabelOf("owner")
    BY DEF Thread, LabelOf, OwnerPC
  <2>5. callbacksByID \in [CallIDs -> EntryState]
    BY DEF CallsTyped
  <2>6. ThreadsTyped' /\ CallsTyped'
    <3>1. CASE UNCHANGED <<callVars, threadVars>>
      BY <3>1 DEF ThreadsTyped, CallsTyped
    <3>2. CASE PlaceCall("owner", {"tracker"}, callbacksByID,
                         [called EXCEPT ![id] = @ + 1], "fail")
      BY <3>2, <2>3, <2>4, <2>5, PlaceCallType
    <3> QED
      BY <2>1, <3>1, <3>2
  <2>7. FlagsTyped' /\ QueuesTyped' /\ EnetTyped'
    BY <1>11, <2>1 DEF FailCallback, FlagsTyped, QueuesTyped, EnetTyped
  <2> QED
    BY <2>2, <2>6, <2>7 DEF TypeOK
<1>12. CASE FailDone
  <2>1. ThreadsTyped'
    BY <1>12 DEF FailDone, ThreadsTyped, At, Goto, Thread, OwnerPC
  <2>2. FlagsTyped' /\ QueuesTyped' /\ CallsTyped' /\ TablesTyped' /\ EnetTyped'
    BY <1>12 DEF FailDone, FlagsTyped, QueuesTyped, CallsTyped, TablesTyped, EnetTyped
  <2> QED
    BY <2>1, <2>2 DEF TypeOK
<1> QED
  BY <1>1, <1>2, <1>3, <1>4, <1>5, <1>6, <1>7, <1>8, <1>9, <1>10, <1>11, <1>12 DEF OwnerStep

\* Destroying the interface keeps the types.
LEMMA DestroyType == TypeOK /\ Destroy => TypeOK'
<1> SUFFICES ASSUME TypeOK, Destroy PROVE TypeOK'
  OBVIOUS
<1> USE ConstantsAssumption DEF TypeOK, threadVars, flagVars, callVars, enetVars
<1>1. ThreadsTyped'
  BY DEF Destroy, BeginDisconnect, ThreadsTyped, At, Goto, Thread, OwnerPC
<1>2. FlagsTyped'
  BY DEF Destroy, BeginDisconnect, RaiseFlags, FlagsTyped
<1>3. QueuesTyped' /\ CallsTyped' /\ TablesTyped' /\ EnetTyped'
  BY DEF Destroy, BeginDisconnect, QueuesTyped, CallsTyped, TablesTyped, EnetTyped
<1> QED
  BY <1>1, <1>2, <1>3 DEF TypeOK

\* Every step of enet, the tracker and the hosts keeps the types.
LEMMA EnetStepType == TypeOK /\ EnetStep => TypeOK'
<1> SUFFICES ASSUME TypeOK, EnetStep PROVE TypeOK'
  OBVIOUS
<1> USE ConstantsAssumption DEF TypeOK, threadVars, flagVars, callVars, enetVars
<1>1. CASE EnetConnect
  <2>1. EnetTyped'
    BY <1>1, QueueType, MessageType DEF EnetConnect, EnetTyped, enetOnly
  <2>2. ThreadsTyped' /\ FlagsTyped' /\ QueuesTyped' /\ CallsTyped' /\ TablesTyped'
    BY <1>1 DEF EnetConnect, enetOnly, ThreadsTyped, FlagsTyped, QueuesTyped,
       CallsTyped, TablesTyped
  <2> QED
    BY <2>1, <2>2 DEF TypeOK
<1>2. CASE TrackerGreets
  <2>1. EnetTyped'
    BY <1>2, QueueType, MessageType DEF TrackerGreets, EnetTyped, enetOnly
  <2>2. ThreadsTyped' /\ FlagsTyped' /\ QueuesTyped' /\ CallsTyped' /\ TablesTyped'
    BY <1>2 DEF TrackerGreets, enetOnly, ThreadsTyped, FlagsTyped, QueuesTyped,
       CallsTyped, TablesTyped
  <2> QED
    BY <2>1, <2>2 DEF TypeOK
<1>3. CASE EnetDrop
  <2>1. EnetTyped'
    BY <1>3, QueueType, MessageType DEF EnetDrop, EnetTyped, enetOnly
  <2>2. ThreadsTyped' /\ FlagsTyped' /\ QueuesTyped' /\ CallsTyped' /\ TablesTyped'
    BY <1>3 DEF EnetDrop, enetOnly, ThreadsTyped, FlagsTyped, QueuesTyped,
       CallsTyped, TablesTyped
  <2> QED
    BY <2>1, <2>2 DEF TypeOK
<1>4. CASE TrackerAnswers
  <2>1. PICK id \in wire :
          /\ wire' = wire \ {id}
          /\ \E answers \in {<<>>, <<Response(id)>>, <<Response(id), Response(id)>>} :
                events' = events \o answers
    BY <1>4 DEF TrackerAnswers
  <2>2. Response(id) \in Message
    BY MessageType DEF EnetTyped
  <2>3. events' \in Seq(Message)
    <3>1. /\ events \in Seq(Message) /\ <<>> \in Seq(Message)
          /\ <<Response(id)>> \in Seq(Message)
          /\ <<Response(id), Response(id)>> \in Seq(Message)
      BY <2>2 DEF EnetTyped
    <3>2. \A s \in Seq(Message) : events \o s \in Seq(Message)
      BY <3>1
    <3> QED
      BY <2>1, <3>1, <3>2
  <2>4. EnetTyped'
    BY <1>4, <2>1, <2>3 DEF TrackerAnswers, EnetTyped, enetOnly
  <2>5. ThreadsTyped' /\ FlagsTyped' /\ QueuesTyped' /\ CallsTyped' /\ TablesTyped'
    BY <1>4 DEF TrackerAnswers, enetOnly, ThreadsTyped, FlagsTyped, QueuesTyped,
       CallsTyped, TablesTyped
  <2> QED
    BY <2>4, <2>5 DEF TypeOK
<1>5. CASE TrackerRelays
  <2>1. EnetTyped'
    BY SMTT(60), <1>5, QueueType, MessageType DEF TrackerRelays, EnetTyped, enetOnly
  <2>2. ThreadsTyped' /\ FlagsTyped' /\ QueuesTyped' /\ CallsTyped' /\ TablesTyped'
    BY <1>5 DEF TrackerRelays, enetOnly, ThreadsTyped, FlagsTyped, QueuesTyped,
       CallsTyped, TablesTyped
  <2> QED
    BY <2>1, <2>2 DEF TypeOK
<1>6. CASE HostPart
  <2>1. PICK id \in CallIDs :
          /\ hostNext[id] \in 1 .. Parts
          /\ hostNext' = [hostNext EXCEPT ![id] = @ + 1]
          /\ \/ events' = Append(events, Part(id, hostNext[id] - 1))
             \/ UNCHANGED events
    BY <1>6 DEF HostPart
  <2>2. Part(id, hostNext[id] - 1) \in Message
    BY <2>1, MessageType DEF EnetTyped, Offsets
  <2>3. events' \in Seq(Message)
    BY <2>1, <2>2, QueueType DEF EnetTyped
  <2>4. hostNext' \in [CallIDs -> 0 .. Parts + 1]
    BY <2>1 DEF EnetTyped
  <2>5. EnetTyped'
    BY <1>6, <2>3, <2>4 DEF HostPart, EnetTyped, enetOnly
  <2>6. ThreadsTyped' /\ FlagsTyped' /\ QueuesTyped' /\ CallsTyped' /\ TablesTyped'
    BY <1>6 DEF HostPart, enetOnly, ThreadsTyped, FlagsTyped, QueuesTyped,
       CallsTyped, TablesTyped
  <2> QED
    BY <2>5, <2>6 DEF TypeOK
<1> QED
  BY <1>1, <1>2, <1>3, <1>4, <1>5, <1>6 DEF EnetStep

\* Spec keeps every variable in its type.
THEOREM TypeCorrect == Spec => []TypeOK
<1>1. TypeOK /\ [Next]_vars => TypeOK'
  <2> SUFFICES ASSUME TypeOK, [Next]_vars PROVE TypeOK'
    OBVIOUS
  <2>1. CASE Next
    BY <2>1, NetStepType, OwnerStepType, DestroyType, EnetStepType DEF Next
  <2>2. CASE UNCHANGED vars
    BY <2>2 DEF vars, threadVars, flagVars, callVars, enetVars, TypeOK,
       ThreadsTyped, FlagsTyped, QueuesTyped, CallsTyped, TablesTyped, EnetTyped
  <2> QED
    BY <2>1, <2>2
<1> QED
  BY InitType, <1>1, PTL DEF Spec

-----------------------------------------------------------------------------
(***************************************************************************)
(* Accounting.  It is not inductive: a new call must find its entry unused,*)
(* Join must find the copy empty, and the loop of disconnect() must not be *)
(* left through a push.                                                    *)
(***************************************************************************)

\* Accounting of the given tables, and unplaced calls are in none of them.
Balanced(entries, copy, calls, counter, failed) ==
    \A id \in CallIDs :
        /\ ~(entries[id] = "live" /\ copy[id] = "live")
        /\ id < counter /\ id \notin failed =>
              calls[id] = IF entries[id] = "live" \/ copy[id] = "live" THEN 0 ELSE 1
        /\ id >= counter =>
              /\ entries[id] # "live" /\ copy[id] # "live"
              /\ calls[id] = 0 /\ id \notin failed

CallsBalanced == Balanced(callbacksByID, callbacksByIDCopy, called,
                          functionCallbackIDCounter, encodeFailed)

\* The copy is in use only while disconnect() walks it, and disconnect() is
\* under way only while disconnected is set.
TeardownInv ==
    /\ pc["owner"] # "fail" => callbacksByIDCopy = NoCallbacks
    /\ pc["owner"] \in {"notify", "join", "fail"} => disconnected

AccountingInv == TypeOK /\ TeardownInv /\ CallsBalanced

\* The strengthened invariant gives the property the runs check.
LEMMA InvAccounts == AccountingInv => Accounting
  BY DEF AccountingInv, CallsBalanced, Balanced, Accounting, Owed

LEMMA InitAccounts == Init => TeardownInv /\ CallsBalanced
  BY DEF Init, TeardownInv, CallsBalanced, Balanced, NoCallbacks, CallIDs, Thread

\* A call placed on balanced tables leaves them balanced.
LEMMA PlaceCallBalances ==
    ASSUME CallsTyped, NEW t \in Thread, NEW kinds \in SUBSET {"tracker", "host"},
           NEW entries \in [CallIDs -> EntryState],
           NEW calls \in [CallIDs -> Nat], NEW after,
           NEW copy \in [CallIDs -> EntryState],
           Balanced(entries, copy, calls, functionCallbackIDCounter, encodeFailed),
           PlaceCall(t, kinds, entries, calls, after)
    PROVE  Balanced(callbacksByID', copy, called', functionCallbackIDCounter',
                    encodeFailed')
<1> USE ConstantsAssumption DEF Balanced
<1>1. CASE PlaceNone(t, entries, calls, after)
  BY <1>1 DEF PlaceNone
<1>2. ASSUME NEW k \in kinds, PlaceEncoded(t, k, entries, calls, after)
      PROVE  Balanced(callbacksByID', copy, called', functionCallbackIDCounter',
                      encodeFailed')
  BY <1>2 DEF PlaceEncoded, CallsTyped, CallIDs
<1>3. ASSUME NEW k \in kinds, PlaceUnencodable(t, k, entries, calls, after)
      PROVE  Balanced(callbacksByID', copy, called', functionCallbackIDCounter',
                      encodeFailed')
  BY <1>3 DEF PlaceUnencodable, CallsTyped, CallIDs
<1> QED
  BY <1>1, <1>2, <1>3 DEF PlaceCall

\* A callback run from the map leaves the tables balanced.
LEMMA CallBackBalances ==
    ASSUME AccountingInv, NEW id \in CallIDs, CallBack(id),
           UNCHANGED callbacksByIDCopy
    PROVE  CallsBalanced'
<1> USE DEF AccountingInv, TypeOK
<1>1. CASE callbacksByID[id] = "live"
  <2> DEFINE entries == [callbacksByID EXCEPT ![id] = "absent"]
             calls == [called EXCEPT ![id] = @ + 1]
  <2>1. PlaceCall("owner", {"tracker", "host"}, entries, calls, "poll")
    BY <1>1 DEF CallBack
  <2>2. entries \in [CallIDs -> EntryState] /\ calls \in [CallIDs -> Nat]
    BY DEF CallsTyped, EntryState
  <2>3. Balanced(entries, callbacksByIDCopy, calls, functionCallbackIDCounter,
                 encodeFailed)
    BY <1>1 DEF CallsBalanced, Balanced, CallsTyped, TablesTyped, CallIDs
  <2>4. callbacksByIDCopy \in [CallIDs -> EntryState] /\ "owner" \in Thread
    BY DEF TablesTyped, Thread
  <2> HIDE DEF entries, calls
  <2>5. Balanced(callbacksByID', callbacksByIDCopy, called',
                 functionCallbackIDCounter', encodeFailed')
    BY <2>1, <2>2, <2>3, <2>4, PlaceCallBalances
  <2> QED
    BY <2>5 DEF CallsBalanced
<1>2. CASE callbacksByID[id] # "live"
  BY <1>2 DEF CallBack, callVars, CallsBalanced
<1> QED
  BY <1>1, <1>2

\* A callback that places a call from the tables as they stand balances them.
LEMMA PlaceHereBalances ==
    ASSUME AccountingInv, NEW t \in Thread, NEW after,
           PlaceCall(t, {"tracker"}, callbacksByID, called, after),
           UNCHANGED callbacksByIDCopy
    PROVE  CallsBalanced'
<1>1. Balanced(callbacksByID', callbacksByIDCopy, called',
               functionCallbackIDCounter', encodeFailed')
  BY PlaceCallBalances
  DEF AccountingInv, TypeOK, CallsTyped, TablesTyped, CallsBalanced
<1> QED
  BY <1>1 DEF CallsBalanced

\* The steps that touch neither the callbacks nor the history of calls.
Quiet ==
    \/ NetTop \/ NetSend \/ NetDrainDone \/ NetHandshake
    \/ NetSendInitialData \/ NetPush \/ NetData \/ NetDisconnectEvent
    \/ NetServiceDone \/ NetExit \/ OwnerPush \/ StartReconnectTimer
    \/ Reconnect \/ PollDisconnected \/ FailDone
    \/ Destroy \/ EnetStep

LEMMA QuietUnchanged == Quiet => UNCHANGED <<callVars, callbacksByIDCopy>>
<1> USE DEF callVars
<1>1. ASSUME NetTop \/ NetSend \/ NetDrainDone \/ NetHandshake \/ NetSendInitialData
      PROVE  UNCHANGED <<callVars, callbacksByIDCopy>>
  BY <1>1 DEF NetTop, NetSend, NetDrainDone, NetHandshake, NetSendInitialData
<1>2. ASSUME NetPush \/ NetData \/ NetDisconnectEvent \/ NetServiceDone \/ NetExit
      PROVE  UNCHANGED <<callVars, callbacksByIDCopy>>
  BY <1>2 DEF NetPush, Push, NetData, NetDisconnectEvent, NetServiceDone, NetExit
<1>3. ASSUME OwnerPush \/ StartReconnectTimer \/ Reconnect \/ PollDisconnected
             \/ FailDone \/ Destroy
      PROVE  UNCHANGED <<callVars, callbacksByIDCopy>>
  BY <1>3 DEF OwnerPush, Push, StartReconnectTimer, Reconnect, PollDisconnected,
     FailDone, Destroy, BeginDisconnect
<1>4. ASSUME EnetStep PROVE UNCHANGED <<callVars, callbacksByIDCopy>>
  BY <1>4 DEF EnetStep, EnetConnect, TrackerGreets, EnetDrop, TrackerAnswers,
     TrackerRelays, HostPart, enetOnly
<1> QED
  BY <1>1, <1>2, <1>3, <1>4 DEF Quiet

\* Every step balances the tables.
LEMMA NextBalances == AccountingInv /\ Next => CallsBalanced'
<1> SUFFICES ASSUME AccountingInv, Next PROVE CallsBalanced'
  OBVIOUS
<1> USE DEF AccountingInv, TypeOK
<1>1. CASE Quiet
  BY <1>1, QuietUnchanged DEF callVars, CallsBalanced
<1>2. CASE NetOnConnected
  BY <1>2, PlaceHereBalances DEF NetOnConnected, Thread
<1>3. CASE ScannerCall \/ Notify
  <2>1. CASE ScannerCall
    BY <2>1, PlaceHereBalances DEF ScannerCall, Thread
  <2>2. CASE Notify
    BY <2>2, PlaceHereBalances DEF Notify, Thread
  <2> QED
    BY <1>3, <2>1, <2>2
<1>4. CASE PollResponse \/ PollLastPart
  <2>1. Head(outputQueue).id \in CallIDs
    <3>1. outputQueue # <<>> /\ outputQueue \in Seq(Message)
      BY <1>4 DEF PollResponse, PollLastPart, Polls, QueuesTyped
    <3>2. Head(outputQueue) \in Message
      BY <3>1
    <3> QED
      BY <3>2 DEF Message
  <2>2. CallBack(Head(outputQueue).id) /\ UNCHANGED callbacksByIDCopy
    BY <1>4 DEF PollResponse, PollLastPart
  <2> QED
    BY <2>1, <2>2, CallBackBalances
<1>5. CASE PollProgress
  BY <1>5 DEF PollProgress, CallsBalanced, Balanced, CallsTyped
<1>6. CASE Join
  <2>1. callbacksByIDCopy = NoCallbacks
    BY <1>6 DEF Join, At, TeardownInv
  <2> QED
    BY <1>6, <2>1 DEF Join, TakeCallbacks, CallsBalanced, Balanced, NoCallbacks
<1>7. CASE FailCallback
  <2>1. PICK id \in CallIDs :
          /\ callbacksByIDCopy' = [callbacksByIDCopy EXCEPT ![id] = "absent"]
          /\ \/ callbacksByIDCopy[id] = "null" /\ UNCHANGED callVars
             \/ /\ callbacksByIDCopy[id] = "live"
                /\ PlaceCall("owner", {"tracker"}, callbacksByID,
                             [called EXCEPT ![id] = @ + 1], "fail")
    BY <1>7 DEF FailCallback
  <2>2. CASE callbacksByIDCopy[id] = "null" /\ UNCHANGED callVars
    BY <2>1, <2>2 DEF callVars, CallsBalanced, Balanced, TablesTyped
  <2>3. CASE /\ callbacksByIDCopy[id] = "live"
             /\ PlaceCall("owner", {"tracker"}, callbacksByID,
                          [called EXCEPT ![id] = @ + 1], "fail")
    <3> DEFINE copy == [callbacksByIDCopy EXCEPT ![id] = "absent"]
               calls == [called EXCEPT ![id] = @ + 1]
    <3>1. /\ copy \in [CallIDs -> EntryState] /\ calls \in [CallIDs -> Nat]
          /\ callbacksByID \in [CallIDs -> EntryState] /\ "owner" \in Thread
      BY DEF TablesTyped, CallsTyped, EntryState, Thread
    <3>2. Balanced(callbacksByID, copy, calls, functionCallbackIDCounter,
                   encodeFailed)
      BY <2>3 DEF CallsBalanced, Balanced, CallsTyped, TablesTyped, CallIDs
    <3>3. PlaceCall("owner", {"tracker"}, callbacksByID, calls, "fail")
      BY <2>3
    <3> HIDE DEF calls, copy
    <3>4. Balanced(callbacksByID', copy, called', functionCallbackIDCounter',
                   encodeFailed')
      BY <3>1, <3>2, <3>3, PlaceCallBalances
    <3>5. callbacksByIDCopy' = copy
      BY <2>1 DEF copy
    <3> QED
      BY <3>4, <3>5 DEF CallsBalanced
  <2> QED
    BY <2>1, <2>2, <2>3
<1> QED
  BY <1>1, <1>2, <1>3, <1>4, <1>5, <1>6, <1>7
  DEF Next, NetStep, OwnerStep, Quiet

\* Wherever a placed call leads, the thread is at "push" or at `after`, the
\* other thread has not moved, and nothing is pushed once disconnected is set.
LEMMA PlaceCallGoes ==
    ASSUME ThreadsTyped, NEW t \in Thread, NEW kinds, NEW entries, NEW calls,
           NEW after, PlaceCall(t, kinds, entries, calls, after)
    PROVE  /\ pc'[t] \in {after, "push"}
           /\ disconnected => pc'[t] = after
           /\ \A u \in Thread \ {t} : pc'[u] = pc[u]
  BY DEF PlaceCall, PlaceNone, PlaceEncoded, PlaceUnencodable, Goto, CanSend,
     ThreadsTyped

\* Every step keeps the teardown in order.
LEMMA NextTeardown == AccountingInv /\ Next => TeardownInv'
<1> SUFFICES ASSUME AccountingInv, Next PROVE TeardownInv'
  OBVIOUS
<1> USE DEF AccountingInv, TypeOK, TeardownInv, ThreadsTyped, Thread
<1>1. CASE NetStep
  <2>1. CASE NetOnConnected
    <3>1. pc'["owner"] = pc["owner"]
      BY <2>1, PlaceCallGoes DEF NetOnConnected
    <3> QED
      BY <2>1, <3>1 DEF NetOnConnected, flagVars
  <2>2. CASE ~NetOnConnected
    <3>1. UNCHANGED <<callbacksByIDCopy, disconnected>>
      BY <1>1, <2>2 DEF NetStep, NetTop, NetSend, NetDrainDone, NetHandshake,
         NetSendInitialData, NetPush, Push, NetData, NetDisconnectEvent,
         NetServiceDone, NetExit, flagVars
    <3>2. pc'["owner"] = pc["owner"]
      BY <1>1, <2>2 DEF NetStep, NetTop, NetSend, NetDrainDone, NetHandshake,
         NetSendInitialData, NetPush, Push, NetData, NetDisconnectEvent,
         NetServiceDone, NetExit, Goto, threadVars
    <3> QED
      BY <3>1, <3>2
  <2> QED
    BY <2>1, <2>2
<1>2. CASE ScannerCall
  <2>1. pc'["owner"] \in {"poll", "push"}
    BY <1>2, PlaceCallGoes DEF ScannerCall
  <2> QED
    BY <1>2, <2>1 DEF ScannerCall, At
<1>3. CASE OwnerPush \/ StartReconnectTimer \/ Reconnect \/ FailDone
  BY <1>3 DEF OwnerPush, Push, StartReconnectTimer, Reconnect, FailDone, At,
     Goto, threadVars
<1>4. CASE PollResponse \/ PollLastPart
  <2>1. pc["owner"] = "poll" /\ UNCHANGED callbacksByIDCopy
    BY <1>4 DEF PollResponse, PollLastPart, Polls, At
  <2>2. pc'["owner"] \in {"poll", "push"}
    BY <1>4, <2>1, PlaceCallGoes
    DEF PollResponse, PollLastPart, CallBack, threadVars
  <2> QED
    BY <2>1, <2>2
<1>5. CASE PollProgress
  BY <1>5 DEF PollProgress, Polls, At, threadVars
<1>6. CASE PollDisconnected \/ Destroy
  BY <1>6 DEF PollDisconnected, Destroy, Polls, BeginDisconnect, RaiseFlags, At, Goto
<1>7. CASE Notify
  <2>1. pc'["owner"] = "join"
    BY <1>7, PlaceCallGoes DEF Notify, At
  <2> QED
    BY <1>7, <2>1 DEF Notify, At
<1>8. CASE Join
  BY <1>8 DEF Join, At
<1>9. CASE FailCallback
  <2>1. pc'["owner"] = "fail"
    BY <1>9, PlaceCallGoes DEF FailCallback, At, threadVars
  <2> QED
    BY <1>9, <2>1 DEF FailCallback, At, flagVars
<1>10. CASE EnetStep
  BY <1>10 DEF EnetStep, EnetConnect, TrackerGreets, EnetDrop, TrackerAnswers,
     TrackerRelays, HostPart, enetOnly, threadVars, flagVars
<1> QED
  BY <1>1, <1>2, <1>3, <1>4, <1>5, <1>6, <1>7, <1>8, <1>9, <1>10
  DEF Next, OwnerStep

\* The strengthened invariant is inductive.
LEMMA AccountingSound == Spec => []AccountingInv
<1>1. Init => AccountingInv
  BY InitType, InitAccounts DEF AccountingInv
<1>2. AccountingInv /\ [Next]_vars => AccountingInv'
  <2> SUFFICES ASSUME AccountingInv, [Next]_vars PROVE AccountingInv'
    OBVIOUS
  <2>1. CASE Next
    <3>1. TypeOK'
      BY <2>1, NetStepType, OwnerStepType, DestroyType, EnetStepType
      DEF Next, AccountingInv
    <3> QED
      BY <2>1, <3>1, NextTeardown, NextBalances DEF AccountingInv
  <2>2. CASE UNCHANGED vars
    <3>1. TypeOK'
      BY <2>2 DEF AccountingInv, vars, threadVars, flagVars, callVars, enetVars,
         TypeOK, ThreadsTyped, FlagsTyped, QueuesTyped, CallsTyped, TablesTyped,
         EnetTyped
    <3> QED
      BY <2>2, <3>1 DEF AccountingInv, vars, threadVars, flagVars, callVars,
         TeardownInv, CallsBalanced
  <2> QED
    BY <2>1, <2>2
<1> QED
  BY <1>1, <1>2, PTL DEF Spec

\* Each callback is owed or has run exactly once, whatever the interleaving of
\* the two threads, the losses of enet and the reconnections.
THEOREM AccountingHolds == Spec => []Accounting
  BY AccountingSound, InvAccounts, PTL

-----------------------------------------------------------------------------
(***************************************************************************)
(* The link invariant.                                                     *)
(***************************************************************************)

\* What a joined session delivers.
Answers == {m \in Message : m.type \in {"response", "part"}}
AllAnswers(q) == \A i \in DOMAIN q : q[i] \in Answers

\* A loss that has been reported is the last thing there is to hear.
Lost(q) ==
    /\ q # <<>>
    /\ q[Len(q)] = Disconnect
    /\ \A i \in 1 .. Len(q) - 1 : q[i] \in Answers

\* Each state of the peer, and what goes with it.
Connecting ==
    /\ events = <<>> /\ outputQueue = <<>> /\ peer /\ ~connected
    /\ pc["net"] \in {"top", "service", "exited"}
Greeted ==
    /\ outputQueue = <<>> /\ peer /\ ~connected
    /\ \/ events = <<Handshake>> /\ pc["net"] \in {"service", "exited"}
       \/ events = <<>> /\ pc["net"] = "handshake"
Joined ==
    /\ AllAnswers(events) /\ AllAnswers(outputQueue)
    /\ peer /\ (connected \/ destroying)
    /\ pc["net"] \notin {"none", "handshake"}
LossPending ==
    /\ events = <<Disconnect>> /\ AllAnswers(outputQueue)
    /\ peer /\ pc["net"] \in {"service", "exited"}
LossSeen ==
    /\ events = <<>> /\ ~peer
    /\ pc["net"] \in {"none", "top", "drain", "service", "exited"}
    /\ disconnected \/ Lost(outputQueue)

LinkFits ==
    /\ link \in {"connecting", "connected"} => Connecting
    /\ link = "greeted" => Greeted
    /\ link = "joined" => Joined
    /\ link = "down" => LossPending \/ LossSeen

\* Each label of the net thread, and what goes with it.
NetFits ==
    /\ pc["net"] = "none" => link = "down" /\ ~peer /\ disconnected
    /\ pc["net"] = "handshake" => link = "greeted"
    /\ pc["net"] = "onConnected" => link = "joined" /\ outputQueue = <<>>
    /\ crashed = "nullPeer" => disconnected \/ Lost(outputQueue)

\* The owner tears a connection down only once all it had to say was heard,
\* unless the interface is being deleted, which ends it.
OwnerFits ==
    /\ destroying =>
          disconnected /\ pc["owner"] \in {"notify", "join", "fail", "dead"}
    /\ disconnected /\ ~destroying =>
          /\ link = "down" /\ ~peer /\ outputQueue = <<>>
          /\ pc["owner"] # "notify" => ~connected
    /\ pc["owner"] = "created" =>
          connected /\ pc["net"] # "onConnected" /\ link \in {"joined", "down"}

LinkInv == /\ TypeOK /\ TeardownInv
           /\ LinkFits /\ NetFits /\ OwnerFits /\ NoStaleOutput

\* The queues of messages.
LEMMA QueueFacts ==
    ASSUME NEW q \in Seq(Message)
    PROVE  /\ AllAnswers(<<>>)
           /\ \A m \in Answers : AllAnswers(q) => AllAnswers(Append(q, m))
           /\ AllAnswers(q) => Lost(Append(q, Disconnect))
           /\ AllAnswers(q) /\ q # <<>> => Head(q) \in Answers /\ AllAnswers(Tail(q))
           /\ Lost(q) /\ Head(q) \in Answers => Lost(Tail(q))
           /\ Lost(q) => Head(q) \in Answers \/ Tail(q) = <<>>
           /\ Lost(q) => \E n \in DOMAIN q : q[n] = Disconnect
           /\ Tail(<<Handshake>>) = <<>> /\ Tail(<<Disconnect>>) = <<>>
<1>1. Disconnect \notin Answers /\ Answers \subseteq Message
  BY DEF Answers, Disconnect
<1>2. AllAnswers(<<>>)
  BY DEF AllAnswers
<1>3. ASSUME NEW m \in Answers, AllAnswers(q) PROVE AllAnswers(Append(q, m))
  BY <1>3 DEF AllAnswers
<1>4. ASSUME AllAnswers(q) PROVE Lost(Append(q, Disconnect))
  BY <1>4 DEF AllAnswers, Lost
<1>5. ASSUME AllAnswers(q), q # <<>> PROVE Head(q) \in Answers /\ AllAnswers(Tail(q))
  BY <1>5 DEF AllAnswers
<1>6. ASSUME Lost(q), Head(q) \in Answers PROVE Lost(Tail(q))
  <2>0. q # <<>> /\ q[Len(q)] = Disconnect
    BY <1>6 DEF Lost
  <2>1. q # <<>> /\ Len(q) \in Nat /\ Head(q) = q[1] /\ Len(q) > 0
    BY <2>0
  <2>2. Len(q) > 1
    BY <1>1, <1>6, <2>0, <2>1
  <2> DEFINE r == Tail(q)
  <2>3. Len(r) = Len(q) - 1 /\ \A i \in 1 .. Len(r) : r[i] = q[i + 1]
    BY <2>2
  <2> HIDE DEF r
  <2>4. r # <<>>
    BY <2>2, <2>3
  <2>5. r[Len(r)] = Disconnect
    BY <1>6, <2>1, <2>2, <2>3 DEF Lost
  <2>6. \A i \in 1 .. Len(r) - 1 : r[i] \in Answers
    BY <1>6, <2>1, <2>2, <2>3 DEF Lost
  <2> QED
    BY <2>4, <2>5, <2>6 DEF Lost, r
<1>7. ASSUME Lost(q) PROVE Head(q) \in Answers \/ Tail(q) = <<>>
  <2>1. CASE Len(q) = 1
    <3>1. Tail(q) \in Seq(Message) /\ Len(Tail(q)) = 0
      BY <2>1
    <3> QED
      BY <3>1, EmptySeq
  <2>2. CASE Len(q) > 1
    BY <1>7, <2>2 DEF Lost
  <2> QED
    BY <1>7, <2>1, <2>2 DEF Lost
<1>8. ASSUME Lost(q) PROVE \E n \in DOMAIN q : q[n] = Disconnect
  BY <1>8 DEF Lost
<1>9. Tail(<<Handshake>>) = <<>> /\ Tail(<<Disconnect>>) = <<>>
  OBVIOUS
<1> QED
  BY <1>2, <1>3, <1>4, <1>5, <1>6, <1>7, <1>8, <1>9, Zenon

\* What the messages are.
LEMMA MessageKinds ==
    /\ Handshake.type = "handshake" /\ Disconnect.type = "disconnect"
    /\ \A m \in Answers : m \in Message /\ m.type \in {"response", "part"}
    /\ \A m \in Message : m.type \in {"response", "part"} => m \in Answers
    /\ \A id \in CallIDs : Response(id) \in Answers
    /\ \A id \in CallIDs, n \in Offsets : Part(id, n) \in Answers
<1>1. \A id \in CallIDs : Response(id) \in Message /\ Response(id).type = "response"
  BY MessageType DEF Response
<1>2. \A id \in CallIDs, n \in Offsets : Part(id, n) \in Message /\ Part(id, n).type = "part"
  BY MessageType DEF Part
<1> QED
  BY <1>1, <1>2 DEF Answers, Handshake, Disconnect

LEMMA LinkInit == Init => LinkInv
<1> SUFFICES ASSUME Init PROVE LinkInv
  OBVIOUS
<1>1. TypeOK /\ TeardownInv
  BY InitType, InitAccounts
<1>2. /\ pc["net"] = "top" /\ pc["owner"] \in {"created", "poll"}
      /\ \/ connected /\ link = "joined"
         \/ ~connected /\ link = "connecting" /\ pc["owner"] = "poll"
      /\ ~disconnected /\ peer /\ ~destroying /\ crashed = "no"
      /\ outputQueue = <<>> /\ events = <<>>
  BY DEF Init, Thread
<1>3. AllAnswers(<<>>)
  BY DEF AllAnswers
<1> QED
  BY <1>1, <1>2, <1>3 DEF LinkInv, LinkFits, NetFits, OwnerFits, NoStaleOutput,
     Connecting, Greeted, Joined, LossPending, LossSeen

-----------------------------------------------------------------------------
(***************************************************************************)
(* Every step keeps it.                                                    *)
(***************************************************************************)
seen == <<connected, disconnected, peer, destroying, outputQueue, events, link, crashed>>

\* A thread that only moves.
LEMMA NetMoves ==
    ASSUME LinkInv, UNCHANGED seen, NEW from, pc["net"] = from,
           pc'["owner"] = pc["owner"],
           \/ from = "top" /\ pc'["net"] = IF connected THEN "drain" ELSE "service"
           \/ from = "drain" /\ pc'["net"] = "service"
           \/ from = "onConnected" /\ pc'["net"] \in {"push", "service"}
           \/ from = "push" /\ pc'["net"] = "service"
           \/ from = "service" /\ events = <<>> /\ pc'["net"] = "top"
           \/ from = "service" /\ pc'["net"] = "exited"
    PROVE  LinkFits' /\ NetFits' /\ OwnerFits' /\ NoStaleOutput'
  BY DEF LinkInv, seen, LinkFits, NetFits, OwnerFits, NoStaleOutput,
     Connecting, Greeted, Joined, LossPending, LossSeen, AllAnswers, Lost

\* The steps of the net thread.
LEMMA NetKeeps ==
    ASSUME LinkInv, NetStep
    PROVE  LinkFits' /\ NetFits' /\ OwnerFits' /\ NoStaleOutput'
<1> DEFINE Goal == LinkFits' /\ NetFits' /\ OwnerFits' /\ NoStaleOutput'
<1>1. /\ outputQueue \in Seq(Message) /\ events \in Seq(Message)
      /\ pc \in [Thread -> NetPC \cup OwnerPC] /\ Thread = {"net", "owner"}
      /\ ThreadsTyped
  BY DEF LinkInv, TypeOK, QueuesTyped, EnetTyped, ThreadsTyped, Thread
<1>2. CASE NetTop \/ NetDrainDone \/ NetPush \/ NetServiceDone \/ NetExit
  <2>1. UNCHANGED seen /\ pc'["owner"] = pc["owner"]
    BY <1>1, <1>2 DEF NetTop, NetDrainDone, NetPush, Push, NetServiceDone, NetExit, seen,
       flagVars, enetVars, Goto
  <2>2. \/ pc["net"] = "top" /\ pc'["net"] = IF connected THEN "drain" ELSE "service"
        \/ pc["net"] = "drain" /\ pc'["net"] = "service"
        \/ pc["net"] = "push" /\ pc'["net"] = "service"
        \/ pc["net"] = "service" /\ events = <<>> /\ pc'["net"] = "top"
        \/ pc["net"] = "service" /\ pc'["net"] = "exited"
    BY <1>1, <1>2 DEF NetTop, NetDrainDone, NetPush, Push, NetServiceDone, NetExit, Goto, At
  <2> QED
    BY <2>1, <2>2, NetMoves
<1>3. CASE NetOnConnected
  <2>1. UNCHANGED seen /\ pc["net"] = "onConnected"
    BY <1>3 DEF NetOnConnected, seen, flagVars, enetVars, At
  <2>2. pc'["owner"] = pc["owner"] /\ pc'["net"] \in {"push", "service"}
    BY <1>1, <1>3, PlaceCallGoes DEF NetOnConnected
  <2> QED
    BY <2>1, <2>2, NetMoves
<1>4. CASE NetSend
  <2>1. /\ pc["net"] = "drain" /\ pc' = pc
        /\ UNCHANGED <<connected, disconnected, peer, destroying, outputQueue, events, link>>
        /\ crashed' = crashed \/ (crashed' = "nullPeer" /\ ~peer)
    BY <1>4 DEF NetSend, At, threadVars, flagVars
  <2>2. ~peer => disconnected \/ Lost(outputQueue)
    BY <2>1 DEF LinkInv, LinkFits, Connecting, Greeted, Joined, LossPending, LossSeen,
       TypeOK, EnetTyped
  <2>3. Lost(outputQueue)' = Lost(outputQueue) /\ AllAnswers(outputQueue)' = AllAnswers(outputQueue)
        /\ AllAnswers(events)' = AllAnswers(events)
    BY <2>1 DEF Lost, AllAnswers
  <2> QED
    BY <2>1, <2>2, <2>3 DEF LinkInv, LinkFits, NetFits, OwnerFits, NoStaleOutput,
       Connecting, Greeted, Joined, LossPending, LossSeen
<1>5. CASE NetHandshake
  <2>1. /\ pc["net"] = "service" /\ pc'["net"] = "handshake" /\ pc'["owner"] = pc["owner"]
        /\ UNCHANGED <<connected, disconnected, peer, destroying, outputQueue, link, crashed>>
        /\ events # <<>> /\ Head(events).type = "handshake" /\ events' = Tail(events)
    BY <1>1, <1>5 DEF NetHandshake, Receives, At, Goto, flagVars
  <2>2. link = "greeted" /\ events' = <<>>
    BY <1>1, <2>1, QueueFacts, MessageKinds DEF LinkInv, LinkFits, Connecting, Greeted, Joined,
       LossPending, LossSeen, TypeOK, EnetTyped
  <2>3. Lost(outputQueue)' = Lost(outputQueue)
    BY <2>1 DEF Lost
  <2> QED
    BY <2>1, <2>2, <2>3 DEF LinkInv, LinkFits, NetFits, OwnerFits, NoStaleOutput,
       Connecting, Greeted, Joined, LossPending, LossSeen
<1>6. CASE NetSendInitialData
  <2>1. /\ pc["net"] = "handshake" /\ pc'["net"] = "onConnected" /\ pc'["owner"] = pc["owner"]
        /\ UNCHANGED <<disconnected, peer, destroying, outputQueue, events, crashed>>
        /\ link = "greeted" /\ link' = "joined" /\ connected' = TRUE
        /\ outputQueue = <<>> /\ events = <<>>
    BY <1>1, <1>6 DEF NetSendInitialData, At, Goto, LinkInv, LinkFits, NetFits, Greeted
  <2>2. AllAnswers(<<>>)
    BY DEF AllAnswers
  <2>3. AllAnswers(events)' /\ AllAnswers(outputQueue)'
    BY <2>1, <2>2 DEF AllAnswers
  <2>4. Lost(outputQueue)' = Lost(outputQueue)
    BY <2>1 DEF Lost
  <2> QED
    BY <2>1, <2>3, <2>4 DEF LinkInv, LinkFits, NetFits, OwnerFits, NoStaleOutput,
       Connecting, Greeted, Joined, LossPending, LossSeen
<1>7. CASE NetData
  <2>1. /\ pc["net"] = "service" /\ pc' = pc
        /\ UNCHANGED <<connected, disconnected, peer, destroying, link, crashed>>
        /\ events # <<>> /\ events' = Tail(events)
        /\ Head(events).type \in {"response", "part"}
        /\ outputQueue' = Append(outputQueue, Head(events))
    BY <1>1, <1>7 DEF NetData, Receives, At, threadVars, flagVars
  <2>2. link = "joined" /\ Head(events) \in Answers
    BY <1>1, <2>1, QueueFacts, MessageKinds DEF LinkInv, LinkFits, Connecting, Greeted, Joined,
       LossPending, LossSeen, TypeOK, EnetTyped
  <2>3. AllAnswers(events)' /\ AllAnswers(outputQueue)'
    <3>1. AllAnswers(Tail(events)) /\ AllAnswers(Append(outputQueue, Head(events)))
      BY <1>1, <2>1, <2>2, QueueFacts DEF LinkInv, LinkFits, Joined
    <3> QED
      BY <2>1, <3>1 DEF AllAnswers
  <2>4. connected \/ disconnected
    BY <2>2 DEF LinkInv, LinkFits, Joined, OwnerFits
  <2>5. crashed = "no"
    BY <1>7 DEF NetData, Receives, At
  <2>6. disconnected => destroying
    BY <2>2 DEF LinkInv, OwnerFits
  <2> QED
    BY <2>1, <2>2, <2>3, <2>4, <2>5, <2>6 DEF LinkInv, LinkFits, NetFits, OwnerFits,
       NoStaleOutput, Connecting, Greeted, Joined, LossPending, LossSeen
<1>8. CASE NetDisconnectEvent
  <2>1. /\ pc["net"] = "service" /\ pc'["net"] = "top" /\ pc'["owner"] = pc["owner"]
        /\ UNCHANGED <<connected, disconnected, destroying, link, crashed>>
        /\ events # <<>> /\ events' = Tail(events) /\ crashed = "no"
        /\ Head(events).type = "disconnect"
        /\ outputQueue' = Append(outputQueue, Disconnect) /\ peer' = FALSE
    BY <1>1, <1>8 DEF NetDisconnectEvent, Receives, At, Goto
  <2>2. link = "down" /\ LossPending
    <3>1. link # "joined"
      BY <1>1, <2>1, QueueFacts, MessageKinds DEF LinkInv, LinkFits, Joined
    <3>2. link \notin {"connecting", "connected", "greeted"}
      BY <2>1, MessageKinds DEF LinkInv, LinkFits, Connecting, Greeted
    <3>3. link = "down"
      BY <3>1, <3>2 DEF LinkInv, TypeOK, EnetTyped
    <3> QED
      BY <2>1, <3>3 DEF LinkInv, LinkFits, LossSeen
  <2>3. events' = <<>>
    BY <1>1, <2>1, <2>2, QueueFacts DEF LossPending
  <2>4. Lost(Append(outputQueue, Disconnect))
    BY <1>1, <2>2, QueueFacts DEF LossPending
  <2>5. Lost(outputQueue)'
    BY <2>1, <2>4 DEF Lost
  <2>6. disconnected => destroying
    BY <2>2 DEF LinkInv, OwnerFits, LossPending
  <2>7. NoStaleOutput'
    <3>1. ~connected /\ ~disconnected => outputQueue = <<>>
      BY <2>1, <2>2 DEF LinkInv, NoStaleOutput, LossPending
    <3>2. outputQueue = <<>> => Append(outputQueue, Disconnect) = <<Disconnect>>
      OBVIOUS
    <3> QED
      BY <2>1, <3>1, <3>2 DEF NoStaleOutput
  <2> QED
    BY <2>1, <2>2, <2>3, <2>5, <2>6, <2>7 DEF LinkInv, LinkFits, NetFits, OwnerFits,
       Connecting, Greeted, Joined, LossPending, LossSeen
<1> QED
  BY <1>2, <1>3, <1>4, <1>5, <1>6, <1>7, <1>8 DEF NetStep

\* A step of the owner that leaves the link alone.
LEMMA OwnerMoves ==
    ASSUME LinkInv,
           UNCHANGED <<connected, disconnected, peer, destroying, outputQueue, events, link>>,
           crashed' # "nullPeer" \/ crashed' = crashed,
           pc'["net"] = pc["net"],
           \/ pc'["owner"] = pc["owner"]
           \/ pc["owner"] \in {"created", "poll", "push"} /\ pc'["owner"] \in {"poll", "push"}
           \/ pc["owner"] = "fail" /\ pc'["owner"] = IF destroying THEN "dead" ELSE "poll"
    PROVE  LinkFits' /\ NetFits' /\ OwnerFits' /\ NoStaleOutput'
  BY DEF LinkInv, LinkFits, NetFits, OwnerFits, NoStaleOutput,
     Connecting, Greeted, Joined, LossPending, LossSeen, AllAnswers, Lost

\* An answer polled from outputQueue.
LEMMA PollsAnswer ==
    ASSUME LinkInv, Polls("response") \/ Polls("part"),
           UNCHANGED <<connected, disconnected, peer, destroying, events, link>>,
           crashed' # "nullPeer", pc'["net"] = pc["net"],
           pc'["owner"] \in {"poll", "push"}
    PROVE  LinkFits' /\ NetFits' /\ OwnerFits' /\ NoStaleOutput'
<1>1. outputQueue \in Seq(Message)
  BY DEF LinkInv, TypeOK, QueuesTyped
<1>2. /\ pc["owner"] = "poll" /\ ~disconnected /\ outputQueue # <<>>
      /\ outputQueue' = Tail(outputQueue)
      /\ Head(outputQueue).type \in {"response", "part"}
  BY DEF Polls, At
<1>3. Head(outputQueue) \in Answers
  BY <1>1, <1>2, MessageKinds
<1>4. /\ AllAnswers(outputQueue) => AllAnswers(outputQueue)'
      /\ Lost(outputQueue) => Lost(outputQueue)'
  <2>1. /\ AllAnswers(outputQueue) => AllAnswers(Tail(outputQueue))
        /\ Lost(outputQueue) => Lost(Tail(outputQueue))
    BY <1>1, <1>2, <1>3, QueueFacts
  <2> QED
    BY <1>2, <2>1 DEF AllAnswers, Lost
<1>5. AllAnswers(events)' = AllAnswers(events)
  BY DEF AllAnswers
<1>6. outputQueue # <<Disconnect>>
  BY <1>2, MessageKinds
<1> QED
  BY <1>2, <1>4, <1>5, <1>6 DEF LinkInv, LinkFits, NetFits, OwnerFits, NoStaleOutput,
     Connecting, Greeted, Joined, LossPending, LossSeen

\* The steps of the owner.
LEMMA OwnerKeeps ==
    ASSUME LinkInv, OwnerStep \/ Destroy
    PROVE  LinkFits' /\ NetFits' /\ OwnerFits' /\ NoStaleOutput'
<1>1. /\ outputQueue \in Seq(Message) /\ events \in Seq(Message)
      /\ pc \in [Thread -> NetPC \cup OwnerPC] /\ Thread = {"net", "owner"}
      /\ ThreadsTyped
  BY DEF LinkInv, TypeOK, QueuesTyped, EnetTyped, ThreadsTyped, Thread
<1>2. CASE ScannerCall \/ OwnerPush \/ StartReconnectTimer
  <2>1. /\ UNCHANGED <<connected, disconnected, peer, destroying, outputQueue, events, link>>
        /\ crashed' = crashed
    BY <1>2 DEF ScannerCall, OwnerPush, Push, StartReconnectTimer, flagVars, enetVars
  <2>2. CASE ScannerCall
    <3>1. pc["owner"] = "created" /\ pc'["owner"] \in {"poll", "push"} /\ pc'["net"] = pc["net"]
      BY <1>1, <2>2, PlaceCallGoes DEF ScannerCall, At
    <3> QED
      BY <2>1, <3>1, OwnerMoves
  <2>3. CASE OwnerPush
    <3>1. pc["owner"] = "push" /\ pc'["owner"] = "poll" /\ pc'["net"] = pc["net"]
      BY <1>1, <2>3 DEF OwnerPush, Push, At, Goto
    <3> QED
      BY <2>1, <3>1, OwnerMoves
  <2>4. CASE StartReconnectTimer
    <3>1. pc' = pc
      BY <2>4 DEF StartReconnectTimer, threadVars
    <3> QED
      BY <2>1, <3>1, OwnerMoves
  <2> QED
    BY <1>2, <2>2, <2>3, <2>4
<1>3. CASE Reconnect
  <2>1. /\ pc["owner"] = "poll" /\ disconnected /\ pc["net"] = "none"
        /\ disconnected' = FALSE /\ peer' = TRUE /\ link' = "connecting"
        /\ pc'["net"] = "top" /\ pc'["owner"] = pc["owner"]
        /\ UNCHANGED <<connected, destroying, outputQueue, events, crashed>>
        /\ crashed = "no"
    BY <1>1, <1>3 DEF Reconnect, ResetFlags, NewPeer, At, Goto
  <2>2. ~destroying /\ outputQueue = <<>> /\ ~connected /\ ~peer /\ link = "down"
    BY <2>1 DEF LinkInv, OwnerFits
  <2>3. events = <<>>
    BY <2>2 DEF LinkInv, LinkFits, LossPending, LossSeen
  <2> QED
    BY <2>1, <2>2, <2>3 DEF LinkFits, NetFits, OwnerFits, NoStaleOutput, Connecting
<1>4. CASE PollResponse \/ PollLastPart \/ PollProgress
  <2>1. /\ Polls("response") \/ Polls("part")
        /\ UNCHANGED <<connected, disconnected, peer, destroying, events, link>>
    BY <1>4 DEF PollResponse, PollLastPart, PollProgress, flagVars, enetVars
  <2>2. crashed = "no" /\ pc["owner"] = "poll"
    BY <2>1 DEF Polls, At
  <2>3. CASE PollProgress
    <3>1. pc' = pc /\ crashed' = crashed
      BY <2>3 DEF PollProgress, threadVars
    <3> QED
      BY <2>1, <2>2, <3>1, PollsAnswer
  <2>4. CASE PollResponse \/ PollLastPart
    <3>1. CallBack(Head(outputQueue).id)
      BY <2>4 DEF PollResponse, PollLastPart
    <3>2. /\ crashed' # "nullPeer" /\ pc'["net"] = pc["net"]
          /\ pc'["owner"] \in {"poll", "push"}
      BY <1>1, <2>2, <3>1, PlaceCallGoes DEF CallBack, threadVars
    <3> QED
      BY <2>1, <3>2, PollsAnswer
  <2> QED
    BY <1>4, <2>3, <2>4
<1>5. CASE PollDisconnected
  <2>1. /\ pc["owner"] = "poll" /\ ~disconnected /\ outputQueue # <<>> /\ crashed = "no"
        /\ outputQueue' = Tail(outputQueue) /\ Head(outputQueue).type = "disconnect"
        /\ disconnected' = TRUE /\ pc'["owner"] = "notify" /\ pc'["net"] = pc["net"]
        /\ UNCHANGED <<connected, peer, destroying, events, link, crashed>>
    BY <1>1, <1>5 DEF PollDisconnected, Polls, BeginDisconnect, RaiseFlags, At, Goto, enetVars
  <2>2. ~AllAnswers(outputQueue)
    BY <1>1, <2>1, QueueFacts, MessageKinds
  <2>3. link = "down" /\ LossSeen /\ Lost(outputQueue)
    BY <2>1, <2>2 DEF LinkInv, LinkFits, Connecting, Greeted, Joined, LossPending, LossSeen,
       TypeOK, EnetTyped
  <2>4. outputQueue' = <<>>
    BY <1>1, <2>1, <2>3, QueueFacts, MessageKinds
  <2> QED
    BY <2>1, <2>3, <2>4 DEF LinkInv, LinkFits, NetFits, OwnerFits, NoStaleOutput, LossSeen
<1>6. CASE Destroy
  <2>1. /\ destroying' = TRUE /\ disconnected' = TRUE /\ pc["owner"] = "poll"
        /\ pc'["owner"] \in {"notify", "dead"} /\ pc'["net"] = pc["net"]
        /\ UNCHANGED <<connected, peer, outputQueue, events, link, crashed>>
    BY <1>1, <1>6 DEF Destroy, BeginDisconnect, RaiseFlags, At, Goto, enetVars, LinkInv,
       TypeOK, FlagsTyped
  <2>2. /\ AllAnswers(events)' = AllAnswers(events)
        /\ AllAnswers(outputQueue)' = AllAnswers(outputQueue)
    BY <2>1 DEF AllAnswers
  <2> QED
    BY <2>1, <2>2 DEF LinkInv, LinkFits, NetFits, OwnerFits, NoStaleOutput,
       Connecting, Greeted, Joined, LossPending, LossSeen
<1>7. CASE Notify
  <2>1. /\ pc["owner"] = "notify" /\ disconnected /\ connected' = FALSE
        /\ pc'["owner"] = "join" /\ pc'["net"] = pc["net"]
        /\ UNCHANGED <<disconnected, peer, destroying, outputQueue, events, link, crashed>>
    BY <1>1, <1>7, PlaceCallGoes DEF Notify, At, enetVars, LinkInv, TeardownInv
  <2>2. /\ AllAnswers(events)' = AllAnswers(events)
        /\ AllAnswers(outputQueue)' = AllAnswers(outputQueue)
    BY <2>1 DEF AllAnswers
  <2> QED
    BY <2>1, <2>2 DEF LinkInv, LinkFits, NetFits, OwnerFits, NoStaleOutput,
       Connecting, Greeted, Joined, LossPending, LossSeen
<1>8. CASE Join
  <2>1. /\ pc["owner"] = "join" /\ disconnected /\ pc'["owner"] = "fail" /\ pc'["net"] = "none"
        /\ peer' = FALSE /\ link' = "down" /\ events' = <<>>
        /\ UNCHANGED <<connected, disconnected, destroying, outputQueue, crashed>>
    BY <1>1, <1>8 DEF Join, At, LinkInv, TeardownInv
  <2> QED
    BY <2>1 DEF LinkInv, LinkFits, NetFits, OwnerFits, NoStaleOutput, LossSeen
<1>9. CASE FailCallback \/ FailDone
  <2>1. /\ UNCHANGED <<connected, disconnected, peer, destroying, outputQueue, events, link>>
        /\ crashed' # "nullPeer" \/ crashed' = crashed
    BY <1>9 DEF FailCallback, FailDone, flagVars, enetVars
  <2>2. CASE FailCallback
    <3>1. pc["owner"] = "fail" /\ disconnected
      BY <2>2 DEF FailCallback, At, LinkInv, TeardownInv
    <3>2. pc'["owner"] = "fail" /\ pc'["net"] = pc["net"]
      BY <1>1, <2>2, <3>1, PlaceCallGoes DEF FailCallback, threadVars
    <3> QED
      BY <2>1, <3>1, <3>2, OwnerMoves
  <2>3. CASE FailDone
    <3>1. /\ pc["owner"] = "fail" /\ pc'["net"] = pc["net"]
          /\ pc'["owner"] = IF destroying THEN "dead" ELSE "poll"
      BY <1>1, <2>3 DEF FailDone, At, Goto
    <3> QED
      BY <2>1, <3>1, OwnerMoves
  <2> QED
    BY <1>9, <2>2, <2>3
<1> QED
  BY <1>2, <1>3, <1>4, <1>5, <1>6, <1>7, <1>8, <1>9 DEF OwnerStep

\* The steps of enet and of those behind it.
LEMMA EnetKeeps ==
    ASSUME LinkInv, EnetStep
    PROVE  LinkFits' /\ NetFits' /\ OwnerFits' /\ NoStaleOutput'
<1>1. outputQueue \in Seq(Message) /\ events \in Seq(Message)
  BY DEF LinkInv, TypeOK, QueuesTyped, EnetTyped
<1>2. UNCHANGED <<pc, connected, disconnected, peer, destroying, outputQueue, crashed>>
  BY DEF EnetStep, EnetConnect, TrackerGreets, EnetDrop, TrackerAnswers, TrackerRelays,
     HostPart, enetOnly, threadVars, flagVars
<1>3. /\ AllAnswers(outputQueue)' = AllAnswers(outputQueue)
      /\ Lost(outputQueue)' = Lost(outputQueue)
  BY <1>2 DEF AllAnswers, Lost
<1>4. CASE EnetConnect \/ TrackerGreets \/ EnetDrop
  <2>1. pc["net"] = "service" /\ link # "down"
    BY <1>4 DEF EnetConnect, TrackerGreets, EnetDrop, At
  <2>2. CASE EnetConnect
    BY <1>2, <2>1, <2>2 DEF EnetConnect, LinkInv, LinkFits, NetFits, OwnerFits, NoStaleOutput,
       Connecting
  <2>3. CASE TrackerGreets
    <3>1. link = "connected" /\ link' = "greeted" /\ events' = Append(events, Handshake)
      BY <2>3 DEF TrackerGreets
    <3>2. events' = <<Handshake>>
      BY <3>1 DEF LinkInv, LinkFits, Connecting
    <3> QED
      BY <1>2, <2>1, <3>1, <3>2 DEF LinkInv, LinkFits, NetFits, OwnerFits, NoStaleOutput,
         Connecting, Greeted
  <2>4. CASE EnetDrop
    <3>1. link' = "down" /\ events' = <<Disconnect>>
      BY <2>4 DEF EnetDrop
    <3>2. AllAnswers(outputQueue) /\ peer
      BY <2>1 DEF LinkInv, LinkFits, Connecting, Greeted, Joined, TypeOK, EnetTyped, AllAnswers
    <3> QED
      BY <1>2, <1>3, <2>1, <3>1, <3>2 DEF LinkInv, LinkFits, NetFits, OwnerFits,
         NoStaleOutput, LossPending
  <2> QED
    BY <1>4, <2>2, <2>3, <2>4
<1>5. CASE TrackerAnswers \/ TrackerRelays \/ HostPart
  <2>1. link' = link
    BY <1>5 DEF TrackerAnswers, TrackerRelays, HostPart
  <2>2. \/ events' = events
        \/ /\ link = "joined"
           /\ \E m \in Answers : \/ events' = Append(events, m)
                                 \/ events' = Append(Append(events, m), m)
    <3>1. ASSUME TrackerAnswers PROVE <2>2
      <4>1. PICK id \in wire : \E answers \in {<<>>, <<Response(id)>>, <<Response(id), Response(id)>>} :
                                   events' = events \o answers
        BY <3>1 DEF TrackerAnswers
      <4> DEFINE m == Response(id)
      <4>2. m \in Answers /\ m \in Message
        BY <4>1, MessageKinds DEF LinkInv, TypeOK, EnetTyped
      <4> HIDE DEF m
      <4>3. /\ events \o <<>> = events /\ events \o <<m>> = Append(events, m)
            /\ events \o <<m, m>> = Append(Append(events, m), m)
        BY <1>1, <4>2
      <4>4. link = "joined"
        BY <3>1 DEF TrackerAnswers
      <4> QED
        BY <4>1, <4>2, <4>3, <4>4 DEF m
    <3>2. ASSUME TrackerRelays PROVE <2>2
      BY <3>2, MessageKinds DEF TrackerRelays, LinkInv, TypeOK, EnetTyped
    <3>3. ASSUME HostPart PROVE <2>2
      <4>1. PICK id \in CallIDs : /\ hostNext[id] \in 1 .. Parts
                                  /\ \/ /\ link = "joined"
                                        /\ events' = Append(events, Part(id, hostNext[id] - 1))
                                     \/ UNCHANGED events
        BY <3>3 DEF HostPart
      <4>2. Part(id, hostNext[id] - 1) \in Answers
        <5>1. hostNext[id] - 1 \in Offsets
          BY <4>1, ConstantsAssumption DEF Offsets
        <5> QED
          BY <5>1, MessageKinds
      <4> QED
        BY <4>1, <4>2
    <3> QED
      BY <1>5, <3>1, <3>2, <3>3
  <2>3. CASE events' = events
    BY <1>2, <1>3, <2>1, <2>3 DEF LinkInv, LinkFits, NetFits, OwnerFits, NoStaleOutput,
       Connecting, Greeted, Joined, LossPending, LossSeen, AllAnswers
  <2>4. ASSUME link = "joined", AllAnswers(events)'
        PROVE  LinkFits' /\ NetFits' /\ OwnerFits' /\ NoStaleOutput'
    BY <1>2, <1>3, <2>1, <2>4 DEF LinkInv, LinkFits, NetFits, OwnerFits, NoStaleOutput,
       Joined
  <2>5. ASSUME link = "joined", NEW m \in Answers,
               events' = Append(events, m) \/ events' = Append(Append(events, m), m)
        PROVE  AllAnswers(events)'
    <3>1. AllAnswers(events) /\ m \in Message
      BY <2>5, MessageKinds DEF LinkInv, LinkFits, Joined
    <3>2. AllAnswers(Append(events, m)) /\ Append(events, m) \in Seq(Message)
      BY <1>1, <3>1, QueueFacts
    <3>3. AllAnswers(Append(Append(events, m), m))
      BY <3>1, <3>2, QueueFacts
    <3> QED
      BY <2>5, <3>2, <3>3 DEF AllAnswers
  <2> QED
    BY <2>2, <2>3, <2>4, <2>5
<1> QED
  BY <1>4, <1>5 DEF EnetStep

LEMMA LinkSound == Spec => []LinkInv
<1>1. LinkInv /\ AccountingInv /\ AccountingInv' /\ [Next]_vars => LinkInv'
  <2> SUFFICES ASSUME LinkInv, AccountingInv', [Next]_vars PROVE LinkInv'
    OBVIOUS
  <2>1. CASE Next
    BY <2>1, NetKeeps, OwnerKeeps, EnetKeeps DEF Next, LinkInv, AccountingInv
  <2>2. CASE UNCHANGED vars
    <3>1. UNCHANGED seen /\ pc' = pc
      BY <2>2 DEF vars, seen, threadVars, flagVars, enetVars
    <3>2. UNCHANGED <<connected, disconnected, peer, destroying, outputQueue, events, link>>
          /\ crashed' = crashed
      BY <3>1 DEF seen
    <3>3. LinkFits' /\ NetFits' /\ OwnerFits' /\ NoStaleOutput'
      BY <3>1, <3>2, OwnerMoves
    <3> QED
      BY <3>3 DEF LinkInv, AccountingInv
  <2> QED
    BY <2>1, <2>2
<1> QED
  BY <1>1, LinkInit, AccountingSound, PTL DEF Spec

\* No output of an earlier session reaches a connection that is being made:
\* connect() need not clear outputQueue.
THEOREM NoStaleOutputHolds == Spec => []NoStaleOutput
  BY LinkSound, PTL DEF LinkInv

\* The net thread and the owner are never both at callbacksByID where the code
\* asks "hmmm not thread safe?", unless the interface is being deleted.
THEOREM CallbacksNotSharedHolds == Spec => []CallbacksNotShared
<1>1. LinkInv => CallbacksNotShared
  BY DEF LinkInv, TeardownInv, NetFits, OwnerFits, CallbacksNotShared, OwnerUsesCallbacks
<1> QED
  BY <1>1, LinkSound, PTL

\* While the peer is there, no request is handed to enet before the join
\* request: where the queue is drained, the peer is gone or has joined.
THEOREM SendsAfterJoinHolds == Spec => SendsAfterJoin
<1>1. LinkInv /\ [Next]_vars => [NetSend /\ peer => link = "joined"]_vars
  BY DEF LinkInv, TypeOK, EnetTyped, LinkFits, Connecting, Greeted, LossPending, LossSeen,
     NetSend, At
<1> QED
  BY <1>1, LinkSound, PTL DEF Spec, SendsAfterJoin

-----------------------------------------------------------------------------
(***************************************************************************)
(* The parts of a host's answer.  A call is on its way, or answered, or    *)
(* relayed, and never two of these; a relayed call's parts are each under  *)
(* way or in place once.                                                   *)
(***************************************************************************)
Of(q) == {q[i] : i \in DOMAIN q}

\* No member of M is twice in the queue.
Once(q, M) == \A i, j \in DOMAIN q : q[i] \in M /\ q[i] = q[j] => i = j

AllParts == {m \in Message : m.type = "part"}

\* The calls on their way to the tracker, and the answers on theirs back.
Pushed   == {pushing[t] : t \in {u \in Thread : pc[u] = "push"}}
Outgoing == Pushed \cup Of(inputQueue) \cup wire
Heard    == (Of(outputQueue) \cup Of(events)) \cap Answers

Unheard(id) == \A m \in Heard : m.id # id

OutgoingFits ==
    /\ \A id \in Outgoing : id < functionCallbackIDCounter
    /\ \A id \in CallIDs : id \in Outgoing \/ id >= functionCallbackIDCounter
          => hostNext[id] = 0 /\ Unheard(id)

OutgoingOnce ==
    /\ Once(inputQueue, CallIDs)
    /\ Of(inputQueue) \cap wire = {}
    /\ Pushed \cap (Of(inputQueue) \cup wire) = {}
    /\ pc["net"] = "push" /\ pc["owner"] = "push" => pushing["net"] # pushing["owner"]

HeardFits ==
    \A m \in Heard :
        /\ m.type = "response" => hostNext[m.id] = 0
        /\ m.type = "part" => /\ m.offset <= hostNext[m.id] - 2
                              /\ m.offset \notin downloads[m.id].data

HeardOnce ==
    /\ Once(outputQueue, AllParts) /\ Once(events, AllParts)
    /\ Of(outputQueue) \cap Of(events) \cap AllParts = {}

DownloadsFit ==
    \A id \in CallIDs :
        /\ downloads[id].recievedBytes = Cardinality(downloads[id].data)
        /\ \A o \in downloads[id].data : o <= hostNext[id] - 2

\* Until the first loss is noticed, a call has its callback until every part of
\* its answer has been taken.
FirstOf(entries) ==
    session = 1 /\ ~disconnected =>
       \A id \in CallIDs :
          /\ id \in Outgoing => entries[id] = "live"
          /\ hostNext[id] > 0 /\ entries[id] # "live" =>
                hostNext[id] = Parts + 1 /\ Unheard(id)
FirstSession == FirstOf(callbacksByID)

\* An entry without a func is that of a relayed call of an earlier session.
NullFits ==
    /\ \A id \in CallIDs : callbacksByID[id] = "null" \/ callbacksByIDCopy[id] = "null"
          => hostNext[id] > 0 /\ session > 1
    /\ crashed = "nullFunc" => \E id \in CallIDs : hostNext[id] > 0 /\ session > 1

PartsInv == /\ OutgoingFits /\ OutgoingOnce /\ HeardFits /\ HeardOnce
            /\ DownloadsFit /\ FirstSession /\ NullFits

\* Queues as sets of what is in them, and what is in them once.
LEMMA OfFacts ==
    ASSUME NEW S, NEW q \in Seq(S)
    PROVE  /\ Of(q) \subseteq S /\ Of(<<>>) = {}
           /\ \A e \in S : Of(Append(q, e)) = Of(q) \cup {e}
           /\ q # <<>> => /\ Head(q) \in Of(q) /\ Of(Tail(q)) \subseteq Of(q)
                          /\ Of(q) = Of(Tail(q)) \cup {Head(q)}
<1>1. Of(q) \subseteq S /\ Of(<<>>) = {}
  BY DEF Of
<1>2. ASSUME NEW e \in S PROVE Of(Append(q, e)) = Of(q) \cup {e}
  <2> DEFINE r == Append(q, e)
  <2>1. /\ Len(r) = Len(q) + 1 /\ r[Len(q) + 1] = e
        /\ \A i \in 1 .. Len(q) : r[i] = q[i]
        /\ DOMAIN r = 1 .. Len(q) + 1 /\ DOMAIN q = 1 .. Len(q) /\ Len(q) \in Nat
    OBVIOUS
  <2> HIDE DEF r
  <2>2. Of(r) \subseteq Of(q) \cup {e}
    BY <2>1 DEF Of
  <2>3. Of(q) \subseteq Of(r)
    BY <2>1 DEF Of
  <2>4. e \in Of(r)
    BY <2>1 DEF Of
  <2> QED
    BY <2>2, <2>3, <2>4 DEF r
<1>3. ASSUME q # <<>>
      PROVE  /\ Head(q) \in Of(q) /\ Of(Tail(q)) \subseteq Of(q)
             /\ Of(q) = Of(Tail(q)) \cup {Head(q)}
  <2> DEFINE r == Tail(q)
  <2>1. /\ Len(q) \in Nat /\ Len(q) > 0 /\ Head(q) = q[1]
        /\ DOMAIN q = 1 .. Len(q) /\ DOMAIN r = 1 .. Len(q) - 1
        /\ \A i \in 1 .. Len(q) - 1 : r[i] = q[i + 1]
    BY <1>3
  <2> HIDE DEF r
  <2>2. Head(q) \in Of(q)
    BY <2>1 DEF Of
  <2>3. Of(r) \subseteq Of(q)
    BY <2>1 DEF Of
  <2>4. ASSUME NEW i \in DOMAIN q PROVE q[i] \in Of(r) \cup {Head(q)}
    <3>1. CASE i = 1
      BY <2>1, <3>1
    <3>2. CASE i # 1
      <4>1. i - 1 \in DOMAIN r /\ r[i - 1] = q[i]
        BY <2>1, <3>2
      <4> QED
        BY <4>1 DEF Of
    <3> QED
      BY <3>1, <3>2
  <2>5. Of(q) \subseteq Of(r) \cup {Head(q)}
    BY <2>4 DEF Of
  <2> QED
    BY <2>2, <2>3, <2>5 DEF r
<1> QED
  BY <1>1, <1>2, <1>3

LEMMA OnceFacts ==
    ASSUME NEW S, NEW q \in Seq(S), NEW M
    PROVE  /\ Once(<<>>, M) /\ \A e : Once(<<e>>, M)
           /\ \A e \in S : Once(q, M) /\ e \notin Of(q) \cap M => Once(Append(q, e), M)
           /\ Once(q, M) /\ q # <<>> =>
                 Once(Tail(q), M) /\ (Head(q) \in M => Head(q) \notin Of(Tail(q)))
<1>1. Once(<<>>, M) /\ \A e : Once(<<e>>, M)
  BY DEF Once
<1>2. ASSUME NEW e \in S, Once(q, M), e \notin Of(q) \cap M PROVE Once(Append(q, e), M)
  <2> DEFINE r == Append(q, e)
  <2>1. /\ r[Len(q) + 1] = e /\ Len(q) \in Nat
        /\ \A i \in 1 .. Len(q) : r[i] = q[i] /\ q[i] \in Of(q)
        /\ DOMAIN r = 1 .. Len(q) + 1 /\ DOMAIN q = 1 .. Len(q)
    BY DEF Of
  <2> HIDE DEF r
  <2>2. SUFFICES ASSUME NEW i \in DOMAIN r, NEW j \in DOMAIN r, r[i] \in M, r[i] = r[j]
                 PROVE  i = j
    BY DEF Once, r
  <2>3. CASE i \in 1 .. Len(q) /\ j \in 1 .. Len(q)
    BY <1>2, <2>1, <2>2, <2>3 DEF Once
  <2>4. CASE i = Len(q) + 1 \/ j = Len(q) + 1
    BY <1>2, <2>1, <2>2, <2>4
  <2> QED
    BY <2>1, <2>3, <2>4
<1>3. ASSUME Once(q, M), q # <<>>
      PROVE  Once(Tail(q), M) /\ (Head(q) \in M => Head(q) \notin Of(Tail(q)))
  <2> DEFINE r == Tail(q)
  <2>1. /\ Len(q) \in Nat /\ Len(q) > 0 /\ Head(q) = q[1]
        /\ DOMAIN q = 1 .. Len(q) /\ DOMAIN r = 1 .. Len(q) - 1
        /\ \A i \in 1 .. Len(q) - 1 : r[i] = q[i + 1]
    BY <1>3
  <2> HIDE DEF r
  <2>2. ASSUME NEW i \in DOMAIN r, NEW j \in DOMAIN r, r[i] \in M, r[i] = r[j] PROVE i = j
    <3>1. i + 1 \in DOMAIN q /\ j + 1 \in DOMAIN q /\ i \in Int /\ j \in Int
          /\ q[i + 1] = r[i] /\ q[j + 1] = r[j]
      BY <2>1
    <3>2. i + 1 = j + 1
      BY <1>3, <2>2, <3>1 DEF Once
    <3> QED
      BY <3>1, <3>2
  <2>3. ASSUME Head(q) \in M, NEW i \in DOMAIN r, r[i] = Head(q) PROVE FALSE
    <3>1. 1 \in DOMAIN q /\ i + 1 \in DOMAIN q /\ q[1] \in M /\ q[1] = q[i + 1]
          /\ i + 1 # 1
      BY <2>1, <2>3
    <3> QED
      BY <1>3, <3>1 DEF Once
  <2> QED
    BY <2>2, <2>3 DEF Once, Of, r
<1> QED
  BY <1>1, <1>2, <1>3

LEMMA PartsTypes ==
    ASSUME TypeOK
    PROVE  /\ outputQueue \in Seq(Message) /\ events \in Seq(Message)
           /\ inputQueue \in Seq(CallIDs) /\ wire \subseteq CallIDs
           /\ pc \in [Thread -> NetPC \cup OwnerPC] /\ pushing \in [Thread -> CallIDs]
           /\ Outgoing \subseteq CallIDs
           /\ \A m \in Heard : m \in Answers /\ m \in Message /\ m.id \in CallIDs
                               /\ m.type \in {"response", "part"} /\ m.offset \in Offsets
           /\ Heard \cap AllParts = (Of(outputQueue) \cup Of(events)) \cap AllParts
<1>1. /\ outputQueue \in Seq(Message) /\ events \in Seq(Message)
      /\ inputQueue \in Seq(CallIDs) /\ wire \subseteq CallIDs
      /\ pc \in [Thread -> NetPC \cup OwnerPC] /\ pushing \in [Thread -> CallIDs]
  BY DEF TypeOK, QueuesTyped, EnetTyped, ThreadsTyped
<1>2. Of(inputQueue) \subseteq CallIDs
  BY <1>1, OfFacts
<1>3. Outgoing \subseteq CallIDs
  BY <1>1, <1>2 DEF Outgoing, Pushed
<1>4. \A m \in Answers : /\ m \in Message /\ m.id \in CallIDs
                         /\ m.type \in {"response", "part"} /\ m.offset \in Offsets
  BY DEF Answers, Message
<1>5. AllParts \subseteq Answers
  BY DEF AllParts, Answers
<1> QED
  BY <1>1, <1>3, <1>4, <1>5 DEF Heard

LEMMA PartsInit == Init => PartsInv
<1> SUFFICES ASSUME Init PROVE PartsInv
  OBVIOUS
<1>1. /\ Of(<<>>) = {} /\ Once(<<>>, CallIDs) /\ Once(<<>>, AllParts)
  BY DEF Of, Once
<1>2. /\ pc["net"] # "push" /\ pc["owner"] # "push"
      /\ outputQueue = <<>> /\ events = <<>> /\ inputQueue = <<>> /\ wire = {}
      /\ functionCallbackIDCounter = 0 /\ crashed = "no"
  BY DEF Init, Thread
<1>3. /\ \A id \in CallIDs : /\ callbacksByID[id] = "absent" /\ callbacksByIDCopy[id] = "absent"
                             /\ hostNext[id] = 0 /\ downloads[id] = NoDownload
      /\ Pushed = {} /\ Outgoing = {} /\ Heard = {}
  BY <1>1, <1>2 DEF Init, NoCallbacks, Pushed, Outgoing, Heard, Thread
<1>4. DownloadsFit
  BY <1>3, FS_EmptySet DEF DownloadsFit, NoDownload
<1>5. OutgoingFits /\ OutgoingOnce /\ HeardFits /\ HeardOnce
  BY <1>1, <1>2, <1>3 DEF OutgoingFits, OutgoingOnce, HeardFits, HeardOnce, Unheard
<1>6. FirstSession /\ NullFits
  BY <1>2, <1>3 DEF FirstSession, FirstOf, NullFits
<1> QED
  BY <1>4, <1>5, <1>6 DEF PartsInv

\* A step that neither relays a call nor takes a part, and puts nothing new on
\* its way.
LEMMA Shrinks ==
    ASSUME PartsInv, UNCHANGED <<hostNext, downloads, functionCallbackIDCounter>>,
           Outgoing' \subseteq Outgoing, Heard' \subseteq Heard
    PROVE  OutgoingFits' /\ HeardFits' /\ DownloadsFit'
  BY DEF PartsInv, OutgoingFits, HeardFits, DownloadsFit, Unheard

LEMMA CallsKept ==
    ASSUME PartsInv, UNCHANGED <<hostNext, callbacksByID, callbacksByIDCopy>>,
           crashed' # "nullFunc" \/ crashed' = crashed,
           session' = 1 /\ ~disconnected' => session = 1 /\ ~disconnected,
           session > 1 => session' > 1,
           Outgoing' \subseteq Outgoing, Heard' \subseteq Heard
    PROVE  FirstSession' /\ NullFits'
  BY DEF PartsInv, FirstSession, FirstOf, NullFits, Unheard

\* A thread that is not at its push.
LEMMA PushedSame ==
    ASSUME pushing' = pushing, \A t \in Thread : pc'[t] = "push" <=> pc[t] = "push"
    PROVE  Pushed' = Pushed
  BY DEF Pushed

LEMMA Still ==
    ASSUME PartsInv, UNCHANGED <<pushing, inputQueue, hostNext, downloads,
              functionCallbackIDCounter, callbacksByID, callbacksByIDCopy>>,
           wire' \subseteq wire,
           \A t \in Thread : pc'[t] = "push" <=> pc[t] = "push",
           crashed' # "nullFunc" \/ crashed' = crashed,
           session' = 1 /\ ~disconnected' => session = 1 /\ ~disconnected,
           session > 1 => session' > 1,
           Heard' \subseteq Heard, HeardOnce'
    PROVE  PartsInv'
<1>1. Pushed' = Pushed
  BY PushedSame
<1>2. Of(inputQueue)' = Of(inputQueue) /\ Once(inputQueue, CallIDs)' = Once(inputQueue, CallIDs)
  BY DEF Of, Once
<1>3. Outgoing' \subseteq Outgoing
  BY <1>1, <1>2 DEF Outgoing
<1>4. "net" \in Thread /\ "owner" \in Thread
  BY DEF Thread
<1>5. OutgoingOnce'
  BY <1>1, <1>2, <1>4 DEF PartsInv, OutgoingOnce
<1> QED
  BY <1>3, <1>5, Shrinks, CallsKept DEF PartsInv

\* Queues that stay, and a queue from which a message is taken.
LEMMA HeardStays ==
    ASSUME TypeOK, PartsInv,
           \/ outputQueue' = outputQueue
           \/ outputQueue # <<>> /\ outputQueue' = Tail(outputQueue),
           \/ events' \in {events, <<>>, <<Handshake>>, <<Disconnect>>}
           \/ events # <<>> /\ events' = Tail(events)
    PROVE  Heard' \subseteq Heard /\ HeardOnce'
<1>1. outputQueue \in Seq(Message) /\ events \in Seq(Message)
  BY PartsTypes
<1>2. Of(outputQueue') \subseteq Of(outputQueue) /\ Once(outputQueue', AllParts)
  <2>1. Once(outputQueue, AllParts)
    BY DEF PartsInv, HeardOnce
  <2>2. CASE outputQueue' = outputQueue
    BY <2>1, <2>2
  <2>3. CASE outputQueue # <<>> /\ outputQueue' = Tail(outputQueue)
    BY <1>1, <2>1, <2>3, OfFacts, OnceFacts
  <2> QED
    BY <2>2, <2>3
<1>3. /\ Handshake \notin Answers /\ Disconnect \notin Answers
      /\ AllParts \subseteq Answers
  BY MessageKinds DEF AllParts, Answers
<1>4. /\ Of(events') \cap Answers \subseteq Of(events) \cap Answers
      /\ Once(events', AllParts)
  <2>1. CASE events' = events
    BY <2>1 DEF PartsInv, HeardOnce
  <2>2. CASE events # <<>> /\ events' = Tail(events)
    BY <1>1, <2>2, OfFacts, OnceFacts DEF PartsInv, HeardOnce
  <2>3. CASE events' \in {<<>>, <<Handshake>>, <<Disconnect>>}
    <3>1. Of(<<>>) = {}
      BY DEF Of
    <3>2. ASSUME NEW e, e \notin Answers PROVE Of(<<e>>) \cap Answers = {}
      BY <3>2 DEF Of
    <3>3. /\ Once(<<>>, AllParts) /\ Once(<<Handshake>>, AllParts)
          /\ Once(<<Disconnect>>, AllParts)
      BY <1>1, OnceFacts
    <3>4. Of(<<Handshake>>) \cap Answers = {} /\ Of(<<Disconnect>>) \cap Answers = {}
      BY <1>3, <3>2
    <3> QED
      BY <2>3, <3>1, <3>3, <3>4
  <2> QED
    BY <2>1, <2>2, <2>3
<1>5. Heard' = (Of(outputQueue') \cup Of(events')) \cap Answers
  BY DEF Heard, Of
<1>6. Heard' \subseteq Heard
  BY <1>2, <1>4, <1>5 DEF Heard
<1>7. Of(outputQueue') \cap Of(events') \cap AllParts = {}
  BY <1>2, <1>3, <1>4 DEF PartsInv, HeardOnce
<1>8. HeardOnce'
  BY <1>2, <1>4, <1>7 DEF HeardOnce, Once, Of
<1> QED
  BY <1>6, <1>8

\* The steps that leave calls, parts and their way alone, but for losing some.
LEMMA QuietKeepsParts ==
    ASSUME LinkInv, PartsInv,
           \/ NetTop \/ NetDrainDone \/ NetHandshake \/ NetSendInitialData \/ NetServiceDone
           \/ NetExit \/ StartReconnectTimer \/ Reconnect \/ PollDisconnected \/ Destroy
           \/ FailDone \/ EnetConnect \/ TrackerGreets \/ EnetDrop
    PROVE  PartsInv'
<1>1. /\ TypeOK /\ Thread = {"net", "owner"} /\ pc \in [Thread -> NetPC \cup OwnerPC]
      /\ pushing \in [Thread -> CallIDs] /\ session \in 1 .. MaxSessions
  BY DEF LinkInv, TypeOK, ThreadsTyped, EnetTyped, Thread
<1> USE DEF callVars, enetVars, flagVars, threadVars
<1>2. CASE \/ NetTop \/ NetDrainDone \/ NetHandshake \/ NetSendInitialData \/ NetServiceDone
           \/ NetExit
  <2>1. /\ UNCHANGED <<pushing, inputQueue, hostNext, downloads, functionCallbackIDCounter,
                       callbacksByID, callbacksByIDCopy, wire, crashed, session, disconnected,
                       outputQueue>>
        /\ pc["net"] # "push" /\ pc'["net"] # "push" /\ pc'["owner"] = pc["owner"]
        /\ events' = events \/ (events # <<>> /\ events' = Tail(events))
    BY <1>1, <1>2 DEF NetTop, NetDrainDone, NetHandshake, NetSendInitialData, NetServiceDone,
       NetExit, Receives, At, Goto
  <2>2. Heard' \subseteq Heard /\ HeardOnce'
    BY <1>1, <2>1, HeardStays
  <2> QED
    BY <1>1, <2>1, <2>2, Still
<1>3. CASE StartReconnectTimer \/ Reconnect \/ PollDisconnected \/ Destroy \/ FailDone
  <2>1. /\ UNCHANGED <<pushing, inputQueue, hostNext, downloads, functionCallbackIDCounter,
                       callbacksByID, callbacksByIDCopy, wire, crashed, events>>
        /\ \/ outputQueue' = outputQueue
           \/ outputQueue # <<>> /\ outputQueue' = Tail(outputQueue)
    BY <1>3 DEF StartReconnectTimer, Reconnect, PollDisconnected, Destroy, FailDone,
       BeginDisconnect, RaiseFlags, Polls
  <2>2. \A t \in Thread : pc'[t] = "push" <=> pc[t] = "push"
    BY <1>1, <1>3 DEF StartReconnectTimer, Reconnect, PollDisconnected, Destroy, FailDone,
       BeginDisconnect, RaiseFlags, Polls, At, Goto
  <2>3. session' = session \/ session' = session + 1
    BY <1>3 DEF StartReconnectTimer, Reconnect, PollDisconnected, Destroy, FailDone,
       BeginDisconnect
  <2>4. session' = session => (disconnected => disconnected')
    <3>1. CASE Reconnect
      BY <1>1, <3>1 DEF Reconnect
    <3>2. CASE StartReconnectTimer \/ FailDone
      BY <3>2 DEF StartReconnectTimer, FailDone
    <3>3. CASE PollDisconnected
      BY <3>3 DEF PollDisconnected, BeginDisconnect, RaiseFlags
    <3>4. CASE Destroy
      BY <3>4 DEF Destroy, BeginDisconnect, RaiseFlags
    <3> QED
      BY <1>3, <3>1, <3>2, <3>3, <3>4
  <2>5. Heard' \subseteq Heard /\ HeardOnce'
    BY <1>1, <2>1, HeardStays
  <2> QED
    BY <1>1, <2>1, <2>2, <2>3, <2>4, <2>5, Still
<1>4. CASE EnetConnect \/ TrackerGreets \/ EnetDrop
  <2>1. /\ UNCHANGED <<pc, pushing, inputQueue, hostNext, downloads, functionCallbackIDCounter,
                       callbacksByID, callbacksByIDCopy, crashed, session, disconnected,
                       outputQueue>>
        /\ wire' \subseteq wire
    BY <1>4 DEF EnetConnect, TrackerGreets, EnetDrop, enetOnly
  <2>2. events' \in {events, <<>>, <<Handshake>>, <<Disconnect>>}
    <3>1. CASE EnetConnect \/ EnetDrop
      BY <3>1 DEF EnetConnect, EnetDrop
    <3>2. CASE TrackerGreets
      BY <3>2 DEF TrackerGreets, LinkInv, LinkFits, Connecting
    <3> QED
      BY <1>4, <3>1, <3>2
  <2>3. Heard' \subseteq Heard /\ HeardOnce'
    BY <1>1, <2>1, <2>2, HeardStays
  <2> QED
    BY <2>1, <2>3, Still
<1> QED
  BY <1>2, <1>3, <1>4

\* The net thread hands on what enet delivers.
LEMMA NetHandsOn ==
    ASSUME LinkInv, PartsInv, NetData \/ NetDisconnectEvent
    PROVE  PartsInv'
<1>1. /\ TypeOK /\ Thread = {"net", "owner"} /\ pc \in [Thread -> NetPC \cup OwnerPC]
      /\ outputQueue \in Seq(Message) /\ events \in Seq(Message)
  BY PartsTypes DEF LinkInv, TypeOK, ThreadsTyped, Thread
<1>2. /\ UNCHANGED <<pushing, inputQueue, hostNext, downloads, functionCallbackIDCounter,
                     callbacksByID, callbacksByIDCopy, wire, crashed, session, disconnected>>
      /\ pc["net"] = "service" /\ pc'["net"] \in {"service", "top"}
      /\ pc'["owner"] = pc["owner"]
      /\ events # <<>> /\ events' = Tail(events)
  BY <1>1 DEF NetData, NetDisconnectEvent, Receives, At, Goto, callVars, enetVars, flagVars,
     threadVars
<1> DEFINE m == IF NetData THEN Head(events) ELSE Disconnect
<1>3. /\ m \in Message /\ outputQueue' = Append(outputQueue, m)
      /\ m \in Answers => m \in Of(events)
      /\ m \in AllParts => m \in Of(events) /\ m \notin Of(Tail(events))
  <2>1. Disconnect \notin Answers /\ Disconnect \notin AllParts /\ Disconnect \in Message
    BY MessageKinds, MessageType DEF AllParts
  <2>2. Head(events) \in Message /\ Head(events) \in Of(events)
        /\ (Head(events) \in AllParts => Head(events) \notin Of(Tail(events)))
    BY <1>1, <1>2, OfFacts, OnceFacts DEF PartsInv, HeardOnce
  <2>3. CASE NetData
    BY <2>2, <2>3 DEF NetData
  <2>4. CASE ~NetData
    BY <2>1, <2>4 DEF NetDisconnectEvent
  <2> QED
    BY <2>3, <2>4
<1> HIDE DEF m
<1>4. /\ Of(outputQueue)' = Of(outputQueue) \cup {m}
      /\ Of(events)' \subseteq Of(events) /\ Of(events)' = Of(Tail(events))
  <2>1. /\ Of(Append(outputQueue, m)) = Of(outputQueue) \cup {m}
        /\ Of(Tail(events)) \subseteq Of(events)
    BY <1>1, <1>2, <1>3, OfFacts
  <2> QED
    BY <1>2, <1>3, <2>1 DEF Of
<1>5. Heard' \subseteq Heard
  BY <1>3, <1>4 DEF Heard
<1>6. HeardOnce'
  <2>1. m \notin Of(outputQueue) \cap AllParts
    BY <1>3 DEF PartsInv, HeardOnce
  <2>2. Once(Append(outputQueue, m), AllParts) /\ Once(Tail(events), AllParts)
    BY <1>1, <1>2, <1>3, <2>1, OnceFacts DEF PartsInv, HeardOnce
  <2>3. Once(outputQueue, AllParts)' /\ Once(events, AllParts)'
    BY <1>2, <1>3, <2>2 DEF Once, AllParts
  <2>4. Of(outputQueue)' \cap Of(events)' \cap AllParts = {}
    BY <1>3, <1>4 DEF PartsInv, HeardOnce
  <2>5. AllParts' = AllParts
    BY DEF AllParts
  <2> QED
    BY <2>3, <2>4, <2>5 DEF HeardOnce
<1> QED
  BY <1>1, <1>2, <1>5, <1>6, Still

\* A call's packet moves along.
LEMMA PushKeepsParts ==
    ASSUME LinkInv, PartsInv, NetPush \/ OwnerPush
    PROVE  PartsInv'
<1>1. /\ TypeOK /\ Thread = {"net", "owner"} /\ pc \in [Thread -> NetPC \cup OwnerPC]
      /\ inputQueue \in Seq(CallIDs) /\ pushing \in [Thread -> CallIDs]
  BY PartsTypes DEF LinkInv, TypeOK, ThreadsTyped, Thread
<1>2. PICK t \in Thread, u \in Thread :
         /\ t # u /\ pc[t] = "push" /\ pc'[t] # "push" /\ pc'[u] = pc[u]
         /\ inputQueue' = Append(inputQueue, pushing[t])
  BY <1>1 DEF NetPush, OwnerPush, Push, At, Goto
<1>3. UNCHANGED <<pushing, outputQueue, events, wire, hostNext, downloads, session,
                  disconnected, functionCallbackIDCounter, callbacksByID,
                  callbacksByIDCopy, crashed>>
  BY DEF NetPush, OwnerPush, Push, callVars, enetVars, flagVars
<1> DEFINE id == pushing[t]
<1>4. id \in CallIDs /\ id \in Pushed /\ id \notin Of(inputQueue) \cup wire
  BY <1>1, <1>2 DEF Pushed, PartsInv, OutgoingOnce
<1>5. Pushed' \subseteq Pushed /\ id \notin Pushed' /\ Pushed' \subseteq {pushing[u]}
  BY <1>1, <1>2, <1>3 DEF Pushed, PartsInv, OutgoingOnce
<1> HIDE DEF id
<1>6. /\ Of(inputQueue)' = Of(inputQueue) \cup {id}
      /\ Once(inputQueue, CallIDs)'
  <2>1. /\ Of(Append(inputQueue, id)) = Of(inputQueue) \cup {id}
        /\ Once(Append(inputQueue, id), CallIDs)
    BY <1>1, <1>4, OfFacts, OnceFacts DEF PartsInv, OutgoingOnce
  <2>2. inputQueue' = Append(inputQueue, id) /\ CallIDs' = CallIDs
    BY <1>2 DEF id, CallIDs
  <2> QED
    BY <2>1, <2>2 DEF Of, Once
<1>7. Outgoing' \subseteq Outgoing
  BY <1>3, <1>4, <1>5, <1>6 DEF Outgoing
<1>8. Heard' \subseteq Heard /\ HeardOnce'
  BY <1>1, <1>3, HeardStays
<1>9. OutgoingOnce'
  BY <1>1, <1>2, <1>3, <1>4, <1>5, <1>6 DEF PartsInv, OutgoingOnce
<1> QED
  BY <1>3, <1>7, <1>8, <1>9, Shrinks, CallsKept DEF PartsInv

LEMMA SendKeepsParts ==
    ASSUME LinkInv, PartsInv, NetSend
    PROVE  PartsInv'
<1>1. TypeOK /\ inputQueue \in Seq(CallIDs)
  BY PartsTypes DEF LinkInv
<1>2. /\ inputQueue # <<>> /\ inputQueue' = Tail(inputQueue)
      /\ wire' \subseteq wire \cup {Head(inputQueue)}
      /\ crashed' # "nullFunc" \/ crashed' = crashed
      /\ UNCHANGED <<pc, pushing, outputQueue, events, hostNext, downloads, session,
                     disconnected, functionCallbackIDCounter, callbacksByID,
                     callbacksByIDCopy>>
  BY DEF NetSend, callVars, flagVars, threadVars
<1> DEFINE id == Head(inputQueue)
<1>3. /\ id \in Of(inputQueue) /\ Of(Tail(inputQueue)) \subseteq Of(inputQueue)
      /\ id \notin Of(Tail(inputQueue)) /\ Once(Tail(inputQueue), CallIDs)
  BY <1>1, <1>2, OfFacts, OnceFacts DEF PartsInv, OutgoingOnce
<1> HIDE DEF id
<1>4. /\ Of(inputQueue)' = Of(Tail(inputQueue)) /\ Once(inputQueue, CallIDs)'
      /\ Pushed' = Pushed
  BY <1>2, <1>3 DEF Of, Once, Pushed, CallIDs
<1>5. wire' \subseteq wire \cup {id}
  BY <1>2 DEF id
<1>6. Outgoing' \subseteq Outgoing
  BY <1>3, <1>4, <1>5 DEF Outgoing
<1>7. OutgoingOnce'
  BY <1>2, <1>3, <1>4, <1>5 DEF PartsInv, OutgoingOnce
<1>8. Heard' \subseteq Heard /\ HeardOnce'
  BY <1>1, <1>2, HeardStays
<1> QED
  BY <1>2, <1>6, <1>7, <1>8, Shrinks, CallsKept DEF PartsInv

\* A step of thread t that may place a call, where the callback finds `entries`: at
\* most the next identifier is taken, it is pushed with its callback in place,
\* and nothing is pushed once disconnected.
PlacesOne(t, entries) ==
    LET c == functionCallbackIDCounter
    IN  /\ functionCallbackIDCounter' \in {c, c + 1}
        /\ \A id \in CallIDs : /\ id # c => callbacksByID'[id] = entries[id]
                               /\ callbacksByID'[id] = "null" => entries[id] = "null"
        /\ \A u \in Thread \ {t} : pc'[u] = pc[u] /\ pushing'[u] = pushing[u]
        /\ pc'[t] = "push" =>
              /\ pushing'[t] = c /\ functionCallbackIDCounter' = c + 1
              /\ c \in CallIDs /\ callbacksByID'[c] = "live" /\ ~disconnected

LEMMA Places ==
    ASSUME TypeOK, NEW t \in Thread, pc[t] # "push", NEW after, after # "push",
           NEW kinds, NEW entries \in [CallIDs -> EntryState], NEW calls,
           PlaceCall(t, kinds, entries, calls, after)
    PROVE  PlacesOne(t, entries)
<1>1. /\ pc \in [Thread -> NetPC \cup OwnerPC] /\ pushing \in [Thread -> CallIDs]
      /\ functionCallbackIDCounter \in 0 .. MaxCalls /\ MaxCalls \in Nat
  BY ConstantsAssumption DEF TypeOK, ThreadsTyped, CallsTyped
<1>2. CASE PlaceNone(t, entries, calls, after)
  BY <1>1, <1>2 DEF PlaceNone, PlacesOne, Goto
<1>3. ASSUME NEW k \in kinds, PlaceEncoded(t, k, entries, calls, after)
      PROVE  functionCallbackIDCounter \in CallIDs
  BY <1>1, <1>3 DEF PlaceEncoded, CallIDs
<1>4. ASSUME NEW k \in kinds, PlaceEncoded(t, k, entries, calls, after)
      PROVE  PlacesOne(t, entries)
  BY <1>1, <1>3, <1>4 DEF PlaceEncoded, PlacesOne, Goto, CanSend
<1>5. ASSUME NEW k \in kinds, PlaceUnencodable(t, k, entries, calls, after)
      PROVE  PlacesOne(t, entries)
  BY <1>1, <1>5 DEF PlaceUnencodable, PlacesOne, Goto
<1> QED
  BY <1>2, <1>4, <1>5 DEF PlaceCall

LEMMA PlacingKeepsParts ==
    ASSUME LinkInv, PartsInv, NEW t \in Thread, pc[t] # "push", NEW after, after # "push",
           NEW kinds, NEW entries \in [CallIDs -> EntryState], NEW calls,
           PlaceCall(t, kinds, entries, calls, after),
           UNCHANGED <<inputQueue, wire, hostNext, session, disconnected, crashed>>,
           Heard' \subseteq Heard, HeardOnce', HeardFits', DownloadsFit',
           session = 1 /\ ~disconnected =>
              \A id \in CallIDs :
                 /\ id \in Outgoing => entries[id] = "live"
                 /\ hostNext[id] > 0 /\ entries[id] # "live" =>
                       hostNext[id] = Parts + 1 /\ Unheard(id)',
           \A id \in CallIDs : entries[id] = "null" \/ callbacksByIDCopy'[id] = "null"
                               => hostNext[id] > 0 /\ session > 1
    PROVE  PartsInv'
<1> DEFINE c == functionCallbackIDCounter
<1>1. /\ TypeOK /\ Thread = {"net", "owner"} /\ c \in Nat
      /\ Outgoing \subseteq CallIDs
      /\ \A id \in CallIDs : id \in Int /\ hostNext[id] \in 0 .. Parts + 1
  <2>1. TypeOK /\ Thread = {"net", "owner"}
    BY DEF LinkInv, Thread
  <2>2. c \in Nat
    BY <2>1, ConstantsAssumption DEF TypeOK, CallsTyped
  <2>3. \A id \in CallIDs : id \in Int /\ hostNext[id] \in 0 .. Parts + 1
    BY <2>1 DEF TypeOK, EnetTyped, CallIDs
  <2> QED
    BY <2>1, <2>2, <2>3, PartsTypes
<1>2. /\ c' \in {c, c + 1}
      /\ \A id \in CallIDs : /\ id # c => callbacksByID'[id] = entries[id]
                             /\ callbacksByID'[id] = "null" => entries[id] = "null"
      /\ \A u \in Thread \ {t} : pc'[u] = pc[u] /\ pushing'[u] = pushing[u]
      /\ pc'[t] = "push" =>
            /\ pushing'[t] = c /\ c' = c + 1
            /\ c \in CallIDs /\ callbacksByID'[c] = "live" /\ ~disconnected
  BY <1>1, Places DEF PlacesOne, c
<1>3. /\ \A id \in Outgoing : id < c
      /\ \A id \in CallIDs : id \in Outgoing \/ id >= c => hostNext[id] = 0 /\ Unheard(id)
  BY DEF PartsInv, OutgoingFits
<1> HIDE DEF c
<1>4. \A id \in CallIDs : Unheard(id) => Unheard(id)'
  BY DEF Unheard
<1>5. Of(inputQueue)' = Of(inputQueue) /\ Once(inputQueue, CallIDs)' = Once(inputQueue, CallIDs)
  BY DEF Of, Once, CallIDs
<1>6. \A id \in Pushed' : id \in Pushed \/ (id = c /\ pc'[t] = "push")
  BY <1>1, <1>2 DEF Pushed
<1>7. \A id \in Outgoing' : id \in Outgoing \/ (id = c /\ pc'[t] = "push")
  BY <1>5, <1>6 DEF Outgoing
<1>8. OutgoingFits'
  <2>1. \A id \in Outgoing' : id < c'
    BY <1>1, <1>2, <1>3, <1>7
  <2>2. ASSUME NEW id \in CallIDs, id \in Outgoing' \/ id >= c'
        PROVE  hostNext[id] = 0 /\ Unheard(id)
    BY <1>1, <1>2, <1>3, <1>7, <2>2
  <2> QED
    BY <1>4, <2>1, <2>2 DEF OutgoingFits, c, CallIDs
<1>9. OutgoingOnce'
  <2>1. Pushed' \cap (Of(inputQueue) \cup wire) = {}
    BY <1>1, <1>3, <1>6 DEF PartsInv, OutgoingOnce, Outgoing
  <2>2. pc'["net"] = "push" /\ pc'["owner"] = "push" => pushing'["net"] # pushing'["owner"]
    <3>1. \A u \in Thread \ {t} : pc[u] = "push" => pushing[u] \in Outgoing
      BY DEF Outgoing, Pushed
    <3>2. \A u \in Thread \ {t} : pc'[u] = "push" /\ pc'[t] = "push" => pushing'[u] # pushing'[t]
      BY <1>1, <1>2, <1>3, <3>1
    <3> QED
      BY <1>1, <3>2
  <2> QED
    BY <1>5, <2>1, <2>2 DEF PartsInv, OutgoingOnce
<1>10. FirstSession'
  <2> SUFFICES ASSUME session = 1, ~disconnected, NEW id \in CallIDs
               PROVE  /\ id \in Outgoing' => callbacksByID'[id] = "live"
                      /\ hostNext[id] > 0 /\ callbacksByID'[id] # "live" =>
                            hostNext[id] = Parts + 1 /\ Unheard(id)'
    BY DEF FirstSession, FirstOf, CallIDs
  <2>1. CASE id = c
    BY <1>1, <1>2, <1>3, <1>7, <2>1
  <2>2. CASE id # c
    BY <1>1, <1>2, <1>7, <2>2
  <2> QED
    BY <2>1, <2>2
<1>11. NullFits'
  BY <1>2 DEF PartsInv, NullFits, CallIDs
<1> QED
  BY <1>8, <1>9, <1>10, <1>11 DEF PartsInv

\* The scripts' callbacks that are called with no entry of the map.
LEMMA CallbacksKeepParts ==
    ASSUME LinkInv, PartsInv, ScannerCall \/ NetOnConnected \/ Notify
    PROVE  PartsInv'
<1>1. PICK t \in Thread, after \in {"service", "poll", "join"} :
         /\ pc[t] # "push"
         /\ PlaceCall(t, {"tracker"}, callbacksByID, called, after)
  BY DEF ScannerCall, NetOnConnected, Notify, At, Thread
<1>2. UNCHANGED <<inputQueue, outputQueue, events, wire, hostNext, downloads, session,
                  disconnected, crashed, callbacksByIDCopy>>
  BY DEF ScannerCall, NetOnConnected, Notify, flagVars, enetVars
<1>3. TypeOK /\ callbacksByID \in [CallIDs -> EntryState]
  BY DEF LinkInv, TypeOK, CallsTyped
<1>4. Heard' = Heard /\ HeardOnce'
  BY <1>2, <1>3, HeardStays DEF Heard, Of
<1>5. HeardFits' /\ DownloadsFit'
  BY <1>2, <1>4 DEF PartsInv, HeardFits, DownloadsFit
<1>6. \A id \in CallIDs : Unheard(id) => Unheard(id)'
  BY <1>4 DEF Unheard
<1>7. session = 1 /\ ~disconnected =>
         \A id \in CallIDs :
            /\ id \in Outgoing => callbacksByID[id] = "live"
            /\ hostNext[id] > 0 /\ callbacksByID[id] # "live" =>
                  hostNext[id] = Parts + 1 /\ Unheard(id)'
  BY <1>6 DEF PartsInv, FirstSession, FirstOf
<1>8. \A id \in CallIDs : callbacksByID[id] = "null" \/ callbacksByIDCopy'[id] = "null"
                          => hostNext[id] > 0 /\ session > 1
  BY <1>2 DEF PartsInv, NullFits
<1> QED
  BY <1>1, <1>2, <1>3, <1>4, <1>5, <1>7, <1>8, PlacingKeepsParts

\* A polled answer: it belongs to a call that is no longer on its way, and a part
\* is gone from both queues.
LEMMA PolledAnswer ==
    ASSUME LinkInv, PartsInv, Polls("response") \/ Polls("part"), UNCHANGED events
    PROVE  LET m == Head(outputQueue)
           IN  /\ m \in Heard /\ m \in Message /\ m.id \in CallIDs
               /\ m.id \notin Outgoing /\ m.id < functionCallbackIDCounter
               /\ m.type = "part" => m \in AllParts /\ m.offset \in Offsets /\ m \notin Heard'
               /\ Heard' \subseteq Heard /\ HeardOnce'
               /\ pc["owner"] = "poll" /\ ~disconnected
<1> DEFINE m == Head(outputQueue)
<1>1. /\ TypeOK /\ outputQueue \in Seq(Message) /\ events \in Seq(Message)
  BY PartsTypes DEF LinkInv
<1>2. /\ outputQueue # <<>> /\ outputQueue' = Tail(outputQueue)
      /\ m.type \in {"response", "part"}
      /\ pc["owner"] = "poll" /\ ~disconnected
  BY DEF Polls, At
<1>3. /\ m \in Of(outputQueue) /\ m \in Message
      /\ m \in AllParts => m \notin Of(Tail(outputQueue)) /\ m \notin Of(events)
  BY <1>1, <1>2, OfFacts, OnceFacts DEF PartsInv, HeardOnce
<1>4. m \in Answers /\ m \in Heard
  BY <1>2, <1>3, MessageKinds DEF Heard
<1>5. Heard' \subseteq Heard /\ HeardOnce'
  BY <1>1, <1>2, HeardStays
<1>6. m.id \in CallIDs /\ m.offset \in Offsets
  BY <1>1, <1>4, PartsTypes
<1>7. m.type = "part" => m \in AllParts /\ m \notin Heard'
  BY <1>2, <1>3 DEF AllParts, Heard, Of
<1>8. m.id \notin Outgoing /\ m.id < functionCallbackIDCounter
  <2>1. ~Unheard(m.id)
    BY <1>4 DEF Unheard
  <2>2. functionCallbackIDCounter \in Int /\ m.id \in Int
    BY <1>1, <1>6 DEF TypeOK, CallsTyped, CallIDs
  <2> QED
    BY <1>6, <2>1, <2>2 DEF PartsInv, OutgoingFits
<1> QED
  BY <1>2, <1>3, <1>4, <1>5, <1>6, <1>7, <1>8

\* The finite sets of offsets.
LEMMA OffsetsFinite ==
    /\ IsFiniteSet(Offsets) /\ Cardinality(Offsets) = Parts
    /\ \A D \in SUBSET Offsets : IsFiniteSet(D) /\ Cardinality(D) \in Nat
    /\ \A D \in SUBSET Offsets : \A o \in Offsets :
          o \notin D => Cardinality(D \cup {o}) = Cardinality(D) + 1
    /\ \A D \in SUBSET Offsets : Cardinality(D) >= Parts => D = Offsets
<1>1. IsFiniteSet(Offsets) /\ Cardinality(Offsets) = Parts
  BY FS_Interval, ConstantsAssumption DEF Offsets
<1>2. ASSUME NEW D \in SUBSET Offsets PROVE IsFiniteSet(D) /\ Cardinality(D) \in Nat
  BY <1>1, FS_Subset, FS_CardinalityType
<1>3. ASSUME NEW D \in SUBSET Offsets, NEW o \in Offsets, o \notin D
      PROVE  Cardinality(D \cup {o}) = Cardinality(D) + 1
  BY <1>2, <1>3, FS_AddElement
<1>4. ASSUME NEW D \in SUBSET Offsets, Cardinality(D) >= Parts PROVE D = Offsets
  <2>1. /\ Cardinality(D) <= Cardinality(Offsets)
        /\ Cardinality(Offsets) = Cardinality(D) => Offsets = D
    BY <1>1, FS_Subset
  <2>2. Cardinality(D) \in Int /\ Parts \in Int
    BY <1>2, ConstantsAssumption
  <2> QED
    BY <1>1, <1>4, <2>1, <2>2
<1> QED
  BY <1>1, <1>2, <1>3, <1>4

\* A part that is polled is a new one, and one that completes the count completes
\* the answer.
LEMMA PolledPart ==
    ASSUME LinkInv, PartsInv, Polls("part"), UNCHANGED events
    PROVE  LET m == Head(outputQueue)
               data == downloads[m.id].data
           IN  /\ m.offset \notin data /\ m.offset <= hostNext[m.id] - 2
               /\ data \subseteq Offsets /\ hostNext[m.id] \in 0 .. Parts + 1
               /\ downloads[m.id].recievedBytes = Cardinality(data)
               /\ Cardinality(data \cup {m.offset}) = Cardinality(data) + 1
               /\ IsComplete(Filled(downloads[m.id], m.offset)) =>
                     data \cup {m.offset} = Offsets
<1> DEFINE m == Head(outputQueue)
           data == downloads[m.id].data
<1>1. m \in Heard /\ m.type = "part" /\ m.id \in CallIDs /\ m.offset \in Offsets
  BY PolledAnswer DEF Polls
<1>2. m.offset \notin data /\ m.offset <= hostNext[m.id] - 2
  BY <1>1 DEF PartsInv, HeardFits
<1>3. data \subseteq Offsets /\ hostNext[m.id] \in 0 .. Parts + 1
  BY <1>1 DEF LinkInv, TypeOK, TablesTyped, EnetTyped
<1>4. downloads[m.id].recievedBytes = Cardinality(data)
  BY <1>1 DEF PartsInv, DownloadsFit
<1>5. Cardinality(data \cup {m.offset}) = Cardinality(data) + 1
  BY <1>1, <1>2, <1>3, OffsetsFinite
<1>6. IsComplete(Filled(downloads[m.id], m.offset)) => Cardinality(data) + 1 >= Parts
  BY <1>4 DEF IsComplete, Filled
<1>7. data \cup {m.offset} \in SUBSET Offsets
  BY <1>1, <1>3
<1>8. IsComplete(Filled(downloads[m.id], m.offset)) => data \cup {m.offset} = Offsets
  BY <1>5, <1>6, <1>7, OffsetsFinite
<1> QED
  BY <1>2, <1>3, <1>4, <1>5, <1>8

\* An entry of the map is called, of a call whose answer has been taken whole.
LEMMA CallBackKeepsParts ==
    ASSUME LinkInv, PartsInv, NEW id \in CallIDs, pc["owner"] = "poll", ~disconnected,
           CallBack(id), id \notin Outgoing,
           UNCHANGED <<inputQueue, wire, hostNext, session, disconnected, callbacksByIDCopy>>,
           Heard' \subseteq Heard, HeardOnce', HeardFits', DownloadsFit',
           hostNext[id] = 0 \/ (hostNext[id] = Parts + 1 /\ Unheard(id)')
    PROVE  PartsInv'
<1>1. callbacksByID \in [CallIDs -> EntryState] /\ Thread = {"net", "owner"}
      /\ pc["owner"] # "push"
  BY DEF LinkInv, TypeOK, CallsTyped, Thread
<1>2. \A j \in CallIDs : Unheard(j) => Unheard(j)'
  BY DEF Unheard
<1>3. CASE callbacksByID[id] # "live"
  <2>1. /\ UNCHANGED <<callbacksByID, functionCallbackIDCounter, pc, pushing>>
        /\ crashed' = crashed \/ callbacksByID[id] = "null"
    BY <1>3 DEF CallBack, callVars, threadVars
  <2>2. Pushed' = Pushed /\ Of(inputQueue)' = Of(inputQueue)
        /\ Once(inputQueue, CallIDs)' = Once(inputQueue, CallIDs)
    BY <2>1 DEF Pushed, Of, Once, CallIDs
  <2>3. Outgoing' = Outgoing
    BY <2>2 DEF Outgoing
  <2>4. OutgoingFits'
    BY <1>2, <2>1, <2>3 DEF PartsInv, OutgoingFits, CallIDs
  <2>5. OutgoingOnce'
    BY <2>1, <2>2 DEF PartsInv, OutgoingOnce
  <2>6. FirstSession'
    BY <1>2, <2>1, <2>3 DEF PartsInv, FirstSession, FirstOf, CallIDs
  <2>7. NullFits'
    BY <2>1 DEF PartsInv, NullFits, CallIDs
  <2> QED
    BY <2>4, <2>5, <2>6, <2>7 DEF PartsInv
<1>4. CASE callbacksByID[id] = "live"
  <2> DEFINE entries == [callbacksByID EXCEPT ![id] = "absent"]
  <2>1. /\ PlaceCall("owner", {"tracker", "host"}, entries, [called EXCEPT ![id] = @ + 1],
                     "poll")
        /\ crashed' = crashed
    BY <1>4 DEF CallBack
  <2>2. /\ entries \in [CallIDs -> EntryState]
        /\ \A j \in CallIDs : entries[j] = IF j = id THEN "absent" ELSE callbacksByID[j]
    BY <1>1 DEF EntryState
  <2> HIDE DEF entries
  <2>3. session = 1 /\ ~disconnected =>
           \A j \in CallIDs :
              /\ j \in Outgoing => entries[j] = "live"
              /\ hostNext[j] > 0 /\ entries[j] # "live" =>
                    hostNext[j] = Parts + 1 /\ Unheard(j)'
    BY <1>2, <2>2 DEF PartsInv, FirstSession, FirstOf
  <2>4. \A j \in CallIDs : entries[j] = "null" \/ callbacksByIDCopy'[j] = "null"
                           => hostNext[j] > 0 /\ session > 1
    BY <2>2 DEF PartsInv, NullFits
  <2>5. "owner" \in Thread
    BY <1>1
  <2> QED
    BY <1>1, <2>1, <2>2, <2>3, <2>4, <2>5, PlacingKeepsParts
<1> QED
  BY <1>3, <1>4

\* The owner takes an answer.
LEMMA PollResponseKeepsParts ==
    ASSUME LinkInv, PartsInv, PollResponse
    PROVE  PartsInv'
<1> DEFINE m == Head(outputQueue)
<1>1. /\ Polls("response") /\ CallBack(m.id)
      /\ UNCHANGED <<inputQueue, wire, hostNext, session, disconnected, callbacksByIDCopy,
                     downloads, events>>
  BY DEF PollResponse, flagVars, enetVars
<1>2. /\ m \in Heard /\ m.id \in CallIDs /\ m.id \notin Outgoing /\ m.type = "response"
      /\ Heard' \subseteq Heard /\ HeardOnce'
      /\ pc["owner"] = "poll" /\ ~disconnected
  BY <1>1, PolledAnswer DEF Polls
<1>3. hostNext[m.id] = 0
  BY <1>2 DEF PartsInv, HeardFits
<1>4. HeardFits' /\ DownloadsFit'
  BY <1>1, <1>2 DEF PartsInv, HeardFits, DownloadsFit, CallIDs
<1> QED
  BY <1>1, <1>2, <1>3, <1>4, CallBackKeepsParts

\* The owner takes the part that completes an answer: nothing of it is to come.
LEMMA PollLastPartKeepsParts ==
    ASSUME LinkInv, PartsInv, PollLastPart
    PROVE  PartsInv'
<1> DEFINE m == Head(outputQueue)
           id == m.id
<1>1. /\ Polls("part") /\ CallBack(id)
      /\ IsComplete(Filled(downloads[id], m.offset))
      /\ downloads' = [downloads EXCEPT ![id] = NoDownload]
      /\ UNCHANGED <<inputQueue, wire, hostNext, session, disconnected, callbacksByIDCopy,
                     events>>
  BY DEF PollLastPart, flagVars, enetVars
<1>2. /\ m \in Heard /\ m \in Message /\ id \in CallIDs /\ id \notin Outgoing
      /\ m.type = "part" /\ m.offset \in Offsets /\ m \notin Heard'
      /\ Heard' \subseteq Heard /\ HeardOnce'
      /\ pc["owner"] = "poll" /\ ~disconnected
  BY <1>1, PolledAnswer DEF Polls
<1>3. /\ downloads[id].data \cup {m.offset} = Offsets
      /\ m.offset <= hostNext[id] - 2 /\ hostNext[id] \in 0 .. Parts + 1
  BY <1>1, PolledPart
<1>4. /\ \A j \in CallIDs : downloads'[j] = IF j = id THEN NoDownload ELSE downloads[j]
      /\ TypeOK
  BY <1>1, <1>2 DEF LinkInv, TypeOK, TablesTyped
<1> HIDE DEF m, id
<1>5. hostNext[id] = Parts + 1
  <2>1. Parts \in Nat /\ Parts - 1 \in Offsets
    BY ConstantsAssumption DEF Offsets
  <2>2. Parts - 1 <= hostNext[id] - 2
    BY <1>2, <1>3, <2>1 DEF PartsInv, DownloadsFit
  <2> QED
    BY <1>3, <2>1, <2>2
<1>6. \A n \in Heard' : n.id # id
  <2> SUFFICES ASSUME NEW n \in Heard', n.id = id PROVE FALSE
    OBVIOUS
  <2>1. n \in Heard /\ n \in Message /\ n.type \in {"response", "part"} /\ n.offset \in Offsets
    BY <1>2, <1>4, PartsTypes
  <2>2. n.type = "part"
    <3>1. n.type = "response" => hostNext[id] = 0
      BY <2>1 DEF PartsInv, HeardFits
    <3> QED
      BY <1>5, <2>1, <3>1, ConstantsAssumption
  <2>3. n.offset \notin downloads[id].data
    BY <2>1, <2>2 DEF PartsInv, HeardFits
  <2>4. n.offset = m.offset
    BY <1>3, <2>1, <2>3
  <2>5. n = m
    BY <1>2, <2>1, <2>2, <2>4 DEF Message, id
  <2> QED
    BY <1>2, <2>5
<1>7. HeardFits'
  <2>1. \A n \in Heard' : n.id \in CallIDs
    BY <1>2, <1>4, PartsTypes
  <2> QED
    BY <1>1, <1>2, <1>4, <1>6, <2>1 DEF PartsInv, HeardFits
<1>8. DownloadsFit'
  <2>1. NoDownload.recievedBytes = 0 /\ NoDownload.data = {} /\ Cardinality({}) = 0
    BY FS_EmptySet DEF NoDownload
  <2> QED
    BY <1>1, <1>4, <2>1 DEF PartsInv, DownloadsFit, CallIDs
<1>9. PICK call \in CallIDs : call = id
  BY <1>2
<1>10. Unheard(call)' /\ CallBack(call) /\ call \notin Outgoing
       /\ hostNext[call] = Parts + 1
  BY <1>1, <1>2, <1>5, <1>6, <1>9 DEF Unheard
<1> QED
  BY <1>1, <1>2, <1>7, <1>8, <1>10, CallBackKeepsParts

\* The owner takes an earlier part.
LEMMA PollProgressKeepsParts ==
    ASSUME LinkInv, PartsInv, PollProgress
    PROVE  PartsInv'
<1> DEFINE m == Head(outputQueue)
           id == m.id
           o == m.offset
<1>1. /\ Polls("part")
      /\ downloads' = [downloads EXCEPT ![id] = Filled(downloads[id], o)]
      /\ callbacksByID' = [callbacksByID EXCEPT ![id] = IF @ = "absent" THEN "null" ELSE @]
      /\ UNCHANGED <<pc, pushing, inputQueue, wire, hostNext, session, disconnected,
                     functionCallbackIDCounter, callbacksByIDCopy, events, crashed>>
  BY DEF PollProgress, threadVars, flagVars, enetVars
<1>2. /\ m \in Heard /\ m \in Message /\ id \in CallIDs /\ id \notin Outgoing
      /\ m.type = "part" /\ o \in Offsets /\ m \notin Heard'
      /\ Heard' \subseteq Heard /\ HeardOnce' /\ ~disconnected
  BY <1>1, PolledAnswer DEF Polls
<1>3. /\ downloads[id].data \subseteq Offsets
      /\ o <= hostNext[id] - 2 /\ hostNext[id] \in 0 .. Parts + 1
      /\ downloads[id].recievedBytes = Cardinality(downloads[id].data)
      /\ Cardinality(downloads[id].data \cup {o}) = Cardinality(downloads[id].data) + 1
  BY <1>1, PolledPart
<1>4. /\ \A j \in CallIDs : downloads'[j] = IF j = id THEN Filled(downloads[id], o)
                                            ELSE downloads[j]
      /\ \A j \in CallIDs : /\ j # id => callbacksByID'[j] = callbacksByID[j]
                            /\ callbacksByID[j] = "live" => callbacksByID'[j] = "live"
      /\ callbacksByID[id] # "absent" => callbacksByID'[id] = callbacksByID[id]
      /\ Filled(downloads[id], o).recievedBytes = downloads[id].recievedBytes + 1
      /\ Filled(downloads[id], o).data = downloads[id].data \cup {o}
      /\ TypeOK
  BY <1>1, <1>2 DEF LinkInv, TypeOK, TablesTyped, CallsTyped, Filled
<1>5. hostNext[id] > 0 /\ session \in Nat /\ session >= 1
  BY <1>2, <1>3, <1>4, ConstantsAssumption DEF Offsets, TypeOK, EnetTyped
<1>6. ~Unheard(id)
  BY <1>2 DEF Unheard
<1> HIDE DEF m, id, o
<1>7. Outgoing' = Outgoing /\ OutgoingOnce'
  <2>1. Pushed' = Pushed /\ Of(inputQueue)' = Of(inputQueue)
        /\ Once(inputQueue, CallIDs)' = Once(inputQueue, CallIDs)
    BY <1>1 DEF Pushed, Of, Once, CallIDs
  <2> QED
    BY <1>1, <2>1 DEF PartsInv, Outgoing, OutgoingOnce
<1>8. \A j \in CallIDs : Unheard(j) => Unheard(j)'
  BY <1>2 DEF Unheard
<1>9. OutgoingFits'
  BY <1>1, <1>7, <1>8 DEF PartsInv, OutgoingFits, CallIDs
<1>10. HeardFits'
  <2> SUFFICES ASSUME NEW n \in Heard'
               PROVE  /\ n.type = "response" => hostNext[n.id] = 0
                      /\ n.type = "part" => /\ n.offset <= hostNext[n.id] - 2
                                            /\ n.offset \notin downloads'[n.id].data
    BY <1>1 DEF HeardFits
  <2>1. /\ n \in Heard /\ n \in Message /\ n.id \in CallIDs
        /\ n.type = "response" => hostNext[n.id] = 0
        /\ n.type = "part" => /\ n.offset <= hostNext[n.id] - 2
                              /\ n.offset \notin downloads[n.id].data
    BY <1>2, <1>4, PartsTypes DEF PartsInv, HeardFits
  <2>2. n.type = "part" /\ n.id = id => n.offset # o
    BY <1>2, <2>1 DEF Message, m, id, o
  <2> QED
    BY <1>4, <2>1, <2>2
<1>11. DownloadsFit'
  <2> SUFFICES ASSUME NEW j \in CallIDs
               PROVE  /\ downloads'[j].recievedBytes = Cardinality(downloads'[j].data)
                      /\ \A x \in downloads'[j].data : x <= hostNext[j] - 2
    BY <1>1 DEF DownloadsFit, CallIDs
  <2>1. /\ downloads[j].recievedBytes = Cardinality(downloads[j].data)
        /\ \A x \in downloads[j].data : x <= hostNext[j] - 2
    BY DEF PartsInv, DownloadsFit
  <2>2. CASE j = id
    BY <1>3, <1>4, <2>1, <2>2
  <2>3. CASE j # id
    BY <1>4, <2>1, <2>3
  <2> QED
    BY <2>2, <2>3
<1>12. FirstSession'
  <2> SUFFICES ASSUME session = 1, NEW j \in CallIDs
               PROVE  /\ j \in Outgoing => callbacksByID'[j] = "live"
                      /\ hostNext[j] > 0 /\ callbacksByID'[j] # "live" =>
                            hostNext[j] = Parts + 1 /\ Unheard(j)'
    BY <1>1, <1>7 DEF FirstSession, FirstOf, CallIDs
  <2>1. /\ j \in Outgoing => callbacksByID[j] = "live"
        /\ hostNext[j] > 0 /\ callbacksByID[j] # "live" =>
              hostNext[j] = Parts + 1 /\ Unheard(j)
    BY <1>2 DEF PartsInv, FirstSession, FirstOf
  <2> QED
    BY <1>4, <1>8, <2>1
<1>13. NullFits'
  <2>1. session = 1 => callbacksByID[id] = "live"
    BY <1>2, <1>5, <1>6 DEF PartsInv, FirstSession, FirstOf
  <2>2. \A j \in CallIDs : callbacksByID'[j] = "null" => hostNext[j] > 0 /\ session > 1
    BY <1>4, <1>5, <2>1 DEF PartsInv, NullFits
  <2> QED
    BY <1>1, <2>2 DEF PartsInv, NullFits, CallIDs
<1> QED
  BY <1>2, <1>7, <1>9, <1>10, <1>11, <1>12, <1>13 DEF PartsInv

\* The teardown: the calls move to the copy, whose entries are called in turn.
LEMMA TeardownKeepsParts ==
    ASSUME LinkInv, PartsInv, Join \/ FailCallback
    PROVE  PartsInv'
<1>1. /\ TypeOK /\ Thread = {"net", "owner"} /\ pc \in [Thread -> NetPC \cup OwnerPC]
      /\ callbacksByID \in [CallIDs -> EntryState]
      /\ callbacksByIDCopy \in [CallIDs -> EntryState]
  BY DEF LinkInv, TypeOK, ThreadsTyped, CallsTyped, TablesTyped, Thread
<1>2. /\ UNCHANGED <<inputQueue, outputQueue, downloads, hostNext, session, disconnected>>
      /\ disconnected /\ pc["owner"] \in {"join", "fail"} /\ pc["owner"] # "push"
  BY DEF Join, FailCallback, flagVars, enetVars, LinkInv, TeardownInv, At
<1>3. Heard' \subseteq Heard /\ HeardOnce'
  BY <1>1, <1>2, HeardStays DEF Join, FailCallback, enetVars
<1>4. HeardFits' /\ DownloadsFit'
  BY <1>2, <1>3 DEF PartsInv, HeardFits, DownloadsFit, CallIDs
<1>5. CASE Join
  <2>1. /\ UNCHANGED <<pushing, functionCallbackIDCounter, crashed>> /\ wire' = {}
        /\ pc' = [pc EXCEPT !["net"] = "none", !["owner"] = "fail"]
        /\ callbacksByIDCopy' = callbacksByID /\ callbacksByID' = NoCallbacks
    BY <1>5 DEF Join, TakeCallbacks
  <2>2. \A t \in Thread : pc'[t] # "push"
    BY <1>1, <2>1
  <2>3. Pushed' = {} /\ Of(inputQueue)' = Of(inputQueue)
        /\ Once(inputQueue, CallIDs)' = Once(inputQueue, CallIDs)
    BY <1>2, <2>2 DEF Pushed, Of, Once, CallIDs, Thread
  <2>4. Outgoing' \subseteq Outgoing
    BY <2>1, <2>3 DEF Outgoing
  <2>5. OutgoingOnce'
    BY <1>1, <2>1, <2>2, <2>3 DEF PartsInv, OutgoingOnce
  <2>6. OutgoingFits'
    BY <1>2, <1>3, <2>1, <2>4, Shrinks
  <2>7. FirstSession'
    BY <1>2 DEF FirstSession, FirstOf
  <2>8. NullFits'
    BY <1>2, <2>1 DEF PartsInv, NullFits, NoCallbacks, CallIDs
  <2> QED
    BY <1>3, <1>4, <2>5, <2>6, <2>7, <2>8 DEF PartsInv
<1>6. CASE FailCallback
  <2>2. PICK id \in CallIDs :
          /\ callbacksByIDCopy' = [callbacksByIDCopy EXCEPT ![id] = "absent"]
          /\ \/ /\ callbacksByIDCopy[id] = "null"
                /\ crashed' = "nullFunc"
                /\ UNCHANGED <<callVars, threadVars>>
             \/ /\ callbacksByIDCopy[id] = "live"
                /\ PlaceCall("owner", {"tracker"}, callbacksByID,
                             [called EXCEPT ![id] = @ + 1], "fail")
                /\ UNCHANGED crashed
    BY <1>6 DEF FailCallback
  <2>3. \A j \in CallIDs : callbacksByIDCopy'[j] = "null" => callbacksByIDCopy[j] = "null"
    BY <1>1, <2>2
  <2>4. UNCHANGED <<wire, events>>
    BY <1>6 DEF FailCallback, enetVars
  <2>5. CASE callbacksByIDCopy[id] = "null"
    <3>1. /\ UNCHANGED <<pc, pushing, callbacksByID, functionCallbackIDCounter>>
          /\ crashed' = "nullFunc"
      BY <2>2, <2>5 DEF callVars, threadVars
    <3>2. Pushed' = Pushed /\ Of(inputQueue)' = Of(inputQueue)
          /\ Once(inputQueue, CallIDs)' = Once(inputQueue, CallIDs)
      BY <1>2, <3>1 DEF Pushed, Of, Once, CallIDs
    <3>3. Outgoing' = Outgoing
      BY <2>4, <3>2 DEF Outgoing
    <3>4. OutgoingOnce'
      BY <2>4, <3>1, <3>2 DEF PartsInv, OutgoingOnce
    <3>5. OutgoingFits'
      BY <1>2, <1>3, <3>1, <3>3, Shrinks
    <3>6. FirstSession'
      BY <1>2 DEF FirstSession, FirstOf
    <3>7. NullFits'
      BY <1>2, <2>3, <2>5, <3>1 DEF PartsInv, NullFits, CallIDs
    <3> QED
      BY <1>3, <1>4, <3>4, <3>5, <3>6, <3>7 DEF PartsInv
  <2>6. CASE callbacksByIDCopy[id] = "live"
    <3>1. /\ PlaceCall("owner", {"tracker"}, callbacksByID, [called EXCEPT ![id] = @ + 1],
                       "fail")
          /\ UNCHANGED crashed
      BY <2>2, <2>6
    <3>2. \A j \in CallIDs : callbacksByID[j] = "null" \/ callbacksByIDCopy'[j] = "null"
                             => hostNext[j] > 0 /\ session > 1
      BY <2>3 DEF PartsInv, NullFits
    <3>3. "owner" \in Thread
      BY <1>1
    <3> QED
      BY <1>1, <1>2, <1>3, <1>4, <2>4, <3>1, <3>2, <3>3, PlacingKeepsParts
  <2> QED
    BY <2>2, <2>5, <2>6
<1> QED
  BY <1>5, <1>6

-----------------------------------------------------------------------------
\* What enet, the tracker and the hosts do with call `id`, of which at most an answer
\* is heard that was not.
LEMMA ArrivalKeepsParts ==
    ASSUME LinkInv, PartsInv, NEW id \in CallIDs,
           id < functionCallbackIDCounter, id \notin Outgoing', wire' \subseteq wire,
           UNCHANGED <<pc, pushing, inputQueue, outputQueue, downloads, session, disconnected,
                       functionCallbackIDCounter, callbacksByID, callbacksByIDCopy, crashed>>,
           \A j \in CallIDs : j # id => hostNext'[j] = hostNext[j],
           hostNext'[id] \in Int, hostNext[id] <= hostNext'[id],
           \A m \in Heard' : m.id # id => m \in Heard,
           \A m \in Heard' : m.id = id =>
              /\ m.type = "response" => hostNext'[id] = 0
              /\ m.type = "part" => /\ m.offset <= hostNext'[id] - 2
                                    /\ m.offset \notin downloads[id].data,
           HeardOnce',
           session = 1 /\ ~disconnected /\ hostNext'[id] > 0 => callbacksByID[id] = "live"
    PROVE  PartsInv'
<1>1. /\ TypeOK /\ \A j \in CallIDs : hostNext[j] \in Int
      /\ Outgoing \subseteq CallIDs /\ functionCallbackIDCounter \in Int /\ id \in Int
  <2>1. TypeOK
    BY DEF LinkInv
  <2>2. \A j \in CallIDs : hostNext[j] \in Int
    BY <2>1 DEF TypeOK, EnetTyped
  <2>3. functionCallbackIDCounter \in Int /\ id \in Int
    BY <2>1 DEF TypeOK, CallsTyped, CallIDs
  <2> QED
    BY <2>1, <2>2, <2>3, PartsTypes
<1>2. Pushed' = Pushed /\ Of(inputQueue)' = Of(inputQueue)
      /\ Once(inputQueue, CallIDs)' = Once(inputQueue, CallIDs)
  BY DEF Pushed, Of, Once, CallIDs
<1>3. Outgoing' \subseteq Outgoing
  BY <1>2 DEF Outgoing
<1>4. \A j \in CallIDs : j # id /\ Unheard(j) => Unheard(j)'
  BY DEF Unheard
<1>5. OutgoingFits'
  BY <1>1, <1>3, <1>4 DEF PartsInv, OutgoingFits, CallIDs
<1>6. OutgoingOnce'
  BY <1>2 DEF PartsInv, OutgoingOnce
<1>7. HeardFits'
  <2> SUFFICES ASSUME NEW m \in Heard'
               PROVE  /\ m.type = "response" => hostNext'[m.id] = 0
                      /\ m.type = "part" => /\ m.offset <= hostNext'[m.id] - 2
                                            /\ m.offset \notin downloads[m.id].data
    BY DEF HeardFits
  <2>1. CASE m.id = id
    BY <2>1
  <2>2. CASE m.id # id
    <3>1. m \in Heard /\ m.id \in CallIDs /\ hostNext'[m.id] = hostNext[m.id]
      BY <1>1, <2>2, PartsTypes
    <3> QED
      BY <3>1 DEF PartsInv, HeardFits
  <2> QED
    BY <2>1, <2>2
<1>8. DownloadsFit'
  <2> SUFFICES ASSUME NEW j \in CallIDs
               PROVE  /\ downloads[j].recievedBytes = Cardinality(downloads[j].data)
                      /\ \A o \in downloads[j].data : o <= hostNext'[j] - 2
    BY DEF DownloadsFit, CallIDs
  <2>1. /\ downloads[j].recievedBytes = Cardinality(downloads[j].data)
        /\ \A o \in downloads[j].data : o <= hostNext[j] - 2
        /\ downloads[j].data \subseteq Offsets
    BY <1>1 DEF PartsInv, DownloadsFit, TypeOK, TablesTyped
  <2>2. hostNext[j] <= hostNext'[j] /\ hostNext'[j] \in Int /\ hostNext[j] \in Int
    BY <1>1
  <2>3. \A o \in Offsets : o \in Int
    BY ConstantsAssumption DEF Offsets
  <2> QED
    BY <2>1, <2>2, <2>3
<1>9. FirstSession'
  <2> SUFFICES ASSUME session = 1, ~disconnected, NEW j \in CallIDs
               PROVE  /\ j \in Outgoing' => callbacksByID[j] = "live"
                      /\ hostNext'[j] > 0 /\ callbacksByID[j] # "live" =>
                            hostNext'[j] = Parts + 1 /\ Unheard(j)'
    BY DEF FirstSession, FirstOf, CallIDs
  <2> QED
    BY <1>3, <1>4 DEF PartsInv, FirstSession, FirstOf
<1>10. NullFits'
  <2> SUFFICES ASSUME NEW j \in CallIDs, hostNext[j] > 0 PROVE hostNext'[j] > 0
    BY DEF PartsInv, NullFits, CallIDs
  <2>1. CASE j # id
    BY <2>1
  <2>2. hostNext[id] > 0 /\ hostNext[id] \in Int => hostNext'[id] > 0
    OBVIOUS
  <2>3. CASE j = id
    BY <1>1, <2>2, <2>3
  <2> QED
    BY <2>1, <2>3
<1> QED
  BY <1>5, <1>6, <1>7, <1>8, <1>9, <1>10 DEF PartsInv

\* An answer that enet has received.
LEMMA AnswerReceived ==
    ASSUME TypeOK, PartsInv, UNCHANGED outputQueue, NEW m \in Answers,
           \/ events' = Append(events, m) /\ (m \in AllParts => m \notin Heard)
           \/ events' = Append(Append(events, m), m) /\ m \notin AllParts
    PROVE  Heard' = Heard \cup {m} /\ HeardOnce'
<1>1. /\ events \in Seq(Message) /\ m \in Message /\ AllParts \subseteq Answers
  BY PartsTypes, MessageKinds DEF AllParts
<1>2. /\ Append(events, m) \in Seq(Message)
      /\ Of(Append(events, m)) = Of(events) \cup {m}
      /\ Of(Append(Append(events, m), m)) = Of(events) \cup {m}
  <2>1. Append(events, m) \in Seq(Message)
    BY <1>1
  <2>2. Of(Append(events, m)) = Of(events) \cup {m}
    BY <1>1, OfFacts
  <2>3. PICK r \in Seq(Message) : r = Append(events, m)
    BY <2>1
  <2>4. Of(Append(r, m)) = Of(r) \cup {m}
    BY <1>1, OfFacts
  <2> QED
    BY <2>1, <2>2, <2>3, <2>4
<1>3. Of(events') = Of(events) \cup {m}
  BY <1>2
<1>4. Heard' = Heard \cup {m}
  <2>1. Heard' = (Of(outputQueue) \cup Of(events')) \cap Answers
    BY DEF Heard, Of
  <2> QED
    BY <1>3, <2>1 DEF Heard
<1>5. m \in AllParts => m \notin Of(events) \cup Of(outputQueue)
  BY DEF Heard
<1>6. Once(events', AllParts)
  <2>1. Once(events, AllParts)
    BY DEF PartsInv, HeardOnce
  <2>2. Once(Append(events, m), AllParts)
    BY <1>1, <1>5, <2>1, OnceFacts
  <2>3. m \notin AllParts => Once(Append(Append(events, m), m), AllParts)
    BY <1>1, <1>2, <2>2, OnceFacts
  <2> QED
    BY <2>2, <2>3
<1>7. Of(outputQueue) \cap Of(events') \cap AllParts = {}
  BY <1>3, <1>5 DEF PartsInv, HeardOnce
<1>8. HeardOnce'
  BY <1>6, <1>7 DEF PartsInv, HeardOnce, Once, Of
<1> QED
  BY <1>4, <1>8

\* A call is answered by the tracker, once or twice, or by nobody.
LEMMA AnswerKeepsParts ==
    ASSUME LinkInv, PartsInv, NEW id \in wire, UNCHANGED enetOnly, wire' = wire \ {id},
           UNCHANGED hostNext,
           \/ events' = events
           \/ events' = Append(events, Response(id))
           \/ events' = Append(Append(events, Response(id)), Response(id))
    PROVE  PartsInv'
<1> DEFINE m == Response(id)
<1>1. /\ TypeOK /\ id \in CallIDs /\ id \in Outgoing
  BY PartsTypes DEF LinkInv, Outgoing
<1>2. /\ m \in Answers /\ m \notin AllParts /\ m.id = id /\ m.type = "response"
  BY <1>1, MessageKinds DEF Response, AllParts
<1>3. /\ hostNext[id] = 0 /\ Unheard(id) /\ id < functionCallbackIDCounter
  BY <1>1 DEF PartsInv, OutgoingFits
<1>4. UNCHANGED <<pc, pushing, inputQueue, outputQueue, downloads, session, disconnected,
                  functionCallbackIDCounter, callbacksByID, callbacksByIDCopy, crashed>>
  BY DEF enetOnly, threadVars, flagVars, callVars
<1>5. id \notin Outgoing'
  <2>1. Pushed' = Pushed /\ Of(inputQueue)' = Of(inputQueue)
    BY <1>4 DEF Pushed, Of
  <2>2. id \notin Pushed /\ id \notin Of(inputQueue)
    BY DEF PartsInv, OutgoingOnce
  <2> QED
    BY <2>1, <2>2 DEF Outgoing
<1>6. Heard' \subseteq Heard \cup {m} /\ HeardOnce'
  <2>1. CASE events' = events
    BY <1>1, <1>4, <2>1, HeardStays
  <2>2. CASE events' # events
    BY <1>1, <1>2, <1>4, <2>2, AnswerReceived
  <2> QED
    BY <2>1, <2>2
<1> HIDE DEF m
<1>7. \A n \in Heard' : n.id = id => n = m
  BY <1>3, <1>6 DEF Unheard
<1>8. \A n \in Heard' : n.id # id => n \in Heard
  BY <1>2, <1>6
<1>9. hostNext'[id] = 0 /\ hostNext[id] <= hostNext'[id] /\ hostNext'[id] \in Int
  BY <1>3
<1>10. \A n \in Heard' : n.id = id => n.type = "response"
  BY <1>2, <1>7
<1> QED
  BY <1>1, <1>3, <1>4, <1>5, <1>6, <1>8, <1>9, <1>10, ArrivalKeepsParts

LEMMA TrackerKeepsParts ==
    ASSUME LinkInv, PartsInv, TrackerAnswers \/ TrackerRelays
    PROVE  PartsInv'
<1>1. /\ TypeOK /\ events \in Seq(Message) /\ wire \subseteq CallIDs
      /\ hostNext \in [CallIDs -> 0 .. Parts + 1]
  BY PartsTypes DEF LinkInv, TypeOK, EnetTyped
<1>2. UNCHANGED enetOnly
  BY DEF TrackerAnswers, TrackerRelays
<1>3. CASE TrackerAnswers
  <2>1. PICK id \in wire :
          /\ wire' = wire \ {id}
          /\ \E answers \in {<<>>, <<Response(id)>>, <<Response(id), Response(id)>>} :
                events' = events \o answers
    BY <1>3 DEF TrackerAnswers
  <2> DEFINE m == Response(id)
  <2>2. m \in Message
    BY <1>1, <2>1, MessageKinds
  <2> HIDE DEF m
  <2>3. /\ events \o <<>> = events /\ events \o <<m>> = Append(events, m)
        /\ events \o <<m, m>> = Append(Append(events, m), m)
    BY <1>1, <2>2
  <2>4. \/ events' = events
        \/ events' = Append(events, Response(id))
        \/ events' = Append(Append(events, Response(id)), Response(id))
    BY <2>1, <2>3 DEF m
  <2>5. UNCHANGED hostNext
    BY <1>3 DEF TrackerAnswers
  <2> QED
    BY <1>2, <2>1, <2>4, <2>5, AnswerKeepsParts
<1>4. CASE TrackerRelays
  <2>1. PICK id \in wire :
          /\ wire' = wire \ {id}
          /\ \/ /\ hostNext' = [hostNext EXCEPT ![id] = 1]
                /\ UNCHANGED events
             \/ /\ events' = Append(events, Response(id))
                /\ UNCHANGED hostNext
    BY <1>4 DEF TrackerRelays
  <2>2. CASE events' = Append(events, Response(id)) /\ UNCHANGED hostNext
    BY <1>2, <2>1, <2>2, AnswerKeepsParts
  <2>3. CASE hostNext' = [hostNext EXCEPT ![id] = 1] /\ UNCHANGED events
    <3>1. id \in CallIDs /\ id \in Outgoing
      BY <1>1, <2>1 DEF Outgoing
    <3>2. hostNext[id] = 0 /\ Unheard(id) /\ id < functionCallbackIDCounter
      BY <3>1 DEF PartsInv, OutgoingFits
    <3>3. UNCHANGED <<pc, pushing, inputQueue, outputQueue, downloads, session, disconnected,
                      functionCallbackIDCounter, callbacksByID, callbacksByIDCopy, crashed>>
      BY <1>2 DEF enetOnly, threadVars, flagVars, callVars
    <3>4. id \notin Outgoing' /\ wire' \subseteq wire
      <4>1. Pushed' = Pushed /\ Of(inputQueue)' = Of(inputQueue)
        BY <3>3 DEF Pushed, Of
      <4>2. id \notin Pushed /\ id \notin Of(inputQueue)
        BY <2>1 DEF PartsInv, OutgoingOnce
      <4> QED
        BY <2>1, <4>1, <4>2 DEF Outgoing
    <3>5. Heard' \subseteq Heard /\ HeardOnce'
      BY <1>1, <2>3, <3>3, HeardStays
    <3>6. \A n \in Heard' : n.id # id
      BY <3>2, <3>5 DEF Unheard
    <3>7. /\ \A j \in CallIDs : j # id => hostNext'[j] = hostNext[j]
          /\ hostNext'[id] \in Int /\ hostNext[id] <= hostNext'[id]
      BY <1>1, <2>3, <3>1, <3>2
    <3>8. session = 1 /\ ~disconnected => callbacksByID[id] = "live"
      BY <3>1 DEF PartsInv, FirstSession, FirstOf
    <3> QED
      BY <3>1, <3>2, <3>3, <3>4, <3>5, <3>6, <3>7, <3>8, ArrivalKeepsParts
  <2> QED
    BY <2>1, <2>2, <2>3
<1> QED
  BY <1>3, <1>4

\* A host's next part arrives or is lost.
LEMMA HostPartKeepsParts ==
    ASSUME LinkInv, PartsInv, HostPart
    PROVE  PartsInv'
<1>1. /\ TypeOK /\ hostNext \in [CallIDs -> 0 .. Parts + 1] /\ Parts \in Nat \ {0}
  BY ConstantsAssumption DEF LinkInv, TypeOK, EnetTyped
<1>2. PICK id \in CallIDs :
        /\ hostNext[id] \in 1 .. Parts
        /\ hostNext' = [hostNext EXCEPT ![id] = @ + 1]
        /\ \/ events' = Append(events, Part(id, hostNext[id] - 1))
           \/ UNCHANGED events
  BY DEF HostPart
<1>3. UNCHANGED <<pc, pushing, inputQueue, outputQueue, downloads, session, disconnected, wire,
                  functionCallbackIDCounter, callbacksByID, callbacksByIDCopy, crashed>>
  BY DEF HostPart, enetOnly, threadVars, flagVars, callVars
<1>4. PICK o \in Offsets : o = hostNext[id] - 1
  BY <1>1, <1>2 DEF Offsets
<1> DEFINE m == Part(id, o)
<1>5. /\ m \in Answers /\ m \in AllParts /\ m.id = id /\ m.type = "part" /\ m.offset = o
  BY MessageKinds DEF Part, AllParts
<1> HIDE DEF m
<1>6. m \notin Heard
  BY <1>1, <1>2, <1>4, <1>5 DEF PartsInv, HeardFits
<1>7. Heard' \subseteq Heard \cup {m} /\ HeardOnce'
  <2>1. CASE events' = events
    BY <1>1, <1>3, <2>1, HeardStays
  <2>2. CASE events' = Append(events, m)
    BY <1>1, <1>3, <1>5, <1>6, <2>2, AnswerReceived
  <2> QED
    BY <1>2, <1>4, <2>1, <2>2 DEF m
<1>8. /\ \A j \in CallIDs : j # id => hostNext'[j] = hostNext[j]
      /\ hostNext'[id] = hostNext[id] + 1 /\ hostNext'[id] \in Int
      /\ hostNext[id] <= hostNext'[id]
  BY <1>1, <1>2
<1>9. id \notin Outgoing /\ id < functionCallbackIDCounter
  <2>1. functionCallbackIDCounter \in Int /\ id \in Int
    BY <1>1 DEF TypeOK, CallsTyped, CallIDs
  <2>2. id \in Outgoing \/ id >= functionCallbackIDCounter => hostNext[id] = 0
    BY DEF PartsInv, OutgoingFits
  <2> QED
    BY <1>2, <2>1, <2>2
<1>10. Outgoing' = Outgoing
  BY <1>3 DEF Outgoing, Pushed, Of
<1>11. \A n \in Heard' : n.id # id => n \in Heard
  BY <1>5, <1>7
<1>12. ASSUME NEW n \in Heard', n.id = id
       PROVE  /\ n.type = "response" => hostNext'[id] = 0
              /\ n.type = "part" => /\ n.offset <= hostNext'[id] - 2
                                    /\ n.offset \notin downloads[id].data
  <2>1. CASE n = m
    <3>1. o <= hostNext'[id] - 2
      BY <1>2, <1>4, <1>8
    <3>2. \A x \in downloads[id].data : x <= hostNext[id] - 2
      BY DEF PartsInv, DownloadsFit
    <3>3. o \notin downloads[id].data
      BY <1>2, <1>4, <3>2
    <3> QED
      BY <1>5, <2>1, <3>1, <3>3
  <2>2. CASE n \in Heard
    <3>1. /\ n.type = "response" => hostNext[id] = 0
          /\ n.type = "part" => /\ n.offset <= hostNext[id] - 2
                                /\ n.offset \notin downloads[id].data
      BY <1>12, <2>2 DEF PartsInv, HeardFits
    <3>2. n.offset \in Offsets
      BY <1>1, <2>2, PartsTypes
    <3> QED
      BY <1>2, <1>8, <3>1, <3>2, ConstantsAssumption DEF Offsets
  <2> QED
    BY <1>7, <2>1, <2>2
<1>13. session = 1 /\ ~disconnected => callbacksByID[id] = "live"
  BY <1>1, <1>2 DEF PartsInv, FirstSession, FirstOf
<1> QED
  BY <1>3, <1>7, <1>8, <1>9, <1>10, <1>11, <1>12, <1>13, ArrivalKeepsParts

-----------------------------------------------------------------------------
LEMMA PartsSound == Spec => []PartsInv
<1>1. LinkInv /\ PartsInv /\ [Next]_vars => PartsInv'
  <2> SUFFICES ASSUME LinkInv, PartsInv, [Next]_vars PROVE PartsInv'
    OBVIOUS
  <2>1. CASE NetStep
    BY <2>1, QuietKeepsParts, NetHandsOn, PushKeepsParts, SendKeepsParts, CallbacksKeepParts
       DEF NetStep
  <2>2. CASE OwnerStep
    BY <2>2, QuietKeepsParts, PushKeepsParts, CallbacksKeepParts, PollResponseKeepsParts,
       PollLastPartKeepsParts, PollProgressKeepsParts, TeardownKeepsParts DEF OwnerStep
  <2>3. CASE Destroy
    BY <2>3, QuietKeepsParts
  <2>4. CASE EnetStep
    BY <2>4, QuietKeepsParts, TrackerKeepsParts, HostPartKeepsParts DEF EnetStep
  <2>5. CASE UNCHANGED vars
    <3>1. UNCHANGED <<pc, pushing, inputQueue, hostNext, downloads, wire, outputQueue, events,
              functionCallbackIDCounter, callbacksByID, callbacksByIDCopy, crashed, session,
              disconnected>>
      BY <2>5 DEF vars, threadVars, flagVars, callVars, enetVars
    <3>2. TypeOK
      BY DEF LinkInv
    <3>3. Heard' \subseteq Heard /\ HeardOnce'
      BY <3>1, <3>2, HeardStays
    <3> QED
      BY <3>1, <3>3, Still
  <2> QED
    BY <2>1, <2>2, <2>3, <2>4, <2>5 DEF Next
<1> QED
  BY <1>1, PartsInit, LinkSound, PTL DEF Spec

\* A host's answer reaches the script only with every part in place: the count that
\* IsComplete compares counts each part once, whatever was lost with a session.
THEOREM AnswersAreWholeHolds == Spec => AnswersAreWhole
<1>1. LinkInv /\ PartsInv /\ [Next]_vars =>
         [\A id \in CallIDs :
             PollLastPart /\ Head(outputQueue).id = id
                => downloads[id].data \cup {Head(outputQueue).offset} = Offsets]_vars
  <2> SUFFICES ASSUME LinkInv, PartsInv, NEW id \in CallIDs, PollLastPart,
                      Head(outputQueue).id = id
               PROVE  downloads[id].data \cup {Head(outputQueue).offset} = Offsets
    OBVIOUS
  <2>1. /\ Polls("part") /\ UNCHANGED events
        /\ IsComplete(Filled(downloads[id], Head(outputQueue).offset))
    BY DEF PollLastPart, enetVars
  <2> QED
    BY <2>1, PolledPart
<1> QED
  BY <1>1, LinkSound, PartsSound, PTL DEF Spec, AnswersAreWhole

\* The process dies of a null pointer only after a connection was lost: of the null
\* peer until the owner has torn that connection down, of an entry without a func
\* once a later session hears a host's answer to a call of an earlier one.
THEOREM CrashesOnlyAfterLossHolds == Spec => []CrashesOnlyAfterLoss
<1>1. LinkInv /\ PartsInv => CrashesOnlyAfterLoss
  <2> SUFFICES ASSUME LinkInv, PartsInv PROVE CrashesOnlyAfterLoss
    OBVIOUS
  <2>1. outputQueue \in Seq(Message)
    BY PartsTypes DEF LinkInv
  <2>2. Lost(outputQueue) => \E n \in DOMAIN outputQueue : outputQueue[n] = Disconnect
    BY <2>1, QueueFacts
  <2> QED
    BY <2>2 DEF LinkInv, NetFits, PartsInv, NullFits, CrashesOnlyAfterLoss
<1> QED
  BY <1>1, LinkSound, PartsSound, PTL

=============================================================================
