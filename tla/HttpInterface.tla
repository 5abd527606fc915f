---------------------------- MODULE HttpInterface ----------------------------
(***************************************************************************)
(* ClientHttpInterface (src/core/ClientHttpInterface.cpp) over two         *)
(* ThreadSafeQueues (src/core/ThreadSafeQueue.h): http.get.                *)
(*                                                                         *)
(* Two threads place gets: the one that runs the host's script, and the    *)
(* event loop, which also calls the callbacks (update).  A third fetches,  *)
(* one get after the other.  Its pop sleeps on the condition variable;     *)
(* a push signals it after letting go of the lock, in a step of its own.   *)
(* Once the loop has stopped the script's thread may destroy the           *)
(* interface.  curl is external: a transfer gives its parts, and succeeds  *)
(* after the last or fails after any of them.                              *)
(***************************************************************************)
EXTENDS Integers, Sequences

CONSTANTS Parts,     \* parts of a response's body
          MaxGets    \* bound: gets placed

ASSUME HttpAssumption ==
    /\ Parts \in Nat \ {0}
    /\ MaxGets \in Nat

VARIABLES
    pcScript,    \* "run", "notify", "exit", "join", "gone"
    pcLoop,      \* "top", "pop", "call", "stopped"; "notify" in a callback
    pcNet,       \* "pop", "sleep", "try", "fetch", "push", "exited"
    inputQueue, outputQueue,
    popped,      \* what updateThread's pop returned
    output,      \* what update's pop returned
    response,    \* response_string
    received,    \* parts of the body this transfer has given
    retryCount,
    gets,        \* history: gets placed
    called       \* history: callbacks called, in order, with their results

netVars  == <<pcNet, popped, response, received, retryCount>>
loopVars == <<pcLoop, output, called>>
vars == <<pcScript, netVars, loopVars, inputQueue, outputQueue, gets>>

Body == [i \in 1 .. Parts |-> i]
None == [get |-> 0, hasCallback |-> FALSE]
Exit == [get |-> -1, hasCallback |-> FALSE]
NoOutput == [get |-> 0, result |-> <<>>]

Init ==
    /\ pcScript = "run"
    /\ pcLoop = "top"
    /\ pcNet = "pop"
    /\ inputQueue = <<>>
    /\ outputQueue = <<>>
    /\ popped = None
    /\ output = NoOutput
    /\ response = <<>>
    /\ received = 0
    /\ retryCount = 0
    /\ gets = <<>>
    /\ called = <<>>

-----------------------------------------------------------------------------
(***************************************************************************)
(* Placing a get, on either thread.  http.get always has a callback; a     *)
(* caller in C++ may have none.                                            *)
(***************************************************************************)
Push(c) ==
    /\ Len(gets) < MaxGets
    /\ LET input == [get |-> Len(gets) + 1, hasCallback |-> c]
       IN  /\ inputQueue' = Append(inputQueue, input)
           /\ gets' = Append(gets, input)

\* Signals only for the first get in the queue.
NotifyFirst ==
    pcNet' = IF pcNet = "sleep" /\ Len(inputQueue) = 1 THEN "pop" ELSE pcNet
\* notify_one wakes the thread if it sleeps now, and does nothing if not.
NotifyOne == pcNet' = IF pcNet = "sleep" THEN "pop" ELSE pcNet

ScriptGet ==
    /\ pcScript = "run"
    /\ \E c \in BOOLEAN : Push(c)
    /\ pcScript' = "notify"
    /\ UNCHANGED <<netVars, loopVars, outputQueue>>

ScriptNotifyGets ==
    /\ pcScript \in {"notify", "exit"}
    /\ IF pcScript = "notify" THEN NotifyOne ELSE UNCHANGED pcNet
    /\ pcScript' = IF pcScript = "notify" THEN "run" ELSE "join"
    /\ UNCHANGED <<popped, response, received, retryCount, loopVars, inputQueue,
                   outputQueue, gets>>
ScriptNotify ==
    /\ pcScript \in {"notify", "exit"}
    /\ NotifyOne
    /\ pcScript' = IF pcScript = "notify" THEN "run" ELSE "join"
    /\ UNCHANGED <<popped, response, received, retryCount, loopVars, inputQueue,
                   outputQueue, gets>>

-----------------------------------------------------------------------------
(***************************************************************************)
(* The event loop.                                                         *)
(***************************************************************************)

\* update looks at outputQueue, and leaves it when it is empty.
UpdateTop ==
    /\ pcLoop = "top"
    /\ outputQueue # <<>>
    /\ pcLoop' = "pop"
    /\ UNCHANGED <<pcScript, netVars, output, called, inputQueue, outputQueue,
                   gets>>

\* A pop of an empty queue would block the loop: no other thread pops this one.
UpdatePop ==
    /\ pcLoop = "pop"
    /\ outputQueue # <<>>
    /\ output' = Head(outputQueue)
    /\ outputQueue' = Tail(outputQueue)
    /\ pcLoop' = "call"
    /\ called' = Append(called, Head(outputQueue))
    /\ UNCHANGED <<pcScript, netVars, inputQueue, gets>>

\* The callback may place gets of its own.
CallbackGet ==
    /\ pcLoop = "call"
    /\ Push(TRUE)
    /\ pcLoop' = "notify"
    /\ UNCHANGED <<pcScript, netVars, output, called, outputQueue>>

CallbackNotify ==
    /\ pcLoop = "notify"
    /\ NotifyOne
    /\ pcLoop' = "call"
    /\ UNCHANGED <<pcScript, popped, response, received, retryCount, output, called,
                   inputQueue, outputQueue, gets>>

CallbackReturns ==
    /\ pcLoop = "call"
    /\ pcLoop' = "top"
    /\ output' = NoOutput
    /\ UNCHANGED <<pcScript, netVars, called, inputQueue, outputQueue, gets>>

\* needsToExit, read between two updates.
LoopStops ==
    /\ pcLoop = "top"
    /\ pcLoop' = "stopped"
    /\ UNCHANGED <<pcScript, netVars, output, called, inputQueue, outputQueue,
                   gets>>

-----------------------------------------------------------------------------
(***************************************************************************)
(* updateThread.                                                           *)
(***************************************************************************)

\* pop, under the lock: sleep while the queue is empty.
NetPop ==
    /\ pcNet = "pop"
    /\ IF inputQueue = <<>>
       THEN /\ pcNet' = "sleep"
            /\ UNCHANGED <<popped, inputQueue>>
       ELSE /\ popped' = Head(inputQueue)
            /\ inputQueue' = Tail(inputQueue)
            /\ pcNet' = IF Head(inputQueue) = Exit THEN "exited" ELSE "try"
    /\ response' = <<>>
    /\ retryCount' = 0
    /\ UNCHANGED <<pcScript, received, loopVars, outputQueue, gets>>

\* A condition variable may wake without a signal.
NetWakesSpuriously ==
    /\ pcNet = "sleep"
    /\ pcNet' = "pop"
    /\ UNCHANGED <<pcScript, popped, response, received, retryCount, loopVars,
                   inputQueue, outputQueue, gets>>

AfterTryLate(success) ==
    IF success \/ retryCount > 2
    THEN IF popped.hasCallback THEN "push" ELSE "pop"
    ELSE "try"
AfterTry(success) ==
    IF success \/ retryCount + 1 >= 2
    THEN IF popped.hasCallback THEN "push" ELSE "pop"
    ELSE "try"

\* curl_easy_init may return null, which costs a try.
NetTry ==
    /\ pcNet = "try"
    /\ \/ /\ pcNet' = "fetch"
          /\ UNCHANGED retryCount
       \/ /\ pcNet' = AfterTry(FALSE)
          /\ retryCount' = retryCount + 1
    /\ received' = 0
    /\ UNCHANGED <<pcScript, popped, response, loopVars, inputQueue,
                   outputQueue, gets>>

\* writeFunction appends a part to response_string.
NetReceive ==
    /\ pcNet = "fetch"
    /\ received < Parts
    /\ received' = received + 1
    /\ response' = Append(response, received + 1)
    /\ UNCHANGED <<pcScript, pcNet, popped, retryCount, loopVars, inputQueue,
                   outputQueue, gets>>

\* What a failed transfer leaves in response_string.
Cleared == <<>>

\* curl_easy_perform returns.
NetFetched ==
    /\ pcNet = "fetch"
    /\ \/ /\ received = Parts
          /\ pcNet' = AfterTry(TRUE)
          /\ UNCHANGED response
       \/ /\ pcNet' = AfterTry(FALSE)
          /\ response' = Cleared
    /\ retryCount' = retryCount + 1
    /\ UNCHANGED <<pcScript, popped, received, loopVars, inputQueue,
                   outputQueue, gets>>

\* Drops a get that failed.
NetPushFound ==
    /\ pcNet = "push"
    /\ outputQueue' = IF response = <<>> THEN outputQueue
                      ELSE Append(outputQueue,
                                  [get |-> popped.get, result |-> response])
    /\ popped' = None
    /\ pcNet' = "pop"
    /\ UNCHANGED <<pcScript, response, received, retryCount, loopVars,
                   inputQueue, gets>>
NetPush ==
    /\ pcNet = "push"
    /\ outputQueue' = Append(outputQueue, [get |-> popped.get, result |-> response])
    /\ popped' = None
    /\ pcNet' = "pop"
    /\ UNCHANGED <<pcScript, response, received, retryCount, loopVars,
                   inputQueue, gets>>

-----------------------------------------------------------------------------
(***************************************************************************)
(* ~ClientHttpInterface: exit goes behind every get in the queue; what     *)
(* they answer is deleted with outputQueue.                                *)
(***************************************************************************)
DestroyPushExit ==
    /\ pcScript = "run"
    /\ pcLoop = "stopped"
    /\ inputQueue' = Append(inputQueue, Exit)
    /\ pcScript' = "exit"
    /\ UNCHANGED <<netVars, loopVars, outputQueue, gets>>

DestroyJoin ==
    /\ pcScript = "join"
    /\ pcNet = "exited"
    /\ pcScript' = "gone"
    /\ UNCHANGED <<netVars, loopVars, inputQueue, outputQueue, gets>>

-----------------------------------------------------------------------------
Net == NetPop \/ NetTry \/ NetReceive \/ NetFetched \/ NetPush
Loop == UpdateTop \/ UpdatePop \/ CallbackNotify \/ CallbackReturns

Next ==
    \/ Net \/ NetWakesSpuriously
    \/ Loop \/ CallbackGet \/ LoopStops
    \/ ScriptGet \/ ScriptNotify \/ DestroyPushExit \/ DestroyJoin

Spec == Init /\ [][Next]_vars

\* Each thread runs; a transfer that has begun ends; no signal comes by itself.
FairSpec ==
    /\ Spec
    /\ WF_vars(Net)
    /\ WF_vars(Loop)
    /\ WF_vars(CallbackReturns)
    /\ WF_vars(ScriptNotify)
    /\ WF_vars(DestroyJoin)

-----------------------------------------------------------------------------
(***************************************************************************)
(* Properties.                                                             *)
(***************************************************************************)
Input == [get : 1 .. MaxGets, hasCallback : BOOLEAN]

\* Every variable keeps its type, and no get is tried more than twice.
TypeOK ==
    /\ pcScript \in {"run", "notify", "exit", "join", "gone"}
    /\ pcLoop \in {"top", "pop", "call", "notify", "stopped"}
    /\ pcNet \in {"pop", "sleep", "try", "fetch", "push", "exited"}
    /\ inputQueue \in Seq(Input \cup {Exit})
    /\ outputQueue \in Seq([get : 1 .. MaxGets, result : Seq(1 .. Parts)])
    /\ popped \in Input \cup {None, Exit}
    /\ output \in [get : 0 .. MaxGets, result : Seq(1 .. Parts)]
    /\ response \in Seq(1 .. Parts)
    /\ received \in 0 .. Parts
    /\ retryCount \in 0 .. 2
    /\ gets \in Seq(Input)
    /\ called \in Seq([get : 1 .. MaxGets, result : Seq(1 .. Parts)])

Answered == called \o outputQueue
Waiting  == <<popped>> \o inputQueue

NoneLost ==
    \A n \in DOMAIN gets : gets[n].hasCallback =>
        \/ \E i \in DOMAIN Answered : Answered[i].get = n
        \/ \E i \in DOMAIN Waiting : Waiting[i] = gets[n]
OnlyPlaced ==
    /\ \A i \in DOMAIN Answered :
          Answered[i].get \in DOMAIN gets /\ gets[Answered[i].get].hasCallback
    /\ \A i \in DOMAIN Waiting : Waiting[i].hasCallback =>
          Waiting[i].get \in DOMAIN gets /\ Waiting[i] = gets[Waiting[i].get]
AnswersOrdered ==
    \A i, j \in DOMAIN Answered : i < j => Answered[i].get < Answered[j].get
AnswersAhead ==
    \A i \in DOMAIN Answered, j \in DOMAIN Waiting :
        Waiting[j].hasCallback => Answered[i].get < Waiting[j].get
WaitingOrdered ==
    \A i, j \in DOMAIN Waiting :
        i < j /\ Waiting[i].hasCallback /\ Waiting[j].hasCallback
           => Waiting[i].get < Waiting[j].get

\* Across both queues and the fetching thread no get with a callback is lost,
\* repeated or overtaken: its callback is called once at most, in the order the
\* gets were placed, whichever thread placed them and whatever failed, and with
\* the whole body or, when both tries failed, nothing: never with what a failed
\* try left of it.
InOrder ==
    /\ NoneLost /\ OnlyPlaced
    /\ AnswersOrdered /\ AnswersAhead /\ WaitingOrdered
    /\ \A i \in DOMAIN Answered : Answered[i].result \in {<<>>, Body}

\* updateThread never sleeps on a get that nobody is about to signal, although
\* push signals after it has let go of the lock.
NoLostWakeup ==
    pcNet = "sleep" /\ inputQueue # <<>> =>
        pcScript \in {"notify", "exit"} \/ pcLoop = "notify"

\* The destructor returns: its exit reaches the thread behind every get, and
\* wakes it when it sleeps.
DestructorReturns == pcScript = "exit" ~> pcScript = "gone"

=============================================================================
