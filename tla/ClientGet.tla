------------------------------ MODULE ClientGet ------------------------------
(***************************************************************************)
(* katipo.get of the client (src/apps/katipoClient/Controller.cpp): the    *)
(* script's thread places gets, each interface's net thread runs the       *)
(* onConnected it finds in the script's table, and the event loop polls    *)
(* the interfaces.  A get asks the tracker for the host's key and then the *)
(* host; its callback is a counted reference that doGet, the closures and  *)
(* the table of arguments share.                                           *)
(*                                                                         *)
(* Inside, an interface is ClientNet: here it is the state of its          *)
(* connection and the calls it owes an answer.  The tracker, the host and  *)
(* the script are external.  No script of the client sets katipo.retry, so *)
(* an interface that is disconnected stays so.  A process that follows a   *)
(* dangling or a null pointer may do anything: here it ends.               *)
(***************************************************************************)
EXTENDS Integers, Sequences

CONSTANTS Trackers,
          Callbacks,   \* script functions
          Held,        \* those a variable of the script holds
          MaxGets      \* bound: gets placed

ASSUME ClientGetAssumption ==
    /\ Held \subseteq Callbacks
    /\ MaxGets \in Nat

NoGet == 0
NoCallback == "none"

VARIABLES
    pc,            \* the script's thread, inside the last get
    gets,          \* history: tracker and callback of each get
    onConnected, onConnectionFailed,   \* the slots of katipoTable
    netInterfaces, \* trackers whose interface is stored
    bound,         \* those whose interface has its katipoTable
    link,          \* connection of each interface
    greeted,       \* interfaces that know their trackerPublicKey
    greeting,      \* those whose net thread is between the two steps of it
    calls,         \* of each get: calls in callbacksByID
    args,          \* references to each get's table of arguments
    refs,          \* references to each callback
    answers,       \* history: times a get's callback was called
    relayed,       \* history: gets that called their host
    encodeFailed,  \* history: gets whose call of their host failed to encode
    overlapped,    \* history: a get took the slots from one still connecting
    crash          \* what the process died of

scriptVars == <<pc, gets, onConnected, onConnectionFailed, netInterfaces, bound,
                overlapped>>
netVars    == <<link, greeted, greeting>>
countVars  == <<args, refs, answers>>
hostVars   == <<relayed, encodeFailed>>
vars == <<scriptVars, netVars, calls, countVars, hostVars, crash>>

Gets == 1 .. MaxGets

\* A get's calls: of the tracker, of the host, and those that nobody hears: not
\* readable, or never sent.
NoCalls == [tracker |-> 0, unheard |-> 0, host |-> 0]

Init ==
    /\ pc = "idle"
    /\ gets = <<>>
    /\ onConnected = NoGet
    /\ onConnectionFailed = NoGet
    /\ netInterfaces = {}
    /\ bound = {}
    /\ link = [t \in Trackers |-> "none"]
    /\ greeted = {}
    /\ greeting = {}
    /\ calls = [g \in Gets |-> NoCalls]
    /\ args = [g \in Gets |-> 0]
    /\ refs = [c \in Callbacks |-> IF c \in Held THEN 1 ELSE 0]
    /\ answers = [g \in Gets |-> 0]
    /\ relayed = {}
    /\ encodeFailed = {}
    /\ overlapped = FALSE
    /\ crash = "no"

Running == crash = "no"
Current == Len(gets)

-----------------------------------------------------------------------------
(***************************************************************************)
(* Counted references.  A step works out what it leaves of them: m is a    *)
(* record of args, refs, answers, calls and crash.                         *)
(***************************************************************************)
Memory == [args |-> args, refs |-> refs, answers |-> answers, calls |-> calls,
           crash |-> crash]
Becomes(m) ==
    /\ args' = m.args /\ refs' = m.refs /\ answers' = m.answers
    /\ calls' = m.calls /\ crash' = m.crash

\* What is left after the callback of get g is called k times and its count
\* moves by d.  No callback is a null pointer.
Using(m, g, k, d) ==
    LET c == gets[g].callback
    IN  IF m.crash # "no" THEN m
        ELSE IF c = NoCallback THEN [m EXCEPT !.crash = "no callback"]
        ELSE IF m.refs[c] = 0 \/ m.refs[c] + d < 0 THEN [m EXCEPT !.crash = "freed"]
        ELSE [m EXCEPT !.refs[c] = @ + d, !.answers[g] = @ + k]

Answered(m, g) == Using(m, g, 1, -1)
IfCallback(m, g, d) ==
    IF gets[g].callback = NoCallback THEN m ELSE Using(m, g, 0, d)

\* The table of arguments holds the callback until it is freed itself.
ReleaseArgs(m, g) ==
    IF m.crash # "no" THEN m
    ELSE IF m.args[g] = 0 THEN [m EXCEPT !.crash = "freed"]
    ELSE IF m.args[g] = 1 THEN IfCallback([m EXCEPT !.args[g] = 0], g, -1)
    ELSE [m EXCEPT !.args[g] = @ - 1]

-----------------------------------------------------------------------------
(***************************************************************************)
(* doGet and the closures that follow it.                                  *)
(***************************************************************************)

\* doGet retains the callback once; the key's and the host's closures each
\* release it.  What is locked without the tracker's key fails to encode or
\* cannot be read; nothing is sent on a connection known to be gone.
DoGet(m, g) ==
    LET t == gets[g].tracker
        r == IfCallback(m, g, 1)
        asked   == [r EXCEPT !.calls[g].tracker = @ + 1]
        unheard == [r EXCEPT !.calls[g].unheard = @ + 1]
    IN  IF m.args[g] = 0 THEN {[m EXCEPT !.crash = "freed"]}
        ELSE IF t \notin netInterfaces THEN {[m EXCEPT !.crash = "null interface"]}
        ELSE IF t \notin greeted THEN {unheard, Answered(r, g)}
        ELSE IF link[t] = "closed" THEN {unheard}
        ELSE {asked}

\* The closure in onConnected.
OnConnected(m, g) ==
    {IfCallback(ReleaseArgs(d, g), g, -1) : d \in DoGet(m, g)}

\* The closure in onConnectionFailed.
OnConnectionFailed(m, g) == Answered(ReleaseArgs(m, g), g)

\* The tracker answers getSiteKey with the host's key, or refuses.  The key is
\* what the host has registered, and crypto_box_easy may refuse it: the call of
\* the host, already in callbacksByID, stays there, and its closure calls and
\* releases the callback at once.  doGet's release follows in any case.
KeyFound(m, g) ==
    LET call == [m.calls[g] EXCEPT !.tracker = @ - 1, !.host = @ + 1]
    IN  Using([m EXCEPT !.calls[g] = call], g, 0, -1)
KeyUnusable(m, g) ==
    LET call == [m.calls[g] EXCEPT !.tracker = @ - 1, !.unheard = @ + 1]
    IN  Using(Answered([m EXCEPT !.calls[g] = call], g), g, 0, -1)
\* Mutant of KeyRefused: the host is called all the same.
KeyRefusedGoesOn(m, g) ==
    LET call == [m.calls[g] EXCEPT !.tracker = @ - 1, !.host = @ + 1]
    IN  Answered([m EXCEPT !.calls[g] = call], g)
KeyRefused(m, g) == Answered([m EXCEPT !.calls[g].tracker = @ - 1], g)
SiteAnswered(m, g) == Answered([m EXCEPT !.calls[g].host = @ - 1], g)

\* disconnect() answers every call of interface t.  Mutant of Fail: the calls are
\* forgotten.
Outstanding(g) == calls[g].tracker + calls[g].unheard + calls[g].host
FailForgets(m, g) == [m EXCEPT !.calls[g] = NoCalls]
Fail(m, g) ==
    LET n == Outstanding(g)
    IN  IF n = 0 THEN m
        ELSE [Using(m, g, n, -n) EXCEPT !.calls[g] = NoCalls]
FailCalls(m, t) ==
    LET failed[n \in 0 .. Len(gets)] ==
            IF n = 0 THEN m
            ELSE IF gets[n].tracker = t THEN Fail(failed[n - 1], n)
            ELSE failed[n - 1]
    IN  failed[Len(gets)]

-----------------------------------------------------------------------------
(***************************************************************************)
(* The script's thread.                                                    *)
(***************************************************************************)

\* The script calls katipo.get: the table of arguments holds the callback.  A
\* function no variable holds is written where it is passed.
PlaceGet(t, c) ==
    /\ Running /\ pc = "idle"
    /\ Len(gets) < MaxGets
    /\ c \notin Held => \A i \in DOMAIN gets : gets[i].callback # c \/ c = NoCallback
    /\ gets' = Append(gets, [tracker |-> t, callback |-> c])
    /\ args' = [args EXCEPT ![Len(gets) + 1] = 1]
    /\ IF c \in Held /\ refs[c] = 0
       THEN crash' = "freed" /\ UNCHANGED refs
       ELSE /\ refs' = IF c = NoCallback THEN refs ELSE [refs EXCEPT ![c] = @ + 1]
            /\ UNCHANGED crash
    /\ pc' = "get"
    /\ UNCHANGED <<onConnected, onConnectionFailed, netInterfaces, bound, netVars,
                   calls, answers, hostVars, overlapped>>

\* The tracker's interface exists, in whatever state it is.
GetFromKnown ==
    /\ Running /\ pc = "get"
    /\ gets[Current].tracker \in netInterfaces
    /\ \E m \in DoGet(Memory, Current) : Becomes(ReleaseArgs(m, Current))
    /\ pc' = "idle"
    /\ UNCHANGED <<gets, onConnected, onConnectionFailed, netInterfaces, bound,
                   netVars, hostVars, overlapped>>

\* Interfaces that may still call a slot of katipoTable.
Connecting == {t \in Trackers :
    link[t] \in {"up", "lost"} /\ (t \notin greeted \/ t \in greeting)}

\* Otherwise the closures go to the slots, which all interfaces share.
TakeSlots ==
    /\ Running /\ pc = "get"
    /\ gets[Current].tracker \notin netInterfaces
    /\ onConnected' = Current
    /\ onConnectionFailed' = IF gets[Current].callback = NoCallback
                             THEN onConnectionFailed ELSE Current
    /\ Becomes(IfCallback([Memory EXCEPT !.args[Current] = @ + 1], Current, 1))
    /\ overlapped' = (overlapped \/ Connecting # {})
    /\ pc' = "construct"
    /\ UNCHANGED <<gets, netInterfaces, bound, netVars, hostVars>>

\* new ClientNetInterface starts to connect, then it is stored, then bindTui.
Construct ==
    /\ Running /\ pc = "construct"
    /\ link' = [link EXCEPT ![gets[Current].tracker] = "up"]
    /\ pc' = "store"
    /\ UNCHANGED <<gets, onConnected, onConnectionFailed, netInterfaces, bound,
                   greeted, greeting, calls, countVars, hostVars, overlapped, crash>>

\* Mutant of Store: the interface is not stored.
StoreForgotten ==
    /\ Running /\ pc = "store"
    /\ pc' = "bind"
    /\ UNCHANGED <<gets, onConnected, onConnectionFailed, netInterfaces, bound,
                   netVars, calls, countVars, hostVars, overlapped, crash>>
Store ==
    /\ Running /\ pc = "store"
    /\ netInterfaces' = netInterfaces \cup {gets[Current].tracker}
    /\ pc' = "bind"
    /\ UNCHANGED <<gets, onConnected, onConnectionFailed, bound, netVars, calls,
                   countVars, hostVars, overlapped, crash>>

BindTui ==
    /\ Running /\ pc = "bind"
    /\ bound' = bound \cup {gets[Current].tracker}
    /\ Becomes(ReleaseArgs(Memory, Current))
    /\ pc' = "idle"
    /\ UNCHANGED <<gets, onConnected, onConnectionFailed, netInterfaces, netVars,
                   hostVars, overlapped>>

ScriptStep == GetFromKnown \/ TakeSlots \/ Construct \/ Store \/ BindTui

-----------------------------------------------------------------------------
(***************************************************************************)
(* The net thread of interface t, and its connection.                      *)
(***************************************************************************)
NetHandshake(t) ==
    /\ Running
    /\ link[t] = "up" /\ t \notin greeted
    /\ greeted' = greeted \cup {t}
    /\ greeting' = greeting \cup {t}
    /\ UNCHANGED <<scriptVars, link, calls, countVars, hostVars, crash>>

\* The handshake goes on: onConnected is called if the table is bound.
NetOnConnected(t) ==
    /\ Running
    /\ t \in greeting
    /\ greeting' = greeting \ {t}
    /\ IF t \in bound
       THEN \E m \in OnConnected(Memory, onConnected) : Becomes(m)
       ELSE UNCHANGED <<calls, countVars, crash>>
    /\ UNCHANGED <<scriptVars, link, greeted, hostVars>>

\* No connection is made, or it is lost: the event is queued.
Lose(t) ==
    /\ Running
    /\ link[t] = "up" /\ t \notin greeting
    /\ link' = [link EXCEPT ![t] = "lost"]
    /\ UNCHANGED <<scriptVars, greeted, greeting, calls, countVars, hostVars, crash>>

-----------------------------------------------------------------------------
(***************************************************************************)
(* serverEventLoop polls the interfaces it finds in netInterfaces.         *)
(***************************************************************************)

\* disconnect(): of the slots only onConnectionFailed is set by katipo.get, and
\* it is called if the interface was never connected.  Mutant of CallsFailedSlot:
\* whatever it was.
CallsFailedSlotAlways(t) == t \in bound /\ onConnectionFailed # NoGet
CallsFailedSlot(t) == t \notin greeted /\ t \in bound /\ onConnectionFailed # NoGet

PollDisconnected(t) ==
    /\ Running
    /\ t \in netInterfaces /\ link[t] = "lost"
    /\ link' = [link EXCEPT ![t] = "closed"]
    /\ LET m == IF CallsFailedSlot(t)
                THEN OnConnectionFailed(Memory, onConnectionFailed) ELSE Memory
       IN  Becomes(FailCalls(m, t))
    /\ UNCHANGED <<scriptVars, greeted, greeting, hostVars>>

\* A disconnected interface reads katipo.retry from its table, if it has one.
PollClosed(t) ==
    /\ Running
    /\ t \in netInterfaces /\ link[t] = "closed" /\ t \notin bound
    /\ crash' = "unbound table"
    /\ UNCHANGED <<scriptVars, netVars, calls, countVars, hostVars>>

\* An answer of the tracker, and one of the host, is polled before the loss.
PollTracker(g) ==
    /\ Running
    /\ calls[g].tracker > 0
    /\ \/ /\ Becomes(KeyFound(Memory, g))
          /\ relayed' = relayed \cup {g} /\ UNCHANGED encodeFailed
       \/ /\ Becomes(KeyUnusable(Memory, g))
          /\ encodeFailed' = encodeFailed \cup {g} /\ UNCHANGED relayed
       \/ Becomes(KeyRefused(Memory, g)) /\ UNCHANGED hostVars
    /\ UNCHANGED <<scriptVars, netVars>>

PollHost(g) ==
    /\ Running
    /\ calls[g].host > 0
    /\ Becomes(SiteAnswered(Memory, g))
    /\ UNCHANGED <<scriptVars, netVars, hostVars>>

-----------------------------------------------------------------------------
NetStep(t) == NetHandshake(t) \/ NetOnConnected(t)
LoopStep == \/ \E t \in Trackers : PollDisconnected(t)
            \/ \E g \in Gets : PollTracker(g)

Next ==
    \/ \E t \in Trackers, c \in Callbacks \cup {NoCallback} : PlaceGet(t, c)
    \/ ScriptStep
    \/ \E t \in Trackers : NetStep(t) \/ Lose(t) \/ PollClosed(t)
    \/ LoopStep
    \/ \E g \in Gets : PollHost(g)

Spec == Init /\ [][Next]_vars

\* The three kinds of thread run, a connection is made or fails (enet's timeout),
\* and the tracker answers what it can read (WaitsOnlyForHost of Relay) or its
\* connection is lost.  Nothing obliges the host to answer.
FairSpec ==
    /\ Spec
    /\ WF_vars(ScriptStep)
    /\ \A t \in Trackers : WF_vars(NetStep(t) \/ (Lose(t) /\ t \notin greeted))
    /\ WF_vars(LoopStep)

-----------------------------------------------------------------------------
(***************************************************************************)
(* Properties.                                                             *)
(***************************************************************************)

\* Every variable keeps its type, and an interface is bound after it is stored
\* and stored after it is made.
TypeOK ==
    /\ pc \in {"idle", "get", "construct", "store", "bind"}
    /\ gets \in Seq([tracker : Trackers, callback : Callbacks \cup {NoCallback}])
    /\ onConnected \in 0 .. Len(gets)
    /\ onConnectionFailed \in 0 .. Len(gets)
    /\ bound \subseteq netInterfaces
    /\ netInterfaces \subseteq {t \in Trackers : link[t] # "none"}
    /\ link \in [Trackers -> {"none", "up", "lost", "closed"}]
    /\ greeting \subseteq greeted /\ greeted \subseteq Trackers
    /\ calls \in [Gets -> [tracker : Nat, unheard : Nat, host : Nat]]
    /\ args \in [Gets -> 0 .. 2]
    /\ refs \in [Callbacks -> Nat]
    /\ answers \in [Gets -> Nat]
    /\ relayed \subseteq DOMAIN gets /\ encodeFailed \subseteq DOMAIN gets
    /\ overlapped \in BOOLEAN
    /\ crash \in {"no", "no callback", "freed", "null interface", "unbound table"}

\* Some get was placed without a callback.
Silent == \E g \in DOMAIN gets : gets[g].callback = NoCallback

\* The counts of doGet and of the closures hold a callback, and the interface a
\* closure finds is there, unless a get took the slots from one that was still
\* connecting, had no callback, or was given the key of its host: only then,
\* whether the call of the host is sent or fails to encode, is anything freed too
\* early.
CrashesNamed ==
    /\ crash = "null interface" => overlapped
    /\ crash = "no callback" => Silent
    /\ crash = "unbound table" => pc = "bind"
    /\ crash = "freed" => overlapped \/ Silent \/ relayed # {} \/ encodeFailed # {}

\* The callback of a get is called once, whichever of the connection, the
\* tracker, the host and the teardown answers it, unless the slots were taken
\* from an interface that was still connecting.  A get whose call of the host
\* failed to encode is the exception: the call is answered at once and stays in
\* callbacksByID, so the teardown answers it again, and then no more.
MayBeAnswered(g) == IF g \in encodeFailed THEN 2 ELSE 1
AnsweredOnce == overlapped \/ \A g \in Gets : answers[g] <= MayBeAnswered(g)

\* Once the script places no more, every get has been answered, waits for its
\* host, or was never heard: its interface was disconnected or still connecting
\* when it was placed, shook hands or failed before it was bound, or another get
\* took the slots.
InSlot(g) == args[g] > 0 /\ pc = "idle"
Unheard(g) ==
    \/ calls[g].unheard > 0
    \/ InSlot(g) /\ LET t == gets[g].tracker
                    IN  \/ onConnected # g
                        \/ t \in greeted \ greeting
                        \/ link[t] = "closed"
Settled(g) ==
    \/ gets[g].callback = NoCallback
    \/ answers[g] > 0 \/ calls[g].host > 0 \/ Unheard(g)
GetsAnswered == <>[](Running => \A g \in DOMAIN gets : Settled(g))

=============================================================================
