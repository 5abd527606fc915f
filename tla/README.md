# A TLA+ model of katipo

katipo is a C++ network in which clients reach hosts through a tracker, over
enet (reliable UDP).  This directory holds TLA+ modules translated from the
source, TLC configurations that check them on small instances, and TLAPS proofs
of their main invariants.

## 1. The system

    client process                    tracker process                    host process
    script <-> owner thread           scripts (tracker.tui)              owner thread <-> script
                 |  queues               | event loop thread |               |  queues
               net thread <== enet ==> net thread      net thread <== enet ==> net thread
    ClientNetInterface        clientServer |__ relay __| hostServer        ClientNetInterface

| component | state it keeps | operations | source |
|---|---|---|---|
| client connection, `ClientNetInterface` | enet host and peer, three flags, two queues, `callbacksByID`, downloads in progress | connect, disconnect, poll, callTrackerFunction, callRemoteHostFunction | `core/ClientNetInterface.cpp` |
| host role of the same class | none beyond the queues | processGetRequest, sendMultipartTuiData | same file, 685-850, 1063-1140 |
| tracker port, `ServerNetInterface` | enet host, two maps of joined clients, two queues | join, replace, remove, send | `core/ServerNetInterface.cpp` |
| `Server` | `clients`, `clientsByHostRequestIDs` | addClient, removeClient, clientDataReceived, relayHostResponseToClient | `core/Server.cpp` |
| `Tracker` and its script | two Servers, the site registry | katipo.start, the event loop, registering and looking up sites | `core/Tracker.cpp`, `apps/katipoTracker/scripts/tracker.tui` |
| LAN scanner, `Scanner` | a connection per address, the list, its index | startScan, update, getConnection | `core/Scanner.cpp` |
| client controller | interfaces by tracker, one `onConnected` slot, counted references | katipo.get, doGet | `apps/katipoClient/Controller.cpp` |
| host controller and script | one interface, `katipo.get` | katipo.init, poll loop | `apps/katipoHost` |
| `Database`, `DatabaseEnvironment` | an LMDB map, an open transaction | get, set, bulk transactions, growing the map | `core/Database*.cpp` |
| HTTP client, `ClientHttpInterface` | a thread, two queues | get, retry, destruction | `core/ClientHttpInterface.cpp` |
| `ThreadSafeQueue` | a deque, a mutex, a condition variable | push, pop | `core/ThreadSafeQueue.h` |
| enet, its reliable channel | sequence numbers, windows, lists of commands | send, receive, acknowledge, resend | `thirdParty/enet-1.3.18` |

How they interact.  Each `ClientNetInterface` and each `ServerNetInterface` has
a net thread, which alone uses the enet host, and is driven by another thread,
the owner (a client's poll loop, the tracker's event loop).  The two meet in an
input and an output queue, and also, with no lock, in flags (`connected`,
`needsToExit`), in `callbacksByID`, and through pointers that travel in the
queues.  The tracker's two Servers call each other on the event loop to relay a
request to a host and its answer, in parts, to the client.  Scripts are called
back from most of these places and may place new calls before they return.  The
client controller adds a third thread, the one that runs the user's script.

What is hard: a connection may drop between any two steps, and the client
reconnects in the same object, with whatever its queues and tables still hold;
the tracker's event loop lags behind its net thread; a client may be back
before the tracker has noticed it was gone; enet reuses peer slots and sequence
numbers; answers come in parts, or never; scripts re-enter the tables being
walked; a database process exits when its map is full, or dies.

What makes each part correct:

- client connection: every call is answered exactly once, whatever is lost; no
  state of one session acts on the next; teardown returns;
- tracker port: no pointer to a deleted client is followed, the two maps agree,
  and the scripts see sessions that do not overlap;
- Server and Tracker: the registry describes connected hosts only, names are not
  taken over;
- the three processes together: a client's call of a host is run once at most,
  its outcome is one and true, and it is its own;
- scanner: every host made is destroyed once, every address is tried, a scan ends;
- client controller: each `katipo.get` is called back once;
- database: what was acknowledged is on disk, a bulk transaction is wholly there
  or not at all after a restart, and a full map grows;
- HTTP client: answers come in order, a retry does not mix partial data, and
  destruction ends; its queue loses no wakeup;
- enet: a connection is a FIFO.

`PROJECT.json` lists all components and, under `hazards`, what in this code is
hard to test, at its line, with the properties that cover it.

## 2. The modules

Three layers build on each other by abstraction, which is what keeps each
checkable:

    ClientGet   (katipo.get)          Relay  --implements-->  RemoteCall
        |                               |
    ClientNet   (one client end)     Tracker (registry)  on  Sessions
        |                                                        ^ implements
        |                            ServerNet (one tracker port)
        +-------------+--------------+
                      |
                Enet  --implements-->  Link

    beside them:  Scanner,   Database --implements--> Store,   HttpInterface

A module takes from the layer below what a property of that layer states: a
connection that is a FIFO until it is lost (`ImplementsLink`), an end that
answers what it owes at teardown (`OutstandingAnswered`, `Accounting`), sessions
that do not overlap (`ImplementsSessions`).

**ClientNet** models one `ClientNetInterface`, in its client and its scanner
role, with a program counter for each thread.

- A label of `pc["net"]` is a place in `startThread`: `top` (the head of the
  loop), `drain` (handing requests to enet), `service` (`enet_host_service` and
  `checkEnetEvents`), `handshake`, `onConnected`, `push`, `exited`.
- A label of `pc["owner"]`: `poll` is `pollNetEvents`; `notify`, `join` and
  `fail` are the script callbacks, the thread join and the failing of
  outstanding calls in `disconnect`; `created` is the scanner's first call.
- Each thread step is one action, so every access to a flag, a queue or
  `callbacksByID` by one thread can fall between any two of the other's.
  `sendData` tests the flags and pushes in two steps.
- A script callback is `PlaceCall`: it places no call, one that is sent, or one
  that cannot be encoded.  `callbacksByID[id]` is `"null"` when `operator[]` has
  made an entry that holds no function.
- A host's answer is `Parts` packets; `downloads` keeps which are in place and
  the count of bytes on which the code decides that the answer is whole.
- The two ways the process may die are states of `crashed`: enet handed a null
  peer, and a call through an entry that holds no function.
- enet is a FIFO link that may drop at any moment, loses what was in flight and
  then reports DISCONNECT.  The tracker may answer, answer twice (tracker.tui
  does) or not at all.

**Sessions** is what a `Server` promises to its scripts: an id is announced when
it is unknown, dropped when it is known, and served only in between.

**ServerNet** models one tracker port, net thread and event loop.  Every
`NetServerClient` is an address whose memory is unused, alive or freed; the
maps, `Server.clients`, the queued outputs and the answer callback hold such
addresses.  A slot of enet's peer array goes to the next remote when it is free.
Its property `ImplementsSessions` is the refinement of Sessions under the map
*known = ids with an entry in `Server.clients`*.

**Tracker** composes two instances of Sessions (what ServerNet implements) with
what the handlers do: the tables of `tracker.tui` and the relaying in
`Server.cpp`.  A handler runs to its end before the next, on one thread, so
each handler is one action.

**RemoteCall** is what a call of a host's `katipo.get` promises the script that
places it: one outcome, one run at most, `ok` only when the host ran it,
`refused` only when no host ever will.

**Relay** composes clients, the tracker and one host.  Each end of a connection
is the queues of its `ClientNetInterface`, each connection a FIFO per direction
(everything goes on one enet channel) that may be lost with what it held.  It
has the parts that only matter end to end: the request a client sends after it
has reconnected although its caller was told "not connected"; `callbackID`s that
a restarted client counts from 0 again, under the same client id;
`clientsByHostRequestIDs`, which is never cleaned; the host that connects before
its script has set `katipo.get`; parts lost or sent while the client was away.
Processes restart: a client (`Restart`), the host and the tracker.
`ImplementsRemoteCall` is the refinement; its map is the identity on `status` and
`runs`, which the module keeps for the callers.

**ClientGet** models `katipo.get` of the client: the script's thread places gets
and constructs interfaces (`pc`: the construction, storing and binding are steps
of their own), each interface's net thread runs the `onConnected` it finds in
the script's table, and the event loop polls.  `refs` counts the references of a
callback as Tui does; `args` the uses of a get's closures in the table.  A
process that follows a dangling or null pointer ends, and `crash` names the
reason.  The tracker's answer has three outcomes: it is refused (`KeyRefused`),
the host is called with the key it registered (`KeyFound`), or that call cannot
be encoded (`KeyUnusable`, `callRemoteHostFunction` 366-374; 393-401 has the
same effect): the callback runs at once, its entry stays in `callbacksByID`, and
`doGet` releases the callback all the same.

**Scanner** models a whole scan.  `update` is split where the network can act in
between (`pc`: poll, connect, service, remove, finish).  What is in
`connectionsByIP` for an address is one value: no entry, an enet host with or
without an event to serve, a closed entry, or a `ClientNetInterface` that has
asked, has its answer queued, or has reported it.  The last number of an address
is in `0 .. LastNumber`, which is 255 in the code.

**Store** is what a `Database` promises: a durable table, and a group of writes
that is stored as a whole or not at all.

**Database** models `Database` and `DatabaseEnvironment` over LMDB's
transactions.  `disk` is what LMDB has committed, `work` what its one write
transaction would commit; space is counted in units, free ones being usable
only after the commit that freed them.  Every call and every commit may find the
map full, which ends the process; it may also die between any two steps.
`Launch` sizes the map as the constructor does.  `ImplementsStore` maps
*stored = `disk.data`*, *seen = `work.data` in a bulk*, *grouped = a bulk is
open*.

**HttpInterface** models `ClientHttpInterface` with the inside of its
`ThreadSafeQueue`: `pop` sleeps on the condition variable, `push` signals after
letting go of the lock, each a step.  Two threads push, one pops.

**Link** is one direction of a connection, a FIFO.  **Enet** models a reliable
channel of enet in that direction: packets cut into fragments, sequence numbers
that wrap, reliable windows at both ends, acknowledgements, resending, over a
network that loses, repeats and reorders datagrams.  Commands are named by their
place in the stream; what the code decides from the 16-bit number it decides
here from the same number modulo `Windows * WindowSize`.  `ImplementsLink` maps
*arrived = the number of packets received, if they are the first sent, in order
and whole*.

`MC*.tla` define the constants and symmetry sets of the runs.  `*Proofs.tla` hold
the theorems of section 4; each extends the module it is about, and `TrackerProofs`
both ServerNet and Tracker, the two halves of a tracker process.  For that no name
of Tracker is ServerNet's (`TrackerInit`, `TrackerSpec`, `TrackerTypeOK`).  The map of
`PROJECT.json` gives each definition the lines it stands for.  The definitions
it lists under `mutants` (`ReportedAlways` for `Reported`, `EndTxnKept` for
`EndTxn`) are plausible bugs: put in the place of the definition they alter, each
makes the listed property fail, which shows that the property depends on that
code.

## 3. What the runs check

| run | instance | what it shows |
|---|---|---|
| `client_net` | 3 calls, 2 parts, 3 sessions, retry; 84 K states | `Accounting`: every call is still owed its answer or has had exactly one. `NoStaleOutput`, `SendsAfterJoin`: nothing a session left behind acts on the next. `CallbacksNotShared`: while the net thread runs `onConnected`, the owner is not at `callbacksByID`. `CrashesOnlyAfterLoss`: when the two crashes can happen. `AnswersAreWhole`. `OutstandingAnswered` (liveness): teardown returns and answers. |
| `server_net` | 2 ids, 2 slots, 3 joins, 1 request; 1.7 M states | `PointersAlive`, `MapsAgree`, `OneLife` (no leak, no second delete, a client that is gone has its removal queued once), `ImplementsSessions` |
| `tracker` | 2 hosts, 2 clients, 2 names, 2 requests; 15 K states | `RegistryMatches`, `NameKeptByHolder` |
| `relay` | 2 clients, 1 host, 2 parts, 2 calls, 1 fault; 182 K states | `ImplementsRemoteCall`; `RightAnswer`: a callback gets the answer to its own call; `WaitsOnlyForHost` (liveness): only what the host has lost waits for ever |
| `client_get` | 2 trackers, 2 callbacks, 3 gets; 336 K states | `CrashesNamed`: what is freed too early or followed too soon happens only in the ways the property names; `AnsweredOnce`: a get's callback is called once, or twice if the call of its host could not be encoded; `GetsAnswered` (liveness) |
| `scanner` | 3 addresses (`LastNumber` = 2), which may each come twice, batches of 2, 2 scans; 191 K states | `HostsOwned` (every enet host is destroyed once), `CompleteScanTriedAll`, `ScanCompletes` (liveness) |
| `database` | 2 databases, 1 key, values of 1 and of more units than the slack; 549 K states | `AckedDurable`: what was reported stored is on disk; `SmallWritesResize`: a full map is larger after the next launch; `ImplementsStore` |
| `http` | 4 gets, 2 parts; 99 K states | `InOrder`: each callback once, in order, a whole body or nothing; `NoLostWakeup`; `DestructorReturns` (liveness) |
| `enet` | 6 windows of 2, 9 packets of 15 commands, 1 fault; 55 K states | `ImplementsLink`; `ForgottenHasArrived`: the sender forgets only what the receiver has; `PacketsArrive` (liveness): the windows of both ends never wait for each other |

Each of these also checks the module's one type invariant.

Properties with exceptions say what the code does.  `Accounting` excepts host
calls that could not be encoded (the callback runs twice); `AnsweredOnce` allows
a get whose host call could not be encoded its second answer, and no get a third;
`CrashesOnlyAfterLoss` and `CrashesNamed` name the only ways the process can die,
among them the callback freed too early once a get was given the key of its host,
whether the call of the host was sent or failed to encode;
`AckedDurable` excepts removals whose commit failed and groups in which
a database was opened or closed; `GetsAnswered` names the gets that are never
heard.  Each of these exceptions is a state the run reaches.

Three runs show where the program does not do what its own text says.
`PROJECT.json` quotes the lines.

| run | property | what happens |
|---|---|---|
| `tracker_name` | `FoundByName` | A host refused for its name stays connected, and prints that it is connected under that name. |
| `scanner_retry` | `RetriedWithoutResults` | A scan that has found a tracker, whose connection was accepted and taken, logs that it found nothing and tries everything again. |
| `database_resize` | `ResizesOnNextLaunch` | A write that asks for more than 8 MB above what is stored fills the map, the program says it will resize on the next launch, and the next launch opens the same map. |

### Bounds, and why they are enough

- ClientNet: three sessions are an original connection and two reconnections, so
  that a leftover can skip a session.  Three calls let one be outstanding while a
  callback places a second and `onConnected` a third.  With two parts an answer
  has a part that is not the last.  With four calls the run passes as well (three
  minutes).
- ServerNet: with two slots one client can join in both at once, which is the
  replacement the maps are about; three joins let a replaced client be replaced
  again, or another come in between.  Client ids are symmetric.  One request
  lets an answer be under way during all of that.
- Tracker: two hosts compete for a name and each may come back under the other;
  two requests cross.  Hosts and clients are symmetric.  Names are not, since
  one of them is `katipo.defaultHost`.
- Relay: two calls are two clients crossing, or one client before and after it
  lost its connection or its process, with the same `callbackID`; two parts let
  an answer be cut by the fault.  A fault is a loss of one connection or
  a restart of one process, and each loss or restart gives rise to the others it
  implies.
- ClientGet: three gets are two trackers crossing and one tracker asked twice;
  one callback is held by a variable of the script, the other only by the call.
  The safety properties also hold with three trackers (2.8 M states).
- Scanner: batches of 2 in a list of 3 or 5 make a partial batch and an address
  twice in different batches; the second scan is started at any point of the
  first.  One connection is taken, which is enough for the map to be empty with
  a result out.
- Database: `Slack` is the 8 MB of the code, 2 units here, so a small value asks
  for less and the big one for more; `AbsoluteMax` is reached after two
  doublings.  Free units may be too scattered to take, so any part of them may
  be reused, and any commit of a change may fail.
- HttpInterface: four gets fill both queues while one is fetched and one called
  back; two parts leave a failed try with part of a body.
- Enet: the code has 16 windows of 4096 and keeps 8 free.  6 windows of 2 with 3
  free keep what the code's numbers give (`EnetAssumption`: the receiver accepts
  two windows at least, and the windows the sender keeps clear are fewer than
  all), and 15 commands go around the 12 numbers.  A datagram is assumed not to
  outlive the windows that are not kept free (`Lifetime`), without which no
  16-bit number can be told from a later one.  With two faults the safety
  properties hold too (560 K states).  A packet is assumed to have no more
  commands than a window and one, which the proofs need and the run's packets of
  1 to 3 commands show: `ReceiveFragment` discards a late fragment by the window of
  its packet's first command, so copies of the last fragments of a longer packet
  outlive the check.  TLC refutes `ForgottenHasArrived` with windows of 2 and a
  packet of 5 among packets of 1.  katipo cuts what a host answers into parts of
  1 MB (`MJMultipartChunkSize`, about 770 fragments, a window being 4096); nothing
  cuts the arguments of a call, of which 5 MB is an assumption.
- Deadlock is not checked where the bounds, or the death of the modelled
  process, stop the system (ClientNet, ServerNet, Tracker, Relay, ClientGet,
  HttpInterface, Enet); it is in the Scanner, whose update loop always has a
  next step, and in the Database, which always can be killed and launched.

### Fairness, and why the code justifies it

- ClientNet and HttpInterface: weak fairness of each thread's steps, as the
  operating system schedules them and none waits for anything but what the model
  shows (the join and the condition variable, both modelled).  A transfer of
  curl ends; a callback returns.  Nothing is assumed of the network or of the
  tracker.  `OutstandingAnswered` names the exit that remains: the process died.
- Relay: each end sends and polls, the event loop of the tracker adds, removes
  and relays, the site's `get` answers, and the host reconnects
  (apps/katipoHost/scripts/code.tui:6 sets `katipo.retry`).  Nothing obliges a
  client to reconnect, the host's script to set `katipo.get`, or a connection to
  stay.
- ClientGet: each thread runs; a connection that has not been made is made or
  fails, which is enet's own timeout; the tracker answers what it can read.
  Nothing obliges the host to answer.
- Enet: weak fairness of `Service`, which each end calls in its loop; faults are
  bounded, so a resent command arrives in the end.
- Scanner: weak fairness of update, which its caller runs in a loop; of the event
  of each connection (`enet_peer_timeout` disconnects a peer that does not
  answer); and of the answer of each interface (`OutstandingAnswered`).  A peer
  that accepts the link and then stays silent without end is excluded by
  assumption, and listed as a hazard: the code has no timeout for it.
- ServerNet, Tracker, Database: no liveness is claimed and no fairness assumed.

## 4. What is proved

The proofs hold for every value of the constants, under the assumptions the
modules name: bounds are natural numbers, positive where the code needs one; ids
differ from the values that stand for none.  A theorem about a run's property is
`Spec => []P`, or `Spec => P` for an action property and for a refinement.  An
invariant that is not inductive is proved from one that is, written as a
conjunction of named parts; TLC checked each of these on the run's instance
before it was proved.

| module | theorems | what they state |
|---|---|---|
| `ClientNetProofs` | `TypeCorrect`, `AccountingHolds`, `NoStaleOutputHolds`, `SendsAfterJoinHolds`, `CallbacksNotSharedHolds`, `AnswersAreWholeHolds`, `CrashesOnlyAfterLossHolds` | `TypeOK`, `Accounting` and the other safety properties of ClientNet |
| `ClientGetProofs` | `TypesHold`, `CrashesHold`, `AnsweredOnceHolds` | `TypeOK`, `CrashesNamed`, `AnsweredOnce` |
| `TrackerProofs`, the ports | `TypesHold`, `PointersHold`, `MapsHold`, `LivesHold`, `SessionsHold` | `TypeOK`, `PointersAlive`, `MapsAgree`, `OneLife`, `ImplementsSessions` of ServerNet |
| `TrackerProofs`, the registry | `TrackerTypesHold`, `RegistryHolds`, `NameKept` | `TrackerTypeOK`, `RegistryMatches`, `NameKeptByHolder` of Tracker |
| `RelayProofs` | `TypesHold`, `RightAnswerHolds`, `RemoteCallHolds` | `TypeOK`, `RightAnswer`, `ImplementsRemoteCall` |
| `ScannerProofs` | `TypesHold`, `HostsHold`, `CompleteHolds` | `TypeOK`, `HostsOwned`, `CompleteScanTriedAll` |
| `DatabaseProofs` | `TypesHold`, `AckedHolds`, `SmallWritesResizeHolds`, `StoreHolds` | `TypeOK`, `AckedDurable`, `SmallWritesResize`, `ImplementsStore` |
| `HttpInterfaceProofs` | `TypesHold`, `OrderHolds`, `WakeupHolds` | `TypeOK`, `InOrder`, `NoLostWakeup` |
| `EnetProofs` | `TypesHold`, `ForgottenHolds`, `LinkHolds` | `TypeOK`, `ForgottenHasArrived`, `ImplementsLink` |

Along which argument:

- **ClientNet.**  `Accounting` is not inductive: nothing in it says that the next
  id is unused, so a new call could find a live entry, nor that the copy
  `disconnect` walks is empty when the map is copied into it.  `CallsBalanced`
  (ids not handed out yet are in neither table) and `TeardownInv` (the copy is in
  use only at `fail`, and `disconnect` is under way only while `disconnected` is
  set, which keeps `sendData` from leaving its loop by a push) add both.
- **ClientNet, the link.**  `LinkInv` relates the two threads through the flags:
  `LinkFits` says which queues, flags and labels each state of the link goes with,
  `NetFits` and `OwnerFits` what each label of a thread implies for the flags the
  other sets.  With it `NoStaleOutput` is inductive; `SendsAfterJoin` and
  `CallbacksNotShared` follow from the pairs of labels it excludes.
- **ClientNet, the answers.**  `PartsInv` follows a call out and its answer back.
  A call on its way out has no answer under way (`OutgoingFits`) and is on its way
  once (`OutgoingOnce`); a part on its way back was sent and is not in place yet
  (`HeardFits`), and it too is there once (`HeardOnce`).  So the count of bytes on
  which the code decides is the number of parts in place (`DownloadsFit`), and no
  part is missing when the answer is complete.  An entry without a function
  needs an earlier session (`FirstSession`, `NullFits`).
- **ServerNet.**  `PointersAlive`, `MapsAgree` and `OneLife` are inductive only
  together.  `SlotsFit` says what a slot of enet's array may still report in each
  state of its link, `JoiningFits` that the client being joined has its id and
  slot to itself, `LivesFit` and `ClientsFit` that a live object is one of: being
  joined, in the maps, refused, or to be removed.  `QueueAlive` and `QueueOrder`
  say that a queued pointer outlives its turn: an object is added before its
  other outputs and after its predecessor under the same id was removed, and its
  removal is its last output.  The refinement of Sessions follows from this order.
- **Tracker.**  The registry is inductive with the type invariant; only
  connecting and disconnecting hosts touch the tables, and `Elsewhere` collects
  the other actions.  `NameKept` is an action property from the same invariant.
- **Relay.**  A callback is answered by the call that placed it because a
  `callbackID` is used once under one client process (`IdsGrow`), because a
  request is in one stage at a time (`RequestOnce`: sending, sent, relayed, run,
  or refused), and because what is in a queue and not lost belongs to the process
  at its end (`MessagesFit`).  `EndsFit` is the order that makes the last true
  for a restarted client: the tracker has forgotten the end that was lost, or is
  to hear of the loss before any new join.  The lemma `Steps` lists the kinds of
  step there are, queue by queue, so that each part of the invariant is proved
  over kinds and not over all actions; the refinement takes each kind to a step
  of RemoteCall (`Place`, `Run`, `Answer`, `Refuse`, `GiveUp`) or a stutter.
- **ClientGet.**  A step works out what it leaves of the counts, so the first
  lemmas say of each operator (`Using`, `ReleaseArgs`, `DoGet`, `FailCalls`) what
  it makes of a record of them.  `CrashesNamed` needs to know what each reference
  is for: a get's arguments, a slot, a call and a variable of the script each use
  a callback (`Needs`), and the count is at least the number of its uses
  (`Counted`), until a get is given the key of its host.  `AnsweredOnce` needs that a get owes or has given one answer, and
  none while its arguments are held (`Once`); one whose host call failed to encode
  owes or has given two, and asks the tracker no more, so that no later answer
  makes it three (`OneOwed`).  Both rest on whose closures are in
  the slots: unless the slots were taken, an interface that may still call them
  is that of the get that set them (`LinkFits`), and `katipo.get` holds the
  arguments a second time until it has bound the interface (`ArgsFit`, `PcFits`).
- **Scanner.**  `HostsOwned` needs that every closed entry is on the list of those
  to be removed and nothing open is (`ClosedListed`).  A complete scan has tried
  every address because what the pass has walked over was tried in it
  (`WalkedTried`), and it completes only at the end of the second walk, with the
  map empty (`CompleteFits`).
- **Database.**  `AckedDurable` needs what each call has done so far
  (`CallFits`: its transaction differs from the disk by its own write), that
  outside a transaction the work is what is on disk (`LmdbFits`), and what the
  caller has been told against both (`ToldFits`).  `SmallWritesResize` needs that
  what is stored and what was asked for did not fit (`FullFits`).  The refinement
  of Store takes the commit of a bulk transaction to `Commit`, its loss to
  `Rollback`, a write that the caller can see to `Write`, all else to a stutter.
- **HttpInterface.**  `FetchFits` says at each label of the net thread whether
  it has a get in hand and how much of its body, `Numbered` that a get is known by its
  place among those placed; with them `InOrder` and `NoLostWakeup` are inductive.

- **Enet.**  The model names a command by its place in the stream; the code sees
  only the place modulo `Space`.  The proof is that the two say the same for every
  command that can still be met.  It is done at the highest place that was ever
  transmitted, `N`: the inductive invariant is `\E N \in Nat : Fits(N)`.
  `SenderFits` says that the commands not transmitted yet follow `N`; `InWindows`
  that those transmitted and not acknowledged are within the windows the sender
  does not keep clear; `NetworkFits` that no datagram is `Lifetime` commands behind
  `N`; `ReceivedFits` and `WaitingFits` that what was handed over is the first
  packets, whole, and what waits is of later ones, each there once and in order.
  The two ends are held together by `Settled`: a command that is acknowledged has
  arrived, and was less than `FreeWindows - 1` windows ahead of what was handed
  over.  The sender enters a window only when a command of the one before it is
  acknowledged, so `N` is at most one window further on (`Ahead`).  Hence any two
  commands that can meet are less than `Space` apart, and equal numbers mean one
  command (`SeqUnique`, `EntryOfPacket`): a number that the receiver's windows accept
  is of a packet to come, and one acknowledged unread is of a packet handed over.
  `ImplementsLink` takes each dispatch to the delivery of the packets it hands
  over, and a step that dispatches none to a stutter.

What a recursive function computes is needed in four modules: `Doubled` (the map's
size, Database), `FlattenSeq` (the address lists, Scanner), `FailCalls` (the
calls a teardown answers, ClientGet), `First` and `Reached` (the first command of
a packet, and the number dispatching arrives at, Enet).  The library's induction
theorems take an operator, which the provers here cannot instantiate; these
modules therefore prove induction as a statement about a set of numbers
(`SetInduction`, from the least element of a set) and use it for the set of the
numbers for which the claim holds.

Only model-checked:

- the liveness properties `OutstandingAnswered`, `WaitsOnlyForHost`,
  `GetsAnswered`, `ScanCompletes`, `DestructorReturns` and `PacketsArrive`, which
  rest on fairness and so on ENABLED, out of the prover's reach;
- the three properties of the runs that expect a violation, which are false.

## 5. What is not modelled, and why

- libsodium, which is most of the repository's lines, is third party, and so is
  the Tui interpreter, a submodule that is not in the repository.  Encryption is
  a step that may fail, in ClientNet and in ClientGet; Relay leaves out host calls
  that fail to encode, since they send nothing.  A script
  is a callback that may place calls.  The counts
  of references in ClientGet follow how `Controller.cpp` retains and releases.
- Of enet: unreliable commands, which nothing sends; connecting, pings and the
  timeout itself, which are the loss of a connection; the congestion window and
  the throttle, which only delay; compression; sockets.  Of LMDB: the B-tree,
  which is a table here, its readers, and how a commit is made durable.
- The content of messages, logging, configuration and key files: no property
  depends on them.  File search on the host is pure I/O.
- `Server::stop`, `sendDataToAllClients` and the join rejection packet have no
  caller or no sender.
- Two races that C++ leaves undefined and no model of outcomes would make
  clearer: `callbacksByID` used by the script's thread in `katipo.get` and by the
  event loop at once, and an insertion in `netInterfaces` during the event loop's
  walk.  ClientGet takes both accesses for atomic.
- Which calls a callback of the Scanner makes before it returns: nothing in the
  repository calls the Scanner.
- The tracker's controller and script read a configuration and make two calls.

## 6. What is left

The model covers what the repository's own code keeps in state, and every safety
property of the passing runs is proved.  Left are:

- liveness, which stays with TLC on the instances of section 3;
- Enet without its assumption on the length of a packet, which fails (section 3);
  a bound on a call's arguments in the code would make it a fact;
- the hazards `PROJECT.json` lists without a property, each with its reason.
