-------------------------------- MODULE Enet --------------------------------
(***************************************************************************)
(* A reliable channel of enet in one direction (src/thirdParty/            *)
(* enet-1.3.18, peer.c and protocol.c): the FIFO the other modules take a  *)
(* connection for, over a network that loses, repeats, delays and reorders *)
(* datagrams.                                                              *)
(*                                                                         *)
(* A packet longer than a datagram is cut into fragments; each fragment is *)
(* a command, and each command takes the next sequence number, of 16 bits  *)
(* in the code and modulo Windows * WindowSize here.  Commands are named   *)
(* by their place in the stream.  Only what the code computes from the     *)
(* sequence number in the datagram decides what is done with one.          *)
(*                                                                         *)
(* Left out: unreliable commands (never used), pings, the congestion       *)
(* window and the throttle, which only delay a command, and the limits on  *)
(* datagrams, memory and waiting data.                                     *)
(***************************************************************************)
EXTENDS Integers, Sequences, FiniteSets, FiniteSetsExt

CONSTANTS Windows,      \* ENET_PEER_RELIABLE_WINDOWS
          FreeWindows,  \* ENET_PEER_FREE_RELIABLE_WINDOWS
          WindowSize,   \* ENET_PEER_RELIABLE_WINDOW_SIZE
          Lengths,      \* bound: the packets sent, with their fragments
          MaxQueued,    \* bound: commands queued when a packet is sent
          MaxFaults     \* bound: datagrams lost or repeated, timeouts early

\* No packet has more fragments than a window and one: the parts of an answer
\* have about 770 (MJMultipartChunkSize in src/core/NetConstants.h), a window 4096.
\* Copies of the last fragments of a longer one outlive the window check of
\* ReceiveFragment, and TLC finds ForgottenHasArrived violated.
ASSUME EnetAssumption ==
    /\ FreeWindows \in Nat /\ FreeWindows >= 3
    /\ Windows \in Nat /\ Windows > FreeWindows + 2
    /\ WindowSize \in Nat /\ WindowSize >= 2
    /\ Lengths \in Seq(1 .. WindowSize + 1)
    /\ MaxQueued \in Nat
    /\ MaxFaults \in Nat

VARIABLES
    connected,    \* the sender's peer is ENET_PEER_STATE_CONNECTED
    packets,      \* packets given to enet_peer_send
    outgoing,     \* outgoingSendReliableCommands
    sent,         \* sentReliableCommands
    attempted,    \* commands of both lists that were sent once at least
    data, acks,   \* datagrams in the network
    incoming,     \* incomingReliableSequenceNumber
    waiting,      \* incomingReliableCommands
    received,     \* history: the commands of each packet handed to the receiver
    faults

senderVars   == <<connected, packets, outgoing, sent, attempted>>
receiverVars == <<incoming, waiting, received>>
vars == <<senderVars, data, acks, receiverVars, faults>>

Space == Windows * WindowSize
Packets == DOMAIN Lengths
First[p \in Packets] == IF p = 1 THEN 1 ELSE First[p - 1] + Lengths[p - 1]
CommandsOf(p) == First[p] .. First[p] + Lengths[p] - 1
Commands == UNION {CommandsOf(p) : p \in Packets}
PacketOf(i) == CHOOSE p \in Packets : i \in CommandsOf(p)

SeqNumber(i) == i % Space
Window(s) == s \div WindowSize

Init ==
    /\ connected = TRUE
    /\ packets = 0
    /\ outgoing = <<>>
    /\ sent = <<>>
    /\ attempted = {}
    /\ data = {}
    /\ acks = {}
    /\ incoming = 0
    /\ waiting = <<>>
    /\ received = <<>>
    /\ faults = 0

-----------------------------------------------------------------------------
(***************************************************************************)
(* The network.  A datagram does not outlive (Windows - FreeWindows)       *)
(* windows of later commands, 32768 of them: nothing in enet tells it from *)
(* a new one then.                                                         *)
(***************************************************************************)
Lifetime == (Windows - FreeWindows) * WindowSize
Alive(datagrams, newest) == {i \in datagrams : i > newest - Lifetime}

Drop ==
    /\ faults < MaxFaults
    /\ faults' = faults + 1
    /\ \/ \E i \in data : data' = data \ {i} /\ UNCHANGED acks
       \/ \E i \in acks : acks' = acks \ {i} /\ UNCHANGED data
    /\ UNCHANGED <<senderVars, receiverVars>>

\* A datagram is taken from the network, or arrives and will arrive again.
Take(datagrams, i) ==
    \/ datagrams' = datagrams \ {i} /\ UNCHANGED faults
    \/ /\ faults < MaxFaults
       /\ faults' = faults + 1
       /\ UNCHANGED datagrams

-----------------------------------------------------------------------------
(***************************************************************************)
(* The sender.                                                             *)
(***************************************************************************)

\* enet_peer_send: one command, or one for each fragment.
PeerSend ==
    /\ connected
    /\ packets < Len(Lengths)
    /\ Len(outgoing) < MaxQueued
    /\ packets' = packets + 1
    /\ outgoing' = outgoing \o [n \in 1 .. Lengths[packets + 1] |->
                                   First[packets + 1] + n - 1]
    /\ UNCHANGED <<connected, sent, attempted, data, acks, receiverVars, faults>>

\* reliableWindows[w]; its bit in usedReliableWindows says whether it is 0.
Unacknowledged(w) ==
    Cardinality({i \in attempted : Window(SeqNumber(i)) = w})

\* The first command of a window waits while the window before is
\* unacknowledged as a whole, or any of the next FreeWindows + 2 is in use.
WindowWrapsResent(i) ==
    LET w == Window(SeqNumber(i))
    IN  /\ SeqNumber(i) % WindowSize = 0
        /\ \/ Unacknowledged((w + Windows - 1) % Windows) >= WindowSize
           \/ \E k \in 0 .. FreeWindows + 1 :
                 Unacknowledged((w + k) % Windows) > 0
WindowWraps(i) ==
    LET w == Window(SeqNumber(i))
    IN  /\ i \notin attempted
        /\ SeqNumber(i) % WindowSize = 0
        /\ \/ Unacknowledged((w + Windows - 1) % Windows) >= WindowSize
           \/ \E k \in 0 .. FreeWindows + 1 :
                 Unacknowledged((w + k) % Windows) > 0

\* One command of enet_protocol_check_outgoing_commands.
Transmit ==
    /\ connected
    /\ outgoing # <<>>
    /\ LET i == Head(outgoing)
       IN  /\ ~WindowWraps(i)
           /\ sent' = Append(sent, i)
           /\ attempted' = attempted \cup {i}
           /\ data' = Alive(data, i) \cup {i}
           /\ acks' = Alive(acks, i)
    /\ outgoing' = Tail(outgoing)
    /\ UNCHANGED <<connected, packets, receiverVars, faults>>

Without(q, n) == SubSeq(q, 1, n - 1) \o SubSeq(q, n + 1, Len(q))
At(q, s) == {n \in DOMAIN q : SeqNumber(q[n]) = s}

\* enet_protocol_find_sent_reliable_command stops at a command never sent.
FindSent(q, s) ==
    {n \in At(q, s) : \A m \in 1 .. n : q[m] \in attempted}

\* enet_protocol_remove_sent_reliable_command.
Acknowledged(s) ==
    CASE At(sent, s) # {} ->
            LET n == Min(At(sent, s))
            IN  /\ sent' = Without(sent, n)
                /\ attempted' = attempted \ {sent[n]}
                /\ UNCHANGED outgoing
      [] At(sent, s) = {} /\ FindSent(outgoing, s) # {} ->
            LET n == Min(FindSent(outgoing, s))
            IN  /\ outgoing' = Without(outgoing, n)
                /\ attempted' = attempted \ {outgoing[n]}
                /\ UNCHANGED sent
      [] OTHER -> UNCHANGED <<sent, outgoing, attempted>>

ReceiveAck(i) ==
    /\ connected
    /\ Take(acks, i)
    /\ Acknowledged(SeqNumber(i))
    /\ UNCHANGED <<connected, packets, data, receiverVars>>

ResendKept(n, m) ==
    /\ connected
    /\ outgoing' = SubSeq(sent, n, m) \o outgoing
    /\ UNCHANGED <<connected, packets, sent, attempted, data, acks, receiverVars>>
\* enet_protocol_check_timeouts: the commands that are due go back to the head
\* of the queue in the order they were sent in.
Resend(n, m) ==
    /\ connected
    /\ outgoing' = SubSeq(sent, n, m) \o outgoing
    /\ sent' = SubSeq(sent, 1, n - 1) \o SubSeq(sent, m + 1, Len(sent))
    /\ UNCHANGED <<connected, packets, attempted, data, acks, receiverVars>>

\* A timeout runs out on a command or its acknowledgement that was lost, or too
\* early.  enet_protocol_send_outgoing_commands sends what is due before it looks
\* at the timeouts again.
InNetwork(i) == i \in data \cup acks
Timeout ==
    \/ /\ faults < MaxFaults
       /\ faults' = faults + 1
       /\ \E n, m \in DOMAIN sent : n <= m /\ Resend(n, m)
    \/ /\ sent # <<>>
       /\ \A n \in DOMAIN sent : ~InNetwork(sent[n])
       /\ \A n \in DOMAIN outgoing : outgoing[n] \notin attempted
       /\ UNCHANGED faults
       /\ Resend(1, Len(sent))

\* enet_protocol_notify_disconnect, when a command stays unacknowledged for
\* timeoutMaximum; a ping is such a command when nothing else is sent.
NotifyDisconnect ==
    /\ connected
    /\ faults < MaxFaults
    /\ faults' = faults + 1
    /\ connected' = FALSE
    /\ outgoing' = <<>>
    /\ sent' = <<>>
    /\ attempted' = {}
    /\ UNCHANGED <<packets, data, acks, receiverVars>>

-----------------------------------------------------------------------------
(***************************************************************************)
(* The receiver.                                                           *)
(***************************************************************************)

\* The window of sequence number s, counted from below when s has wrapped.
RelativeWindow(s, inc) ==
    Window(s) + (IF s < inc THEN Windows ELSE 0) - Window(inc)

AcceptsAlways(s) == TRUE
\* enet_peer_queue_incoming_command discards what is out of these windows.
Accepts(s) == RelativeWindow(s, incoming) \in 0 .. FreeWindows - 2

AcknowledgesAll(s, inc) == TRUE
\* enet_peer_queue_acknowledgement: what lies further is an old command again,
\* but for the two windows that follow those accepted.
Acknowledges(s, inc) ==
    RelativeWindow(s, inc) \notin FreeWindows - 1 .. FreeWindows

\* incomingReliableCommands is kept in the order of dispatch.
Order(s) == IF s >= incoming THEN s ELSE s + Space
Inserted(entry) ==
    LET n == Max({0} \cup {k \in DOMAIN waiting :
                              Order(waiting[k].seq) < Order(entry.seq)})
    IN  SubSeq(waiting, 1, n) \o <<entry>> \o SubSeq(waiting, n + 1, Len(waiting))

\* The number incoming has once the first k entries of a list are dispatched.
Size(entry) == Max({1, entry.fragmentCount})
Reached(list) ==
    LET reached[k \in 0 .. Len(list)] ==
            IF k = 0 THEN incoming ELSE (reached[k - 1] + Size(list[k])) % Space
    IN  reached

\* enet_peer_dispatch_incoming_reliable_commands on this list.
Dispatch(list) ==
    LET Ready(k) == /\ Cardinality(list[k].got) = Size(list[k])
                    /\ list[k].seq = (Reached(list)[k - 1] + 1) % Space
        ready == Max({k \in 0 .. Len(list) : \A m \in 1 .. k : Ready(m)})
    IN  /\ incoming' = Reached(list)[ready]
        /\ waiting' = SubSeq(list, ready + 1, Len(list))
        /\ received' = received \o [k \in 1 .. ready |-> list[k].got]

Acknowledge(i) ==
    acks' = IF Acknowledges(SeqNumber(i), incoming') THEN acks \cup {i} ELSE acks
Ignored == UNCHANGED receiverVars

\* enet_protocol_handle_send_reliable.
ReceiveReliable(i) ==
    /\ Lengths[PacketOf(i)] = 1
    /\ LET s == SeqNumber(i)
       IN  IF \/ ~Accepts(s) \/ s = incoming
               \/ \E k \in DOMAIN waiting : waiting[k].seq = s
           THEN Ignored
           ELSE Dispatch(Inserted([seq |-> s, fragmentCount |-> 0, got |-> {i}]))
    /\ Acknowledge(i)

\* enet_protocol_handle_send_fragment; an error leaves the command without an
\* acknowledgement.
ReceiveFragment(i) ==
    /\ Lengths[PacketOf(i)] > 1
    /\ LET count == Lengths[PacketOf(i)]
           start == SeqNumber(First[PacketOf(i)])
           same == {k \in DOMAIN waiting : waiting[k].seq = start}
           number(j) == j - First[PacketOf(j)]
       IN  CASE ~Accepts(start) -> Ignored /\ Acknowledge(i)
             [] Accepts(start) /\ same = {} /\ start # incoming ->
                   /\ Dispatch(Inserted([seq |-> start, fragmentCount |-> count,
                                         got |-> {i}]))
                   /\ Acknowledge(i)
             [] Accepts(start) /\ same = {} /\ start = incoming ->
                   Ignored /\ UNCHANGED acks
             [] OTHER ->
                   LET k == Min(same)
                       got == waiting[k].got
                   IN  IF waiting[k].fragmentCount # count
                       THEN Ignored /\ UNCHANGED acks
                       ELSE /\ Dispatch([waiting EXCEPT ![k].got =
                                 IF \E j \in got : number(j) = number(i)
                                 THEN got ELSE got \cup {i}])
                            /\ Acknowledge(i)

ReceiveData(i) ==
    /\ Take(data, i)
    /\ ReceiveReliable(i) \/ ReceiveFragment(i)
    /\ UNCHANGED senderVars

-----------------------------------------------------------------------------
\* What enet_host_service does at both ends.
Service ==
    \/ Transmit
    \/ \E i \in acks : ReceiveAck(i)
    \/ \E i \in data : ReceiveData(i)
    \/ Timeout

Next == Service \/ PeerSend \/ NotifyDisconnect \/ Drop

Spec == Init /\ [][Next]_vars

\* Both hosts are serviced: while there is a command to send, a datagram to take
\* or a command to send again, some of that is done.
FairSpec == Spec /\ WF_vars(Service)

-----------------------------------------------------------------------------
(***************************************************************************)
(* Properties.                                                             *)
(***************************************************************************)
Queued == {outgoing[n] : n \in DOMAIN outgoing} \cup {sent[n] : n \in DOMAIN sent}
Entry == [seq : 0 .. Space - 1, fragmentCount : Nat, got : SUBSET Commands]

\* Every variable keeps its type, a command is in one of the sender's lists at
\* most, and a window counts only commands that are in one.
TypeOK ==
    /\ connected \in BOOLEAN
    /\ packets \in 0 .. Len(Lengths)
    /\ outgoing \in Seq(Commands) /\ sent \in Seq(Commands)
    /\ Cardinality(Queued) = Len(outgoing) + Len(sent)
    /\ attempted \subseteq Queued
    /\ data \subseteq Commands /\ acks \subseteq Commands
    /\ incoming \in 0 .. Space - 1
    /\ waiting \in Seq(Entry)
    /\ received \in Seq(SUBSET Commands)
    /\ faults \in 0 .. MaxFaults

Arrived == UNION ({received[n] : n \in DOMAIN received}
                    \cup {waiting[k].got : k \in DOMAIN waiting})

\* The sender forgets a command only when the receiver has it: what the receiver
\* discards because it is too far ahead is never acknowledged, and no
\* acknowledgement is taken for that of a command one wrap later.
ForgottenHasArrived ==
    connected => \A p \in 1 .. packets : \A i \in CommandsOf(p) :
                     i \in Queued \/ i \in Arrived

\* The channel is the FIFO the other modules take it for.
Fifo == INSTANCE Link WITH
    sent    <- packets,
    arrived <- IF received = [p \in 1 .. Len(received) |-> CommandsOf(p)]
               THEN Len(received) ELSE -1,
    open    <- connected
ImplementsLink == Fifo!Spec

\* Every packet arrives (those of Lengths are sent at most), or the sender is
\* told that the connection is lost: the windows of sender and receiver never
\* wait for each other.
PacketsArrive == []<>(Len(received) = packets \/ ~connected)

=============================================================================
