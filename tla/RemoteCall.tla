----------------------------- MODULE RemoteCall -----------------------------
(***************************************************************************)
(* What a call of a host's katipo.get promises the client's script that    *)
(* places it (callRemoteHostFunction in src/core/ClientNetInterface.cpp),  *)
(* whatever the two connections and the three processes do meanwhile: its  *)
(* callback runs once at most, with one outcome; the host runs it once at  *)
(* most; "ok" means the host ran it, "refused" that no host ever will.     *)
(* "failed" says neither: the host may have run the call or still run it.  *)
(***************************************************************************)
EXTENDS Naturals

CONSTANT Calls

VARIABLES status,  \* of each call, as the client's script sees it
          runs     \* times the host ran each call

remoteCallVars == <<status, runs>>

Statuses == {"unplaced", "waiting", "ok", "refused", "failed", "lost"}

Init ==
    /\ status = [c \in Calls |-> "unplaced"]
    /\ runs = [c \in Calls |-> 0]

Place(c) ==
    /\ status[c] = "unplaced"
    /\ status' = [status EXCEPT ![c] = "waiting"]
    /\ UNCHANGED runs

Run(c) ==
    /\ runs[c] = 0
    /\ status[c] \in {"waiting", "failed", "lost"}
    /\ runs' = [runs EXCEPT ![c] = 1]
    /\ UNCHANGED status

Answer(c) ==
    /\ status[c] = "waiting"
    /\ runs[c] = 1
    /\ status' = [status EXCEPT ![c] = "ok"]
    /\ UNCHANGED runs

Refuse(c) ==
    /\ status[c] = "waiting"
    /\ runs[c] = 0
    /\ status' = [status EXCEPT ![c] = "refused"]
    /\ UNCHANGED runs

\* The connection is gone, or the client: some calls fail, others are lost with
\* the process that waited for them.
GiveUp(fails, losses) ==
    /\ \A c \in fails \cup losses : status[c] = "waiting"
    /\ status' = [c \in Calls |-> IF c \in fails THEN "failed"
                                  ELSE IF c \in losses THEN "lost"
                                  ELSE status[c]]
    /\ UNCHANGED runs

Next ==
    \/ \E c \in Calls : Place(c) \/ Run(c) \/ Answer(c) \/ Refuse(c)
    \/ \E fails, losses \in SUBSET Calls : GiveUp(fails, losses)

Spec == Init /\ [][Next]_remoteCallVars

=============================================================================
