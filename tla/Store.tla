-------------------------------- MODULE Store --------------------------------
(***************************************************************************)
(* What a Database (src/core/Database.h) promises its caller: a durable    *)
(* table of values, and a group of writes that becomes durable as a whole  *)
(* or not at all.  `stored' survives the process; `seen' is what a read    *)
(* returns, which differs from it only while a group is open.              *)
(***************************************************************************)
CONSTANTS Names, Keys, Values, NoValue

VARIABLES stored, seen, grouped
vars == <<stored, seen, grouped>>

Tables == [Names -> [Keys -> Values \cup {NoValue}]]

Init ==
    /\ stored = [n \in Names |-> [k \in Keys |-> NoValue]]
    /\ seen = stored
    /\ grouped = FALSE

Begin ==
    /\ ~grouped
    /\ grouped' = TRUE
    /\ UNCHANGED <<stored, seen>>

\* Inside a group only reads see a write; outside it is durable at once.
Write(n, k, v) ==
    /\ seen' = [seen EXCEPT ![n][k] = v]
    /\ stored' = IF grouped THEN stored ELSE seen'
    /\ UNCHANGED grouped

Commit ==
    /\ grouped
    /\ stored' = seen
    /\ grouped' = FALSE
    /\ UNCHANGED seen

\* A group that fails, or a process that stops, leaves what was stored.
Rollback ==
    /\ grouped
    /\ seen' = stored
    /\ grouped' = FALSE
    /\ UNCHANGED stored

Next ==
    \/ Begin
    \/ \E n \in Names, k \in Keys, v \in Values \cup {NoValue} : Write(n, k, v)
    \/ Commit
    \/ Rollback

Spec == Init /\ [][Next]_vars
=============================================================================
