------------------------------ MODULE Database ------------------------------
(***************************************************************************)
(* Database and DatabaseEnvironment (src/core/Database.cpp,                *)
(* src/core/DatabaseEnvironment.cpp) over LMDB (src/thirdParty/liblmdb).   *)
(* A call outside a bulk transaction opens a write transaction of its own  *)
(* and commits it; inside one it joins the bulk transaction. Calls come    *)
(* one after another: scripts reach only single calls, which LMDB's writer *)
(* lock puts in a row, and bulk transactions have no caller yet. When      *)
(* LMDB's map is full the program exits and sizes the map anew on its next *)
(* launch. The process may die between any two steps.                      *)
(*                                                                         *)
(* Space is counted in units: SizeOf[v] units hold value v, and the trees' *)
(* own pages round up to one unit.  Refused keys (empty or too long) touch *)
(* nothing and are left out.                                               *)
(***************************************************************************)
EXTENDS Integers, FiniteSets

CONSTANTS Names,         \* database names
          Keys, Values, NoValue,
          SizeOf,        \* units a value takes
          MaxDatabases,  \* mdb_env_set_maxdbs
          Slack,         \* 8 MB: room asked for above what is stored
          AbsoluteMax    \* ABSOLUTE_MAX_DB_SIZE

ASSUME DatabaseAssumption ==
    /\ NoValue \notin Values
    /\ SizeOf \in [Values -> Nat \ {0}]
    /\ MaxDatabases \in Nat
    /\ Slack \in Nat \ {0}
    /\ AbsoluteMax \in Nat

VARIABLES
    process,     \* "running", "stuck" on LMDB's writer lock, or "exited"
    mapSize,     \* currentMapSizeInMB
    disk,        \* what LMDB has committed
    txn,         \* LMDB's write transaction; "bulk" is bulkTransaction
    work,        \* what txn would commit; disk when there is none
    failed,      \* MDB_TXN_ERROR of txn
    handles,     \* names of the open Databases
    call,        \* the call between its write and its commit
    promised,    \* history: what the caller was told is durable
    told,        \* history: and, in a bulk, what it was told is written
    lied,        \* history: keys whose removal was reported but failed
    disturbed,   \* history: a Database opened or closed inside a bulk
    fullAt, fullNeed  \* history: the map, and the units asked of it, when
                      \* the process exited because it was full, else 0

ackVars == <<promised, told, lied, disturbed>>
fullVars == <<fullAt, fullNeed>>
lmdbVars == <<disk, txn, work, failed>>
vars == <<process, mapSize, lmdbVars, handles, call, ackVars, fullVars>>

NoCall == [op |-> "none"]
Empty  == [n \in Names |-> [k \in Keys |-> NoValue]]
Units(v) == IF v = NoValue THEN 0 ELSE SizeOf[v]
Least(a, b) == IF a <= b THEN a ELSE b

\* The sizes the map can be given: 8 MB, doubled any number of times.
Doubled[i \in Nat] == IF i = 0 THEN Slack ELSE 2 * Doubled[i - 1]

\* Mutant of LaunchSize: sized for what is stored, with nothing above it.
LaunchSizeTight(stored) ==
    LET Enough == {i \in 0 .. AbsoluteMax :
                      stored < Doubled[i] \/ Doubled[i] >= AbsoluteMax}
    IN  Doubled[CHOOSE i \in Enough : \A j \in Enough : i <= j]

\* The map starts at initialSizeInMB, at least 8 MB, and doubles while what is
\* stored comes within 8 MB of it.
LaunchSize(stored) ==
    LET Enough == {i \in 0 .. AbsoluteMax :
                      stored <= Doubled[i] - Slack \/ Doubled[i] >= AbsoluteMax}
    IN  Doubled[CHOOSE i \in Enough : \A j \in Enough : i <= j]

Init ==
    /\ process = "running"
    /\ mapSize = LaunchSize(1)
    /\ disk = [data |-> Empty, created |-> {}, pages |-> 1, free |-> 0,
               freed |-> 0, dirty |-> {}]
    /\ txn = "none"
    /\ work = disk
    /\ failed = FALSE
    /\ handles = {}
    /\ call = NoCall
    /\ promised = Empty
    /\ told = Empty
    /\ lied = {}
    /\ disturbed = FALSE
    /\ fullAt = 0
    /\ fullNeed = 0

-----------------------------------------------------------------------------
(***************************************************************************)
(* LMDB's transactions.                                                    *)
(***************************************************************************)

\* The record of n's key k becomes v, on `new' units from the end of the file
\* and the others from free ones.  Units a commit still shows are free after
\* the next one, units this transaction took are free at once.
Written(n, k, v, new) ==
    LET own == IF <<n, k>> \in work.dirty THEN Units(work.data[n][k]) ELSE 0
        old == Units(work.data[n][k]) - own
    IN  [work EXCEPT !.data[n][k] = v,
                     !.pages = @ + new,
                     !.free  = @ + own - (Units(v) - new),
                     !.freed = @ + old,
                     !.dirty = @ \cup {<<n, k>>}]

\* Reuses the units of a value that the last commit still shows.
NewUnitsOverwritten(n, k, v) ==
    {Units(v) - r : r \in 0 .. Least(Units(v), work.free + Units(work.data[n][k]))}

\* Free units may be too scattered to take: any part of them is reused.
NewUnits(n, k, v) ==
    LET own == IF <<n, k>> \in work.dirty THEN Units(work.data[n][k]) ELSE 0
    IN  {Units(v) - r : r \in 0 .. Least(Units(v), work.free + own)}

MapFull(new) == work.pages + new >= mapSize

CommitResults ==
    CASE failed -> {"bad_txn"}
      [] ~failed /\ work = disk -> {"success"}
      [] OTHER -> {"success", "io_error"}
                     \cup {r \in {"map_full"} : MapFull(1)}

\* Leaves bulkTransaction set when its commit fails.
EndTxnKept(rc) ==
    /\ disk' = IF rc = "success"
               THEN [work EXCEPT !.free = @ + work.freed, !.freed = 0,
                                 !.dirty = {}]
               ELSE disk
    /\ work' = disk'
    /\ txn' = IF rc = "success" THEN "none" ELSE txn
    /\ failed' = FALSE
EndTxn(rc) ==
    /\ disk' = IF rc = "success"
               THEN [work EXCEPT !.free = @ + work.freed, !.freed = 0,
                                 !.dirty = {}]
               ELSE disk
    /\ work' = disk'
    /\ txn' = "none"
    /\ failed' = FALSE

\* The process is gone, its transaction with it.
Gone ==
    /\ process' = "exited"
    /\ txn' = "none"
    /\ work' = disk
    /\ failed' = FALSE
    /\ handles' = {}
    /\ call' = NoCall
    /\ told' = promised
    /\ UNCHANGED <<mapSize, disk, promised, lied, disturbed>>

\* "Database map is full. Exiting, will resize on next launch."
ExitMapFull(new) ==
    /\ Gone
    /\ fullAt' = mapSize
    /\ fullNeed' = work.pages + new - disk.pages

\* A write transaction nobody ends keeps LMDB's writer lock.
WaitForever ==
    /\ txn = "leaked"
    /\ process' = "stuck"
    /\ UNCHANGED <<mapSize, lmdbVars, handles, call, ackVars, fullVars>>

Idle == process = "running" /\ call = NoCall

-----------------------------------------------------------------------------
(***************************************************************************)
(* Database: single calls, and calls inside a bulk transaction.            *)
(***************************************************************************)

\* finishTransaction commits every transaction but the bulk one.
Commits == txn # "bulk"

\* A write LMDB accepted: a bulk transaction keeps it, any other call goes on
\* to commit it.
Accept(op, n, k, v, new) ==
    /\ work' = Written(n, k, v, new)
    /\ IF Commits
       THEN /\ txn' = "single"
            /\ call' = [op |-> op, name |-> n, key |-> k, value |-> v]
            /\ UNCHANGED told
       ELSE /\ told' = [told EXCEPT ![n][k] = v]
            /\ UNCHANGED <<txn, call>>
    /\ UNCHANGED <<process, mapSize, disk, failed, handles, promised, lied,
                   disturbed, fullVars>>

\* A failed transaction refuses the put and the call returns false.
SetDataForKey(n, k, v) ==
    /\ Idle
    /\ n \in handles
    /\ ~failed
    /\ \/ WaitForever
       \/ /\ txn # "leaked"
          /\ \E new \in NewUnits(n, k, v) :
                IF MapFull(new) THEN ExitMapFull(new)
                                ELSE Accept("set", n, k, v, new)

\* Out of room, mdb_del fails the transaction and the call returns false: the
\* program does not exit, and a bulk transaction goes on, failed.
RemoveDataForKey(n, k) ==
    /\ Idle
    /\ n \in handles
    /\ ~failed
    /\ \/ WaitForever
       \/ /\ txn # "leaked"
          /\ work.data[n][k] # NoValue
          /\ \/ Accept("remove", n, k, NoValue, 0)
             \/ /\ MapFull(1)
                /\ txn = "bulk"
                /\ failed' = TRUE
                /\ UNCHANGED <<process, mapSize, disk, txn, work, handles,
                               call, ackVars, fullVars>>

\* dataForKey, hasKey, allData and getSize take a write transaction too, and
\* commit it with nothing in it.
Read(n) ==
    /\ Idle
    /\ n \in handles
    /\ \/ WaitForever
       \/ /\ txn # "leaked"
          /\ UNCHANGED vars

\* What a single call returns: a removal ignores its commit's result.
ReportedAlways(op, rc) == TRUE
Reported(op, rc) == rc = "success" \/ op = "remove"

\* finishTransaction of a single call, and the call's return.
FinishTransaction ==
    /\ process = "running"
    /\ call.op \in {"set", "remove"}
    /\ \E rc \in CommitResults :
        IF rc = "map_full" THEN ExitMapFull(1)
        ELSE LET cell == <<call.name, call.key>>
                 Told(t) == IF Reported(call.op, rc)
                            THEN [t EXCEPT ![call.name][call.key] = call.value]
                            ELSE t
             IN  /\ EndTxn(rc)
                 /\ call' = NoCall
                 /\ promised' = Told(promised)
                 /\ told' = Told(told)
                 /\ lied' = CASE rc = "success" -> lied \ {cell}
                              [] rc # "success" /\ call.op = "remove" ->
                                     lied \cup {cell}
                              [] OTHER -> lied
                 /\ UNCHANGED <<process, mapSize, handles, disturbed, fullVars>>

\* startBulkTransaction doubles the map once when less than 8 MB are left.
BulkSize ==
    IF disk.pages > mapSize - Slack /\ mapSize < AbsoluteMax
    THEN 2 * mapSize ELSE mapSize

StartBulkTransaction ==
    /\ Idle
    /\ \/ WaitForever
       \/ /\ txn = "none"
          /\ txn' = "bulk"
          /\ mapSize' = BulkSize
          /\ UNCHANGED <<process, disk, work, failed, handles, call, ackVars,
                         fullVars>>

\* The commit of finishBulkTransaction, for each caller it has.
EndBulk(rc) ==
    IF rc = "map_full" THEN ExitMapFull(1)
    ELSE /\ EndTxn(rc)
         /\ UNCHANGED <<process, mapSize, fullVars>>

FinishBulkTransaction ==
    /\ Idle
    /\ txn = "bulk"
    /\ \E rc \in CommitResults :
        /\ EndBulk(rc)
        /\ rc # "map_full" =>
             /\ promised' = IF rc = "success" THEN told ELSE promised
             /\ told' = promised'
             /\ lied' = IF rc = "success"
                        THEN {c \in lied : c \notin work.dirty} ELSE lied
             /\ UNCHANGED <<handles, call, disturbed>>

-----------------------------------------------------------------------------
(***************************************************************************)
(* Database and DatabaseEnvironment: opening, closing, launching, dying.   *)
(***************************************************************************)

\* Database::Database first commits an open bulk transaction.
OpenDatabase(n, createIfDoesntExist) ==
    /\ Idle
    /\ n \notin handles
    /\ \/ WaitForever
       \/ /\ txn = "none"
          /\ call' = [op |-> "open", name |-> n, create |-> createIfDoesntExist]
          /\ UNCHANGED <<process, mapSize, lmdbVars, handles, ackVars, fullVars>>
       \/ /\ txn = "bulk"
          /\ \E rc \in CommitResults :
              /\ EndBulk(rc)
              /\ rc # "map_full" =>
                   /\ call' = [op |-> "open", name |-> n,
                               create |-> createIfDoesntExist]
                   /\ disturbed' = TRUE
                   /\ UNCHANGED <<handles, promised, told, lied>>

\* mdb_dbi_open: no free handle, no such database, or no room to make it.
OpenFails ==
    \/ Cardinality(handles) >= MaxDatabases
    \/ /\ call.name \notin disk.created
       /\ ~call.create \/ MapFull(1)

\* A failed mdb_dbi_open returns with its transaction open.  A failed commit
\* leaves a Database whose handle LMDB has closed.
OpenDbi ==
    /\ process = "running"
    /\ call.op = "open"
    /\ call' = NoCall
    /\ UNCHANGED <<process, mapSize, ackVars, fullVars>>
    /\ \/ /\ OpenFails
          /\ txn' = "leaked"
          /\ UNCHANGED <<disk, work, failed, handles>>
       \/ /\ ~OpenFails
          /\ handles' = handles \cup {call.name}
          /\ disk' = [disk EXCEPT !.created = @ \cup {call.name}]
          /\ work' = disk'
          /\ UNCHANGED <<txn, failed>>
       \/ /\ ~OpenFails
          /\ call.name \notin disk.created
          /\ UNCHANGED <<lmdbVars, handles>>

\* Database::~Database commits an open bulk transaction too.
CloseDatabase(n) ==
    /\ Idle
    /\ n \in handles
    /\ IF txn # "bulk"
       THEN /\ handles' = handles \ {n}
            /\ UNCHANGED <<process, mapSize, lmdbVars, call, ackVars, fullVars>>
       ELSE \E rc \in CommitResults :
              /\ EndBulk(rc)
              /\ rc # "map_full" =>
                   /\ handles' = handles \ {n}
                   /\ disturbed' = TRUE
                   /\ UNCHANGED <<call, promised, told, lied>>

\* The process is killed, or its machine stops, between two steps.
Crash ==
    /\ process # "exited"
    /\ Gone
    /\ UNCHANGED fullVars

\* The next launch: DatabaseEnvironment's constructor.
Launch ==
    /\ process = "exited"
    /\ process' = "running"
    /\ mapSize' = LaunchSize(disk.pages)
    /\ promised' = disk.data
    /\ told' = disk.data
    /\ lied' = {}
    /\ disturbed' = FALSE
    /\ fullAt' = 0
    /\ fullNeed' = 0
    /\ UNCHANGED <<lmdbVars, handles, call>>

Next ==
    \/ \E n \in Names, k \in Keys, v \in Values : SetDataForKey(n, k, v)
    \/ \E n \in Names, k \in Keys : RemoveDataForKey(n, k)
    \/ \E n \in Names : Read(n)
    \/ FinishTransaction
    \/ StartBulkTransaction
    \/ FinishBulkTransaction
    \/ \E n \in Names, c \in BOOLEAN : OpenDatabase(n, c)
    \/ OpenDbi
    \/ \E n \in Names : CloseDatabase(n)
    \/ Crash
    \/ Launch

Spec == Init /\ [][Next]_vars

-----------------------------------------------------------------------------
(***************************************************************************)
(* Properties.                                                             *)
(***************************************************************************)

\* What `call' holds between a call's write and its commit.
Calls ==
    {NoCall}
    \cup [op : {"set"}, name : Names, key : Keys, value : Values]
    \cup [op : {"remove"}, name : Names, key : Keys, value : {NoValue}]
    \cup [op : {"open"}, name : Names, create : BOOLEAN]

\* Every variable keeps its type, and LMDB's copy is the committed one
\* whenever no call or bulk transaction has written.
TypeOK ==
    /\ process \in {"running", "stuck", "exited"}
    /\ mapSize \in Nat
    /\ {disk, work} \subseteq
         [data : [Names -> [Keys -> Values \cup {NoValue}]],
          created : SUBSET Names, pages : Nat, free : Nat, freed : Nat,
          dirty : SUBSET (Names \X Keys)]
    /\ txn \in {"none", "single", "bulk", "leaked"}
    /\ txn \in {"none", "leaked"} => work = disk
    /\ failed \in BOOLEAN
    /\ handles \subseteq Names
    /\ call \in Calls
    /\ {promised, told} \subseteq [Names -> [Keys -> Values \cup {NoValue}]]
    /\ lied \subseteq Names \X Keys
    /\ disturbed \in BOOLEAN
    /\ fullAt \in Nat /\ fullNeed \in Nat

\* What setDataForKey, removeDataForKey or finishBulkTransaction reported done
\* is on disk, through crashes and exits, and nothing else is: except a removal
\* whose commit failed (removeDataForKey does not look at the result), and
\* a bulk transaction in which a Database was opened or closed (its
\* constructor and destructor commit and do not look either).
AckedDurable ==
    ~disturbed => \A n \in Names, k \in Keys :
        \/ disk.data[n][k] = promised[n][k]
        \/ <<n, k>> \in lied

\* "Exiting, will resize on next launch": the launch after the exit has
\* a larger map, for every transaction that asked for less than 8 MB.
SmallWritesResize ==
    [][process = "exited" /\ fullAt \in 1 .. AbsoluteMax - 1 /\ fullNeed < Slack
       /\ process' = "running" => mapSize' > fullAt]_vars

\* The same for every transaction, as the message says it
\* (DatabaseEnvironment.cpp:100, Database.cpp:69 and 209).
ResizesOnNextLaunch ==
    [][process = "exited" /\ fullAt \in 1 .. AbsoluteMax - 1
       /\ process' = "running" => mapSize' > fullAt]_vars

\* The code implements the store it promises.
Promise == INSTANCE Store WITH
    stored  <- disk.data,
    seen    <- IF txn = "bulk" THEN work.data ELSE disk.data,
    grouped <- txn = "bulk"

ImplementsStore == Promise!Spec

=============================================================================
