--------------------------- MODULE DatabaseProofs ---------------------------
(***************************************************************************)
(* Database keeps what it acknowledges and implements Store, and the map   *)
(* it exits for has room at the next launch, for every set of names, keys  *)
(* and values, every size of a value and every limit.                      *)
(***************************************************************************)
EXTENDS Database, WellFoundedInduction, TLAPS

-----------------------------------------------------------------------------
(***************************************************************************)
(* The natural numbers.  The library's induction theorems are about        *)
(* operators; these are about sets, and rest on the order being well       *)
(* founded.                                                                *)
(***************************************************************************)

LEMMA LeastElement ==
    ASSUME NEW S \in SUBSET Nat, S # {}
    PROVE  \E m \in S : \A n \in S : m <= n
<1>1. PICK m \in S : \A n \in S : <<n, m>> \notin OpToRel(<, Nat)
  BY NatLessThanWellFounded, WFMin, Zenon
<1>2. \A n \in S : ~(n < m)
  BY <1>1 DEF OpToRel
<1> QED
  BY <1>2

LEMMA SetInduction ==
    ASSUME NEW S, 0 \in S, \A n \in Nat : n \in S => n + 1 \in S
    PROVE  \A n \in Nat : n \in S
<1>1. SUFFICES ASSUME Nat \ S # {} PROVE FALSE
  OBVIOUS
<1>2. PICK m \in Nat \ S : \A n \in Nat \ S : m <= n
  BY <1>1, LeastElement
<1>3. m # 0 /\ m - 1 \in Nat
  BY <1>2
<1>4. m - 1 \in S
  BY <1>2, <1>3
<1> QED
  BY <1>2, <1>3, <1>4

-----------------------------------------------------------------------------
(***************************************************************************)
(* Doubled is the function its definition asks for.                        *)
(***************************************************************************)

\* Its values up to n.
DoubledTo(n) ==
    {g \in [0 .. n -> Nat] : /\ g[0] = Slack
                             /\ \A i \in 1 .. n : g[i] = 2 * g[i - 1]}

LEMMA DoubledToExists == \A n \in Nat : DoubledTo(n) # {}
<1> DEFINE S == {n \in Nat : DoubledTo(n) # {}}
<1>1. 0 \in S
  <2>1. [i \in 0 .. 0 |-> Slack] \in DoubledTo(0)
    BY DatabaseAssumption DEF DoubledTo
  <2> QED
    BY <2>1
<1>2. ASSUME NEW n \in Nat, n \in S PROVE n + 1 \in S
  <2>1. PICK g \in [0 .. n -> Nat] : g[0] = Slack /\ \A i \in 1 .. n : g[i] = 2 * g[i - 1]
    BY <1>2 DEF DoubledTo
  <2> DEFINE h == [i \in 0 .. n + 1 |-> IF i = n + 1 THEN 2 * g[n] ELSE g[i]]
  <2>2. h \in [0 .. n + 1 -> Nat]
    BY <2>1
  <2>3. h[0] = Slack
    BY <2>1
  <2>4. ASSUME NEW i \in 1 .. n + 1 PROVE h[i] = 2 * h[i - 1]
    <3>1. i \in 0 .. n + 1 /\ i - 1 \in 0 .. n /\ i - 1 # n + 1
      OBVIOUS
    <3>2. h[i - 1] = g[i - 1]
      BY <3>1
    <3>3. CASE i = n + 1
      BY <3>1, <3>2, <3>3
    <3>4. CASE i # n + 1
      BY <2>1, <3>1, <3>2, <3>4
    <3> QED
      BY <3>3, <3>4
  <2>5. h \in DoubledTo(n + 1)
    BY <2>2, <2>3, <2>4 DEF DoubledTo
  <2> QED
    BY <2>5
<1> HIDE DEF S
<1>3. \A n \in Nat : n \in S
  BY <1>1, <1>2, SetInduction
<1> QED
  BY <1>3 DEF S

LEMMA DoubledToUnique ==
    \A m \in Nat : \A n \in Nat : n >= m =>
       \A g \in DoubledTo(n), h \in DoubledTo(m) : g[m] = h[m]
<1> DEFINE S == {m \in Nat : \A n \in Nat : n >= m =>
                    \A g \in DoubledTo(n), h \in DoubledTo(m) : g[m] = h[m]}
<1>1. 0 \in S
  BY DEF DoubledTo
<1>2. ASSUME NEW m \in Nat, m \in S PROVE m + 1 \in S
  <2>1. SUFFICES ASSUME NEW n \in Nat, n >= m + 1,
                        NEW g \in DoubledTo(n), NEW h \in DoubledTo(m + 1)
                 PROVE  g[m + 1] = h[m + 1]
    BY <1>2
  <2> DEFINE k == [i \in 0 .. m |-> h[i]]
  <2>2. /\ h \in [0 .. m + 1 -> Nat] /\ h[0] = Slack
        /\ \A i \in 1 .. m + 1 : h[i] = 2 * h[i - 1]
    BY <2>1 DEF DoubledTo
  <2>3. k \in DoubledTo(m)
    <3>1. k \in [0 .. m -> Nat] /\ k[0] = Slack
      BY <2>2
    <3>2. \A i \in 1 .. m : i \in 1 .. m + 1 /\ k[i] = h[i] /\ k[i - 1] = h[i - 1]
      OBVIOUS
    <3>3. \A i \in 1 .. m : k[i] = 2 * k[i - 1]
      BY <2>2, <3>2
    <3> QED
      BY <3>1, <3>3 DEF DoubledTo
  <2>4. g[m] = k[m]
    BY <1>2, <2>1, <2>3
  <2>5. k[m] = h[m] /\ h[m + 1] = 2 * h[m]
    BY <2>2
  <2>6. g[m + 1] = 2 * g[m]
    BY <2>1 DEF DoubledTo
  <2> QED
    BY <2>4, <2>5, <2>6
<1> HIDE DEF S
<1>3. \A m \in Nat : m \in S
  BY <1>1, <1>2, SetInduction
<1> QED
  BY <1>3 DEF S

LEMMA DoubledDef ==
    Doubled = [i \in Nat |-> IF i = 0 THEN Slack ELSE 2 * Doubled[i - 1]]
<1> DEFINE G(n) == CHOOSE g : g \in DoubledTo(n)
           f == [n \in Nat |-> G(n)[n]]
<1>1. ASSUME NEW n \in Nat PROVE G(n) \in DoubledTo(n)
  BY DoubledToExists
<1>2. f[0] = Slack
  BY <1>1 DEF DoubledTo
<1>3. ASSUME NEW n \in Nat, n # 0 PROVE f[n] = 2 * f[n - 1]
  <2>1. n - 1 \in Nat /\ n >= n - 1 /\ n \in 1 .. n
    BY <1>3
  <2>2. G(n) \in DoubledTo(n) /\ G(n - 1) \in DoubledTo(n - 1)
    BY <1>1, <2>1
  <2> HIDE DEF G
  <2>3. G(n)[n - 1] = G(n - 1)[n - 1]
    BY <2>1, <2>2, DoubledToUnique
  <2>4. G(n)[n] = 2 * G(n)[n - 1]
    BY <2>1, <2>2 DEF DoubledTo
  <2> QED
    BY <2>1, <2>3, <2>4
<1> HIDE DEF f
<1>4. f = [i \in Nat |-> IF i = 0 THEN Slack ELSE 2 * f[i - 1]]
  <2>1. f = [i \in Nat |-> f[i]]
    BY DEF f
  <2> QED
    BY <1>2, <1>3, <2>1
<1> QED
  BY <1>4 DEF Doubled

\* Doubled at least eight megabytes at a time, the map outgrows any number of
\* doublings.
LEMMA DoubledGrows == \A i \in Nat : Doubled[i] \in Nat /\ Doubled[i] > i
<1> DEFINE S == {i \in Nat : Doubled[i] \in Nat /\ Doubled[i] > i}
<1>1. 0 \in S
  BY DoubledDef, DatabaseAssumption
<1>2. ASSUME NEW i \in Nat, i \in S PROVE i + 1 \in S
  <2>1. Doubled[i + 1] = 2 * Doubled[i]
    BY DoubledDef
  <2> QED
    BY <1>2, <2>1
<1> HIDE DEF S
<1>3. \A i \in Nat : i \in S
  BY <1>1, <1>2, SetInduction
<1> QED
  BY <1>3 DEF S

\* A launch gives the map room for 8 MB more than is stored, or the most it can.
LEMMA LaunchSizeFits ==
    ASSUME NEW stored \in Nat
    PROVE  /\ LaunchSize(stored) \in Nat
           /\ \/ stored + Slack <= LaunchSize(stored)
              \/ LaunchSize(stored) >= AbsoluteMax
<1> DEFINE Enough == {i \in 0 .. AbsoluteMax :
                         stored <= Doubled[i] - Slack \/ Doubled[i] >= AbsoluteMax}
           least == CHOOSE i \in Enough : \A j \in Enough : i <= j
<1>1. AbsoluteMax \in Enough /\ Enough \subseteq Nat
  BY DoubledGrows, DatabaseAssumption
<1>2. \E i \in Enough : \A j \in Enough : i <= j
  <2> HIDE DEF Enough
  <2> QED
    BY <1>1, LeastElement
<1>3. least \in Enough
  BY <1>2
<1>4. LaunchSize(stored) = Doubled[least]
  BY DEF LaunchSize
<1>5. least \in Nat /\ (stored <= Doubled[least] - Slack \/ Doubled[least] >= AbsoluteMax)
  BY <1>1, <1>3
<1> HIDE DEF least
<1> QED
  BY <1>4, <1>5, DoubledGrows, DatabaseAssumption

-----------------------------------------------------------------------------
(***************************************************************************)
(* The inductive invariant.                                                *)
(***************************************************************************)
Tables == [Names -> [Keys -> Values \cup {NoValue}]]
Trees  == [data : Tables, created : SUBSET Names, pages : Nat, free : Nat,
           freed : Nat, dirty : SUBSET (Names \X Keys)]

\* A call is pending exactly while its own transaction is open, and that
\* transaction differs from the disk by the call's write alone.
CallFits ==
    /\ call.op \in {"set", "remove"} <=> txn = "single"
    /\ call.op = "open" => txn = "none"
    /\ txn = "single" =>
          work.data = [disk.data EXCEPT ![call.name][call.key] = call.value]

\* What is not in a transaction is as committed; only bulk ones fail.
LmdbFits ==
    /\ txn \in {"none", "leaked"} => work = disk
    /\ failed => txn = "bulk"
    /\ disk.dirty = {}
    /\ disk.pages <= work.pages

\* Inside a bulk transaction the caller was told what the transaction would
\* commit, but for the removals already lied about; outside, what is durable.
ToldFits ==
    ~disturbed =>
       /\ txn # "bulk" => told = promised
       /\ txn = "bulk" => \A n \in Names, k \in Keys :
             \/ told[n][k] = work.data[n][k]
             \/ <<n, k>> \in lied /\ <<n, k>> \notin work.dirty

\* A process that has exited holds nothing, and if it exited for a full map,
\* what is stored and what it asked for do not fit that map.
FullFits ==
    /\ process = "exited" => txn = "none" /\ call = NoCall /\ handles = {}
    /\ fullAt # 0 => process = "exited" /\ fullAt <= disk.pages + fullNeed

IInv == /\ TypeOK /\ AckedDurable
        /\ CallFits /\ LmdbFits /\ ToldFits /\ FullFits

\* The shapes of a call, told apart by its op.
LEMMA CallKinds ==
    ASSUME call \in Calls
    PROVE  /\ call.op \in {"none", "set", "remove", "open"}
           /\ call.op = "none" => call = NoCall
           /\ call.op = "set" => call.name \in Names /\ call.key \in Keys
                                 /\ call.value \in Values
           /\ call.op = "remove" => call.name \in Names /\ call.key \in Keys
                                    /\ call.value = NoValue
           /\ call.op = "open" => call.name \in Names
  BY DEF Calls, NoCall

LEMMA NoCallTyped == NoCall \in Calls /\ NoCall.op = "none"
  BY DEF Calls, NoCall

LEMMA TreesTyped == TypeOK => disk \in Trees /\ work \in Trees
  BY DEF TypeOK, Trees, Tables

\* What a step that leaves these variables alone keeps.
LEMMA SamePromises ==
    ASSUME IInv, UNCHANGED <<txn, disk, work, ackVars>>
    PROVE  AckedDurable' /\ ToldFits'
  BY DEF IInv, AckedDurable, ToldFits, ackVars

LEMMA InitSound == Init => IInv
<1> SUFFICES ASSUME Init PROVE IInv
  OBVIOUS
<1>1. LaunchSize(1) \in Nat
  BY LaunchSizeFits
<1>2. Empty \in Tables
  BY DEF Empty, Tables
<1>3. disk \in Trees
  BY <1>2 DEF Init, Trees
<1>4. TypeOK
  BY <1>1, <1>2, <1>3, NoCallTyped DEF Init, TypeOK, Trees, Tables
<1>5. AckedDurable /\ ToldFits
  BY DEF Init, AckedDurable, ToldFits
<1>6. CallFits /\ LmdbFits /\ FullFits
  BY NoCallTyped DEF Init, CallFits, LmdbFits, FullFits
<1> QED
  BY <1>4, <1>5, <1>6 DEF IInv

-----------------------------------------------------------------------------
(***************************************************************************)
(* What the parts of an action keep.                                       *)
(***************************************************************************)

\* A write changes the one record, and takes no unit that is not there.
LEMMA WrittenTyped ==
    ASSUME work \in Trees, NEW n \in Names, NEW k \in Keys,
           NEW v \in Values \cup {NoValue}, NEW new \in NewUnits(n, k, v)
    PROVE  /\ new \in Nat
           /\ Written(n, k, v, new) \in Trees
           /\ Written(n, k, v, new).data = [work.data EXCEPT ![n][k] = v]
           /\ Written(n, k, v, new).pages = work.pages + new
           /\ Written(n, k, v, new).dirty = work.dirty \cup {<<n, k>>}
<1>1. \A u \in Values \cup {NoValue} : Units(u) \in Nat
  BY DatabaseAssumption DEF Units
<1> DEFINE own == IF <<n, k>> \in work.dirty THEN Units(work.data[n][k]) ELSE 0
           old == Units(work.data[n][k]) - own
           room == Least(Units(v), work.free + own)
<1>2. work.data[n][k] \in Values \cup {NoValue} /\ work.free \in Nat
  BY DEF Trees, Tables
<1>3. own \in Nat /\ old \in Nat
  BY <1>1, <1>2
<1>4. PICK r \in 0 .. room : new = Units(v) - r
  BY DEF NewUnits
<1>5. Units(v) \in Nat
  BY <1>1
<1> HIDE DEF own, old
<1>6. r \in Nat /\ r <= Units(v) /\ r <= work.free + own
  BY <1>2, <1>3, <1>4, <1>5 DEF Least
<1>7. new \in Nat /\ Units(v) - new = r
  BY <1>4, <1>5, <1>6
<1> DEFINE written ==
              [data    |-> [work.data EXCEPT ![n][k] = v],
               created |-> work.created,
               pages   |-> work.pages + new,
               free    |-> work.free + own - (Units(v) - new),
               freed   |-> work.freed + old,
               dirty   |-> work.dirty \cup {<<n, k>>}]
<1>8. Written(n, k, v, new) = written
  <2>1. Written(n, k, v, new) =
          [work EXCEPT !.data[n][k] = v, !.pages = @ + new,
                       !.free = @ + own - (Units(v) - new),
                       !.freed = @ + old, !.dirty = @ \cup {<<n, k>>}]
    BY DEF Written, own, old
  <2>2. work = [data |-> work.data, created |-> work.created, pages |-> work.pages,
                free |-> work.free, freed |-> work.freed, dirty |-> work.dirty]
    BY DEF Trees
  <2> QED
    BY Zenon, <2>1, <2>2
<1>9. /\ work.pages + new \in Nat
      /\ work.free + own - (Units(v) - new) \in Nat
      /\ work.freed + old \in Nat
      /\ work.dirty \cup {<<n, k>>} \subseteq Names \X Keys
      /\ [work.data EXCEPT ![n][k] = v] \in Tables
  BY <1>2, <1>3, <1>6, <1>7 DEF Trees, Tables
<1>10. written \in Trees
  BY <1>9 DEF Trees
<1> QED
  BY <1>7, <1>8, <1>10

\* The end of a transaction, whose commit succeeded or left the disk as it was.
LEMMA EndTxnKeeps ==
    ASSUME IInv, NEW rc, EndTxn(rc)
    PROVE  /\ disk' \in Trees /\ work' = disk' /\ disk'.dirty = {}
           /\ disk'.data = IF rc = "success" THEN work.data ELSE disk.data
           /\ txn' = "none" /\ failed' = FALSE
<1>1. disk \in Trees /\ work \in Trees /\ disk.dirty = {}
  BY TreesTyped DEF IInv, LmdbFits
<1>2. work.free + work.freed \in Nat
  BY <1>1 DEF Trees
<1>3. CASE rc = "success"
  <2>1. disk' = [work EXCEPT !.free = @ + work.freed, !.freed = 0, !.dirty = {}]
    BY <1>3 DEF EndTxn
  <2>2. disk' \in Trees /\ disk'.data = work.data /\ disk'.dirty = {}
    BY <1>1, <1>2, <2>1 DEF Trees
  <2> QED
    BY <1>3, <2>2 DEF EndTxn
<1>4. CASE rc # "success"
  BY <1>1, <1>4 DEF EndTxn
<1> QED
  BY <1>3, <1>4

\* The process that is gone leaves the disk and the promises.
LEMMA GoneKeeps ==
    ASSUME IInv, Gone, fullAt' \in Nat, fullNeed' \in Nat,
           fullAt' # 0 => fullAt' <= disk.pages + fullNeed'
    PROVE  IInv'
<1>1. /\ process' = "exited" /\ txn' = "none" /\ work' = disk /\ failed' = FALSE
      /\ handles' = {} /\ call' = NoCall /\ told' = promised
      /\ UNCHANGED <<mapSize, disk, promised, lied, disturbed>>
  BY DEF Gone
<1>2. TypeOK'
  BY <1>1, NoCallTyped DEF IInv, TypeOK
<1>3. AckedDurable'
  BY <1>1 DEF IInv, AckedDurable
<1>4. CallFits'
  BY <1>1, NoCallTyped DEF CallFits
<1>5. LmdbFits'
  <2>1. disk.pages \in Nat
    BY TreesTyped DEF IInv, Trees
  <2> QED
    BY <1>1, <2>1 DEF IInv, LmdbFits
<1>6. ToldFits'
  BY <1>1 DEF ToldFits
<1>7. FullFits'
  BY <1>1 DEF FullFits
<1> QED
  BY <1>2, <1>3, <1>4, <1>5, <1>6, <1>7 DEF IInv

LEMMA ExitKeeps ==
    ASSUME IInv, NEW new \in Nat, MapFull(new), ExitMapFull(new)
    PROVE  IInv'
<1>1. /\ disk.pages \in Nat /\ work.pages \in Nat /\ mapSize \in Nat
      /\ disk.pages <= work.pages /\ work.pages + new >= mapSize
  BY TreesTyped DEF IInv, Trees, LmdbFits, TypeOK, MapFull
<1>2. Gone /\ fullAt' = mapSize /\ fullNeed' = work.pages + new - disk.pages
  BY DEF ExitMapFull
<1>3. fullNeed' \in Nat /\ fullAt' <= disk.pages + fullNeed'
  BY <1>1, <1>2
<1> QED
  BY <1>1, <1>2, <1>3, GoneKeeps

LEMMA WaitKeeps ==
    ASSUME IInv, process = "running", call = NoCall, WaitForever
    PROVE  IInv'
<1>1. /\ process' = "stuck"
      /\ UNCHANGED <<mapSize, disk, txn, work, failed, handles, call, promised, told,
                     lied, disturbed, fullAt, fullNeed>>
  BY DEF WaitForever, lmdbVars, ackVars, fullVars
<1>2. TypeOK'
  BY <1>1 DEF IInv, TypeOK
<1>3. AckedDurable' /\ ToldFits'
  BY <1>1, SamePromises DEF ackVars
<1>4. CallFits' /\ LmdbFits'
  BY <1>1 DEF IInv, CallFits, LmdbFits
<1>5. FullFits'
  BY <1>1 DEF IInv, FullFits
<1> QED
  BY <1>2, <1>3, <1>4, <1>5 DEF IInv

-----------------------------------------------------------------------------
(***************************************************************************)
(* Every step keeps the invariant.                                         *)
(***************************************************************************)

\* A write that LMDB accepted, on its own or inside a bulk transaction.
LEMMA AcceptKeeps ==
    ASSUME IInv, Idle, txn # "leaked", ~failed, NEW op,
           NEW n \in Names, NEW k \in Keys, NEW v \in Values \cup {NoValue},
           \/ op = "set" /\ v \in Values
           \/ op = "remove" /\ v = NoValue,
           NEW new \in NewUnits(n, k, v), Accept(op, n, k, v, new)
    PROVE  IInv'
<1> DEFINE placed == [op |-> op, name |-> n, key |-> k, value |-> v]
<1>1. /\ process = "running" /\ call = NoCall
      /\ work' = Written(n, k, v, new)
      /\ UNCHANGED <<process, mapSize, disk, failed, handles, promised, lied,
                     disturbed, fullAt, fullNeed>>
      /\ Commits => txn' = "single" /\ call' = placed /\ told' = told
      /\ ~Commits => /\ told' = [told EXCEPT ![n][k] = v]
                     /\ txn' = txn /\ call' = call
  BY DEF Idle, Accept, fullVars
<1>2. /\ new \in Nat /\ work' \in Trees
      /\ work'.data = [work.data EXCEPT ![n][k] = v]
      /\ work'.pages = work.pages + new
      /\ work'.dirty = work.dirty \cup {<<n, k>>}
  <2>1. work \in Trees
    BY TreesTyped DEF IInv
  <2>2. /\ new \in Nat
        /\ Written(n, k, v, new) \in Trees
        /\ Written(n, k, v, new).data = [work.data EXCEPT ![n][k] = v]
        /\ Written(n, k, v, new).pages = work.pages + new
        /\ Written(n, k, v, new).dirty = work.dirty \cup {<<n, k>>}
    BY <2>1, WrittenTyped
  <2> QED
    BY <1>1, <2>2
<1>3. txn \in {"none", "bulk"}
  BY <1>1, NoCallTyped DEF IInv, TypeOK, CallFits
<1>4. placed \in Calls /\ placed.op \in {"set", "remove"}
  BY DEF Calls
<1>5. disk \in Trees /\ work \in Trees
  BY TreesTyped DEF IInv
<1>6. /\ told \in Tables /\ told' \in Tables
      /\ ~Commits => told'[n][k] = v
      /\ ~Commits => \A m \in Names, j \in Keys :
                        <<m, j>> # <<n, k>> => told'[m][j] = told[m][j]
  <2>1. told \in Tables
    BY DEF IInv, TypeOK, Tables
  <2>2. CASE Commits
    BY <1>1, <2>1, <2>2
  <2>3. CASE told' = [told EXCEPT ![n][k] = v]
    BY <2>1, <2>3 DEF Tables
  <2> QED
    BY <1>1, <2>1, <2>2, <2>3
<1>7. TypeOK'
  <2>1. call' \in Calls /\ txn' \in {"single", "bulk"}
    BY <1>1, <1>3, <1>4, NoCallTyped DEF Commits
  <2>2. {disk', work'} \subseteq Trees
    BY <1>1, <1>2, <1>5
  <2> QED
    BY <1>1, <1>6, <2>1, <2>2 DEF IInv, TypeOK, Trees, Tables
<1>8. AckedDurable'
  BY <1>1 DEF IInv, AckedDurable
<1>9. CallFits'
  <2>1. CASE txn = "none"
    <3>1. txn' = "single" /\ call' = placed /\ work = disk
      BY <1>1, <2>1 DEF Commits, IInv, LmdbFits
    <3>2. call'.op \in {"set", "remove"}
          /\ call'.name = n /\ call'.key = k /\ call'.value = v
      BY <3>1
    <3> QED
      BY <1>1, <1>2, <3>1, <3>2 DEF CallFits
  <2>2. CASE txn = "bulk"
    BY <1>1, <2>2, NoCallTyped DEF Commits, CallFits
  <2> QED
    BY <1>3, <2>1, <2>2
<1>10. LmdbFits'
  <2>1. disk.pages \in Nat /\ work.pages \in Nat
    BY <1>5 DEF Trees
  <2> QED
    BY <1>1, <1>2, <1>3, <2>1 DEF Commits, IInv, LmdbFits
<1>11. ToldFits'
  <2>1. CASE txn = "none"
    BY <1>1, <2>1 DEF Commits, IInv, ToldFits
  <2>2. CASE txn = "bulk"
    <3>1. SUFFICES ASSUME ~disturbed, NEW m \in Names, NEW j \in Keys
                   PROVE  \/ told'[m][j] = work'.data[m][j]
                          \/ <<m, j>> \in lied' /\ <<m, j>> \notin work'.dirty
      BY <1>1, <2>2 DEF Commits, ToldFits
    <3>2. CASE <<m, j>> = <<n, k>>
      BY <1>2, <1>5, <1>6, <2>2, <3>2 DEF Commits, Trees, Tables
    <3>3. CASE <<m, j>> # <<n, k>>
      <4>1. told'[m][j] = told[m][j] /\ work'.data[m][j] = work.data[m][j]
        BY <1>2, <1>5, <1>6, <2>2, <3>3 DEF Commits, Trees, Tables
      <4>2. \/ told[m][j] = work.data[m][j]
            \/ <<m, j>> \in lied /\ <<m, j>> \notin work.dirty
        BY <2>2, <3>1 DEF IInv, ToldFits
      <4> QED
        BY <1>1, <1>2, <3>3, <4>1, <4>2
    <3> QED
      BY <3>2, <3>3
  <2> QED
    BY <1>3, <2>1, <2>2
<1>12. FullFits'
  BY <1>1 DEF IInv, FullFits
<1> QED
  BY <1>7, <1>8, <1>9, <1>10, <1>11, <1>12 DEF IInv

LEMMA SetKeeps ==
    ASSUME IInv, NEW n \in Names, NEW k \in Keys, NEW v \in Values,
           SetDataForKey(n, k, v)
    PROVE  IInv'
<1>1. Idle /\ process = "running" /\ call = NoCall /\ ~failed
  BY DEF SetDataForKey, Idle
<1>2. CASE WaitForever
  BY <1>1, <1>2, WaitKeeps
<1>3. ASSUME txn # "leaked", NEW new \in NewUnits(n, k, v), MapFull(new),
             ExitMapFull(new)
      PROVE  IInv'
  BY <1>3, WrittenTyped, TreesTyped, ExitKeeps DEF IInv
<1>4. ASSUME txn # "leaked", NEW new \in NewUnits(n, k, v),
             Accept("set", n, k, v, new)
      PROVE  IInv'
  BY <1>1, <1>4, AcceptKeeps
<1> QED
  BY <1>2, <1>3, <1>4 DEF SetDataForKey

LEMMA RemoveKeeps ==
    ASSUME IInv, NEW n \in Names, NEW k \in Keys, RemoveDataForKey(n, k)
    PROVE  IInv'
<1>1. Idle /\ process = "running" /\ call = NoCall /\ ~failed
  BY DEF RemoveDataForKey, Idle
<1>2. CASE WaitForever
  BY <1>1, <1>2, WaitKeeps
<1>3. CASE txn # "leaked" /\ Accept("remove", n, k, NoValue, 0)
  <2>1. work.free \in Nat /\ work.data[n][k] \in Values \cup {NoValue}
    BY TreesTyped DEF IInv, Trees, Tables
  <2>2. Units(work.data[n][k]) \in Nat /\ Units(NoValue) = 0
    BY <2>1, DatabaseAssumption DEF Units
  <2>3. 0 \in NewUnits(n, k, NoValue)
    BY <2>1, <2>2 DEF NewUnits, Least
  <2> QED
    BY <1>1, <1>3, <2>3, AcceptKeeps
<1>4. ASSUME txn = "bulk", failed' = TRUE,
             UNCHANGED <<process, mapSize, disk, txn, work, handles, call, ackVars, fullVars>>
      PROVE  IInv'
  <2>1. UNCHANGED <<promised, told, lied, disturbed, fullAt, fullNeed>>
    BY <1>4 DEF ackVars, fullVars
  <2>2. TypeOK'
    BY <1>4, <2>1 DEF IInv, TypeOK
  <2>3. AckedDurable' /\ ToldFits'
    BY <1>4, SamePromises
  <2>4. CallFits' /\ LmdbFits' /\ FullFits'
    BY <1>4, <2>1 DEF IInv, CallFits, LmdbFits, FullFits
  <2> QED
    BY <2>2, <2>3, <2>4 DEF IInv
<1> QED
  BY <1>2, <1>3, <1>4 DEF RemoveDataForKey

LEMMA FinishKeeps == ASSUME IInv, FinishTransaction PROVE IInv'
<1> DEFINE cell == <<call.name, call.key>>
           Told(rc, t) == IF Reported(call.op, rc)
                          THEN [t EXCEPT ![call.name][call.key] = call.value]
                          ELSE t
<1>1. /\ process = "running" /\ txn = "single" /\ ~failed
      /\ call.op \in {"set", "remove"}
      /\ call.name \in Names /\ call.key \in Keys
      /\ call.value \in Values \cup {NoValue}
      /\ work.data = [disk.data EXCEPT ![call.name][call.key] = call.value]
  BY CallKinds DEF FinishTransaction, IInv, TypeOK, CallFits, LmdbFits
<1>2. PICK rc \in CommitResults :
         IF rc = "map_full" THEN ExitMapFull(1)
         ELSE /\ EndTxn(rc)
              /\ call' = NoCall
              /\ promised' = Told(rc, promised)
              /\ told' = Told(rc, told)
              /\ lied' = CASE rc = "success" -> lied \ {cell}
                           [] rc # "success" /\ call.op = "remove" -> lied \cup {cell}
                           [] OTHER -> lied
              /\ UNCHANGED <<process, mapSize, handles, disturbed, fullVars>>
  BY DEF FinishTransaction
<1>3. CASE rc = "map_full"
  <2>1. MapFull(1)
    BY <1>1, <1>2, <1>3 DEF CommitResults
  <2> QED
    BY <1>2, <1>3, <2>1, ExitKeeps
<1>4. CASE rc # "map_full"
  <2>1. /\ call' = NoCall
        /\ promised' = Told(rc, promised) /\ told' = Told(rc, told)
        /\ rc = "success" => lied' = lied \ {cell}
        /\ rc # "success" /\ call.op = "remove" => lied' = lied \cup {cell}
        /\ rc # "success" /\ call.op # "remove" => lied' = lied
        /\ UNCHANGED <<process, mapSize, handles, disturbed, fullAt, fullNeed>>
    BY <1>2, <1>4 DEF fullVars
  <2>2. /\ disk' \in Trees /\ work' = disk' /\ disk'.dirty = {}
        /\ disk'.data = IF rc = "success" THEN work.data ELSE disk.data
        /\ txn' = "none" /\ failed' = FALSE
    BY <1>2, <1>4, EndTxnKeeps
  <2>3. disk.data \in Tables /\ promised \in Tables /\ told \in Tables
    BY TreesTyped DEF IInv, Trees, TypeOK, Tables
  <2>4. /\ promised' \in Tables /\ told' \in Tables
        /\ Reported(call.op, rc) => promised'[call.name][call.key] = call.value
        /\ ~Reported(call.op, rc) => promised' = promised
        /\ \A n \in Names, k \in Keys :
              <<n, k>> # cell => promised'[n][k] = promised[n][k]
        /\ told = promised => told' = promised'
    BY <1>1, <2>1, <2>3 DEF Tables
  <2>5. TypeOK'
    <3>1. {disk', work'} \subseteq Trees /\ lied' \subseteq Names \X Keys
      BY <1>1, <2>1, <2>2 DEF IInv, TypeOK
    <3> QED
      BY <2>1, <2>2, <2>4, <3>1, NoCallTyped DEF IInv, TypeOK, Trees, Tables
  <2>6. AckedDurable'
    <3>1. SUFFICES ASSUME ~disturbed, NEW n \in Names, NEW k \in Keys
                   PROVE  disk'.data[n][k] = promised'[n][k] \/ <<n, k>> \in lied'
      BY <2>1 DEF AckedDurable
    <3>2. disk.data[n][k] = promised[n][k] \/ <<n, k>> \in lied
      BY <3>1 DEF IInv, AckedDurable
    <3>3. CASE <<n, k>> # cell
      <4>1. disk'.data[n][k] = disk.data[n][k]
        BY <1>1, <2>2, <2>3, <3>3 DEF Tables
      <4> QED
        BY <2>1, <2>4, <3>2, <3>3, <4>1
    <3>4. CASE <<n, k>> = cell
      <4>1. CASE rc = "success"
        BY <1>1, <2>2, <2>3, <2>4, <3>4, <4>1 DEF Tables, Reported
      <4>2. CASE rc # "success" /\ call.op = "remove"
        BY <2>1, <3>4, <4>2
      <4>3. CASE rc # "success" /\ call.op # "remove"
        BY <2>1, <2>2, <2>4, <3>2, <4>3 DEF Reported
      <4> QED
        BY <4>1, <4>2, <4>3
    <3> QED
      BY <3>3, <3>4
  <2>7. ToldFits'
    BY <1>1, <2>1, <2>2, <2>4 DEF IInv, ToldFits
  <2>8. CallFits'
    BY <2>1, <2>2, NoCallTyped DEF CallFits
  <2>9. LmdbFits' /\ FullFits'
    <3>1. disk'.pages \in Nat
      BY <2>2 DEF Trees
    <3> QED
      BY <1>1, <2>1, <2>2, <3>1 DEF IInv, LmdbFits, FullFits
  <2> QED
    BY <2>5, <2>6, <2>7, <2>8, <2>9 DEF IInv
<1> QED
  BY <1>3, <1>4

LEMMA StartBulkKeeps == ASSUME IInv, StartBulkTransaction PROVE IInv'
<1>1. process = "running" /\ call = NoCall
  BY DEF StartBulkTransaction, Idle
<1>2. CASE WaitForever
  BY <1>1, <1>2, WaitKeeps
<1>3. CASE txn = "none" /\ txn' = "bulk" /\ mapSize' = BulkSize
           /\ UNCHANGED <<process, disk, work, failed, handles, call, ackVars, fullVars>>
  <2>1. UNCHANGED <<promised, told, lied, disturbed, fullAt, fullNeed>>
    BY <1>3 DEF ackVars, fullVars
  <2>2. mapSize' \in Nat
    BY <1>3 DEF BulkSize, IInv, TypeOK
  <2>3. work = disk /\ disk.dirty = {}
    BY <1>3 DEF IInv, LmdbFits
  <2>4. TypeOK'
    BY <1>3, <2>1, <2>2 DEF IInv, TypeOK
  <2>5. AckedDurable'
    BY <1>3, <2>1 DEF IInv, AckedDurable
  <2>6. ToldFits'
    BY <1>3, <2>1, <2>3 DEF IInv, AckedDurable, ToldFits
  <2>7. CallFits' /\ LmdbFits' /\ FullFits'
    BY <1>1, <1>3, <2>1, NoCallTyped DEF IInv, CallFits, LmdbFits, FullFits
  <2> QED
    BY <2>4, <2>5, <2>6, <2>7 DEF IInv
<1> QED
  BY <1>2, <1>3 DEF StartBulkTransaction

\* The commit of a bulk transaction, apart from what the caller makes of it.
LEMMA EndBulkKeeps ==
    ASSUME IInv, Idle, txn = "bulk", NEW rc \in CommitResults, EndBulk(rc),
           rc # "map_full"
    PROVE  /\ disk' \in Trees /\ work' = disk' /\ disk'.dirty = {}
           /\ disk'.data = IF rc = "success" THEN work.data ELSE disk.data
           /\ txn' = "none" /\ failed' = FALSE
           /\ disk'.pages \in Nat
           /\ UNCHANGED <<process, mapSize, fullAt, fullNeed>>
           /\ LmdbFits'
           /\ process = "running" /\ process' = "running" /\ fullAt' = 0
<1>1. EndTxn(rc) /\ UNCHANGED <<process, mapSize, fullAt, fullNeed>>
  BY DEF EndBulk, fullVars
<1>2. /\ disk' \in Trees /\ work' = disk' /\ disk'.dirty = {}
      /\ disk'.data = IF rc = "success" THEN work.data ELSE disk.data
      /\ txn' = "none" /\ failed' = FALSE
  BY <1>1, EndTxnKeeps
<1>3. disk'.pages \in Nat
  BY <1>2 DEF Trees
<1>4. LmdbFits'
  BY <1>2, <1>3 DEF LmdbFits
<1>5. process = "running" /\ fullAt = 0
  BY DEF Idle, IInv, FullFits
<1> QED
  BY <1>1, <1>2, <1>3, <1>4, <1>5

LEMMA EndBulkExits ==
    ASSUME IInv, NEW rc \in CommitResults, EndBulk(rc), rc = "map_full"
    PROVE  IInv'
<1>1. MapFull(1) /\ ExitMapFull(1)
  BY DEF CommitResults, EndBulk
<1> QED
  BY <1>1, ExitKeeps

LEMMA FinishBulkKeeps == ASSUME IInv, FinishBulkTransaction PROVE IInv'
<1>1. Idle /\ txn = "bulk" /\ call = NoCall
  BY DEF FinishBulkTransaction, Idle
<1>2. PICK rc \in CommitResults :
         /\ EndBulk(rc)
         /\ rc # "map_full" =>
              /\ promised' = IF rc = "success" THEN told ELSE promised
              /\ told' = promised'
              /\ lied' = IF rc = "success"
                         THEN {c \in lied : c \notin work.dirty} ELSE lied
              /\ UNCHANGED <<handles, call, disturbed>>
  BY DEF FinishBulkTransaction
<1>3. CASE rc = "map_full"
  BY <1>2, <1>3, EndBulkExits
<1>4. CASE rc # "map_full"
  <2>1. /\ promised' = IF rc = "success" THEN told ELSE promised
        /\ told' = promised'
        /\ lied' = IF rc = "success"
                   THEN {c \in lied : c \notin work.dirty} ELSE lied
        /\ UNCHANGED <<handles, call, disturbed>>
    BY <1>2, <1>4
  <2>2. /\ disk' \in Trees /\ work' = disk' /\ disk'.dirty = {}
        /\ disk'.data = IF rc = "success" THEN work.data ELSE disk.data
        /\ txn' = "none" /\ failed' = FALSE
        /\ UNCHANGED <<process, mapSize, fullAt, fullNeed>>
        /\ LmdbFits'
        /\ process' = "running" /\ fullAt' = 0
    BY <1>1, <1>2, <1>4, EndBulkKeeps
  <2>3. TypeOK'
    <3>1. {disk', work'} \subseteq Trees
      BY <2>2
    <3> QED
      BY <2>1, <2>2, <3>1 DEF IInv, TypeOK, Trees, Tables
  <2>4. AckedDurable'
    <3>1. SUFFICES ASSUME ~disturbed, NEW n \in Names, NEW k \in Keys
                   PROVE  disk'.data[n][k] = promised'[n][k] \/ <<n, k>> \in lied'
      BY <2>1 DEF AckedDurable
    <3>2. CASE rc = "success"
      <4>1. \/ told[n][k] = work.data[n][k]
            \/ <<n, k>> \in lied /\ <<n, k>> \notin work.dirty
        BY <1>1, <3>1 DEF IInv, ToldFits
      <4> QED
        BY <2>1, <2>2, <3>2, <4>1
    <3>3. CASE rc # "success"
      BY <2>1, <2>2, <3>1, <3>3 DEF IInv, AckedDurable
    <3> QED
      BY <3>2, <3>3
  <2>5. ToldFits' /\ CallFits' /\ FullFits'
    BY <1>1, <2>1, <2>2, NoCallTyped DEF ToldFits, CallFits, FullFits
  <2> QED
    BY <2>2, <2>3, <2>4, <2>5 DEF IInv
<1> QED
  BY <1>3, <1>4

\* The commit a Database's constructor or destructor makes of a bulk transaction.
LEMMA DisturbedKeeps ==
    ASSUME IInv, Idle, txn = "bulk", NEW rc \in CommitResults, EndBulk(rc),
           rc # "map_full", disturbed' = TRUE, UNCHANGED <<promised, told, lied>>,
           handles' \subseteq Names, call' \in Calls, call'.op \in {"none", "open"}
    PROVE  IInv'
<1>1. /\ disk' \in Trees /\ work' = disk' /\ disk'.dirty = {}
      /\ txn' = "none" /\ failed' = FALSE
      /\ UNCHANGED <<process, mapSize, fullAt, fullNeed>>
      /\ LmdbFits'
      /\ process' = "running" /\ fullAt' = 0
  BY EndBulkKeeps
<1>2. TypeOK'
  <2>1. {disk', work'} \subseteq Trees
    BY <1>1
  <2> QED
    BY <1>1, <2>1 DEF IInv, TypeOK, Trees, Tables
<1>3. AckedDurable' /\ ToldFits' /\ CallFits' /\ FullFits'
  BY <1>1 DEF AckedDurable, ToldFits, CallFits, FullFits
<1> QED
  BY <1>1, <1>2, <1>3 DEF IInv

LEMMA OpenKeeps ==
    ASSUME IInv, NEW n \in Names, NEW c \in BOOLEAN, OpenDatabase(n, c)
    PROVE  IInv'
<1> DEFINE placed == [op |-> "open", name |-> n, create |-> c]
<1>1. Idle /\ process = "running" /\ call = NoCall
  BY DEF OpenDatabase, Idle
<1>2. placed \in Calls /\ placed.op = "open"
  BY DEF Calls
<1>3. CASE WaitForever
  BY <1>1, <1>3, WaitKeeps
<1>4. CASE txn = "none" /\ call' = placed
           /\ UNCHANGED <<process, mapSize, lmdbVars, handles, ackVars, fullVars>>
  <2>1. UNCHANGED <<process, mapSize, disk, txn, work, failed, handles,
                    promised, told, lied, disturbed, fullAt, fullNeed>>
    BY <1>4 DEF lmdbVars, ackVars, fullVars
  <2>2. TypeOK'
    BY <1>2, <1>4, <2>1 DEF IInv, TypeOK
  <2>3. AckedDurable' /\ ToldFits'
    BY <1>4, <2>1, SamePromises
  <2>4. CallFits' /\ LmdbFits' /\ FullFits'
    BY <1>1, <1>2, <1>4, <2>1 DEF IInv, CallFits, LmdbFits, FullFits
  <2> QED
    BY <2>2, <2>3, <2>4 DEF IInv
<1>5. ASSUME txn = "bulk", NEW rc \in CommitResults, EndBulk(rc),
             rc # "map_full" => /\ call' = placed
                                /\ disturbed' = TRUE
                                /\ UNCHANGED <<handles, promised, told, lied>>
      PROVE  IInv'
  <2>1. handles \subseteq Names
    BY DEF IInv, TypeOK
  <2> QED
    BY <1>1, <1>2, <1>5, <2>1, EndBulkExits, DisturbedKeeps
<1> QED
  BY <1>3, <1>4, <1>5 DEF OpenDatabase

LEMMA OpenDbiKeeps == ASSUME IInv, OpenDbi PROVE IInv'
<1>1. /\ process = "running" /\ call.op = "open" /\ call' = NoCall
      /\ UNCHANGED <<process, mapSize, promised, told, lied, disturbed, fullAt, fullNeed>>
      /\ UNCHANGED ackVars
  BY DEF OpenDbi, ackVars, fullVars
<1>2. txn = "none" /\ work = disk /\ call.name \in Names /\ disk \in Trees
      /\ failed = FALSE
  BY <1>1, CallKinds, TreesTyped DEF IInv, TypeOK, CallFits, LmdbFits
<1>3. CASE txn' \in {"none", "leaked"} /\ UNCHANGED <<disk, work, failed, handles>>
  <2>1. TypeOK'
    BY <1>1, <1>2, <1>3, NoCallTyped DEF IInv, TypeOK
  <2>2. AckedDurable'
    BY <1>1, <1>3 DEF IInv, AckedDurable
  <2>3. ToldFits'
    BY <1>1, <1>2, <1>3 DEF IInv, ToldFits
  <2>4. CallFits' /\ LmdbFits' /\ FullFits'
    BY <1>1, <1>2, <1>3, NoCallTyped DEF IInv, CallFits, LmdbFits, FullFits
  <2> QED
    BY <2>1, <2>2, <2>3, <2>4 DEF IInv
<1>4. CASE /\ handles' = handles \cup {call.name}
           /\ disk' = [disk EXCEPT !.created = @ \cup {call.name}]
           /\ work' = disk'
           /\ UNCHANGED <<txn, failed>>
  <2>1. /\ disk' \in Trees /\ disk'.data = disk.data /\ disk'.dirty = disk.dirty
        /\ disk'.pages = disk.pages /\ disk.pages \in Nat
    BY <1>2, <1>4 DEF Trees
  <2>2. TypeOK'
    <3>1. {disk', work'} \subseteq Trees
      BY <1>4, <2>1
    <3> QED
      BY <1>1, <1>2, <1>4, <3>1, NoCallTyped DEF IInv, TypeOK, Trees, Tables
  <2>3. AckedDurable'
    BY <1>1, <2>1 DEF IInv, AckedDurable
  <2>4. ToldFits'
    BY <1>1, <1>2, <1>4 DEF IInv, ToldFits
  <2>5. CallFits' /\ LmdbFits' /\ FullFits'
    BY <1>1, <1>2, <1>4, <2>1, NoCallTyped DEF IInv, CallFits, LmdbFits, FullFits
  <2> QED
    BY <2>2, <2>3, <2>4, <2>5 DEF IInv
<1> QED
  BY <1>2, <1>3, <1>4 DEF OpenDbi, lmdbVars

LEMMA CloseKeeps ==
    ASSUME IInv, NEW n \in Names, CloseDatabase(n)
    PROVE  IInv'
<1>1. Idle /\ call = NoCall /\ handles \ {n} \subseteq Names /\ process = "running"
  BY DEF CloseDatabase, Idle, IInv, TypeOK
<1>2. CASE handles' = handles \ {n}
           /\ UNCHANGED <<process, mapSize, lmdbVars, call, ackVars, fullVars>>
  <2>1. UNCHANGED <<disk, txn, work, failed, promised, told, lied, disturbed,
                    fullAt, fullNeed>>
    BY <1>2 DEF lmdbVars, ackVars, fullVars
  <2>2. TypeOK'
    BY <1>1, <1>2, <2>1 DEF IInv, TypeOK
  <2>3. AckedDurable' /\ ToldFits'
    BY <1>2, <2>1, SamePromises
  <2>4. CallFits' /\ LmdbFits' /\ FullFits'
    BY <1>1, <1>2, <2>1 DEF IInv, CallFits, LmdbFits, FullFits
  <2> QED
    BY <2>2, <2>3, <2>4 DEF IInv
<1>3. ASSUME txn = "bulk", NEW rc \in CommitResults, EndBulk(rc),
             rc # "map_full" => /\ handles' = handles \ {n}
                                /\ disturbed' = TRUE
                                /\ UNCHANGED <<call, promised, told, lied>>
      PROVE  IInv'
  BY <1>1, <1>3, NoCallTyped, EndBulkExits, DisturbedKeeps
<1> QED
  BY <1>2, <1>3 DEF CloseDatabase

LEMMA CrashKeeps == ASSUME IInv, Crash PROVE IInv'
<1>1. Gone /\ fullAt' = 0 /\ fullAt' \in Nat /\ fullNeed' \in Nat
  BY DEF Crash, fullVars, IInv, TypeOK, FullFits
<1> QED
  BY <1>1, GoneKeeps

LEMMA LaunchKeeps == ASSUME IInv, Launch PROVE IInv'
<1>1. /\ process' = "running" /\ mapSize' = LaunchSize(disk.pages)
      /\ promised' = disk.data /\ told' = disk.data /\ lied' = {}
      /\ disturbed' = FALSE /\ fullAt' = 0 /\ fullNeed' = 0
      /\ UNCHANGED <<disk, txn, work, failed, handles, call>>
  BY DEF Launch, lmdbVars
<1>2. disk.pages \in Nat /\ disk.data \in Tables
  BY TreesTyped DEF IInv, Trees
<1>3. txn = "none"
  BY DEF Launch, IInv, FullFits
<1>4. TypeOK'
  BY <1>1, <1>2, LaunchSizeFits DEF IInv, TypeOK, Tables
<1>5. AckedDurable' /\ ToldFits'
  BY <1>1, <1>3 DEF AckedDurable, ToldFits
<1>6. CallFits' /\ LmdbFits' /\ FullFits'
  BY <1>1 DEF IInv, CallFits, LmdbFits, FullFits
<1> QED
  BY <1>4, <1>5, <1>6 DEF IInv

LEMMA NextKeeps == IInv /\ [Next]_vars => IInv'
<1> SUFFICES ASSUME IInv, [Next]_vars PROVE IInv'
  OBVIOUS
<1>1. CASE UNCHANGED vars
  <2>1. UNCHANGED <<process, mapSize, disk, txn, work, failed, handles, call, promised,
                    told, lied, disturbed, fullAt, fullNeed>>
    BY <1>1 DEF vars, lmdbVars, ackVars, fullVars
  <2>2. TypeOK' /\ AckedDurable'
    BY <2>1 DEF IInv, TypeOK, AckedDurable
  <2>3. CallFits' /\ LmdbFits' /\ ToldFits' /\ FullFits'
    BY <2>1 DEF IInv, CallFits, LmdbFits, ToldFits, FullFits
  <2> QED
    BY <2>2, <2>3 DEF IInv
<1>2. ASSUME NEW n \in Names, Read(n) PROVE IInv'
  BY <1>1, <1>2, WaitKeeps DEF Read, Idle
<1> QED
  BY <1>1, <1>2, SetKeeps, RemoveKeeps, FinishKeeps, StartBulkKeeps, FinishBulkKeeps,
     OpenKeeps, OpenDbiKeeps, CloseKeeps, CrashKeeps, LaunchKeeps DEF Next

LEMMA Sound == Spec => []IInv
  BY InitSound, NextKeeps, PTL DEF Spec

-----------------------------------------------------------------------------
(***************************************************************************)
(* Results.                                                                *)
(***************************************************************************)

\* Every variable keeps its type, and what no transaction holds is as LMDB
\* committed it.
THEOREM TypesHold == Spec => []TypeOK
  BY Sound, PTL DEF IInv

\* What setDataForKey, removeDataForKey and finishBulkTransaction reported done
\* is on disk and nothing else is, across crashes, exits and launches, but for
\* removals whose commit failed and bulk transactions a Database's constructor
\* or destructor committed.
THEOREM AckedHolds == Spec => []AckedDurable
  BY Sound, PTL DEF IInv

\* A program that exits for a full map launches with a larger one, if the
\* transaction that filled it asked for less than 8 MB.
THEOREM SmallWritesResizeHolds == Spec => SmallWritesResize
<1>1. IInv /\ [Next]_vars =>
        [process = "exited" /\ fullAt \in 1 .. AbsoluteMax - 1 /\ fullNeed < Slack
         /\ process' = "running" => mapSize' > fullAt]_vars
  <2> SUFFICES ASSUME IInv, Next, process = "exited",
                      fullAt \in 1 .. AbsoluteMax - 1, fullNeed < Slack,
                      process' = "running"
               PROVE  mapSize' > fullAt
    BY DEF vars
  <2>1. Launch
    BY DEF Next, SetDataForKey, RemoveDataForKey, Read, FinishTransaction,
       StartBulkTransaction, FinishBulkTransaction, OpenDatabase, OpenDbi,
       CloseDatabase, Crash, Idle
  <2>2. /\ disk.pages \in Nat /\ fullNeed \in Nat
        /\ fullAt <= disk.pages + fullNeed
        /\ mapSize' = LaunchSize(disk.pages)
    BY <2>1, TreesTyped DEF Launch, IInv, Trees, TypeOK, FullFits
  <2>3. /\ LaunchSize(disk.pages) \in Nat
        /\ \/ disk.pages + Slack <= LaunchSize(disk.pages)
           \/ LaunchSize(disk.pages) >= AbsoluteMax
    BY <2>2, LaunchSizeFits
  <2> QED
    BY <2>2, <2>3, DatabaseAssumption
<1> QED
  BY <1>1, Sound, PTL DEF Spec, SmallWritesResize

-----------------------------------------------------------------------------
(***************************************************************************)
(* Database implements Store: each step is one of Store's, or changes      *)
(* nothing a caller of the store can see.                                  *)
(***************************************************************************)
AbsStep == Promise!Next \/ UNCHANGED Promise!vars

\* The store does not change.
LEMMA Stutters ==
    ASSUME disk'.data = disk.data, txn' = "bulk" <=> txn = "bulk",
           txn = "bulk" => work'.data = work.data
    PROVE  AbsStep
  BY DEF AbsStep, Promise!vars

\* A write inside a bulk transaction, and one that is durable at once.
LEMMA WritesInBulk ==
    ASSUME NEW n \in Names, NEW k \in Keys, NEW v \in Values \cup {NoValue},
           txn = "bulk", txn' = "bulk", disk' = disk,
           work'.data = [work.data EXCEPT ![n][k] = v]
    PROVE  AbsStep
<1>1. Promise!Write(n, k, v)
  BY DEF Promise!Write
<1> QED
  BY <1>1 DEF AbsStep, Promise!Next

LEMMA WritesDurably ==
    ASSUME NEW n \in Names, NEW k \in Keys, NEW v \in Values \cup {NoValue},
           txn # "bulk", txn' # "bulk",
           disk'.data = [disk.data EXCEPT ![n][k] = v]
    PROVE  AbsStep
<1>1. Promise!Write(n, k, v)
  BY DEF Promise!Write
<1> QED
  BY <1>1 DEF AbsStep, Promise!Next

\* The start of a bulk transaction, and its two ends.
LEMMA Begins ==
    ASSUME txn # "bulk", txn' = "bulk", disk' = disk, work' = disk
    PROVE  AbsStep
<1>1. Promise!Begin
  BY DEF Promise!Begin
<1> QED
  BY <1>1 DEF AbsStep, Promise!Next

LEMMA Ends ==
    ASSUME txn = "bulk", txn' # "bulk",
           disk'.data = work.data \/ disk'.data = disk.data
    PROVE  AbsStep
<1>1. CASE disk'.data = work.data
  <2>1. Promise!Commit
    BY <1>1 DEF Promise!Commit
  <2> QED
    BY <2>1 DEF AbsStep, Promise!Next
<1>2. CASE disk'.data = disk.data
  <2>1. Promise!Rollback
    BY <1>2 DEF Promise!Rollback
  <2> QED
    BY <2>1 DEF AbsStep, Promise!Next
<1> QED
  BY <1>1, <1>2

LEMMA GoneRefines == ASSUME Gone PROVE AbsStep
<1>1. disk' = disk /\ txn' = "none"
  BY DEF Gone
<1>2. CASE txn = "bulk"
  BY <1>1, <1>2, Ends
<1>3. CASE txn # "bulk"
  BY <1>1, <1>3, Stutters
<1> QED
  BY <1>2, <1>3

LEMMA QuietRefines ==
    ASSUME UNCHANGED <<disk, txn, work>> \/ UNCHANGED lmdbVars \/ UNCHANGED vars
           \/ WaitForever
    PROVE  AbsStep
<1>1. UNCHANGED <<disk, txn, work>>
  BY DEF lmdbVars, vars, WaitForever
<1> QED
  BY <1>1, Stutters

LEMMA AcceptRefines ==
    ASSUME IInv, NEW op,
           NEW n \in Names, NEW k \in Keys, NEW v \in Values \cup {NoValue},
           NEW new, Accept(op, n, k, v, new)
    PROVE  AbsStep
<1>1. work \in Trees /\ disk' = disk
  BY TreesTyped DEF IInv, Accept
<1>2. CASE txn = "bulk"
  <2>1. txn' = "bulk"
    BY <1>2 DEF Accept, Commits
  <2>2. work'.data = [work.data EXCEPT ![n][k] = v]
    BY <1>1 DEF Accept, Written, Trees
  <2> QED
    BY <1>1, <1>2, <2>1, <2>2, WritesInBulk
<1>3. CASE txn # "bulk"
  <2>1. txn' = "single"
    BY <1>3 DEF Accept, Commits
  <2> QED
    BY <1>1, <1>3, <2>1, Stutters
<1> QED
  BY <1>2, <1>3

LEMMA EndBulkRefines ==
    ASSUME IInv, txn = "bulk", NEW rc, EndBulk(rc)
    PROVE  AbsStep
<1>1. CASE rc = "map_full"
  BY <1>1, GoneRefines DEF EndBulk, ExitMapFull
<1>2. CASE rc # "map_full"
  BY <1>2, EndTxnKeeps, Ends DEF EndBulk
<1> QED
  BY <1>1, <1>2

LEMMA FinishRefines == ASSUME IInv, FinishTransaction PROVE AbsStep
<1>1. /\ txn = "single" /\ call.name \in Names /\ call.key \in Keys
      /\ call.value \in Values \cup {NoValue}
      /\ work.data = [disk.data EXCEPT ![call.name][call.key] = call.value]
  BY CallKinds DEF FinishTransaction, IInv, TypeOK, CallFits
<1>2. CASE Gone
  BY <1>2, GoneRefines
<1>3. ASSUME NEW rc, EndTxn(rc) PROVE AbsStep
  <2>1. txn' = "none" /\ disk'.data = IF rc = "success" THEN work.data ELSE disk.data
    BY <1>3, EndTxnKeeps
  <2>2. CASE rc = "success"
    BY <1>1, <2>1, <2>2, WritesDurably
  <2>3. CASE rc # "success"
    BY <1>1, <2>1, <2>3, Stutters
  <2> QED
    BY <2>2, <2>3
<1>4. Gone \/ \E rc \in CommitResults : EndTxn(rc)
  BY DEF FinishTransaction, ExitMapFull
<1> QED
  BY <1>2, <1>3, <1>4

LEMMA OpenDbiRefines == ASSUME IInv, OpenDbi PROVE AbsStep
<1>1. txn = "none" /\ disk \in Trees
  BY TreesTyped DEF OpenDbi, IInv, CallFits
<1>2. disk'.data = disk.data /\ txn' # "bulk"
  BY <1>1 DEF OpenDbi, lmdbVars, Trees
<1> QED
  BY <1>1, <1>2, Stutters

LEMMA NextRefines == IInv /\ [Next]_vars => AbsStep
<1> SUFFICES ASSUME IInv, [Next]_vars PROVE AbsStep
  OBVIOUS
<1>1. ASSUME NEW n \in Names, NEW k \in Keys, NEW v \in Values, SetDataForKey(n, k, v)
      PROVE  AbsStep
  BY <1>1, QuietRefines, GoneRefines, AcceptRefines DEF SetDataForKey, ExitMapFull
<1>2. ASSUME NEW n \in Names, NEW k \in Keys, RemoveDataForKey(n, k)
      PROVE  AbsStep
  BY <1>2, QuietRefines, AcceptRefines DEF RemoveDataForKey
<1>3. ASSUME NEW n \in Names, Read(n) PROVE AbsStep
  BY <1>3, QuietRefines DEF Read
<1>4. CASE StartBulkTransaction
  <2>1. CASE txn = "none" /\ txn' = "bulk" /\ UNCHANGED <<disk, work>>
    BY <2>1, Begins DEF IInv, LmdbFits
  <2> QED
    BY <1>4, <2>1, QuietRefines DEF StartBulkTransaction
<1>5. CASE FinishBulkTransaction
  BY <1>5, EndBulkRefines DEF FinishBulkTransaction
<1>6. ASSUME NEW n \in Names, NEW c \in BOOLEAN, OpenDatabase(n, c) PROVE AbsStep
  BY <1>6, QuietRefines, EndBulkRefines DEF OpenDatabase
<1>7. ASSUME NEW n \in Names, CloseDatabase(n) PROVE AbsStep
  <2>1. CASE UNCHANGED lmdbVars
    BY <2>1, QuietRefines
  <2>2. ASSUME txn = "bulk", NEW rc, EndBulk(rc) PROVE AbsStep
    BY <2>2, EndBulkRefines
  <2> QED
    BY <1>7, <2>1, <2>2 DEF CloseDatabase
<1>8. CASE Crash
  BY <1>8, GoneRefines DEF Crash
<1>9. CASE Launch
  BY <1>9, QuietRefines DEF Launch
<1>10. CASE UNCHANGED vars
  BY <1>10, QuietRefines
<1> QED
  BY <1>1, <1>2, <1>3, <1>4, <1>5, <1>6, <1>7, <1>8, <1>9, <1>10,
     FinishRefines, OpenDbiRefines DEF Next

\* A caller of Database sees a durable table of values, and groups of writes
\* that become durable as a whole or not at all, however commits fail, the map
\* fills or the process dies.
THEOREM StoreHolds == Spec => ImplementsStore
<1>1. Init => Promise!Init
  BY DEF Init, Promise!Init, Empty
<1>2. IInv /\ [Next]_vars => [Promise!Next]_Promise!vars
  BY NextRefines DEF AbsStep
<1> QED
  BY <1>1, <1>2, Sound, PTL DEF Spec, ImplementsStore, Promise!Spec

=============================================================================
