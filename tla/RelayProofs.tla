----------------------------- MODULE RelayProofs -----------------------------
(***************************************************************************)
(* The calls that three processes relay to each other implement the call   *)
(* that RemoteCall promises, and each callback gets the answer to its own  *)
(* call, for any clients and numbers of calls, parts and faults.           *)
(***************************************************************************)
EXTENDS Relay, SequenceTheorems, WellFoundedInduction, TLAPS

-----------------------------------------------------------------------------
(***************************************************************************)
(* Queues.                                                                 *)
(***************************************************************************)
Only(q, S) == \A i \in DOMAIN q : q[i] \in S

\* No request comes twice.
Once(q) == \A i, j \in DOMAIN q : q[i].type = "request" /\ q[i] = q[j] => i = j

\* q holds m after the last loss of the connection.
Fresh(q, m) == \E i \in DOMAIN q : q[i] = m /\ \A j \in i + 1 .. Len(q) : q[j] # Gone

\* The loss of the connection comes last.
GoneLast(q) == \A i \in DOMAIN q : q[i] = Gone => i = Len(q)

-----------------------------------------------------------------------------
(***************************************************************************)
(* The invariant.                                                          *)
(***************************************************************************)
Client(c)   == calls[c].client
Current(c)  == calls[c].key = key[Client(c)]
CallsOf(k)  == {c \in DOMAIN calls : Client(c) = k}

Requests(k) == {Request(c) : c \in CallsOf(k)}
CurrentRequests(k) == {Request(c) : c \in {d \in CallsOf(k) : Current(d)}}
CurrentErrors(k)   == {Error(c) : c \in {d \in CallsOf(k) : Current(d)}}
AllRequests == {Request(c) : c \in DOMAIN calls}
Answers == {Part(c, i) : c \in {d \in DOMAIN calls : runs[d] = 1}, i \in 1 .. Parts}

\* What each queue may hold.  A request that its connection has outlived, and an
\* error, is of the process that runs now.
MessagesFit ==
    /\ \A k \in Clients :
          /\ Only(inputQueue[k], CurrentRequests(k))
          /\ Only(up[k], {Join, Gone} \cup Requests(k))
          /\ Only(down[k], {Gone} \cup CurrentErrors(k) \cup Answers)
          /\ \A m \in Requests(k) : Fresh(up[k], m) => m \in CurrentRequests(k)
    /\ Only(inputQueue[Host], Answers)
    /\ Only(up[Host], {Join, Gone} \cup Answers)
    /\ Only(down[Host], {Gone} \cup AllRequests)

\* An end that has lost its connection, or has polled the loss, gets no more of
\* it: the tracker has forgotten it, or is to hear of the loss.
EndsFit ==
    \A n \in Ends :
        /\ GoneLast(down[n])
        /\ disconnected[n] => down[n] = <<>>
        /\ disconnected[n] \/ Lost(n) => ~Reaches(n) /\ ~Fresh(up[n], Join)

\* A request is in one place: to be sent, on its way to the tracker, on its way
\* to the host, run, or refused.
Sending(c) == Holds(inputQueue[Client(c)], Request(c))
Sent(c)    == Holds(up[Client(c)], Request(c))
Relayed(c) == Holds(down[Host], Request(c))
Refused(c) == status[c] = "refused" \/ Holds(down[Client(c)], Error(c))
OneStage(c) ==
    /\ Sending(c) => ~Sent(c) /\ ~Relayed(c) /\ runs[c] = 0 /\ ~Refused(c)
    /\ Sent(c)    => ~Relayed(c) /\ runs[c] = 0 /\ ~Refused(c)
    /\ Relayed(c) => runs[c] = 0 /\ ~Refused(c)
    /\ Refused(c) => runs[c] = 0
RequestOnce ==
    /\ \A k \in Clients : Once(inputQueue[k]) /\ Once(up[k])
    /\ Once(down[Host])
    /\ \A c \in DOMAIN calls : OneStage(c)

\* A client counts its callbackIDs up under each key, and its keys.
IdsGrow ==
    /\ \A c, d \in DOMAIN calls :
          c < d /\ Client(c) = Client(d) =>
             /\ calls[c].key <= calls[d].key
             /\ calls[c].key = calls[d].key => calls[c].callbackID < calls[d].callbackID
    /\ \A c \in DOMAIN calls :
          /\ calls[c].key <= key[Client(c)]
          /\ Current(c) => calls[c].callbackID < functionCallbackIDCounter[Client(c)]
    /\ \A k \in Clients : functionCallbackIDCounter[k] <= Len(calls)

StatusFits ==
    /\ Len(calls) <= MaxCalls
    /\ \A c \in Calls \ DOMAIN calls : status[c] = "unplaced" /\ runs[c] = 0
    /\ \A c \in DOMAIN calls : status[c] # "unplaced" /\ (status[c] = "ok" => runs[c] = 1)
    /\ \A c \in answering : c \in DOMAIN calls /\ runs[c] = 1

\* A registered callback is that of a waiting call of the process that runs now.
LiveWaits ==
    \A k \in Clients : \A id \in Waiting(k) :
        \E c \in CallsOf(k) : Current(c) /\ calls[c].callbackID = id /\ status[c] = "waiting"

IInv == /\ TypeOK /\ RightAnswer /\ MessagesFit /\ EndsFit /\ RequestOnce
        /\ IdsGrow /\ StatusFits /\ LiveWaits

-----------------------------------------------------------------------------
(***************************************************************************)
(* What taking from a queue, adding to it and cutting it off do.           *)
(***************************************************************************)
LEMMA Tails ==
    ASSUME NEW M, NEW q \in Seq(M), q # <<>>
    PROVE  /\ Tail(q) \in Seq(M) /\ Head(q) \in M /\ Holds(q, Head(q))
           /\ \A m : Holds(Tail(q), m) => Holds(q, m)
           /\ \A S : Only(q, S) => Only(Tail(q), S) /\ Head(q) \in S
           /\ Once(q) => Once(Tail(q))
           /\ Once(q) /\ Head(q).type = "request" => ~Holds(Tail(q), Head(q))
           /\ \A m : Fresh(Tail(q), m) => Fresh(q, m)
           /\ \A m : m # Head(q) /\ Holds(q, m) => Holds(Tail(q), m)
           /\ ~Holds(q, Gone) => Fresh(q, Head(q))
           /\ GoneLast(q) => GoneLast(Tail(q)) /\ (Head(q) = Gone => Tail(q) = <<>>)
<1> DEFINE t == Tail(q)
<1>1. /\ Len(q) \in Nat \ {0} /\ DOMAIN q = 1 .. Len(q)
      /\ t \in Seq(M) /\ Len(t) = Len(q) - 1 /\ DOMAIN t = 1 .. Len(q) - 1
      /\ \A i \in 1 .. Len(q) - 1 : t[i] = q[i + 1]
      /\ Head(q) = q[1] /\ q[1] \in M
  OBVIOUS
<1> HIDE DEF t
<1>2. \A i \in DOMAIN t : i + 1 \in DOMAIN q /\ t[i] = q[i + 1]
  BY <1>1
<1>3. \A i \in DOMAIN q : i = 1 \/ (i - 1 \in DOMAIN t /\ t[i - 1] = q[i])
  BY <1>1
<1>4. Holds(q, Head(q))
  BY <1>1 DEF Holds
<1>5. \A m : Holds(t, m) => Holds(q, m)
  BY <1>2 DEF Holds
<1>6. \A S : Only(q, S) => Only(t, S) /\ Head(q) \in S
  BY <1>1, <1>2 DEF Only
<1>7. Once(q) => Once(t)
  <2> SUFFICES ASSUME Once(q), NEW i \in DOMAIN t, NEW j \in DOMAIN t,
                      t[i].type = "request", t[i] = t[j]
               PROVE  i = j
    BY DEF Once
  <2>1. /\ i + 1 \in DOMAIN q /\ j + 1 \in DOMAIN q /\ q[i + 1] = q[j + 1]
        /\ q[i + 1].type = "request"
    BY <1>2
  <2>2. i + 1 = j + 1
    BY <2>1 DEF Once
  <2> QED
    BY <1>1, <2>2
<1>8. Once(q) /\ Head(q).type = "request" => ~Holds(t, Head(q))
  <2> SUFFICES ASSUME Once(q), Head(q).type = "request", NEW i \in DOMAIN t, t[i] = Head(q)
               PROVE  FALSE
    BY DEF Holds
  <2>1. i + 1 \in DOMAIN q /\ q[i + 1] = q[1] /\ 1 \in DOMAIN q /\ q[1].type = "request"
    BY <1>1, <1>2
  <2>2. i + 1 = 1
    BY <2>1 DEF Once
  <2> QED
    BY <1>1, <2>2
<1>9. \A m : Fresh(t, m) => Fresh(q, m)
  <2> SUFFICES ASSUME NEW m, NEW i \in DOMAIN t, t[i] = m,
                      \A j \in i + 1 .. Len(t) : t[j] # Gone
               PROVE  Fresh(q, m)
    BY DEF Fresh
  <2>1. i + 1 \in DOMAIN q /\ q[i + 1] = m
    BY <1>2
  <2>2. ASSUME NEW j \in (i + 1) + 1 .. Len(q) PROVE q[j] # Gone
    <3>1. j - 1 \in i + 1 .. Len(t) /\ t[j - 1] = q[j]
      BY <1>1, <2>2
    <3> QED
      BY <3>1
  <2> QED
    BY <2>1, <2>2 DEF Fresh
<1>10. \A m : m # Head(q) /\ Holds(q, m) => Holds(t, m)
  BY <1>1, <1>3 DEF Holds
<1>11. ~Holds(q, Gone) => Fresh(q, Head(q))
  <2> SUFFICES ASSUME ~Holds(q, Gone) PROVE Fresh(q, q[1])
    BY <1>1
  <2>1. \A j \in 1 + 1 .. Len(q) : q[j] # Gone
    BY <1>1 DEF Holds
  <2> QED
    BY <1>1, <2>1 DEF Fresh
<1>12. GoneLast(q) => GoneLast(t) /\ (Head(q) = Gone => t = <<>>)
  <2> SUFFICES ASSUME GoneLast(q) PROVE GoneLast(t) /\ (Head(q) = Gone => t = <<>>)
    OBVIOUS
  <2>1. GoneLast(t)
    BY <1>1, <1>2 DEF GoneLast
  <2>2. Head(q) = Gone => Len(t) = 0
    BY <1>1 DEF GoneLast
  <2> QED
    BY <1>1, <2>1, <2>2
<1> QED
  BY <1>1, <1>4, <1>5, <1>6, <1>7, <1>8, <1>9, <1>10, <1>11, <1>12 DEF t

LEMMA Appends ==
    ASSUME NEW M, NEW q \in Seq(M), NEW m \in M
    PROVE  /\ Append(q, m) \in Seq(M) /\ Append(q, m) # <<>>
           /\ \A x : Holds(Append(q, m), x) <=> x = m \/ Holds(q, x)
           /\ \A S : Only(q, S) /\ m \in S => Only(Append(q, m), S)
           /\ Once(q) /\ (m.type = "request" => ~Holds(q, m)) => Once(Append(q, m))
           /\ \A x : Fresh(Append(q, m), x) => x = m \/ (m # Gone /\ Fresh(q, x))
           /\ GoneLast(q) /\ ~Holds(q, Gone) => GoneLast(Append(q, m))
<1> DEFINE a == Append(q, m)
           L == Len(q)
<1>1. /\ L \in Nat /\ DOMAIN q = 1 .. L /\ a \in Seq(M)
      /\ Len(a) = L + 1 /\ DOMAIN a = 1 .. L + 1 /\ a[L + 1] = m
      /\ \A i \in 1 .. L : a[i] = q[i]
  OBVIOUS
<1> HIDE DEF a, L
<1>2. \A i \in DOMAIN a : (i \in DOMAIN q /\ a[i] = q[i]) \/ (i = L + 1 /\ a[i] = m)
  BY <1>1
<1>3. \A i \in DOMAIN q : i \in DOMAIN a /\ a[i] = q[i]
  BY <1>1
<1>4. L + 1 \in DOMAIN a
  BY <1>1
<1>5. \A x : Holds(a, x) <=> x = m \/ Holds(q, x)
  BY <1>1, <1>2, <1>3, <1>4 DEF Holds
<1>6. \A S : Only(q, S) /\ m \in S => Only(a, S)
  BY <1>2 DEF Only
<1>7. Once(q) /\ (m.type = "request" => ~Holds(q, m)) => Once(a)
  BY <1>2 DEF Once, Holds
<1>8. \A x : Fresh(a, x) => x = m \/ (m # Gone /\ Fresh(q, x))
  <2> SUFFICES ASSUME NEW x, NEW i \in DOMAIN a, a[i] = x, x # m,
                      \A j \in i + 1 .. Len(a) : a[j] # Gone
               PROVE  m # Gone /\ Fresh(q, x)
    BY DEF Fresh
  <2>1. i \in DOMAIN q /\ q[i] = x
    BY <1>2
  <2>2. L + 1 \in i + 1 .. Len(a)
    BY <1>1, <2>1
  <2>3. m # Gone
    BY <1>1, <2>2
  <2>4. \A j \in i + 1 .. L : q[j] # Gone
    BY <1>1, <2>1
  <2> QED
    BY <2>1, <2>3, <2>4 DEF Fresh, L
<1>9. GoneLast(q) /\ ~Holds(q, Gone) => GoneLast(a)
  BY <1>1, <1>2 DEF GoneLast, Holds
<1>10. a # <<>>
  BY <1>1
<1> QED
  BY <1>1, <1>5, <1>6, <1>7, <1>8, <1>9, <1>10 DEF a

LEMMA Prefixes ==
    ASSUME NEW M, NEW q \in Seq(M), NEW n \in 0 .. Len(q)
    PROVE  /\ SubSeq(q, 1, n) \in Seq(M)
           /\ \A x : Holds(SubSeq(q, 1, n), x) => Holds(q, x)
           /\ \A S : Only(q, S) => Only(SubSeq(q, 1, n), S)
           /\ Once(q) => Once(SubSeq(q, 1, n))
           /\ ~Holds(q, Gone) => GoneLast(SubSeq(q, 1, n)) /\ ~Holds(SubSeq(q, 1, n), Gone)
<1> DEFINE p == SubSeq(q, 1, n)
<1>1. /\ Len(q) \in Nat /\ DOMAIN q = 1 .. Len(q) /\ p \in Seq(M)
      /\ DOMAIN p = 1 .. n /\ \A i \in 1 .. n : p[i] = q[i]
  OBVIOUS
<1> HIDE DEF p
<1>2. \A i \in DOMAIN p : i \in DOMAIN q /\ p[i] = q[i]
  BY <1>1
<1>3. \A x : Holds(p, x) => Holds(q, x)
  BY <1>2 DEF Holds
<1>4. \A S : Only(q, S) => Only(p, S)
  BY <1>2 DEF Only
<1>5. Once(q) => Once(p)
  BY <1>2 DEF Once
<1>6. ~Holds(q, Gone) => GoneLast(p) /\ ~Holds(p, Gone)
  BY <1>2 DEF Holds, GoneLast
<1> QED
  BY <1>1, <1>3, <1>4, <1>5, <1>6 DEF p

LEMMA Empty ==
    /\ ~Holds(<<>>, Gone) /\ (\A x : ~Holds(<<>>, x) /\ ~Fresh(<<>>, x))
    /\ (\A S : Only(<<>>, S)) /\ Once(<<>>) /\ GoneLast(<<>>)
  BY DEF Holds, Fresh, Only, Once, GoneLast

LEMMA LargerSet ==
    ASSUME NEW q, NEW S, NEW T, S \subseteq T, Only(q, S)
    PROVE  Only(q, T)
  BY DEF Only

LEMMA Concat ==
    ASSUME NEW M, NEW q \in Seq(M), NEW t \in Seq(M)
    PROVE  /\ q \o t \in Seq(M) /\ Len(q) \in Nat /\ Len(t) \in Nat
           /\ DOMAIN (q \o t) = 1 .. Len(q) + Len(t)
           /\ \A i \in 1 .. Len(q) : (q \o t)[i] = q[i]
           /\ \A i \in Len(q) + 1 .. Len(q) + Len(t) : (q \o t)[i] = t[i - Len(q)]
<1> DEFINE r == q \o t
<1>1. /\ r \in Seq(M) /\ Len(r) = Len(q) + Len(t)
      /\ \A i \in 1 .. Len(q) + Len(t) : r[i] = IF i <= Len(q) THEN q[i] ELSE t[i - Len(q)]
  BY ConcatProperties
<1>2. Len(q) \in Nat /\ Len(t) \in Nat
  OBVIOUS
<1> HIDE DEF r
<1>3. DOMAIN r = 1 .. Len(q) + Len(t)
  BY <1>1
<1>4. ASSUME NEW i \in 1 .. Len(q) PROVE r[i] = q[i]
  <2>1. i \in 1 .. Len(q) + Len(t) /\ i <= Len(q)
    BY <1>2
  <2> QED
    BY <1>1, <2>1
<1>5. ASSUME NEW i \in Len(q) + 1 .. Len(q) + Len(t) PROVE r[i] = t[i - Len(q)]
  <2>1. i \in 1 .. Len(q) + Len(t) /\ ~(i <= Len(q))
    BY <1>2
  <2> QED
    BY <1>1, <2>1
<1> QED
  BY <1>1, <1>2, <1>3, <1>4, <1>5 DEF r

\* The parts of an answer, after what is in q.
LEMMA Answering ==
    ASSUME NEW M, NEW q \in Seq(M), NEW c, \A i \in 1 .. Parts : Part(c, i) \in M
    PROVE  /\ q \o Answer(c) \in Seq(M)
           /\ \A S : Only(q, S) /\ (\A i \in 1 .. Parts : Part(c, i) \in S)
                        => Only(q \o Answer(c), S)
<1> DEFINE r == q \o Answer(c)
           L == Len(q)
<1> HIDE DEF r, L
<1>1. Answer(c) \in Seq(M) /\ Len(Answer(c)) = Parts /\ Parts \in Nat
      /\ \A i \in 1 .. Parts : Answer(c)[i] = Part(c, i)
  <2>1. Parts \in Nat /\ Answer(c) \in [1 .. Parts -> M]
    BY RelayAssumption DEF Answer
  <2>2. \A i \in 1 .. Parts : Answer(c)[i] = Part(c, i)
    BY DEF Answer
  <2> QED
    BY <2>1, <2>2
<1>2. /\ L \in Nat /\ DOMAIN q = 1 .. L /\ r \in Seq(M) /\ DOMAIN r = 1 .. L + Parts
      /\ \A i \in 1 .. L : r[i] = q[i]
      /\ \A i \in L + 1 .. L + Parts : r[i] = Answer(c)[i - L]
  <2> DEFINE t == Answer(c)
  <2>1. t \in Seq(M) /\ Len(t) = Parts
    BY <1>1
  <2> HIDE DEF t
  <2>2. /\ q \o t \in Seq(M) /\ Len(q) \in Nat
        /\ DOMAIN (q \o t) = 1 .. Len(q) + Len(t)
        /\ \A i \in 1 .. Len(q) : (q \o t)[i] = q[i]
        /\ \A i \in Len(q) + 1 .. Len(q) + Len(t) : (q \o t)[i] = t[i - Len(q)]
    BY <2>1, Concat
  <2>3. DOMAIN q = 1 .. Len(q)
    OBVIOUS
  <2> QED
    BY <2>1, <2>2, <2>3 DEF t, r, L
<1>3. ASSUME NEW S, Only(q, S), \A i \in 1 .. Parts : Part(c, i) \in S, NEW i \in DOMAIN r
      PROVE  r[i] \in S
  <2>1. CASE i \in 1 .. L
    BY <1>2, <1>3, <2>1 DEF Only
  <2>2. CASE i \notin 1 .. L
    <3>1. i \in L + 1 .. L + Parts /\ i - L \in 1 .. Parts
      BY <1>1, <1>2, <2>2
    <3>2. r[i] = Answer(c)[i - L] /\ Answer(c)[i - L] = Part(c, i - L)
      BY <1>1, <1>2, <3>1
    <3> QED
      BY <1>3, <3>1, <3>2
  <2> QED
    BY <2>1, <2>2
<1> QED
  BY <1>2, <1>3 DEF Only, r

-----------------------------------------------------------------------------
(***************************************************************************)
(* The greatest element of a set, as LastGone and CallOf choose it.        *)
(***************************************************************************)
LEMMA LeastElement ==
    ASSUME NEW S \in SUBSET Nat, S # {}
    PROVE  \E m \in S : \A n \in S : m <= n
<1>1. PICK m \in S : \A n \in S : <<n, m>> \notin OpToRel(<, Nat)
  BY NatLessThanWellFounded, WFMin, Zenon
<1>2. \A n \in S : ~(n < m)
  BY <1>1 DEF OpToRel
<1> QED
  BY <1>2

LEMMA MaxIs ==
    ASSUME NEW S \in SUBSET Nat, NEW m \in S, \A x \in S : x <= m
    PROVE  Max(S) = m
<1>1. \A x \in S : (\A y \in S : x >= y) <=> x = m
  OBVIOUS
<1> QED
  BY <1>1 DEF Max

LEMMA MaxIn ==
    ASSUME NEW S \in SUBSET Nat, NEW n \in Nat, S # {}, \A x \in S : x <= n
    PROVE  Max(S) \in S
<1> DEFINE Bounds == {b \in Nat : \A x \in S : x <= b}
<1>1. n \in Bounds
  OBVIOUS
<1>2. PICK b \in Bounds : \A d \in Bounds : b <= d
  BY <1>1, LeastElement
<1>3. b \in S
  <2>1. SUFFICES ASSUME b \notin S PROVE FALSE
    OBVIOUS
  <2>2. b \in Nat /\ \A x \in S : x <= b /\ x # b /\ x \in Nat
    BY <1>2, <2>1
  <2>3. b # 0 /\ \A x \in S : x <= b - 1
    <3>1. PICK x \in S : TRUE
      OBVIOUS
    <3> QED
      BY <2>2, <3>1
  <2>4. b - 1 \in Bounds
    BY <2>2, <2>3
  <2> QED
    BY <1>2, <2>4
<1>4. Max(S) = b
  BY <1>2, <1>3, MaxIs
<1> QED
  BY <1>3, <1>4

\* What may still arrive of a queue is its beginning.
LEMMA ArrivesIsPrefix ==
    ASSUME NEW M, NEW q \in Seq(M), NEW u \in Arrives(q)
    PROVE  \E n \in 0 .. Len(q) : u = SubSeq(q, 1, n)
<1> DEFINE S == {0} \cup {i \in DOMAIN q : q[i] = Gone}
<1>1. S \in SUBSET Nat /\ S # {} /\ Len(q) \in Nat /\ \A x \in S : x <= Len(q)
  OBVIOUS
<1>2. LastGone(q) \in S
  BY <1>1, MaxIn DEF LastGone
<1>3. LastGone(q) \in 0 .. Len(q)
  BY <1>1, <1>2
<1>4. PICK i \in LastGone(q) .. Len(q) : u = SubSeq(q, 1, i)
  BY DEF Arrives
<1> QED
  BY <1>1, <1>3, <1>4

LEMMA LastGoneIsLast ==
    ASSUME NEW M, NEW q \in Seq(M), GoneLast(q), Holds(q, Gone)
    PROVE  LastGone(q) = Len(q)
<1> DEFINE S == {0} \cup {i \in DOMAIN q : q[i] = Gone}
<1>1. Len(q) \in Nat /\ S \in SUBSET Nat /\ Len(q) \in S /\ \A x \in S : x <= Len(q)
  BY DEF GoneLast, Holds
<1> QED
  BY <1>1, MaxIs DEF LastGone

-----------------------------------------------------------------------------
(***************************************************************************)
(* Messages, and those at the head of a queue.                             *)
(***************************************************************************)
LEMMA Kinds ==
    /\ Join.type = "join" /\ Gone.type = "gone" /\ Join # Gone
    /\ Join.call = 0 /\ Gone.call = 0
    /\ \A c : /\ Request(c).type = "request" /\ Request(c).call = c
              /\ Error(c).type = "error" /\ Error(c).call = c
              /\ Request(c) \notin {Join, Gone} /\ Error(c) \notin {Join, Gone}
    /\ \A c, i : /\ Part(c, i).type = "part" /\ Part(c, i).call = c
                 /\ Part(c, i) \notin {Join, Gone}
    /\ \A c, d : /\ Request(c) # Error(d)
                 /\ Request(c) = Request(d) => c = d
                 /\ Error(c) = Error(d) => c = d
    /\ \A c, d, i : Request(c) # Part(d, i) /\ Error(c) # Part(d, i)
  BY DEF Join, Gone, Request, Error, Part

LEMMA InMessage ==
    /\ Join \in Message /\ Gone \in Message
    /\ \A c \in Calls : /\ Request(c) \in Message /\ Error(c) \in Message
                        /\ \A i \in 1 .. Parts : Part(c, i) \in Message
<1>1. MaxCalls \in Nat /\ Parts \in Nat
  BY RelayAssumption
<1> QED
  BY <1>1 DEF Message, Join, Gone, Request, Error, Part, Calls

LEMMA CallsType ==
    ASSUME IInv
    PROVE  /\ calls \in Seq([client : Clients, key : Nat, callbackID : CallbackIDs])
           /\ Len(calls) \in 0 .. MaxCalls /\ DOMAIN calls = 1 .. Len(calls)
           /\ \A c \in DOMAIN calls : /\ c \in Calls /\ c \in Nat /\ Client(c) \in Clients
                                      /\ calls[c].key \in Nat /\ calls[c].callbackID \in CallbackIDs
<1>1. /\ calls \in Seq([client : Clients, key : Nat, callbackID : CallbackIDs])
      /\ MaxCalls \in Nat /\ Len(calls) \in Nat /\ Len(calls) <= MaxCalls
  BY RelayAssumption DEF IInv, TypeOK, StatusFits
<1>2. /\ DOMAIN calls = 1 .. Len(calls)
      /\ \A c \in DOMAIN calls : calls[c] \in [client : Clients, key : Nat, callbackID : CallbackIDs]
  <2> DEFINE Call == [client : Clients, key : Nat, callbackID : CallbackIDs]
  <2> HIDE DEF Call
  <2>1. calls \in Seq(Call)
    BY <1>1 DEF Call
  <2>2. DOMAIN calls = 1 .. Len(calls) /\ \A c \in DOMAIN calls : calls[c] \in Call
    BY <2>1
  <2> QED
    BY <2>2 DEF Call
<1>4. \A c \in 1 .. Len(calls) : c \in Calls /\ c \in Nat
  BY <1>1 DEF Calls
<1> QED
  BY <1>1, <1>2, <1>4 DEF Client

LEMMA QueuesType ==
    ASSUME IInv, NEW n \in Ends
    PROVE  inputQueue[n] \in Seq(Message) /\ up[n] \in Seq(Message) /\ down[n] \in Seq(Message)
  BY DEF IInv, TypeOK

LEMMA Held ==
    ASSUME NEW q, NEW S, Only(q, S), NEW m, Holds(q, m)
    PROVE  m \in S
  BY DEF Only, Holds

\* What the tracker takes from a client is a request of that client.
LEMMA RequestAtHead ==
    ASSUME IInv, NEW k \in Clients, up[k] # <<>>, Head(up[k]).type = "request"
    PROVE  \E c \in CallsOf(k) : /\ Head(up[k]) = Request(c) /\ Head(up[k]).call = c /\ Sent(c)
                                 /\ Reaches(k) => Current(c)
<1>1. k \in Ends /\ up[k] \in Seq(Message)
  BY QueuesType DEF Ends
<1>2. /\ Head(up[k]) \in {Join, Gone} \cup Requests(k) /\ Holds(up[k], Head(up[k]))
      /\ ~Holds(up[k], Gone) => Fresh(up[k], Head(up[k]))
  <2>1. Only(up[k], {Join, Gone} \cup Requests(k))
    BY DEF IInv, MessagesFit
  <2> QED
    BY <1>1, <2>1, Tails
<1>3. PICK c \in CallsOf(k) : Head(up[k]) = Request(c)
  BY <1>2, Kinds DEF Requests
<1>4. Reaches(k) => Request(c) \in CurrentRequests(k)
  BY <1>2, <1>3 DEF Reaches, IInv, MessagesFit, Requests
<1>5. Reaches(k) => Current(c)
  BY <1>4, Kinds DEF CurrentRequests
<1>6. Client(c) = k
  BY DEF CallsOf
<1> QED
  BY <1>2, <1>3, <1>5, <1>6, Kinds DEF Sent

\* What the tracker takes from the host is a part of an answer.
LEMMA PartAtHead ==
    ASSUME IInv, up[Host] # <<>>, Head(up[Host]).type = "part"
    PROVE  Head(up[Host]) \in Answers
<1>1. Host \in Ends /\ up[Host] \in Seq(Message)
  BY QueuesType DEF Ends
<1>2. Head(up[Host]) \in {Join, Gone} \cup Answers
  BY <1>1, Tails DEF IInv, MessagesFit
<1> QED
  BY <1>2, Kinds

\* What the host polls is a request, or the loss of its connection.
LEMMA HostsHead ==
    ASSUME IInv, down[Host] # <<>>
    PROVE  /\ Head(down[Host]).type = "request" =>
                \E c \in DOMAIN calls : /\ Head(down[Host]) = Request(c)
                                        /\ Head(down[Host]).call = c /\ Relayed(c)
           /\ Head(down[Host]).type = "gone" => Head(down[Host]) = Gone
<1>1. Host \in Ends /\ down[Host] \in Seq(Message)
  BY QueuesType DEF Ends
<1>2. Head(down[Host]) \in {Gone} \cup AllRequests /\ Holds(down[Host], Head(down[Host]))
  BY <1>1, Tails DEF IInv, MessagesFit
<1>3. CASE Head(down[Host]) = Gone
  BY <1>3, Kinds
<1>4. CASE Head(down[Host]) \in AllRequests
  <2>1. PICK c \in DOMAIN calls : Head(down[Host]) = Request(c)
    BY <1>4 DEF AllRequests
  <2> QED
    BY <1>2, <2>1, Kinds DEF Relayed
<1> QED
  BY <1>2, <1>3, <1>4

\* What a client polls is an error, a part, or the loss of its connection.
LEMMA ClientsHead ==
    ASSUME IInv, NEW k \in Clients, down[k] # <<>>
    PROVE  /\ Head(down[k]).type = "error" =>
                \E c \in CallsOf(k) : /\ Current(c) /\ Head(down[k]) = Error(c)
                                      /\ Head(down[k]).call = c /\ Refused(c)
           /\ Head(down[k]).type = "part" =>
                \E c \in DOMAIN calls : Head(down[k]).call = c /\ runs[c] = 1
           /\ Head(down[k]).type = "gone" <=> Head(down[k]) = Gone
<1>1. k \in Ends /\ down[k] \in Seq(Message)
  BY QueuesType DEF Ends
<1>2. /\ Head(down[k]) \in {Gone} \cup CurrentErrors(k) \cup Answers
      /\ Holds(down[k], Head(down[k]))
  <2>1. Only(down[k], {Gone} \cup CurrentErrors(k) \cup Answers)
    BY DEF IInv, MessagesFit
  <2> QED
    BY <1>1, <2>1, Tails
<1>3. CASE Head(down[k]) = Gone
  BY <1>3, Kinds
<1>4. CASE Head(down[k]) \in CurrentErrors(k)
  <2>1. PICK c \in CallsOf(k) : Current(c) /\ Head(down[k]) = Error(c)
    BY <1>4 DEF CurrentErrors
  <2>2. Client(c) = k
    BY DEF CallsOf
  <2> QED
    BY <1>2, <2>1, <2>2, Kinds DEF Refused
<1>5. CASE Head(down[k]) \in Answers
  <2>1. PICK c \in DOMAIN calls, i \in 1 .. Parts : runs[c] = 1 /\ Head(down[k]) = Part(c, i)
    BY <1>5 DEF Answers
  <2> QED
    BY <2>1, Kinds
<1> QED
  BY <1>2, <1>3, <1>4, <1>5

\* The call of every message was placed.
LEMMA CallsKnown ==
    ASSUME IInv, NEW n \in Ends, NEW m,
           Holds(inputQueue[n], m) \/ Holds(up[n], m) \/ Holds(down[n], m)
    PROVE  m.call \in DOMAIN calls \cup {0}
<1> DEFINE All == {Join, Gone} \cup AllRequests \cup {Error(c) : c \in DOMAIN calls} \cup Answers
<1>1. /\ \A k \in Clients : /\ Requests(k) \subseteq All /\ CurrentRequests(k) \subseteq All
                            /\ CurrentErrors(k) \subseteq All
      /\ Answers \subseteq All /\ Join \in All /\ Gone \in All /\ AllRequests \subseteq All
  BY DEF Requests, CurrentRequests, CurrentErrors, AllRequests, CallsOf
<1> HIDE DEF All
<1>2. m \in All
  <2>1. CASE n = Host
    <3>1. m \in Answers \/ m \in {Join, Gone} \cup Answers \/ m \in {Gone} \cup AllRequests
      BY <2>1, Held DEF IInv, MessagesFit
    <3> QED
      BY <1>1, <3>1
  <2>2. CASE n \in Clients
    <3>1. \/ m \in CurrentRequests(n) \/ m \in {Join, Gone} \cup Requests(n)
          \/ m \in {Gone} \cup CurrentErrors(n) \cup Answers
      BY <2>2, Held DEF IInv, MessagesFit
    <3> QED
      BY <1>1, <2>2, <3>1
  <2> QED
    BY <2>1, <2>2 DEF Ends
<1> QED
  BY <1>2, Kinds DEF All, AllRequests, Answers


-----------------------------------------------------------------------------
(***************************************************************************)
(* The call a callback stands for.                                         *)
(***************************************************************************)

\* Of the calls under one callbackID, that of the process that runs now is the
\* latest.
LEMMA CallOfIs ==
    ASSUME IInv, NEW k \in Clients, NEW c \in CallsOf(k), Current(c)
    PROVE  CallOf(k, calls[c].callbackID) = c
<1> DEFINE S == {d \in DOMAIN calls : calls[d].client = k
                                      /\ calls[d].callbackID = calls[c].callbackID}
<1>1. c \in DOMAIN calls /\ Client(c) = k
  BY DEF CallsOf
<1>2. S \in SUBSET Nat /\ c \in S
  BY <1>1, CallsType DEF Client
<1>3. ASSUME NEW d \in S PROVE d <= c
  <2>1. /\ d \in DOMAIN calls /\ d \in Nat /\ c \in Nat /\ Client(d) = k
        /\ calls[d].callbackID = calls[c].callbackID
        /\ calls[d].key \in Nat /\ calls[c].key \in Nat
        /\ calls[c].callbackID \in CallbackIDs
    BY <1>1, CallsType DEF Client
  <2>2. SUFFICES ASSUME c < d PROVE FALSE
    BY <2>1
  <2>3. calls[d].key <= key[k] /\ calls[c].key = key[k]
    BY <1>1, <2>1 DEF IInv, IdsGrow, Current
  <2>4. /\ calls[c].key <= calls[d].key
        /\ calls[c].key = calls[d].key => calls[c].callbackID < calls[d].callbackID
    BY <1>1, <2>1, <2>2 DEF IInv, IdsGrow
  <2>5. calls[c].key = calls[d].key
    BY <2>1, <2>3, <2>4
  <2>6. calls[c].callbackID \in Int
    BY <2>1 DEF CallbackIDs
  <2> QED
    BY <2>1, <2>4, <2>5, <2>6
<1> HIDE DEF S
<1>4. Max(S) = c
  BY <1>2, <1>3, MaxIs
<1> QED
  BY <1>4 DEF CallOf, S

\* The calls whose callbacks client k has registered.
Failing(k) == {CallOf(k, id) : id \in Waiting(k)}

LEMMA WaitingCall ==
    ASSUME IInv, NEW k \in Clients, NEW id \in Waiting(k)
    PROVE  \E c \in CallsOf(k) : /\ Current(c) /\ calls[c].callbackID = id
                                 /\ status[c] = "waiting" /\ CallOf(k, id) = c
<1>1. PICK c \in CallsOf(k) : Current(c) /\ calls[c].callbackID = id /\ status[c] = "waiting"
  BY DEF IInv, LiveWaits
<1>2. CallOf(k, calls[c].callbackID) = c
  BY <1>1, CallOfIs
<1> QED
  BY <1>1, <1>2

LEMMA FailingWaits ==
    ASSUME IInv, NEW k \in Clients, NEW c \in Failing(k)
    PROVE  c \in CallsOf(k) /\ Current(c) /\ status[c] = "waiting" /\ c \in Calls
<1>1. PICK id \in Waiting(k) : c = CallOf(k, id)
  BY DEF Failing
<1>2. c \in CallsOf(k) /\ Current(c) /\ status[c] = "waiting"
  BY <1>1, WaitingCall
<1>3. c \in DOMAIN calls
  BY <1>2 DEF CallsOf
<1> QED
  BY <1>2, <1>3, CallsType

-----------------------------------------------------------------------------
(***************************************************************************)
(* What a step does to the calls: nothing, place one, run one, call one    *)
(* callback or all of a client, leave an entry without a func, or take a   *)
(* client with all its callbacks.                                          *)
(***************************************************************************)
Kept == UNCHANGED <<calls, key, functionCallbackIDCounter>>
Quiet == Kept /\ UNCHANGED <<callbacksByID, status, answer, runs>>

RunsCall(c) ==
    /\ Kept /\ UNCHANGED <<callbacksByID, status, answer>>
    /\ c \in DOMAIN calls /\ Relayed(c) /\ ~Relayed(c)'
    /\ runs' = [runs EXCEPT ![c] = @ + 1]

CalledBack(k, c, result) ==
    /\ Kept /\ UNCHANGED runs
    /\ c \in CallsOf(k) /\ Current(c) /\ calls[c].callbackID \in Waiting(k)
    /\ \/ result = "refused" /\ Refused(c)
       \/ result = "ok" /\ runs[c] = 1
    /\ status' = [status EXCEPT ![c] = result]
    /\ answer' = [answer EXCEPT ![c] = c]
    /\ callbacksByID' = [callbacksByID EXCEPT ![k][calls[c].callbackID] = "absent"]

MadeNull(k, id) ==
    /\ Kept /\ UNCHANGED <<status, answer, runs>>
    /\ id \in CallbackIDs
    /\ callbacksByID' = [callbacksByID EXCEPT ![k][id] = IF @ = "absent" THEN "null" ELSE @]

ToldGone(k) ==
    /\ Kept /\ UNCHANGED <<answer, runs>>
    /\ \E failed \in SUBSET Failing(k) :
          status' = [c \in Calls |-> IF c \in failed THEN "failed" ELSE status[c]]
    /\ callbacksByID' = [callbacksByID EXCEPT ![k] = NoCallbacks]

Died(k) ==
    /\ UNCHANGED <<calls, answer, runs>>
    /\ \E failed \in SUBSET Failing(k) : Die(k, failed)

LEMMA CallBackSteps ==
    ASSUME IInv, NEW k \in Clients, NEW c \in CallsOf(k), Current(c), NEW result, NEW rest,
           (result = "refused" /\ Refused(c)) \/ (result = "ok" /\ runs[c] = 1),
           CallBack(k, calls[c].callbackID, result, c, rest), UNCHANGED <<calls, runs>>
    PROVE  Quiet \/ CalledBack(k, c, result) \/ Died(k)
<1> DEFINE id == calls[c].callbackID
<1>1. CallOf(k, id) = c
  BY CallOfIs
<1>2. id \in CallbackIDs
  BY CallsType DEF CallsOf
<1>3. CASE callbacksByID[k][id] = "null"
  <2>1. Die(k, {}) /\ UNCHANGED answer
    BY <1>3 DEF CallBack
  <2>2. {} \in SUBSET Failing(k)
    OBVIOUS
  <2> QED
    BY <2>1, <2>2 DEF Died
<1>4. CASE callbacksByID[k][id] = "live"
  <2>1. /\ status' = [status EXCEPT ![CallOf(k, id)] = result]
        /\ answer' = [answer EXCEPT ![CallOf(k, id)] = c]
        /\ callbacksByID' = [callbacksByID EXCEPT ![k][id] = "absent"]
        /\ UNCHANGED <<key, functionCallbackIDCounter>>
    BY <1>4 DEF CallBack
  <2>2. id \in Waiting(k)
    BY <1>2, <1>4 DEF Waiting
  <2> QED
    BY <1>1, <2>1, <2>2 DEF CalledBack, Kept
<1>5. CASE callbacksByID[k][id] \notin {"null", "live"}
  BY <1>5 DEF CallBack, Quiet, Kept
<1> QED
  BY <1>3, <1>4, <1>5

LEMMA ClientPollsSteps ==
    ASSUME IInv, NEW k \in Clients, ClientPolls(k)
    PROVE  \/ Quiet \/ ToldGone(k) \/ Died(k)
           \/ \E c \in CallsOf(k), result \in {"ok", "refused"} : CalledBack(k, c, result)
           \/ \E id \in CallbackIDs : MadeNull(k, id)
<1>1. CASE PollError(k)
  <2>1. down[k] # <<>> /\ Head(down[k]).type = "error"
    BY <1>1 DEF PollError, Polls
  <2>2. PICK c \in CallsOf(k) : Current(c) /\ Head(down[k]).call = c /\ Refused(c)
    BY <2>1, ClientsHead
  <2>3. CallBack(k, calls[c].callbackID, "refused", c, downloads) /\ UNCHANGED <<calls, runs>>
    BY <1>1, <2>2 DEF PollError
  <2>4. Quiet \/ CalledBack(k, c, "refused") \/ Died(k)
    BY <2>2, <2>3, CallBackSteps
  <2> QED
    BY <2>4
<1>2. CASE PollPart(k)
  <2>1. down[k] # <<>> /\ Head(down[k]).type = "part"
    BY <1>2 DEF PollPart, Polls
  <2>2. PICK c \in DOMAIN calls : Head(down[k]).call = c /\ runs[c] = 1
    BY <2>1, ClientsHead
  <2>3. CASE calls[c].client # k \/ calls[c].key # key[k]
    BY <1>2, <2>2, <2>3 DEF PollPart, Quiet, Kept, clientVars
  <2>4. CASE /\ calls[c].client = k /\ calls[c].key = key[k]
             /\ downloads[k][c] + 1 >= Parts
    <3>1. CallBack(k, calls[c].callbackID, "ok", c, [downloads EXCEPT ![k][c] = 0])
          /\ UNCHANGED <<calls, runs>>
      BY <1>2, <2>2, <2>4 DEF PollPart
    <3>2. c \in CallsOf(k) /\ Current(c)
      BY <2>4 DEF CallsOf, Client, Current
    <3>3. Quiet \/ CalledBack(k, c, "ok") \/ Died(k)
      BY <2>2, <3>1, <3>2, CallBackSteps
    <3> QED
      BY <3>2, <3>3
  <2>5. CASE /\ calls[c].client = k /\ calls[c].key = key[k]
             /\ ~(downloads[k][c] + 1 >= Parts)
    <3>1. /\ callbacksByID' = [callbacksByID EXCEPT
                 ![k][calls[c].callbackID] = IF @ = "absent" THEN "null" ELSE @]
          /\ UNCHANGED <<status, answer, key, functionCallbackIDCounter, calls, runs>>
      BY <1>2, <2>2, <2>5 DEF PollPart
    <3>2. calls[c].callbackID \in CallbackIDs
      BY CallsType
    <3> QED
      BY <3>1, <3>2 DEF MadeNull, Kept
  <2> QED
    BY <2>3, <2>4, <2>5
<1>3. CASE PollGone(k)
  <2> DEFINE nulls  == {id \in CallbackIDs : callbacksByID[k][id] = "null"}
             failed == {CallOf(k, id) : id \in {i \in Waiting(k) : \A n \in nulls : i < n}}
  <2>1. failed \in SUBSET Failing(k)
    BY DEF Failing
  <2>2. CASE nulls # {}
    <3>1. Die(k, failed) /\ UNCHANGED <<calls, answer, runs>>
      BY <1>3, <2>2 DEF PollGone
    <3> QED
      BY <2>1, <3>1 DEF Died
  <2>3. CASE nulls = {}
    <3>1. /\ status' = [c \in Calls |-> IF c \in failed THEN "failed" ELSE status[c]]
          /\ callbacksByID' = [callbacksByID EXCEPT ![k] = NoCallbacks]
          /\ UNCHANGED <<calls, answer, runs, key, functionCallbackIDCounter>>
      BY <1>3, <2>3 DEF PollGone, AfterDisconnect
    <3> QED
      BY <2>1, <3>1 DEF ToldGone, Kept
  <2> QED
    BY <2>2, <2>3
<1> QED
  BY <1>1, <1>2, <1>3 DEF ClientPolls

\* The host's request leaves its queue as it runs it.
LEMMA ProcessGetSteps ==
    ASSUME IInv, ProcessGetRequest
    PROVE  /\ Quiet \/ \E c \in DOMAIN calls : RunsCall(c)
           /\ \E c \in DOMAIN calls : Relayed(c) /\ ~Relayed(c)' /\ Head(down[Host]).call = c
<1>1. down[Host] # <<>> /\ Head(down[Host]).type = "request"
  BY DEF ProcessGetRequest, Polls
<1>2. PICK c \in DOMAIN calls : /\ Head(down[Host]) = Request(c)
                                /\ Head(down[Host]).call = c /\ Relayed(c)
  BY <1>1, HostsHead
<1>3. Host \in Ends /\ down[Host] \in Seq(Message) /\ Once(down[Host])
  BY QueuesType DEF Ends, IInv, RequestOnce
<1>4. down'[Host] = Tail(down[Host])
  BY <1>3 DEF ProcessGetRequest, IInv, TypeOK
<1>5. ~Holds(Tail(down[Host]), Head(down[Host]))
  BY <1>1, <1>3, Tails
<1>6. ~Relayed(c)'
  BY <1>2, <1>4, <1>5 DEF Relayed, Request
<1>7. Quiet \/ RunsCall(c)
  BY <1>2, <1>6 DEF ProcessGetRequest, Quiet, RunsCall, Kept, clientVars
<1> QED
  BY <1>2, <1>6, <1>7

LEMMA Steps ==
    ASSUME IInv, Next
    PROVE  \/ Quiet
           \/ \E c \in DOMAIN calls : RunsCall(c)
           \/ \E k \in Clients :
                 \/ CallRemoteHostFunction(k) \/ ToldGone(k) \/ Died(k)
                 \/ \E c \in CallsOf(k), result \in {"ok", "refused"} : CalledBack(k, c, result)
                 \/ \E id \in CallbackIDs : MadeNull(k, id)
<1>1. ASSUME NEW n \in Ends,
             NetSends(n) \/ Lose(n) \/ Reconnect(n) \/ TrackerAddsOrRemoves(n)
      PROVE  Quiet
  BY <1>1 DEF NetSends, Lose, Reconnect, TrackerAddsOrRemoves, Quiet, Kept, clientVars, historyVars
<1>2. ASSUME NEW k \in Clients, Restart(k)
      PROVE  Died(k)
  <2>1. {} \in SUBSET Failing(k)
    OBVIOUS
  <2> QED
    BY <1>2, <2>1 DEF Restart, Died
<1>3. ASSUME NEW k \in Clients, RelayRequest(k)
      PROVE  Quiet
  BY <1>3 DEF RelayRequest, Quiet, Kept, clientVars
<1>4. ASSUME HostSetsGet \/ HostPollsGone \/ HostRestart \/ RelayAnswer \/ TrackerRestart
             \/ \E c \in Calls : HostAnswers(c)
      PROVE  Quiet
  BY <1>4 DEF HostSetsGet, HostPollsGone, HostRestart, RelayAnswer, TrackerRestart, HostAnswers,
              Quiet, Kept, clientVars, historyVars
<1> QED
  BY <1>1, <1>2, <1>3, <1>4, ClientPollsSteps, ProcessGetSteps DEF Next, HostPolls

-----------------------------------------------------------------------------
(***************************************************************************)
(* The parts of the invariant that are about the calls alone.              *)
(***************************************************************************)
LEMMA PlacedCall ==
    ASSUME IInv, NEW k \in Clients, CallRemoteHostFunction(k)
    PROVE  \E c \in Calls :
           /\ c = Len(calls) + 1 /\ c \notin DOMAIN calls /\ DOMAIN calls' = DOMAIN calls \cup {c}
           /\ functionCallbackIDCounter[k] \in CallbackIDs
           /\ calls' \in Seq([client : Clients, key : Nat, callbackID : CallbackIDs])
           /\ calls'[c].client = k /\ calls'[c].key = key[k]
           /\ calls'[c].callbackID = functionCallbackIDCounter[k]
           /\ \A d \in DOMAIN calls : calls'[d] = calls[d] /\ d < c
           /\ Len(calls') = Len(calls) + 1
<1> DEFINE c == Len(calls) + 1
           r == [client |-> k, key |-> key[k], callbackID |-> functionCallbackIDCounter[k]]
           R == [client : Clients, key : Nat, callbackID : CallbackIDs]
<1>1. /\ Len(calls) \in 0 .. MaxCalls - 1 /\ DOMAIN calls = 1 .. Len(calls) /\ MaxCalls \in Nat
      /\ calls \in Seq(R) /\ calls' = Append(calls, r)
  BY CallsType, RelayAssumption DEF CallRemoteHostFunction
<1>2. functionCallbackIDCounter[k] \in CallbackIDs
  BY <1>1 DEF IInv, IdsGrow, TypeOK, CallbackIDs
<1>3. r \in R /\ r.client = k /\ r.key = key[k] /\ r.callbackID = functionCallbackIDCounter[k]
  BY <1>2 DEF IInv, TypeOK
<1> HIDE DEF r, R
<1>4. /\ calls' \in Seq(R) /\ Len(calls') = Len(calls) + 1 /\ DOMAIN calls' = 1 .. Len(calls) + 1
      /\ calls'[c] = r /\ \A d \in 1 .. Len(calls) : calls'[d] = calls[d]
  BY <1>1, <1>3
<1>5. /\ c \in Calls /\ c \notin DOMAIN calls /\ DOMAIN calls' = DOMAIN calls \cup {c}
      /\ \A d \in DOMAIN calls : d < c
  BY <1>1, <1>4 DEF Calls
<1> QED
  BY <1>1, <1>2, <1>3, <1>4, <1>5 DEF R

LEMMA IdsStep ==
    ASSUME IInv, Next
    PROVE  IdsGrow'
<1>1. CASE Kept
  BY <1>1 DEF Kept, IInv, IdsGrow, Client, Current
<1>2. ASSUME NEW k \in Clients, CallRemoteHostFunction(k)
      PROVE  IdsGrow'
  <2>1. PICK new \in Calls :
           /\ new = Len(calls) + 1 /\ new \notin DOMAIN calls
           /\ DOMAIN calls' = DOMAIN calls \cup {new}
           /\ functionCallbackIDCounter[k] \in CallbackIDs
           /\ calls' \in Seq([client : Clients, key : Nat, callbackID : CallbackIDs])
           /\ calls'[new].client = k /\ calls'[new].key = key[k]
           /\ calls'[new].callbackID = functionCallbackIDCounter[k]
           /\ \A d \in DOMAIN calls : calls'[d] = calls[d] /\ d < new
           /\ Len(calls') = Len(calls) + 1
    BY <1>2, PlacedCall
  <2>2. key' = key
        /\ functionCallbackIDCounter' = [functionCallbackIDCounter EXCEPT ![k] = @ + 1]
    BY <1>2 DEF CallRemoteHostFunction
  <2>3. /\ functionCallbackIDCounter \in [Clients -> 0 .. MaxCalls] /\ key \in [Clients -> Nat]
        /\ MaxCalls \in Nat /\ Len(calls) \in Nat
    <3>1. Len(calls) \in Nat
      BY CallsType
    <3> QED
      BY <3>1, RelayAssumption DEF IInv, TypeOK
  <2>4. /\ functionCallbackIDCounter'[k] = functionCallbackIDCounter[k] + 1
        /\ \A x \in Clients : x # k => functionCallbackIDCounter'[x] = functionCallbackIDCounter[x]
    BY <2>2, <2>3
  <2>5. \A d \in DOMAIN calls : /\ d \in Nat /\ Client(d) \in Clients /\ calls[d].key \in Nat
                                /\ calls[d].callbackID \in Nat
    BY CallsType DEF CallbackIDs
  <2>6. \A d \in DOMAIN calls : Client(d)' = Client(d) /\ (Current(d)' <=> Current(d))
    BY <2>1, <2>2 DEF Client, Current
  <2>7. Client(new)' = k
    BY <2>1 DEF Client
  <2>8. /\ \A c, d \in DOMAIN calls :
              c < d /\ Client(c) = Client(d) =>
                 /\ calls[c].key <= calls[d].key
                 /\ calls[c].key = calls[d].key => calls[c].callbackID < calls[d].callbackID
        /\ \A c \in DOMAIN calls :
              /\ calls[c].key <= key[Client(c)]
              /\ Current(c) => calls[c].callbackID < functionCallbackIDCounter[Client(c)]
        /\ \A x \in Clients : functionCallbackIDCounter[x] <= Len(calls)
    BY DEF IInv, IdsGrow
  <2>9. ASSUME NEW c \in DOMAIN calls', NEW d \in DOMAIN calls', c < d, Client(c)' = Client(d)'
        PROVE  /\ calls'[c].key <= calls'[d].key
               /\ calls'[c].key = calls'[d].key => calls'[c].callbackID < calls'[d].callbackID
    <3>1. c \in DOMAIN calls
      BY <2>1, <2>5, <2>9
    <3>2. CASE d \in DOMAIN calls
      BY <2>1, <2>6, <2>8, <2>9, <3>1, <3>2
    <3>3. CASE d = new
      <4>1. Client(c) = k /\ calls'[c] = calls[c]
        BY <2>1, <2>6, <2>7, <2>9, <3>1, <3>3
      <4>2. /\ calls[c].key <= key[k]
            /\ calls[c].key = key[k] => calls[c].callbackID < functionCallbackIDCounter[k]
        BY <2>8, <3>1, <4>1 DEF Current
      <4> QED
        BY <2>1, <3>3, <4>1, <4>2
    <3> QED
      BY <2>1, <3>2, <3>3
  <2>10. ASSUME NEW c \in DOMAIN calls'
         PROVE  /\ calls'[c].key <= key'[Client(c)']
                /\ Current(c)' => calls'[c].callbackID < functionCallbackIDCounter'[Client(c)']
    <3>1. CASE c \in DOMAIN calls
      <4>1. /\ calls[c].key <= key[Client(c)]
            /\ Current(c) => calls[c].callbackID < functionCallbackIDCounter[Client(c)]
        BY <2>8, <3>1
      <4>2. calls'[c] = calls[c]
        BY <2>1, <3>1
      <4>3. Client(c)' = Client(c) /\ (Current(c)' => Current(c))
        BY <2>6, <3>1
      <4>4. functionCallbackIDCounter[Client(c)] \in Nat /\ calls[c].callbackID \in Nat
            /\ functionCallbackIDCounter[Client(c)] <= functionCallbackIDCounter'[Client(c)]
        BY <2>3, <2>4, <2>5, <3>1
      <4>5. functionCallbackIDCounter'[Client(c)] \in Nat
        BY <2>3, <2>4, <2>5, <3>1
      <4> QED
        BY <2>2, <4>1, <4>2, <4>3, <4>4, <4>5
    <3>2. CASE c = new
      <4>1. key[k] \in Nat /\ functionCallbackIDCounter[k] \in Nat
        BY <2>3
      <4> QED
        BY <2>1, <2>2, <2>4, <2>7, <3>2, <4>1
    <3> QED
      BY <2>1, <3>1, <3>2
  <2>11. \A x \in Clients : functionCallbackIDCounter'[x] <= Len(calls')
    <3>1. /\ Len(calls') = Len(calls) + 1
          /\ \A x \in Clients : functionCallbackIDCounter[x] <= Len(calls)
      BY <2>1, <2>8
    <3> QED
      BY <2>3, <2>4, <3>1
  <2> QED
    BY <2>9, <2>10, <2>11 DEF IdsGrow
<1>3. ASSUME NEW k \in Clients, Died(k)
      PROVE  IdsGrow'
  <2>1. /\ calls' = calls /\ key' = [key EXCEPT ![k] = @ + 1]
        /\ functionCallbackIDCounter' = [functionCallbackIDCounter EXCEPT ![k] = 0]
    BY <1>3 DEF Died, Die, NewKey
  <2>2. functionCallbackIDCounter \in [Clients -> 0 .. MaxCalls] /\ key \in [Clients -> Nat]
    BY DEF IInv, TypeOK
  <2>3. /\ key'[k] = key[k] + 1 /\ functionCallbackIDCounter'[k] = 0
        /\ \A x \in Clients : x # k => /\ key'[x] = key[x]
                                       /\ functionCallbackIDCounter'[x] = functionCallbackIDCounter[x]
    BY <2>1, <2>2
  <2>4. \A c \in DOMAIN calls : Client(c)' = Client(c) /\ Client(c) \in Clients /\ calls[c].key \in Nat
    BY <2>1, CallsType DEF Client
  <2>5. ASSUME NEW c \in DOMAIN calls
        PROVE  /\ calls[c].key <= key'[Client(c)]
               /\ Current(c)' => calls[c].callbackID < functionCallbackIDCounter'[Client(c)]
    <3>1. /\ calls[c].key <= key[Client(c)]
          /\ Current(c) => calls[c].callbackID < functionCallbackIDCounter[Client(c)]
      BY DEF IInv, IdsGrow
    <3>2. CASE Client(c) = k
      <4>1. key[k] \in Nat /\ calls[c].key < key'[k]
        BY <2>2, <2>3, <2>4, <3>1, <3>2
      <4> QED
        BY <2>1, <2>2, <2>3, <2>4, <3>2, <4>1 DEF Current
    <3>3. CASE Client(c) # k
      BY <2>1, <2>3, <2>4, <3>1, <3>3 DEF Current
    <3> QED
      BY <3>2, <3>3
  <2>6. \A x \in Clients : functionCallbackIDCounter'[x] <= Len(calls)
    <3>1. \A x \in Clients : functionCallbackIDCounter[x] <= Len(calls)
      BY DEF IInv, IdsGrow
    <3>2. Len(calls) \in Nat
      BY CallsType
    <3> QED
      BY <2>3, <3>1, <3>2
  <2>7. \A c, d \in DOMAIN calls :
              c < d /\ Client(c) = Client(d) =>
                 /\ calls[c].key <= calls[d].key
                 /\ calls[c].key = calls[d].key => calls[c].callbackID < calls[d].callbackID
    BY DEF IInv, IdsGrow
  <2> QED
    BY <2>1, <2>4, <2>5, <2>6, <2>7 DEF IdsGrow
<1> QED
  BY <1>1, <1>2, <1>3, Steps DEF Quiet, RunsCall, ToldGone, CalledBack, MadeNull

\* The host runs a call that it has not run.
LEMMA RunsOnce ==
    ASSUME IInv, NEW c \in DOMAIN calls, RunsCall(c)
    PROVE  /\ c \in Calls /\ runs[c] = 0 /\ runs'[c] = 1 /\ status[c] \notin {"unplaced", "ok", "refused"}
           /\ \A d \in Calls : d # c => runs'[d] = runs[d]
           /\ runs' = [runs EXCEPT ![c] = 1] /\ runs' \in [Calls -> 0 .. 1]
<1>1. c \in Calls
  BY CallsType
<1>2. OneStage(c) /\ Relayed(c)
  BY DEF IInv, RequestOnce, RunsCall
<1>3. runs[c] = 0 /\ ~Refused(c)
  BY <1>2 DEF OneStage
<1>4. status[c] \notin {"unplaced", "ok", "refused"}
  BY <1>3 DEF IInv, StatusFits, Refused
<1>5. runs \in [Calls -> 0 .. 1] /\ runs' = [runs EXCEPT ![c] = @ + 1]
  BY DEF IInv, TypeOK, RunsCall
<1>6. runs' = [runs EXCEPT ![c] = 1]
  BY <1>1, <1>3, <1>5
<1> QED
  BY <1>1, <1>3, <1>4, <1>5, <1>6

\* What the host has to answer it has run.
LEMMA AnsweringStep ==
    ASSUME IInv, Next, NEW c \in answering'
    PROVE  c \in DOMAIN calls /\ c \in Calls /\ runs'[c] = 1
<1>1. \A d \in answering : d \in DOMAIN calls /\ runs[d] = 1
  BY DEF IInv, StatusFits
<1>2. \A d \in DOMAIN calls : d \in Calls
  BY CallsType
<1>3. CASE ProcessGetRequest
  <2>1. PICK d \in DOMAIN calls : Relayed(d) /\ ~Relayed(d)' /\ Head(down[Host]).call = d
    BY <1>3, ProcessGetSteps
  <2>2. OneStage(d) /\ runs \in [Calls -> 0 .. 1]
    BY DEF IInv, RequestOnce, TypeOK
  <2>3. runs[d] = 0
    BY <2>1, <2>2 DEF OneStage
  <2>4. \/ runs' = [runs EXCEPT ![d] = @ + 1] /\ answering' = answering \cup {d}
        \/ runs' = runs /\ answering' = answering
    BY <1>3, <2>1 DEF ProcessGetRequest
  <2>5. \/ runs'[d] = 1 /\ (\A x \in Calls : x # d => runs'[x] = runs[x])
           /\ answering' = answering \cup {d}
        \/ runs' = runs /\ answering' = answering
    BY <1>2, <2>2, <2>3, <2>4
  <2> QED
    BY <1>1, <1>2, <2>1, <2>5
<1>4. CASE ~ProcessGetRequest
  <2>1. answering' \subseteq answering /\ runs' = runs
    <3>1. ASSUME NEW n \in Ends,
                 NetSends(n) \/ Lose(n) \/ Reconnect(n) \/ TrackerAddsOrRemoves(n)
          PROVE  UNCHANGED <<answering, runs>>
      BY <3>1 DEF NetSends, Lose, Reconnect, TrackerAddsOrRemoves, hostVars, historyVars
    <3>2. ASSUME NEW k \in Clients, CallRemoteHostFunction(k) \/ RelayRequest(k)
          PROVE  UNCHANGED <<answering, runs>>
      BY <3>2 DEF CallRemoteHostFunction, RelayRequest, hostVars
    <3>3. ASSUME NEW k \in Clients, Restart(k) \/ ClientPolls(k)
          PROVE  UNCHANGED <<answering, runs>>
      BY <3>3 DEF Restart, ClientPolls, PollError, PollPart, PollGone, hostVars
    <3>4. ASSUME HostSetsGet \/ HostPollsGone \/ HostRestart \/ RelayAnswer \/ TrackerRestart
                 \/ \E d \in Calls : HostAnswers(d)
          PROVE  answering' \subseteq answering /\ runs' = runs
      BY <3>4 DEF HostSetsGet, HostPollsGone, HostRestart, RelayAnswer, TrackerRestart,
                  HostAnswers, hostVars, historyVars
    <3> QED
      BY <1>4, <3>1, <3>2, <3>3, <3>4 DEF Next, HostPolls
  <2> QED
    BY <1>1, <1>2, <2>1
<1> QED
  BY <1>3, <1>4

LEMMA StatusStep ==
    ASSUME IInv, Next
    PROVE  StatusFits'
<1>1. /\ Len(calls) <= MaxCalls
      /\ \A c \in Calls \ DOMAIN calls : status[c] = "unplaced" /\ runs[c] = 0
      /\ \A c \in DOMAIN calls : status[c] # "unplaced" /\ (status[c] = "ok" => runs[c] = 1)
  BY DEF IInv, StatusFits
<1>2. /\ runs \in [Calls -> 0 .. 1]
      /\ status \in [Calls -> {"unplaced", "waiting", "ok", "refused", "failed", "lost"}]
  BY DEF IInv, TypeOK
<1>3. \A c \in DOMAIN calls : c \in Calls
  BY CallsType
<1>4. SUFFICES /\ Len(calls') <= MaxCalls
               /\ \A c \in Calls \ DOMAIN calls' : status'[c] = "unplaced" /\ runs'[c] = 0
               /\ \A c \in DOMAIN calls' : status'[c] # "unplaced"
                                           /\ (status'[c] = "ok" => runs'[c] = 1)
               /\ DOMAIN calls \subseteq DOMAIN calls'
  BY AnsweringStep DEF StatusFits
<1>5. CASE Quiet
  BY <1>1, <1>5 DEF Quiet, Kept
<1>6. ASSUME NEW c \in DOMAIN calls, RunsCall(c)
      PROVE  calls' = calls /\ status' = status /\ runs'[c] = 1
             /\ \A d \in Calls : d # c => runs'[d] = runs[d]
  BY <1>6, RunsOnce DEF RunsCall, Kept
<1>7. ASSUME NEW c \in DOMAIN calls, RunsCall(c)
      PROVE  /\ Len(calls') <= MaxCalls
             /\ \A d \in Calls \ DOMAIN calls' : status'[d] = "unplaced" /\ runs'[d] = 0
             /\ \A d \in DOMAIN calls' : status'[d] # "unplaced"
                                         /\ (status'[d] = "ok" => runs'[d] = 1)
             /\ DOMAIN calls \subseteq DOMAIN calls'
  BY <1>1, <1>3, <1>6, <1>7
<1>8. ASSUME NEW k \in Clients, CallRemoteHostFunction(k)
      PROVE  /\ Len(calls') <= MaxCalls
             /\ \A d \in Calls \ DOMAIN calls' : status'[d] = "unplaced" /\ runs'[d] = 0
             /\ \A d \in DOMAIN calls' : status'[d] # "unplaced"
                                         /\ (status'[d] = "ok" => runs'[d] = 1)
             /\ DOMAIN calls \subseteq DOMAIN calls'
  <2>1. PICK c \in Calls : c = Len(calls) + 1 /\ DOMAIN calls' = DOMAIN calls \cup {c}
                           /\ c \notin DOMAIN calls /\ Len(calls') = Len(calls) + 1
    BY <1>8, PlacedCall
  <2>2. status' = [status EXCEPT ![c] = "waiting"] /\ runs' = runs /\ Len(calls) < MaxCalls
    BY <1>8, <2>1 DEF CallRemoteHostFunction
  <2>3. status'[c] = "waiting" /\ \A d \in Calls : d # c => status'[d] = status[d]
    BY <1>2, <2>2
  <2>4. Len(calls) \in Nat /\ MaxCalls \in Nat
    BY CallsType, RelayAssumption
  <2> QED
    BY <1>1, <1>3, <2>1, <2>2, <2>3, <2>4
<1>9. ASSUME NEW k \in Clients, ToldGone(k) \/ Died(k)
      PROVE  calls' = calls /\ runs' = runs
             /\ \A c \in Calls : status'[c] = status[c]
                                 \/ (c \in DOMAIN calls /\ status'[c] \in {"failed", "lost"})
  <2>1. \A c \in Failing(k) : c \in DOMAIN calls
    BY FailingWaits DEF CallsOf
  <2>2. CASE ToldGone(k)
    BY <2>1, <2>2 DEF ToldGone, Kept
  <2>3. CASE Died(k)
    <3>1. PICK failed \in SUBSET Failing(k) : Die(k, failed)
      BY <2>3 DEF Died
    <3>2. \A c \in Calls : (\E id \in Waiting(k) : c = CallOf(k, id)) => c \in DOMAIN calls
      BY <2>1 DEF Failing
    <3>3. status' = [c \in Calls |->
              IF c \in failed THEN "failed"
              ELSE IF \E id \in Waiting(k) : c = CallOf(k, id) THEN "lost"
              ELSE status[c]]
      BY <3>1 DEF Die
    <3> QED
      BY <2>1, <2>3, <3>2, <3>3 DEF Died
  <2> QED
    BY <1>9, <2>2, <2>3
<1>10. ASSUME NEW k \in Clients, ToldGone(k) \/ Died(k)
      PROVE  /\ Len(calls') <= MaxCalls
             /\ \A d \in Calls \ DOMAIN calls' : status'[d] = "unplaced" /\ runs'[d] = 0
             /\ \A d \in DOMAIN calls' : status'[d] # "unplaced"
                                         /\ (status'[d] = "ok" => runs'[d] = 1)
             /\ DOMAIN calls \subseteq DOMAIN calls'
  <2>1. /\ calls' = calls /\ runs' = runs
        /\ \A c \in Calls : status'[c] = status[c]
                            \/ (c \in DOMAIN calls /\ status'[c] \in {"failed", "lost"})
    BY <1>9, <1>10
  <2> QED
    BY <1>1, <1>3, <2>1
<1>11. ASSUME NEW k \in Clients, NEW c \in CallsOf(k), NEW result \in {"ok", "refused"},
              CalledBack(k, c, result)
      PROVE  /\ Len(calls') <= MaxCalls
             /\ \A d \in Calls \ DOMAIN calls' : status'[d] = "unplaced" /\ runs'[d] = 0
             /\ \A d \in DOMAIN calls' : status'[d] # "unplaced"
                                         /\ (status'[d] = "ok" => runs'[d] = 1)
             /\ DOMAIN calls \subseteq DOMAIN calls'
  <2>1. c \in DOMAIN calls /\ c \in Calls
    BY <1>3 DEF CallsOf
  <2>2. /\ calls' = calls /\ runs' = runs /\ status' = [status EXCEPT ![c] = result]
        /\ result = "ok" => runs[c] = 1
    BY <1>11 DEF CalledBack, Kept
  <2>3. status'[c] = result /\ \A d \in Calls : d # c => status'[d] = status[d]
    BY <1>2, <2>1, <2>2
  <2> QED
    BY <1>1, <1>3, <2>1, <2>2, <2>3
<1>12. ASSUME NEW k \in Clients, NEW id \in CallbackIDs, MadeNull(k, id)
      PROVE  calls' = calls /\ status' = status /\ runs' = runs
  BY <1>12 DEF MadeNull, Kept
<1> QED
  BY <1>1, <1>5, <1>7, <1>8, <1>10, <1>11, <1>12, Steps

\* A callback that remains registered is that of the same call, which waits.
LEMMA LiveStep ==
    ASSUME IInv, Next
    PROVE  LiveWaits'
<1>1. SUFFICES ASSUME NEW k \in Clients, NEW id \in Waiting(k)'
               PROVE  \E c \in CallsOf(k)' : Current(c)' /\ calls'[c].callbackID = id
                                             /\ status'[c] = "waiting"
  BY DEF LiveWaits
<1>2. id \in CallbackIDs /\ callbacksByID'[k][id] = "live"
  BY DEF Waiting
<1>3. /\ callbacksByID \in [Clients -> [CallbackIDs -> {"absent", "live", "null"}]]
      /\ status \in [Calls -> {"unplaced", "waiting", "ok", "refused", "failed", "lost"}]
  BY DEF IInv, TypeOK
<1>4. \A c \in DOMAIN calls : c \in Calls
  BY CallsType
<1> DEFINE Goal == \E c \in CallsOf(k)' : Current(c)' /\ calls'[c].callbackID = id
                                          /\ status'[c] = "waiting"
<1>5. ASSUME Kept, id \in Waiting(k),
             \A c \in CallsOf(k) : status[c] = "waiting" /\ calls[c].callbackID = id => status'[c] = "waiting"
      PROVE  Goal
  <2>1. PICK c \in CallsOf(k) : Current(c) /\ calls[c].callbackID = id /\ status[c] = "waiting"
    BY <1>5, WaitingCall
  <2>2. c \in CallsOf(k)' /\ Current(c)' /\ calls'[c].callbackID = id /\ status'[c] = "waiting"
    BY <1>5, <2>1 DEF Kept, CallsOf, Client, Current
  <2> QED
    BY <2>2
<1>6. ASSUME Quiet \/ \E c \in DOMAIN calls : RunsCall(c)
      PROVE  Goal
  <2>1. Kept /\ callbacksByID' = callbacksByID /\ status' = status
    BY <1>6 DEF Quiet, RunsCall
  <2>2. id \in Waiting(k)
    BY <1>2, <2>1 DEF Waiting
  <2> QED
    BY <1>5, <2>1, <2>2
<1>7. ASSUME NEW x \in Clients, CallRemoteHostFunction(x)
      PROVE  Goal
  <2>1. PICK new \in Calls :
           /\ new = Len(calls) + 1 /\ new \notin DOMAIN calls
           /\ DOMAIN calls' = DOMAIN calls \cup {new}
           /\ functionCallbackIDCounter[x] \in CallbackIDs
           /\ calls' \in Seq([client : Clients, key : Nat, callbackID : CallbackIDs])
           /\ calls'[new].client = x /\ calls'[new].key = key[x]
           /\ calls'[new].callbackID = functionCallbackIDCounter[x]
           /\ \A d \in DOMAIN calls : calls'[d] = calls[d] /\ d < new
           /\ Len(calls') = Len(calls) + 1
    BY <1>7, PlacedCall
  <2>2. /\ key' = key /\ status' = [status EXCEPT ![new] = "waiting"]
        /\ callbacksByID' = [callbacksByID EXCEPT ![x][functionCallbackIDCounter[x]] = "live"]
    BY <1>7, <2>1 DEF CallRemoteHostFunction
  <2>3. status'[new] = "waiting" /\ \A d \in Calls : d # new => status'[d] = status[d]
    BY <1>3, <2>2
  <2>4. CASE k = x /\ id = functionCallbackIDCounter[x]
    <3>1. new \in CallsOf(k)' /\ Current(new)'
      BY <2>1, <2>2, <2>4 DEF CallsOf, Client, Current
    <3> QED
      BY <2>1, <2>3, <2>4, <3>1
  <2>5. CASE ~(k = x /\ id = functionCallbackIDCounter[x])
    <3>1. callbacksByID'[k][id] = callbacksByID[k][id]
      BY <1>2, <1>3, <2>1, <2>2, <2>5
    <3>2. id \in Waiting(k)
      BY <1>2, <3>1 DEF Waiting
    <3>3. PICK c \in CallsOf(k) : Current(c) /\ calls[c].callbackID = id /\ status[c] = "waiting"
      BY <3>2, WaitingCall
    <3>4. c \in DOMAIN calls /\ c \in Calls /\ c # new /\ calls'[c] = calls[c] /\ c \in DOMAIN calls'
      BY <1>4, <2>1 DEF CallsOf
    <3>5. c \in CallsOf(k)' /\ Current(c)'
      BY <2>2, <3>3, <3>4 DEF CallsOf, Client, Current
    <3> QED
      BY <2>3, <3>3, <3>4, <3>5
  <2> QED
    BY <2>4, <2>5
<1>8. ASSUME NEW x \in Clients, ToldGone(x)
      PROVE  Goal
  <2>1. Kept /\ callbacksByID' = [callbacksByID EXCEPT ![x] = NoCallbacks]
    BY <1>8 DEF ToldGone
  <2>2. k # x
    BY <1>2, <1>3, <2>1 DEF NoCallbacks
  <2>3. id \in Waiting(k)
    BY <1>2, <1>3, <2>1, <2>2 DEF Waiting
  <2>4. \A c \in Failing(x) : c \notin CallsOf(k)
    BY <2>2, FailingWaits DEF CallsOf
  <2>5. \A c \in CallsOf(k) : c \in Calls
    BY <1>4 DEF CallsOf
  <2>6. \A c \in CallsOf(k) : status'[c] = status[c]
    BY <1>8, <2>4, <2>5 DEF ToldGone
  <2> QED
    BY <1>5, <2>1, <2>3, <2>6
<1>9. ASSUME NEW x \in Clients, Died(x)
      PROVE  Goal
  <2>1. PICK failed \in SUBSET Failing(x) : Die(x, failed)
    BY <1>9 DEF Died
  <2>2. /\ callbacksByID' = [callbacksByID EXCEPT ![x] = NoCallbacks] /\ calls' = calls
        /\ key' = [key EXCEPT ![x] = @ + 1]
        /\ status' = [c \in Calls |->
              IF c \in failed THEN "failed"
              ELSE IF \E i \in Waiting(x) : c = CallOf(x, i) THEN "lost"
              ELSE status[c]]
    BY <1>9, <2>1 DEF Die, Died, NewKey
  <2>3. k # x
    BY <1>2, <1>3, <2>2 DEF NoCallbacks
  <2>4. id \in Waiting(k)
    BY <1>2, <1>3, <2>2, <2>3 DEF Waiting
  <2>5. \A c \in Failing(x) : c \notin CallsOf(k)
    BY <2>3, FailingWaits DEF CallsOf
  <2>6. PICK c \in CallsOf(k) : Current(c) /\ calls[c].callbackID = id /\ status[c] = "waiting"
    BY <2>4, WaitingCall
  <2>7. c \in DOMAIN calls /\ c \in Calls /\ Client(c) = k /\ c \notin Failing(x)
    BY <1>4, <2>5 DEF CallsOf
  <2>8. status'[c] = "waiting"
    BY <2>2, <2>6, <2>7 DEF Failing
  <2>9. key'[k] = key[k]
    BY <2>2, <2>3 DEF IInv, TypeOK
  <2>10. c \in CallsOf(k)' /\ Current(c)' /\ calls'[c].callbackID = id
    BY <2>2, <2>6, <2>7, <2>9 DEF CallsOf, Client, Current
  <2> QED
    BY <2>8, <2>10
<1>10. ASSUME NEW x \in Clients, NEW c \in CallsOf(x), NEW result \in {"ok", "refused"},
              CalledBack(x, c, result)
       PROVE  Goal
  <2>1. /\ Kept /\ status' = [status EXCEPT ![c] = result]
        /\ callbacksByID' = [callbacksByID EXCEPT ![x][calls[c].callbackID] = "absent"]
    BY <1>10 DEF CalledBack
  <2>2. ~(k = x /\ id = calls[c].callbackID) /\ callbacksByID'[k][id] = callbacksByID[k][id]
    BY <1>2, <1>3, <2>1
  <2>3. id \in Waiting(k)
    BY <1>2, <2>2 DEF Waiting
  <2>4. \A d \in CallsOf(k) : calls[d].callbackID = id => d # c
    BY <2>2 DEF CallsOf
  <2>5. \A d \in CallsOf(k) : d \in Calls
    BY <1>4 DEF CallsOf
  <2>6. \A d \in CallsOf(k) : calls[d].callbackID = id => status'[d] = status[d]
    BY <1>3, <2>1, <2>4, <2>5
  <2> QED
    BY <1>5, <2>1, <2>3, <2>6
<1>11. ASSUME NEW x \in Clients, NEW i \in CallbackIDs, MadeNull(x, i)
       PROVE  Goal
  <2>1. /\ Kept /\ status' = status
        /\ callbacksByID' = [callbacksByID EXCEPT ![x][i] = IF @ = "absent" THEN "null" ELSE @]
    BY <1>11 DEF MadeNull
  <2>2. callbacksByID[k][id] = "live"
    BY <1>2, <1>3, <2>1
  <2>3. id \in Waiting(k)
    BY <1>2, <2>2 DEF Waiting
  <2> QED
    BY <1>5, <2>1, <2>3
<1> QED
  BY <1>6, <1>7, <1>8, <1>9, <1>10, <1>11, Steps

LEMMA AnswerStep ==
    ASSUME IInv, Next
    PROVE  RightAnswer' /\ answer' \in [Calls -> 0 .. MaxCalls]
<1>1. answer \in [Calls -> 0 .. MaxCalls] /\ \A c \in Calls : answer[c] \in {0, c}
  BY DEF IInv, TypeOK, RightAnswer
<1>2. CASE UNCHANGED answer
  BY <1>1, <1>2 DEF RightAnswer
<1>3. ASSUME NEW k \in Clients, NEW c \in CallsOf(k), NEW result \in {"ok", "refused"},
             CalledBack(k, c, result)
      PROVE  RightAnswer' /\ answer' \in [Calls -> 0 .. MaxCalls]
  <2>1. c \in Calls /\ answer' = [answer EXCEPT ![c] = c]
    BY <1>3, CallsType DEF CallsOf, CalledBack
  <2>2. c \in 0 .. MaxCalls
    BY <2>1, RelayAssumption DEF Calls
  <2> QED
    BY <1>1, <2>1, <2>2 DEF RightAnswer
<1>4. ASSUME NEW k \in Clients, CallRemoteHostFunction(k)
      PROVE  UNCHANGED answer
  BY <1>4 DEF CallRemoteHostFunction
<1> QED
  BY <1>2, <1>3, <1>4, Steps DEF Quiet, RunsCall, ToldGone, Died, MadeNull

-----------------------------------------------------------------------------
(***************************************************************************)
(* What a step does to the queues of an end.                               *)
(***************************************************************************)
UpMoves(n) ==
    \/ up'[n] = up[n]
    \/ up[n] # <<>> /\ up'[n] = Tail(up[n])
    \/ /\ inputQueue[n] # <<>> /\ ~Lost(n) /\ NetSends(n)
       /\ up'[n] = Append(up[n], Head(inputQueue[n]))
    \/ up'[n] = Append(up[n], Join)
    \/ up'[n] = <<>>
    \/ \E u \in Arrives(up[n]) : up'[n] \in {Append(u, Gone), u \o <<Gone, Join>>}

\* The tracker sends m to end n.
Delivers(n, m) ==
    \/ \E k \in Clients : /\ RelayRequest(k) /\ Host \in joined /\ n = Host
                          /\ m = Request(Head(up[k]).call)
    \/ RelayRequest(n) /\ n \in Clients /\ Host \notin joined /\ m = Error(Head(up[n]).call)
    \/ RelayAnswer /\ n \in Clients /\ m = Head(up[Host])

DownMoves(n) ==
    \/ down'[n] = down[n]
    \/ down[n] # <<>> /\ down'[n] = Tail(down[n])
    \/ down'[n] = <<>>
    \/ \E m : Reaches(n) /\ Delivers(n, m) /\ down'[n] = Append(down[n], m)
    \/ /\ ~Lost(n)
       /\ \E i \in 0 .. Len(down[n]) : down'[n] = Append(SubSeq(down[n], 1, i), Gone)

InputMoves(n) ==
    \/ inputQueue'[n] = inputQueue[n]
    \/ inputQueue[n] # <<>> /\ inputQueue'[n] = Tail(inputQueue[n])
    \/ inputQueue'[n] = <<>>
    \/ /\ n \in Clients /\ CallRemoteHostFunction(n)
       /\ inputQueue'[n] = Append(inputQueue[n], Request(Len(calls) + 1))
    \/ n = Host /\ \E c \in answering : inputQueue'[n] = inputQueue[n] \o Answer(c)

LEMMA QueuesAre ==
    ASSUME IInv
    PROVE  /\ up \in [Ends -> Seq(Message)] /\ down \in [Ends -> Seq(Message)]
           /\ inputQueue \in [Ends -> Seq(Message)] /\ disconnected \in [Ends -> BOOLEAN]
           /\ joined \subseteq Ends /\ Host \in Ends /\ Clients \subseteq Ends
           /\ Host \notin Clients /\ Nobody \notin Ends
           /\ clientsByHostRequestIDs \in [Calls -> Clients \cup {Nobody}]
  BY RelayAssumption DEF IInv, TypeOK, Ends, Nobody

\* A client polls an event, or dies.
Polled(n) ==
    /\ down[n] # <<>> /\ ~disconnected[n]
    /\ down' = [down EXCEPT ![n] = Tail(@)]
    /\ UNCHANGED <<inputQueue, up>>
    /\ \/ UNCHANGED disconnected
       \/ Head(down[n]) = Gone /\ disconnected' = [disconnected EXCEPT ![n] = TRUE]

LEMMA ClientQueues ==
    ASSUME IInv, NEW k \in Clients, Restart(k) \/ ClientPolls(k)
    PROVE  /\ Polled(k) \/ \E failed : Die(k, failed)
           /\ UNCHANGED <<trackerVars, hostVars>>
<1>1. CASE Restart(k)
  BY <1>1 DEF Restart
<1>2. ASSUME down[k] # <<>>, ~disconnected[k],
             NEW c, NEW id, NEW result, NEW rest, CallBack(k, id, result, c, rest)
      PROVE  Polled(k) \/ \E failed : Die(k, failed)
  BY <1>2 DEF CallBack, Polled, endVars
<1>3. CASE PollError(k)
  BY <1>2, <1>3 DEF PollError, Polls
<1>4. CASE PollPart(k)
  <2> DEFINE c == Head(down[k]).call
             id == calls[c].callbackID
             received == downloads[k][c] + 1
  <2>1. down[k] # <<>> /\ ~disconnected[k] /\ UNCHANGED <<trackerVars, hostVars>>
    BY <1>4 DEF PollPart, Polls
  <2>2. \/ down' = [down EXCEPT ![k] = Tail(@)] /\ UNCHANGED <<endVars, up>>
        \/ CallBack(k, id, "ok", c, [downloads EXCEPT ![k][c] = 0])
    <3>1. CASE calls[c].client # k \/ calls[c].key # key[k]
      BY <1>4, <3>1 DEF PollPart
    <3>2. CASE calls[c].client = k /\ calls[c].key = key[k] /\ received >= Parts
      BY <1>4, <3>2 DEF PollPart
    <3>3. CASE calls[c].client = k /\ calls[c].key = key[k] /\ ~(received >= Parts)
      BY <1>4, <3>3 DEF PollPart
    <3> QED
      BY <3>1, <3>2, <3>3
  <2> QED
    BY <1>2, <2>1, <2>2 DEF Polled, endVars
<1>5. CASE PollGone(k)
  <2>1. down[k] # <<>> /\ ~disconnected[k] /\ Head(down[k]) = Gone
        /\ UNCHANGED <<trackerVars, hostVars>>
    BY <1>5, ClientsHead DEF PollGone, Polls
  <2>2. \/ \E failed : Die(k, failed)
        \/ /\ disconnected' = [disconnected EXCEPT ![k] = TRUE]
           /\ down' = [down EXCEPT ![k] = Tail(@)] /\ UNCHANGED <<inputQueue, up>>
    BY <1>5 DEF PollGone
  <2> QED
    BY <2>1, <2>2 DEF Polled
<1> QED
  BY <1>1, <1>3, <1>4, <1>5 DEF ClientPolls, PollError

\* The tracker sends what it sends over a connection that it knows.
LEMMA SentToReaches ==
    ASSUME IInv, NEW n, NEW m, down' = SentTo(n, m), NEW x \in Ends
    PROVE  down'[x] = down[x] \/ (x = n /\ Reaches(x) /\ down'[x] = Append(down[x], m))
  BY QueuesAre DEF SentTo

LEMMA TrackerSends ==
    ASSUME IInv, NEW x \in Ends, RelayAnswer \/ \E k \in Clients : RelayRequest(k)
    PROVE  down'[x] = down[x] \/ \E m : Reaches(x) /\ Delivers(x, m) /\ down'[x] = Append(down[x], m)
<1>1. ASSUME NEW k \in Clients, RelayRequest(k)
      PROVE  down'[x] = down[x] \/ \E m : Reaches(x) /\ Delivers(x, m) /\ down'[x] = Append(down[x], m)
  <2>1. CASE Host \in joined
    <3>1. down' = SentTo(Host, Request(Head(up[k]).call))
      BY <1>1, <2>1 DEF RelayRequest
    <3>2. \/ down'[x] = down[x]
          \/ /\ x = Host /\ Reaches(x)
             /\ down'[x] = Append(down[x], Request(Head(up[k]).call))
      BY <3>1, SentToReaches
    <3> QED
      BY <1>1, <2>1, <3>2 DEF Delivers
  <2>2. CASE Host \notin joined
    <3>1. down' = SentTo(k, Error(Head(up[k]).call))
      BY <1>1, <2>2 DEF RelayRequest, Refusal
    <3>2. \/ down'[x] = down[x]
          \/ /\ x = k /\ Reaches(x)
             /\ down'[x] = Append(down[x], Error(Head(up[k]).call))
      BY <3>1, SentToReaches
    <3> QED
      BY <1>1, <2>2, <3>2 DEF Delivers
  <2> QED
    BY <2>1, <2>2
<1>2. CASE RelayAnswer
  <2> DEFINE client == clientsByHostRequestIDs[Head(up[Host]).call]
  <2>1. up[Host] # <<>> /\ Head(up[Host]).type = "part"
    BY <1>2 DEF RelayAnswer, Handles
  <2>2. Head(up[Host]) \in Answers
    BY <2>1, PartAtHead
  <2>3. Head(up[Host]).call \in Calls
    BY <2>2, CallsType, Kinds DEF Answers
  <2>4. client \in Clients \cup {Nobody}
    BY <2>3, QueuesAre
  <2>5. down' = SentTo(client, Head(up[Host]))
    BY <1>2 DEF RelayAnswer, RequestID
  <2> HIDE DEF client
  <2>6. \/ down'[x] = down[x]
        \/ x = client /\ Reaches(x) /\ down'[x] = Append(down[x], Head(up[Host]))
    BY <2>5, SentToReaches
  <2>7. x # Nobody
    BY QueuesAre
  <2> QED
    BY <1>2, <2>4, <2>6, <2>7 DEF Delivers
<1> QED
  BY <1>1, <1>2

LEMMA QueueMoves ==
    ASSUME IInv, Next, NEW n \in Ends
    PROVE  UpMoves(n) /\ DownMoves(n) /\ InputMoves(n)
<1>1. ASSUME NEW m \in Ends, NetSends(m)
      PROVE  UpMoves(n) /\ DownMoves(n) /\ InputMoves(n)
  <2>1. inputQueue[m] # <<>> /\ down' = down /\ inputQueue' = [inputQueue EXCEPT ![m] = Tail(@)]
        /\ up' = IF Lost(m) THEN up ELSE [up EXCEPT ![m] = Append(@, Head(inputQueue[m]))]
    BY <1>1 DEF NetSends
  <2> QED
    BY <1>1, <2>1, QueuesAre DEF UpMoves, DownMoves, InputMoves
<1>2. ASSUME NEW m \in Ends, Lose(m)
      PROVE  UpMoves(n) /\ DownMoves(n) /\ InputMoves(n)
  <2>1. PICK u \in Arrives(up[m]), d \in Arrives(down[m]) :
            up' = [up EXCEPT ![m] = Append(u, Gone)] /\ down' = [down EXCEPT ![m] = Append(d, Gone)]
    BY <1>2 DEF Lose
  <2>2. ~Lost(m) /\ inputQueue' = inputQueue
    BY <1>2 DEF Lose, endVars
  <2>3. PICK i \in 0 .. Len(down[m]) : d = SubSeq(down[m], 1, i)
    BY QueuesAre, ArrivesIsPrefix
  <2>4. UpMoves(n)
    BY <2>1, QueuesAre DEF UpMoves
  <2>5. DownMoves(n)
    BY <2>1, <2>2, <2>3, QueuesAre DEF DownMoves
  <2> QED
    BY <2>2, <2>4, <2>5 DEF InputMoves
<1>3. ASSUME NEW m \in Ends, Reconnect(m)
      PROVE  UpMoves(n) /\ DownMoves(n) /\ InputMoves(n)
  BY <1>3, QueuesAre DEF Reconnect, UpMoves, DownMoves, InputMoves
<1>4. ASSUME NEW m \in Ends, TrackerAddsOrRemoves(m)
      PROVE  UpMoves(n) /\ DownMoves(n) /\ InputMoves(n)
  BY <1>4, QueuesAre DEF TrackerAddsOrRemoves, Handles, endVars, UpMoves, DownMoves, InputMoves
<1>5. ASSUME NEW k \in Clients, CallRemoteHostFunction(k)
      PROVE  UpMoves(n) /\ DownMoves(n) /\ InputMoves(n)
  <2>1. /\ up' = up /\ down' = down
        /\ \/ inputQueue' = inputQueue
           \/ inputQueue' = [inputQueue EXCEPT ![k] = Append(@, Request(Len(calls) + 1))]
    BY <1>5 DEF CallRemoteHostFunction
  <2> QED
    BY <1>5, <2>1, QueuesAre DEF UpMoves, DownMoves, InputMoves
<1>6. ASSUME NEW k \in Clients, NEW failed, Die(k, failed)
      PROVE  UpMoves(n) /\ DownMoves(n) /\ InputMoves(n)
  <2>1. PICK u \in Arrives(up[k]) : up' = [up EXCEPT ![k] = u \o <<Gone, Join>>]
    BY <1>6 DEF Die
  <2>2. inputQueue' = [inputQueue EXCEPT ![k] = <<>>] /\ down' = [down EXCEPT ![k] = <<>>]
    BY <1>6 DEF Die
  <2>3. UpMoves(n)
    BY <2>1, QueuesAre DEF UpMoves
  <2> QED
    BY <2>2, <2>3, QueuesAre DEF DownMoves, InputMoves
<1>7. ASSUME NEW k \in Clients, Restart(k) \/ ClientPolls(k)
      PROVE  UpMoves(n) /\ DownMoves(n) /\ InputMoves(n)
  <2>1. CASE Polled(k)
    BY <2>1, QueuesAre DEF Polled, UpMoves, DownMoves, InputMoves
  <2> QED
    BY <1>6, <1>7, <2>1, ClientQueues
<1>8. ASSUME RelayAnswer \/ \E k \in Clients : RelayRequest(k)
      PROVE  UpMoves(n) /\ DownMoves(n) /\ InputMoves(n)
  <2>1. DownMoves(n)
    BY <1>8, TrackerSends DEF DownMoves
  <2>2. UpMoves(n)
    BY <1>8, QueuesAre DEF RelayAnswer, RelayRequest, Handles, UpMoves
  <2>3. InputMoves(n)
    BY <1>8 DEF RelayAnswer, RelayRequest, endVars, InputMoves
  <2> QED
    BY <2>1, <2>2, <2>3
<1>9. ASSUME ProcessGetRequest \/ HostPollsGone
      PROVE  UpMoves(n) /\ DownMoves(n) /\ InputMoves(n)
  <2>1. down[Host] # <<>> /\ down' = [down EXCEPT ![Host] = Tail(@)]
        /\ up' = up /\ inputQueue' = inputQueue
    BY <1>9 DEF ProcessGetRequest, HostPollsGone, Polls, endVars
  <2> QED
    BY <2>1, QueuesAre DEF UpMoves, DownMoves, InputMoves
<1>10. ASSUME NEW c \in Calls, HostAnswers(c)
       PROVE  UpMoves(n) /\ DownMoves(n) /\ InputMoves(n)
  <2>1. /\ c \in answering /\ up' = up /\ down' = down
        /\ \/ inputQueue' = inputQueue
           \/ inputQueue' = [inputQueue EXCEPT ![Host] = @ \o Answer(c)]
    BY <1>10 DEF HostAnswers
  <2> QED
    BY <2>1, QueuesAre DEF UpMoves, DownMoves, InputMoves
<1>11. CASE HostRestart
  <2>1. PICK u \in Arrives(up[Host]) : up' = [up EXCEPT ![Host] = u \o <<Gone, Join>>]
    BY <1>11 DEF HostRestart
  <2>2. inputQueue' = [inputQueue EXCEPT ![Host] = <<>>] /\ down' = [down EXCEPT ![Host] = <<>>]
    BY <1>11 DEF HostRestart
  <2>3. UpMoves(n)
    BY <2>1, QueuesAre DEF UpMoves
  <2> QED
    BY <2>2, <2>3, QueuesAre DEF DownMoves, InputMoves
<1>12. CASE HostSetsGet
  BY <1>12 DEF HostSetsGet, endVars, UpMoves, DownMoves, InputMoves
<1>13. CASE TrackerRestart
  <2>1. up' = [x \in Ends |-> <<>>] /\ inputQueue' = inputQueue
    BY <1>13 DEF TrackerRestart, endVars
  <2>2. PICK arrived \in [Ends -> 0 .. Parts * MaxCalls] :
        /\ \A x \in Ends : arrived[x] <= Len(down[x])
        /\ down' = [x \in Ends |->
              IF disconnected[x] \/ Lost(x) THEN down[x]
              ELSE Append(SubSeq(down[x], 1, arrived[x]), Gone)]
    BY <1>13 DEF TrackerRestart
  <2>3. arrived[n] \in 0 .. Len(down[n])
    <3>1. arrived[n] \in Nat /\ arrived[n] <= Len(down[n])
      BY <2>2, RelayAssumption
    <3>2. Len(down[n]) \in Nat
      BY QueuesAre
    <3> QED
      BY <3>1, <3>2
  <2>4. DownMoves(n)
    BY <2>2, <2>3 DEF DownMoves
  <2> QED
    BY <2>1, <2>4 DEF UpMoves, InputMoves
<1> QED
  BY <1>1, <1>2, <1>3, <1>4, <1>5, <1>7, <1>8, <1>9, <1>10, <1>11, <1>12, <1>13
     DEF Next, HostPolls

-----------------------------------------------------------------------------
(***************************************************************************)
(* Where the messages in the queues come from.                             *)
(***************************************************************************)
LEMMA CutOff ==
    ASSUME NEW q \in Seq(Message), NEW u \in Arrives(q)
    PROVE  /\ Append(u, Gone) \in Seq(Message) /\ Holds(Append(u, Gone), Gone)
           /\ \A m : Holds(Append(u, Gone), m) => m = Gone \/ Holds(q, m)
           /\ Once(q) => Once(Append(u, Gone))
           /\ \A m : m # Gone => ~Fresh(Append(u, Gone), m)
<1>1. PICK n \in 0 .. Len(q) : u = SubSeq(q, 1, n)
  BY ArrivesIsPrefix
<1>2. u \in Seq(Message) /\ (\A m : Holds(u, m) => Holds(q, m)) /\ (Once(q) => Once(u))
  BY <1>1, Prefixes
<1>3. Gone \in Message /\ Gone.type # "request"
  BY InMessage, Kinds
<1> QED
  BY <1>2, <1>3, Appends

LEMMA Rejoins ==
    ASSUME NEW q \in Seq(Message), NEW u \in Arrives(q)
    PROVE  /\ u \o <<Gone, Join>> \in Seq(Message)
           /\ \A m : Holds(u \o <<Gone, Join>>, m) => m \in {Gone, Join} \/ Holds(q, m)
           /\ Once(q) => Once(u \o <<Gone, Join>>)
           /\ \A m : m \notin {Join, Gone} => ~Fresh(u \o <<Gone, Join>>, m)
<1> DEFINE a == Append(u, Gone)
<1>1. /\ a \in Seq(Message) /\ (\A m : Holds(a, m) => m = Gone \/ Holds(q, m))
      /\ (Once(q) => Once(a)) /\ (\A m : m # Gone => ~Fresh(a, m))
  BY CutOff
<1>2. u \in Seq(Message)
  <2>1. PICK n \in 0 .. Len(q) : u = SubSeq(q, 1, n)
    BY ArrivesIsPrefix
  <2> QED
    BY <2>1, Prefixes
<1>3. Join \in Message /\ Gone \in Message /\ Join.type # "request" /\ Join # Gone
  BY InMessage, Kinds
<1>4. u \o <<Gone, Join>> = Append(a, Join)
  BY <1>2, <1>3
<1> HIDE DEF a
<1>5. \A m : m \notin {Join, Gone} => ~Fresh(Append(a, Join), m)
  <2>1. \A m : Fresh(Append(a, Join), m) => m = Join \/ Fresh(a, m)
    BY <1>1, <1>3, Appends
  <2> QED
    BY <1>1, <2>1
<1>6. /\ Append(a, Join) \in Seq(Message)
      /\ \A m : Holds(Append(a, Join), m) <=> m = Join \/ Holds(a, m)
      /\ Once(a) => Once(Append(a, Join))
  BY <1>1, <1>3, Appends
<1> QED
  BY <1>1, <1>4, <1>5, <1>6

\* What an end's net thread sends is a request of its own, of the process that
\* runs now and nowhere else, or a part of an answer.
LEMMA InputAtHead ==
    ASSUME IInv, NEW n \in Ends, inputQueue[n] # <<>>
    PROVE  /\ Head(inputQueue[n]) \in Message \ {Join, Gone} /\ Holds(inputQueue[n], Head(inputQueue[n]))
           /\ n \in Clients =>
                 /\ Head(inputQueue[n]) \in CurrentRequests(n)
                 /\ ~Holds(up[n], Head(inputQueue[n]))
                 /\ ~Holds(Tail(inputQueue[n]), Head(inputQueue[n]))
           /\ n = Host => Head(inputQueue[n]) \in Answers
<1> DEFINE m == Head(inputQueue[n])
<1>1. inputQueue[n] \in Seq(Message)
  BY QueuesType
<1>2. m \in Message /\ Holds(inputQueue[n], m)
  BY <1>1, Tails
<1>3. ASSUME n \in Clients
      PROVE  m \in CurrentRequests(n) /\ ~Holds(up[n], m) /\ ~Holds(Tail(inputQueue[n]), m)
             /\ m \notin {Join, Gone}
  <2>1. Only(inputQueue[n], CurrentRequests(n)) /\ Once(inputQueue[n])
    BY <1>3 DEF IInv, MessagesFit, RequestOnce
  <2>2. m \in CurrentRequests(n)
    BY <1>2, <2>1, Held
  <2>3. PICK c \in CallsOf(n) : m = Request(c)
    BY <2>2 DEF CurrentRequests
  <2>4. c \in DOMAIN calls /\ Client(c) = n
    BY DEF CallsOf
  <2>5. Sending(c)
    BY <1>2, <2>3, <2>4 DEF Sending
  <2>6. ~Sent(c)
    BY <2>4, <2>5 DEF IInv, RequestOnce, OneStage
  <2>7. ~Holds(up[n], m)
    BY <2>3, <2>4, <2>6 DEF Sent
  <2>8. m.type = "request" /\ m \notin {Join, Gone}
    BY <2>3, Kinds
  <2> QED
    BY <1>1, <2>1, <2>2, <2>7, <2>8, Tails
<1>4. ASSUME n = Host
      PROVE  m \in Answers /\ m \notin {Join, Gone}
  <2>1. Only(inputQueue[n], Answers)
    BY <1>4 DEF IInv, MessagesFit
  <2>2. m \in Answers
    BY <1>2, <2>1, Held
  <2> QED
    BY <2>2, Kinds DEF Answers
<1> QED
  BY <1>2, <1>3, <1>4 DEF Ends

LEMMA UpSources ==
    ASSUME IInv, Next, NEW n \in Ends
    PROVE  /\ up'[n] \in Seq(Message)
           /\ n \in Clients => Once(up'[n])
           /\ \A m : Holds(up'[n], m) =>
                 m \in {Join, Gone} \/ Holds(up[n], m)
                 \/ (NetSends(n) /\ inputQueue[n] # <<>> /\ m = Head(inputQueue[n]))
           /\ \A m : m \notin {Join, Gone} /\ Fresh(up'[n], m) =>
                 Fresh(up[n], m) \/ (inputQueue[n] # <<>> /\ m = Head(inputQueue[n]))
<1>1. up[n] \in Seq(Message) /\ (n \in Clients => Once(up[n]))
  BY QueuesType DEF IInv, RequestOnce
<1>2. UpMoves(n)
  BY QueueMoves
<1>3. CASE up'[n] = up[n]
  BY <1>1, <1>3
<1>4. CASE up[n] # <<>> /\ up'[n] = Tail(up[n])
  BY <1>1, <1>4, Tails
<1>5. CASE /\ inputQueue[n] # <<>> /\ NetSends(n)
           /\ up'[n] = Append(up[n], Head(inputQueue[n]))
  <2> DEFINE m == Head(inputQueue[n])
  <2>1. m \in Message /\ (n \in Clients => ~Holds(up[n], m)) /\ m # Gone
    BY <1>5, InputAtHead
  <2>2. /\ up'[n] \in Seq(Message)
        /\ \A x : Holds(up'[n], x) <=> x = m \/ Holds(up[n], x)
        /\ (n \in Clients => Once(up'[n]))
        /\ \A x : Fresh(up'[n], x) => x = m \/ Fresh(up[n], x)
    BY <1>1, <1>5, <2>1, Appends
  <2> QED
    BY <1>5, <2>2
<1>6. CASE up'[n] = Append(up[n], Join)
  <2>1. Join \in Message /\ Join.type # "request" /\ Join # Gone
    BY InMessage, Kinds
  <2>2. /\ up'[n] \in Seq(Message)
        /\ \A x : Holds(up'[n], x) <=> x = Join \/ Holds(up[n], x)
        /\ (n \in Clients => Once(up'[n]))
        /\ \A x : Fresh(up'[n], x) => x = Join \/ Fresh(up[n], x)
    BY <1>1, <1>6, <2>1, Appends
  <2> QED
    BY <2>2
<1>7. CASE up'[n] = <<>>
  BY <1>7, Empty
<1>8. ASSUME NEW u \in Arrives(up[n]), up'[n] \in {Append(u, Gone), u \o <<Gone, Join>>}
      PROVE  /\ up'[n] \in Seq(Message)
             /\ n \in Clients => Once(up'[n])
             /\ \A m : Holds(up'[n], m) => m \in {Join, Gone} \/ Holds(up[n], m)
             /\ \A m : m \notin {Join, Gone} => ~Fresh(up'[n], m)
  <2>1. CASE up'[n] = Append(u, Gone)
    BY <1>1, <2>1, CutOff
  <2>2. CASE up'[n] = u \o <<Gone, Join>>
    BY <1>1, <2>2, Rejoins
  <2> QED
    BY <1>8, <2>1, <2>2
<1> QED
  BY <1>2, <1>3, <1>4, <1>5, <1>6, <1>7, <1>8 DEF UpMoves

LEMMA InputSources ==
    ASSUME IInv, Next, NEW n \in Ends
    PROVE  /\ inputQueue'[n] \in Seq(Message)
           /\ n \in Clients => Once(inputQueue'[n])
           /\ \A m : Holds(inputQueue'[n], m) =>
                 \/ Holds(inputQueue[n], m)
                 \/ n \in Clients /\ CallRemoteHostFunction(n) /\ m = Request(Len(calls) + 1)
                 \/ n = Host /\ \E c \in answering, i \in 1 .. Parts : m = Part(c, i)
<1>1. inputQueue[n] \in Seq(Message) /\ (n \in Clients => Once(inputQueue[n]))
  BY QueuesType DEF IInv, RequestOnce
<1>2. InputMoves(n)
  BY QueueMoves
<1>3. CASE inputQueue'[n] = inputQueue[n]
  BY <1>1, <1>3
<1>4. CASE inputQueue[n] # <<>> /\ inputQueue'[n] = Tail(inputQueue[n])
  BY <1>1, <1>4, Tails
<1>5. CASE inputQueue'[n] = <<>>
  BY <1>5, Empty
<1>6. CASE /\ n \in Clients /\ CallRemoteHostFunction(n)
           /\ inputQueue'[n] = Append(inputQueue[n], Request(Len(calls) + 1))
  <2>1. PICK c \in Calls : c = Len(calls) + 1 /\ c \notin DOMAIN calls
    BY <1>6, PlacedCall
  <2>2. Request(c) \in Message /\ Request(c).call = c
    BY InMessage, Kinds
  <2>3. c # 0
    BY RelayAssumption DEF Calls
  <2>4. ~Holds(inputQueue[n], Request(c))
    BY <2>1, <2>2, <2>3, CallsKnown
  <2>5. /\ inputQueue'[n] \in Seq(Message) /\ Once(inputQueue'[n])
        /\ \A x : Holds(inputQueue'[n], x) <=> x = Request(c) \/ Holds(inputQueue[n], x)
    BY <1>1, <1>6, <2>1, <2>2, <2>4, Appends
  <2> QED
    BY <1>6, <2>1, <2>5
<1>7. ASSUME n = Host, NEW c \in answering, inputQueue'[n] = inputQueue[n] \o Answer(c)
      PROVE  /\ inputQueue'[n] \in Seq(Message) /\ n \notin Clients
             /\ \A m : Holds(inputQueue'[n], m) =>
                   Holds(inputQueue[n], m) \/ \E i \in 1 .. Parts : m = Part(c, i)
  <2> DEFINE S == {inputQueue[n][i] : i \in DOMAIN inputQueue[n]} \cup {Part(c, i) : i \in 1 .. Parts}
  <2>1. c \in Calls
    BY CallsType DEF IInv, StatusFits
  <2>2. \A i \in 1 .. Parts : Part(c, i) \in Message
    BY <2>1, InMessage
  <2>3. Only(inputQueue[n], S) /\ \A i \in 1 .. Parts : Part(c, i) \in S
    BY DEF Only
  <2>4. \A m \in S : Holds(inputQueue[n], m) \/ \E i \in 1 .. Parts : m = Part(c, i)
    BY DEF Holds
  <2> HIDE DEF S
  <2>5. inputQueue'[n] \in Seq(Message) /\ Only(inputQueue'[n], S)
    BY <1>1, <1>7, <2>2, <2>3, Answering
  <2>6. \A m : Holds(inputQueue'[n], m) => m \in S
    BY <2>5, Held
  <2> QED
    BY <1>7, <2>4, <2>5, <2>6, QueuesAre
<1> QED
  BY <1>2, <1>3, <1>4, <1>5, <1>6, <1>7 DEF InputMoves

\* The request that the tracker takes from a client leaves its queue.
LEMMA RequestTaken ==
    ASSUME IInv, NEW k \in Clients, RelayRequest(k)
    PROVE  \E c \in CallsOf(k) : /\ Head(up[k]).call = c /\ Sent(c) /\ ~Sent(c)'
                                 /\ Reaches(k) => Current(c)
<1>1. /\ up[k] # <<>> /\ Head(up[k]).type = "request" /\ calls' = calls
      /\ up' = [up EXCEPT ![k] = Tail(@)]
  BY DEF RelayRequest, Handles
<1>2. PICK c \in CallsOf(k) : /\ Head(up[k]) = Request(c) /\ Head(up[k]).call = c /\ Sent(c)
                              /\ Reaches(k) => Current(c)
  BY <1>1, RequestAtHead
<1>3. k \in Ends /\ up[k] \in Seq(Message) /\ Once(up[k]) /\ up'[k] = Tail(up[k])
  BY <1>1, QueuesAre DEF IInv, RequestOnce
<1>4. ~Holds(up'[k], Request(c))
  BY <1>1, <1>2, <1>3, Tails
<1>5. Client(c)' = k /\ Request(c)' = Request(c)
  BY <1>1 DEF CallsOf, Client, Request
<1>6. ~Sent(c)'
  BY <1>4, <1>5 DEF Sent
<1> QED
  BY <1>2, <1>6

LEMMA Delivered ==
    ASSUME IInv, NEW n \in Ends, Reaches(n), NEW m, Delivers(n, m)
    PROVE  \/ /\ n = Host /\ Host \in joined
              /\ \E c \in DOMAIN calls : m = Request(c) /\ Sent(c) /\ ~Sent(c)'
           \/ /\ n \in Clients /\ Host \notin joined
              /\ \E c \in CallsOf(n) : m = Error(c) /\ Current(c) /\ Sent(c) /\ ~Sent(c)'
           \/ n \in Clients /\ m \in Answers
<1>1. ASSUME NEW k \in Clients, RelayRequest(k), Host \in joined, n = Host,
             m = Request(Head(up[k]).call)
      PROVE  \E c \in DOMAIN calls : m = Request(c) /\ Sent(c) /\ ~Sent(c)'
  <2>1. PICK c \in CallsOf(k) : Head(up[k]).call = c /\ Sent(c) /\ ~Sent(c)'
    BY <1>1, RequestTaken
  <2> QED
    BY <1>1, <2>1 DEF CallsOf
<1>2. ASSUME RelayRequest(n), n \in Clients, Host \notin joined, m = Error(Head(up[n]).call)
      PROVE  \E c \in CallsOf(n) : m = Error(c) /\ Current(c) /\ Sent(c) /\ ~Sent(c)'
  BY <1>2, RequestTaken
<1>3. ASSUME RelayAnswer, n \in Clients, m = Head(up[Host])
      PROVE  m \in Answers
  BY <1>3, PartAtHead DEF RelayAnswer, Handles
<1> QED
  BY <1>1, <1>2, <1>3 DEF Delivers

LEMMA DownSources ==
    ASSUME IInv, Next, NEW n \in Ends
    PROVE  /\ down'[n] \in Seq(Message) /\ GoneLast(down'[n])
           /\ n = Host => Once(down'[n])
           /\ \A m : Holds(down'[n], m) =>
                 m = Gone \/ Holds(down[n], m) \/ (Reaches(n) /\ Delivers(n, m))
<1>1. /\ down[n] \in Seq(Message) /\ GoneLast(down[n]) /\ (n = Host => Once(down[n]))
      /\ Reaches(n) => ~Lost(n)
  BY QueuesType DEF IInv, EndsFit, RequestOnce
<1>2. DownMoves(n)
  BY QueueMoves
<1>3. CASE down'[n] = down[n]
  BY <1>1, <1>3
<1>4. CASE down[n] # <<>> /\ down'[n] = Tail(down[n])
  BY <1>1, <1>4, Tails
<1>5. CASE down'[n] = <<>>
  BY <1>5, Empty
<1>6. ASSUME NEW m, Reaches(n), Delivers(n, m), down'[n] = Append(down[n], m)
      PROVE  /\ down'[n] \in Seq(Message) /\ GoneLast(down'[n])
             /\ n = Host => Once(down'[n])
             /\ \A x : Holds(down'[n], x) => x = m \/ Holds(down[n], x)
  <2>1. /\ m \in Message
        /\ n = Host /\ m.type = "request" => ~Holds(down[n], m)
    <3>1. ASSUME n = Host, NEW c \in DOMAIN calls, m = Request(c), Sent(c)
          PROVE  m \in Message /\ ~Holds(down[n], m)
      <4>1. OneStage(c) /\ c \in Calls
        BY CallsType DEF IInv, RequestOnce
      <4>2. ~Relayed(c)
        BY <3>1, <4>1 DEF OneStage
      <4> QED
        BY <3>1, <4>1, <4>2, InMessage DEF Relayed
    <3>2. ASSUME n \in Clients, NEW c \in CallsOf(n), m = Error(c)
          PROVE  m \in Message
      <4>1. c \in Calls
        BY CallsType DEF CallsOf
      <4> QED
        BY <3>2, <4>1, InMessage
    <3>3. ASSUME n \in Clients, m \in Answers
          PROVE  m \in Message
      <4>1. PICK c \in DOMAIN calls, i \in 1 .. Parts : m = Part(c, i)
        BY <3>3 DEF Answers
      <4>2. c \in Calls
        BY CallsType
      <4> QED
        BY <4>1, <4>2, InMessage
    <3>4. n = Host => n \notin Clients
      BY QueuesAre
    <3> QED
      BY <1>6, <3>1, <3>2, <3>3, <3>4, Delivered
  <2>2. ~Holds(down[n], Gone)
    BY <1>1, <1>6 DEF Lost
  <2> QED
    BY <1>1, <1>6, <2>1, <2>2, Appends
<1>7. ASSUME ~Lost(n), NEW i \in 0 .. Len(down[n]),
             down'[n] = Append(SubSeq(down[n], 1, i), Gone)
      PROVE  /\ down'[n] \in Seq(Message) /\ GoneLast(down'[n])
             /\ n = Host => Once(down'[n])
             /\ \A x : Holds(down'[n], x) => x = Gone \/ Holds(down[n], x)
  <2> DEFINE p == SubSeq(down[n], 1, i)
  <2>1. ~Holds(down[n], Gone)
    BY <1>7 DEF Lost
  <2>2. /\ p \in Seq(Message) /\ (\A x : Holds(p, x) => Holds(down[n], x))
        /\ (n = Host => Once(p)) /\ GoneLast(p) /\ ~Holds(p, Gone)
    BY <1>1, <2>1, Prefixes
  <2>3. Gone \in Message /\ Gone.type # "request"
    BY InMessage, Kinds
  <2> HIDE DEF p
  <2>4. /\ Append(p, Gone) \in Seq(Message) /\ GoneLast(Append(p, Gone))
        /\ (n = Host => Once(Append(p, Gone)))
        /\ \A x : Holds(Append(p, Gone), x) <=> x = Gone \/ Holds(p, x)
    BY <2>2, <2>3, Appends
  <2> QED
    BY <1>7, <2>2, <2>4 DEF p
<1> QED
  BY <1>2, <1>3, <1>4, <1>5, <1>6, <1>7 DEF DownMoves

-----------------------------------------------------------------------------
(***************************************************************************)
(* The parts of the invariant that are about the queues.                   *)
(***************************************************************************)

\* What the queues may hold only grows, except for a client that dies: it has
\* nothing in its queues, and a lost connection.
LEMMA SetsGrow ==
    ASSUME IInv, Next
    PROVE  /\ DOMAIN calls \subseteq DOMAIN calls'
           /\ \A c \in DOMAIN calls : Client(c)' = Client(c)
           /\ \A c \in Calls : runs[c] = 1 => runs'[c] = 1
           /\ Answers \subseteq Answers' /\ AllRequests \subseteq AllRequests'
           /\ \A k \in Clients : Requests(k) \subseteq Requests(k)'
           /\ \A k \in Clients : key'[k] = key[k] =>
                 /\ CurrentRequests(k) \subseteq CurrentRequests(k)'
                 /\ CurrentErrors(k) \subseteq CurrentErrors(k)'
           /\ \A k \in Clients : key'[k] = key[k] \/ Died(k)
<1>1. DOMAIN calls \subseteq DOMAIN calls' /\ \A c \in DOMAIN calls : calls'[c] = calls[c]
  <2>1. ASSUME NEW k \in Clients, CallRemoteHostFunction(k)
        PROVE  DOMAIN calls \subseteq DOMAIN calls' /\ \A c \in DOMAIN calls : calls'[c] = calls[c]
    BY <2>1, PlacedCall
  <2>2. CASE calls' = calls
    BY <2>2
  <2> QED
    BY <2>1, <2>2, Steps DEF Quiet, RunsCall, ToldGone, Died, CalledBack, MadeNull, Kept
<1>2. \A c \in Calls : runs[c] = 1 => runs'[c] = 1
  <2>1. CASE runs' = runs
    BY <2>1
  <2>2. ASSUME NEW c \in DOMAIN calls, RunsCall(c)
        PROVE  \A d \in Calls : runs[d] = 1 => runs'[d] = 1
    BY <2>2, RunsOnce
  <2>3. ASSUME NEW k \in Clients, CallRemoteHostFunction(k)
        PROVE  runs' = runs
    BY <2>3 DEF CallRemoteHostFunction
  <2> QED
    BY <2>1, <2>2, <2>3, Steps DEF Quiet, ToldGone, Died, CalledBack, MadeNull
<1>3. \A k \in Clients : key'[k] = key[k] \/ Died(k)
  <2>1. CASE key' = key
    BY <2>1
  <2>2. ASSUME NEW k \in Clients, Died(k)
        PROVE  \A x \in Clients : key'[x] = key[x] \/ Died(x)
    <3>1. key' = [key EXCEPT ![k] = @ + 1] /\ key \in [Clients -> Nat]
      BY <2>2 DEF Died, Die, NewKey, IInv, TypeOK
    <3> QED
      BY <2>2, <3>1
  <2>3. ASSUME NEW k \in Clients, CallRemoteHostFunction(k)
        PROVE  key' = key
    BY <2>3 DEF CallRemoteHostFunction
  <2> QED
    BY <2>1, <2>2, <2>3, Steps DEF Quiet, RunsCall, ToldGone, CalledBack, MadeNull, Kept
<1>4. \A c \in DOMAIN calls : c \in Calls /\ Client(c)' = Client(c)
  BY <1>1, CallsType DEF Client
<1>5. \A k \in Clients : CallsOf(k) \subseteq CallsOf(k)'
  BY <1>1, <1>4 DEF CallsOf
<1>6. Answers \subseteq Answers'
  <2> SUFFICES ASSUME NEW c \in DOMAIN calls, NEW i \in 1 .. Parts, runs[c] = 1
               PROVE  Part(c, i) \in Answers'
    BY DEF Answers
  <2>1. c \in DOMAIN calls' /\ runs'[c] = 1
    BY <1>1, <1>2, <1>4
  <2>2. Part(c, i)' = Part(c, i)
    BY DEF Part
  <2> QED
    BY <2>1, <2>2 DEF Answers
<1>7. AllRequests \subseteq AllRequests'
  BY <1>1 DEF AllRequests, Request
<1>8. \A k \in Clients : Requests(k) \subseteq Requests(k)'
  BY <1>5 DEF Requests, Request
<1>9. ASSUME NEW k \in Clients, key'[k] = key[k]
      PROVE  /\ CurrentRequests(k) \subseteq CurrentRequests(k)'
             /\ CurrentErrors(k) \subseteq CurrentErrors(k)'
  <2>1. \A c \in CallsOf(k) : Current(c) => c \in CallsOf(k)' /\ Current(c)'
    BY <1>1, <1>4, <1>5, <1>9 DEF CallsOf, Current
  <2> QED
    BY <2>1 DEF CurrentRequests, CurrentErrors, Request, Error
<1> QED
  BY <1>1, <1>2, <1>3, <1>4, <1>6, <1>7, <1>8, <1>9

LEMMA DiedQueues ==
    ASSUME IInv, NEW k \in Clients, Died(k)
    PROVE  /\ inputQueue' = [inputQueue EXCEPT ![k] = <<>>] /\ inputQueue'[k] = <<>>
           /\ down' = [down EXCEPT ![k] = <<>>] /\ down'[k] = <<>>
           /\ disconnected' = [disconnected EXCEPT ![k] = FALSE]
           /\ \A m : m \notin {Join, Gone} => ~Fresh(up'[k], m)
           /\ \A n \in Ends : n # k => up'[n] = up[n]
<1>1. PICK failed \in SUBSET Failing(k) : Die(k, failed)
  BY DEF Died
<1>2. PICK u \in Arrives(up[k]) : up' = [up EXCEPT ![k] = u \o <<Gone, Join>>]
  BY <1>1 DEF Die
<1>3. up'[k] = u \o <<Gone, Join>> /\ up[k] \in Seq(Message) /\ \A n \in Ends : n # k => up'[n] = up[n]
  BY <1>2, QueuesAre
<1>4. \A m : m \notin {Join, Gone} => ~Fresh(up'[k], m)
  BY <1>3, Rejoins
<1>5. /\ inputQueue' = [inputQueue EXCEPT ![k] = <<>>] /\ down' = [down EXCEPT ![k] = <<>>]
      /\ disconnected' = [disconnected EXCEPT ![k] = FALSE]
  BY <1>1 DEF Die
<1>6. inputQueue'[k] = <<>> /\ down'[k] = <<>>
  BY <1>5, QueuesAre
<1> QED
  BY <1>3, <1>4, <1>5, <1>6

LEMMA MessagesStep ==
    ASSUME IInv, Next
    PROVE  MessagesFit'
<1> USE SetsGrow
<1>1. ASSUME NEW k \in Clients
      PROVE  Only(inputQueue'[k], CurrentRequests(k)')
  <2>1. CASE Died(k)
    BY <2>1, DiedQueues, Empty
  <2>2. CASE ~Died(k)
    <3>1. Only(inputQueue[k], CurrentRequests(k)) /\ key'[k] = key[k]
      BY <2>2 DEF IInv, MessagesFit
    <3>2. ASSUME NEW m, Holds(inputQueue'[k], m)
          PROVE  m \in CurrentRequests(k)'
      <4>1. \/ Holds(inputQueue[k], m)
            \/ CallRemoteHostFunction(k) /\ m = Request(Len(calls) + 1)
        BY <3>2, InputSources, QueuesAre
      <4>2. CASE Holds(inputQueue[k], m)
        BY <3>1, <4>2, Held
      <4>3. CASE CallRemoteHostFunction(k) /\ m = Request(Len(calls) + 1)
        <5>1. PICK c \in Calls :
           /\ c = Len(calls) + 1 /\ c \notin DOMAIN calls /\ DOMAIN calls' = DOMAIN calls \cup {c}
           /\ functionCallbackIDCounter[k] \in CallbackIDs
           /\ calls' \in Seq([client : Clients, key : Nat, callbackID : CallbackIDs])
           /\ calls'[c].client = k /\ calls'[c].key = key[k]
           /\ calls'[c].callbackID = functionCallbackIDCounter[k]
           /\ \A d \in DOMAIN calls : calls'[d] = calls[d] /\ d < c
           /\ Len(calls') = Len(calls) + 1
          BY <4>3, PlacedCall
        <5>2. c \in CallsOf(k)' /\ Current(c)' /\ m = Request(c)
          BY <3>1, <4>3, <5>1 DEF CallsOf, Client, Current
        <5>3. Request(c)' = Request(c)
          BY DEF Request
        <5> QED
          BY <5>2, <5>3 DEF CurrentRequests
      <4> QED
        BY <4>1, <4>2, <4>3
    <3> QED
      BY <3>2 DEF Only, Holds
  <2> QED
    BY <2>1, <2>2
<1>2. ASSUME NEW k \in Clients
      PROVE  Only(up'[k], {Join, Gone} \cup Requests(k)')
  <2>1. Only(up[k], {Join, Gone} \cup Requests(k)) /\ k \in Ends
    BY QueuesAre DEF IInv, MessagesFit
  <2>2. ASSUME NEW m, Holds(up'[k], m)
        PROVE  m \in {Join, Gone} \cup Requests(k)'
    <3>1. \/ m \in {Join, Gone} \/ Holds(up[k], m)
          \/ (inputQueue[k] # <<>> /\ m = Head(inputQueue[k]))
      BY <2>1, <2>2, UpSources
    <3>2. CASE inputQueue[k] # <<>> /\ m = Head(inputQueue[k])
      <4>1. m \in CurrentRequests(k)
        BY <2>1, <3>2, InputAtHead
      <4>2. m \in Requests(k)
        BY <4>1 DEF CurrentRequests, Requests
      <4> QED
        BY <4>2
    <3>3. CASE Holds(up[k], m)
      BY <2>1, <3>3, Held
    <3> QED
      BY <3>1, <3>2, <3>3
  <2> QED
    BY <2>2 DEF Only, Holds
<1>3. ASSUME NEW k \in Clients
      PROVE  Only(down'[k], {Gone} \cup CurrentErrors(k)' \cup Answers')
  <2>1. CASE Died(k)
    BY <2>1, DiedQueues, Empty
  <2>2. CASE ~Died(k)
    <3>1. /\ Only(down[k], {Gone} \cup CurrentErrors(k) \cup Answers) /\ k \in Ends /\ k # Host
          /\ CurrentErrors(k) \subseteq CurrentErrors(k)'
      BY <2>2, QueuesAre DEF IInv, MessagesFit
    <3>2. ASSUME NEW m, Holds(down'[k], m)
          PROVE  m \in {Gone} \cup CurrentErrors(k)' \cup Answers'
      <4>1. m = Gone \/ Holds(down[k], m) \/ (Reaches(k) /\ Delivers(k, m))
        BY <3>1, <3>2, DownSources
      <4>2. CASE Holds(down[k], m)
        BY <3>1, <4>2, Held
      <4>3. CASE Reaches(k) /\ Delivers(k, m)
        <5>1. \/ \E c \in CallsOf(k) : m = Error(c) /\ Current(c)
              \/ m \in Answers
          BY <3>1, <4>3, Delivered
        <5>2. m \in CurrentErrors(k) \cup Answers
          BY <5>1 DEF CurrentErrors
        <5> QED
          BY <3>1, <5>2
      <4> QED
        BY <4>1, <4>2, <4>3
    <3> QED
      BY <3>2 DEF Only, Holds
  <2> QED
    BY <2>1, <2>2
<1>4. ASSUME NEW k \in Clients, NEW m \in Requests(k)', Fresh(up'[k], m)
      PROVE  m \in CurrentRequests(k)'
  <2>1. m \notin {Join, Gone} /\ k \in Ends
    <3>1. PICK c \in CallsOf(k)' : m = Request(c)'
      BY DEF Requests
    <3>2. Request(c)' = Request(c)
      BY DEF Request
    <3> QED
      BY <3>1, <3>2, Kinds, QueuesAre
  <2>2. ~Died(k)
    BY <1>4, <2>1, DiedQueues
  <2>3. Fresh(up[k], m) \/ (inputQueue[k] # <<>> /\ m = Head(inputQueue[k]))
    BY <1>4, <2>1, UpSources
  <2>4. m \in CurrentRequests(k)
    <3>1. CASE Fresh(up[k], m)
      <4>1. Holds(up[k], m)
        BY <3>1 DEF Fresh, Holds
      <4>2. Only(up[k], {Join, Gone} \cup Requests(k))
        BY DEF IInv, MessagesFit
      <4>3. m \in Requests(k)
        BY <2>1, <4>1, <4>2, Held
      <4> QED
        BY <3>1, <4>3 DEF IInv, MessagesFit
    <3>2. CASE inputQueue[k] # <<>> /\ m = Head(inputQueue[k])
      BY <2>1, <3>2, InputAtHead
    <3> QED
      BY <2>3, <3>1, <3>2
  <2> QED
    BY <2>2, <2>4
<1>5. Only(inputQueue'[Host], Answers')
  <2>1. Only(inputQueue[Host], Answers) /\ Host \in Ends /\ Host \notin Clients
    BY QueuesAre DEF IInv, MessagesFit
  <2>2. ASSUME NEW m, Holds(inputQueue'[Host], m)
        PROVE  m \in Answers'
    <3>1. Holds(inputQueue[Host], m) \/ \E c \in answering, i \in 1 .. Parts : m = Part(c, i)
      BY <2>1, <2>2, InputSources
    <3>2. CASE Holds(inputQueue[Host], m)
      BY <2>1, <3>2, Held
    <3>3. CASE \E c \in answering, i \in 1 .. Parts : m = Part(c, i)
      <4>1. \A c \in answering : c \in DOMAIN calls /\ runs[c] = 1
        BY DEF IInv, StatusFits
      <4>2. m \in Answers
        BY <3>3, <4>1 DEF Answers
      <4> QED
        BY <4>2
    <3> QED
      BY <3>1, <3>2, <3>3
  <2> QED
    BY <2>2 DEF Only, Holds
<1>6. Only(up'[Host], {Join, Gone} \cup Answers')
  <2>1. Only(up[Host], {Join, Gone} \cup Answers) /\ Host \in Ends
    BY QueuesAre DEF IInv, MessagesFit
  <2>2. ASSUME NEW m, Holds(up'[Host], m)
        PROVE  m \in {Join, Gone} \cup Answers'
    <3>1. \/ m \in {Join, Gone} \/ Holds(up[Host], m)
          \/ (inputQueue[Host] # <<>> /\ m = Head(inputQueue[Host]))
      BY <2>1, <2>2, UpSources
    <3>2. CASE inputQueue[Host] # <<>> /\ m = Head(inputQueue[Host])
      BY <2>1, <3>2, InputAtHead
    <3>3. CASE Holds(up[Host], m)
      BY <2>1, <3>3, Held
    <3> QED
      BY <3>1, <3>2, <3>3
  <2> QED
    BY <2>2 DEF Only, Holds
<1>7. Only(down'[Host], {Gone} \cup AllRequests')
  <2>1. Only(down[Host], {Gone} \cup AllRequests) /\ Host \in Ends /\ Host \notin Clients
    BY QueuesAre DEF IInv, MessagesFit
  <2>2. ASSUME NEW m, Holds(down'[Host], m)
        PROVE  m \in {Gone} \cup AllRequests'
    <3>1. m = Gone \/ Holds(down[Host], m) \/ (Reaches(Host) /\ Delivers(Host, m))
      BY <2>1, <2>2, DownSources
    <3>2. CASE Holds(down[Host], m)
      BY <2>1, <3>2, Held
    <3>3. CASE Reaches(Host) /\ Delivers(Host, m)
      <4>1. m \in AllRequests
        BY <2>1, <3>3, Delivered DEF AllRequests
      <4> QED
        BY <4>1
    <3> QED
      BY <3>1, <3>2, <3>3
  <2> QED
    BY <2>2 DEF Only, Holds
<1>8. Join' = Join /\ Gone' = Gone
  BY DEF Join, Gone
<1> QED
  BY <1>1, <1>2, <1>3, <1>4, <1>5, <1>6, <1>7, <1>8 DEF MessagesFit

\* A request goes from one stage to the next, which it has not reached.
LEMMA StageMoves ==
    ASSUME IInv, Next, NEW c \in DOMAIN calls
    PROVE  /\ Sending(c)' => Sending(c)
           /\ Sent(c)' => Sent(c) \/ (Sending(c) /\ ~Sending(c)')
           /\ Relayed(c)' => Relayed(c) \/ (Sent(c) /\ ~Sent(c)' /\ Host \in joined)
           /\ runs'[c] # 0 => runs[c] # 0 \/ (Relayed(c) /\ ~Relayed(c)')
           /\ Refused(c)' => Refused(c) \/ (Sent(c) /\ ~Sent(c)' /\ Host \notin joined)
<1>1. PICK k \in Clients : k = Client(c)
  BY CallsType
<1>2. k \in Ends /\ Host \in Ends /\ k # Host /\ Client(c)' = k /\ Request(c)' = Request(c)
      /\ Error(c)' = Error(c) /\ c \in Calls /\ c \in CallsOf(k)
  BY <1>1, SetsGrow, QueuesAre, CallsType DEF Request, Error, CallsOf
<1>3. /\ Sending(c)' <=> Holds(inputQueue'[k], Request(c))
      /\ Sent(c)' <=> Holds(up'[k], Request(c))
      /\ Relayed(c)' <=> Holds(down'[Host], Request(c))
      /\ Refused(c)' <=> status'[c] = "refused" \/ Holds(down'[k], Error(c))
  BY <1>2 DEF Sending, Sent, Relayed, Refused
<1>4. /\ Sending(c) <=> Holds(inputQueue[k], Request(c))
      /\ Sent(c) <=> Holds(up[k], Request(c))
      /\ Relayed(c) <=> Holds(down[Host], Request(c))
      /\ Refused(c) <=> status[c] = "refused" \/ Holds(down[k], Error(c))
  BY <1>1 DEF Sending, Sent, Relayed, Refused
<1>5. Sending(c)' => Sending(c)
  <2>1. ASSUME CallRemoteHostFunction(k), Request(c) = Request(Len(calls) + 1)
        PROVE  FALSE
    <3>1. c = Len(calls) + 1
      BY <2>1, Kinds
    <3>2. c \in 1 .. Len(calls) /\ Len(calls) \in Nat
      BY CallsType
    <3> QED
      BY <3>1, <3>2
  <2> QED
    BY <1>2, <1>3, <1>4, <2>1, InputSources
<1>6. Sent(c)' => Sent(c) \/ (Sending(c) /\ ~Sending(c)')
  <2>1. ASSUME NetSends(k), inputQueue[k] # <<>>, Request(c) = Head(inputQueue[k])
        PROVE  Sending(c) /\ ~Sending(c)'
    <3>1. inputQueue'[k] = Tail(inputQueue[k])
      BY <1>2, <2>1, QueuesAre DEF NetSends
    <3>2. Holds(inputQueue[k], Request(c)) /\ ~Holds(Tail(inputQueue[k]), Request(c))
      BY <1>2, <2>1, InputAtHead
    <3> QED
      BY <1>3, <1>4, <3>1, <3>2
  <2>2. Holds(up'[k], Request(c)) =>
            Request(c) \in {Join, Gone} \/ Holds(up[k], Request(c))
            \/ (NetSends(k) /\ inputQueue[k] # <<>> /\ Request(c) = Head(inputQueue[k]))
    BY <1>2, UpSources
  <2>3. Request(c) \notin {Join, Gone}
    BY Kinds
  <2> QED
    BY <1>3, <1>4, <2>1, <2>2, <2>3
<1>7. Relayed(c)' => Relayed(c) \/ (Sent(c) /\ ~Sent(c)' /\ Host \in joined)
  <2>1. Holds(down'[Host], Request(c)) =>
            Request(c) = Gone \/ Holds(down[Host], Request(c))
            \/ (Reaches(Host) /\ Delivers(Host, Request(c)))
    BY <1>2, DownSources
  <2>2. ASSUME Reaches(Host), Delivers(Host, Request(c))
        PROVE  Sent(c) /\ ~Sent(c)' /\ Host \in joined
    <3>1. /\ Host \in joined
          /\ \E d \in DOMAIN calls : Request(c) = Request(d) /\ Sent(d) /\ ~Sent(d)'
      BY <1>2, <2>2, Delivered, QueuesAre
    <3>2. PICK d \in DOMAIN calls : Request(c) = Request(d) /\ Sent(d) /\ ~Sent(d)'
      BY <3>1
    <3>3. d = c
      BY <3>2, Kinds
    <3> QED
      BY <3>1, <3>2, <3>3
  <2>3. Request(c) # Gone
    BY Kinds
  <2> QED
    BY <1>3, <1>4, <2>1, <2>2, <2>3
<1>8. runs'[c] # 0 => runs[c] # 0 \/ (Relayed(c) /\ ~Relayed(c)')
  <2>1. CASE runs' = runs
    BY <2>1
  <2>2. ASSUME NEW d \in DOMAIN calls, RunsCall(d)
        PROVE  runs'[c] # 0 => runs[c] # 0 \/ (Relayed(c) /\ ~Relayed(c)')
    <3>1. CASE c = d
      BY <2>2, <3>1 DEF RunsCall
    <3>2. CASE c # d
      BY <1>2, <2>2, <3>2, RunsOnce
    <3> QED
      BY <3>1, <3>2
  <2>3. ASSUME NEW x \in Clients, CallRemoteHostFunction(x)
        PROVE  runs' = runs
    BY <2>3 DEF CallRemoteHostFunction
  <2> QED
    BY <2>1, <2>2, <2>3, Steps DEF Quiet, ToldGone, Died, CalledBack, MadeNull
<1>9. status'[c] = "refused" => Refused(c)
  <2>1. status \in [Calls -> {"unplaced", "waiting", "ok", "refused", "failed", "lost"}]
    BY DEF IInv, TypeOK
  <2>2. CASE status' = status
    BY <1>4, <2>2
  <2>3. ASSUME NEW x \in Clients, CallRemoteHostFunction(x)
        PROVE  status'[c] = "refused" => Refused(c)
    <3>1. PICK new \in Calls : new = Len(calls) + 1 /\ new \notin DOMAIN calls
      BY <2>3, PlacedCall
    <3>2. status' = [status EXCEPT ![new] = "waiting"]
      BY <2>3, <3>1 DEF CallRemoteHostFunction
    <3>3. status'[c] = status[c]
      BY <1>2, <2>1, <3>1, <3>2
    <3> QED
      BY <1>4, <3>3
  <2>4. ASSUME NEW x \in Clients, ToldGone(x)
        PROVE  status'[c] = "refused" => Refused(c)
    BY <1>2, <1>4, <2>4 DEF ToldGone
  <2>5. ASSUME NEW x \in Clients, Died(x)
        PROVE  status'[c] = "refused" => Refused(c)
    <3>1. PICK failed \in SUBSET Failing(x) : Die(x, failed)
      BY <2>5 DEF Died
    <3>2. status'[c] \in {"failed", "lost", status[c]}
      BY <1>2, <3>1 DEF Die
    <3> QED
      BY <1>4, <3>2
  <2>6. ASSUME NEW x \in Clients, NEW d \in CallsOf(x), NEW result \in {"ok", "refused"},
               CalledBack(x, d, result)
        PROVE  status'[c] = "refused" => Refused(c)
    <3>1. status' = [status EXCEPT ![d] = result] /\ (result = "refused" => Refused(d))
      BY <2>6 DEF CalledBack
    <3>2. CASE c = d
      BY <1>2, <2>1, <3>1, <3>2
    <3>3. CASE c # d
      BY <1>2, <1>4, <2>1, <3>1, <3>3
    <3> QED
      BY <3>2, <3>3
  <2> QED
    BY <2>2, <2>3, <2>4, <2>5, <2>6, Steps DEF Quiet, RunsCall, MadeNull
<1>10. Refused(c)' => Refused(c) \/ (Sent(c) /\ ~Sent(c)' /\ Host \notin joined)
  <2>1. Holds(down'[k], Error(c)) =>
            Error(c) = Gone \/ Holds(down[k], Error(c)) \/ (Reaches(k) /\ Delivers(k, Error(c)))
    BY <1>2, DownSources
  <2>2. ASSUME Reaches(k), Delivers(k, Error(c))
        PROVE  Sent(c) /\ ~Sent(c)' /\ Host \notin joined
    <3>1. Error(c) \notin Answers
      BY Kinds DEF Answers
    <3>2. /\ Host \notin joined
          /\ \E d \in CallsOf(k) : Error(c) = Error(d) /\ Sent(d) /\ ~Sent(d)'
      BY <1>2, <2>2, <3>1, Delivered
    <3>3. PICK d \in CallsOf(k) : Error(c) = Error(d) /\ Sent(d) /\ ~Sent(d)'
      BY <3>2
    <3>4. d = c
      BY <3>3, Kinds
    <3> QED
      BY <3>2, <3>3, <3>4
  <2>3. Error(c) # Gone
    BY Kinds
  <2> QED
    BY <1>3, <1>4, <1>9, <2>1, <2>2, <2>3
<1> QED
  BY <1>5, <1>6, <1>7, <1>8, <1>10

LEMMA OnceStep ==
    ASSUME IInv, Next
    PROVE  RequestOnce'
<1>1. \A k \in Clients : Once(inputQueue'[k]) /\ Once(up'[k])
  BY InputSources, UpSources, QueuesAre
<1>2. Once(down'[Host])
  BY DownSources, QueuesAre
<1>3. ASSUME NEW c \in DOMAIN calls
      PROVE  OneStage(c)'
  <2>1. OneStage(c)
    BY DEF IInv, RequestOnce
  <2>2. /\ Sending(c) => ~Sent(c) /\ ~Relayed(c) /\ runs[c] = 0 /\ ~Refused(c)
        /\ Sent(c)    => ~Relayed(c) /\ runs[c] = 0 /\ ~Refused(c)
        /\ Relayed(c) => runs[c] = 0 /\ ~Refused(c)
        /\ Refused(c) => runs[c] = 0
    BY <2>1 DEF OneStage
  <2>3. /\ Sending(c)' => Sending(c)
        /\ Sent(c)' => Sent(c) \/ (Sending(c) /\ ~Sending(c)')
        /\ Relayed(c)' => Relayed(c) \/ (Sent(c) /\ ~Sent(c)' /\ Host \in joined)
        /\ runs'[c] # 0 => runs[c] # 0 \/ (Relayed(c) /\ ~Relayed(c)')
        /\ Refused(c)' => Refused(c) \/ (Sent(c) /\ ~Sent(c)' /\ Host \notin joined)
    BY StageMoves
  <2>4. /\ Sending(c)' => ~Sent(c)' /\ ~Relayed(c)' /\ runs'[c] = 0 /\ ~Refused(c)'
        /\ Sent(c)'    => ~Relayed(c)' /\ runs'[c] = 0 /\ ~Refused(c)'
        /\ Relayed(c)' => runs'[c] = 0 /\ ~Refused(c)'
        /\ Refused(c)' => runs'[c] = 0
    BY <2>2, <2>3, Zenon
  <2> QED
    BY <2>4 DEF OneStage
<1>4. ASSUME NEW c \in DOMAIN calls', c \notin DOMAIN calls
      PROVE  OneStage(c)'
  <2>1. \E k \in Clients : CallRemoteHostFunction(k)
    <3>1. CASE calls' = calls
      BY <1>4, <3>1
    <3> QED
      BY <3>1, Steps DEF Quiet, RunsCall, ToldGone, Died, CalledBack, MadeNull, Kept
  <2>2. PICK k \in Clients : CallRemoteHostFunction(k)
    BY <2>1
  <2>3. PICK new \in Calls :
           /\ new = Len(calls) + 1 /\ new \notin DOMAIN calls
           /\ DOMAIN calls' = DOMAIN calls \cup {new}
           /\ functionCallbackIDCounter[k] \in CallbackIDs
           /\ calls' \in Seq([client : Clients, key : Nat, callbackID : CallbackIDs])
           /\ calls'[new].client = k /\ calls'[new].key = key[k]
           /\ calls'[new].callbackID = functionCallbackIDCounter[k]
           /\ \A d \in DOMAIN calls : calls'[d] = calls[d] /\ d < new
           /\ Len(calls') = Len(calls) + 1
    BY <2>2, PlacedCall
  <2>4. c = new /\ Client(c)' = k
    BY <1>4, <2>3 DEF Client
  <2>5. up' = up /\ down' = down /\ runs' = runs /\ status' = [status EXCEPT ![c] = "waiting"]
    BY <2>2, <2>3, <2>4 DEF CallRemoteHostFunction
  <2>6. runs'[c] = 0
    BY <1>4, <2>3, <2>4, <2>5 DEF IInv, StatusFits
  <2>7. c \notin DOMAIN calls \cup {0} /\ k \in Ends /\ Host \in Ends
    BY <1>4, <2>3, <2>4, QueuesAre, RelayAssumption DEF Calls
  <2>8. Request(c).call = c /\ Error(c).call = c
    BY Kinds
  <2>9. ~Holds(up[k], Request(c)) /\ ~Holds(down[Host], Request(c)) /\ ~Holds(down[k], Error(c))
    BY <2>7, <2>8, CallsKnown
  <2>10. status'[c] = "waiting"
    BY <2>3, <2>4, <2>5 DEF IInv, TypeOK
  <2>11. Request(c)' = Request(c) /\ Error(c)' = Error(c)
    BY DEF Request, Error
  <2>12. ~Sent(c)' /\ ~Relayed(c)' /\ ~Refused(c)'
    BY <2>4, <2>5, <2>9, <2>10, <2>11 DEF Sent, Relayed, Refused
  <2> QED
    BY <2>6, <2>12 DEF OneStage
<1> QED
  BY <1>1, <1>2, <1>3, <1>4 DEF RequestOnce

\* A queue that a lost connection has cut off hears of it before any new join.
LEMMA EndsStep ==
    ASSUME IInv, Next
    PROVE  EndsFit'
<1>1. SUFFICES ASSUME NEW n \in Ends
               PROVE  /\ GoneLast(down'[n])
                      /\ disconnected'[n] => down'[n] = <<>>
                      /\ disconnected'[n] \/ Lost(n)' => ~Reaches(n)' /\ ~Fresh(up'[n], Join)
  <2>1. Join' = Join
    BY DEF Join
  <2> QED
    BY <2>1 DEF EndsFit
<1> DEFINE Gap  == disconnected[n] \/ Lost(n) => ~Reaches(n) /\ ~Fresh(up[n], Join)
           Gap1 == disconnected'[n] \/ Holds(down'[n], Gone)
                       => ~(n \in joined' /\ ~Holds(up'[n], Gone)) /\ ~Fresh(up'[n], Join)
<1>2. GoneLast(down[n]) /\ (disconnected[n] => down[n] = <<>>) /\ Gap
      /\ up[n] \in Seq(Message) /\ down[n] \in Seq(Message) /\ inputQueue[n] \in Seq(Message)
  BY QueuesAre DEF IInv, EndsFit
<1>3. Gone' = Gone /\ Join # Gone /\ Join \in Message /\ Gone \in Message
      /\ Join.type = "join" /\ Gone.type = "gone"
  BY Kinds, InMessage DEF Gone
<1>4. (Lost(n)' <=> Holds(down'[n], Gone)) /\ (Reaches(n)' <=> n \in joined' /\ ~Holds(up'[n], Gone))
  BY <1>3 DEF Lost, Reaches
<1>5. GoneLast(down'[n])
  BY DownSources
<1>6. SUFFICES (disconnected'[n] => down'[n] = <<>>) /\ Gap1
  BY <1>4, <1>5
<1>7. (Lost(n) <=> Holds(down[n], Gone)) /\ (Reaches(n) <=> n \in joined /\ ~Holds(up[n], Gone))
  BY DEF Lost, Reaches
<1>8. ASSUME UNCHANGED <<disconnected, down, joined, up>>
      PROVE  (disconnected'[n] => down'[n] = <<>>) /\ Gap1
  BY <1>2, <1>7, <1>8
<1>9. ASSUME NEW m \in Ends, NetSends(m)
      PROVE  (disconnected'[n] => down'[n] = <<>>) /\ Gap1
  <2>1. /\ inputQueue[m] # <<>> /\ UNCHANGED <<disconnected, down, joined>> /\ ~disconnected[m]
        /\ up' = IF Lost(m) THEN up ELSE [up EXCEPT ![m] = Append(@, Head(inputQueue[m]))]
    BY <1>9 DEF NetSends, trackerVars
  <2>2. CASE up'[n] = up[n]
    BY <1>2, <1>7, <2>1, <2>2
  <2>3. CASE up'[n] # up[n]
    BY <1>7, <2>1, <2>3, QueuesAre
  <2> QED
    BY <2>2, <2>3
<1>10. ASSUME NEW m \in Ends, Lose(m)
       PROVE  (disconnected'[n] => down'[n] = <<>>) /\ Gap1
  <2>1. PICK u \in Arrives(up[m]), d \in Arrives(down[m]) :
            up' = [up EXCEPT ![m] = Append(u, Gone)] /\ down' = [down EXCEPT ![m] = Append(d, Gone)]
    BY <1>10 DEF Lose
  <2>2. ~disconnected[m] /\ UNCHANGED <<disconnected, joined>>
    BY <1>10 DEF Lose, endVars, trackerVars
  <2>3. CASE n = m
    <3>1. up'[n] = Append(u, Gone)
      BY <2>1, <2>3, QueuesAre
    <3>2. Holds(up'[n], Gone) /\ ~Fresh(up'[n], Join)
      BY <1>2, <1>3, <2>3, <3>1, CutOff
    <3> QED
      BY <2>2, <2>3, <3>2
  <2>4. CASE n # m
    <3>1. up'[n] = up[n] /\ down'[n] = down[n]
      BY <2>1, <2>4, QueuesAre
    <3> QED
      BY <1>2, <1>7, <2>2, <3>1
  <2> QED
    BY <2>3, <2>4
<1>11. ASSUME NEW m \in Ends, Reconnect(m)
       PROVE  (disconnected'[n] => down'[n] = <<>>) /\ Gap1
  <2>1. /\ disconnected[m] /\ disconnected' = [disconnected EXCEPT ![m] = FALSE]
        /\ up' = [up EXCEPT ![m] = Append(@, Join)] /\ UNCHANGED <<down, joined>>
    BY <1>11 DEF Reconnect, trackerVars
  <2>2. CASE n = m
    <3>1. ~disconnected'[n] /\ down'[n] = <<>>
      BY <1>2, <2>1, <2>2, QueuesAre
    <3> QED
      BY <3>1, Empty
  <2>3. CASE n # m
    <3>1. up'[n] = up[n] /\ disconnected'[n] = disconnected[n]
      BY <2>1, <2>3, QueuesAre
    <3> QED
      BY <1>2, <1>7, <2>1, <3>1
  <2> QED
    BY <2>2, <2>3
<1>12. ASSUME NEW m \in Ends, TrackerAddsOrRemoves(m)
       PROVE  (disconnected'[n] => down'[n] = <<>>) /\ Gap1
  <2>1. /\ up[m] # <<>> /\ up' = [up EXCEPT ![m] = Tail(@)] /\ UNCHANGED <<disconnected, down>>
        /\ \/ Head(up[m]).type = "join" /\ joined' = joined \cup {m}
           \/ joined' = joined \ {m}
    BY <1>12 DEF TrackerAddsOrRemoves, Handles, endVars
  <2>2. CASE n # m
    <3>1. up'[n] = up[n] /\ (n \in joined' <=> n \in joined)
      BY <2>1, <2>2, QueuesAre
    <3> QED
      BY <1>2, <1>7, <2>1, <3>1
  <2>3. CASE n = m
    <3>1. up[n] # <<>> /\ up'[n] = Tail(up[n])
      BY <2>1, <2>3, QueuesAre
    <3>2. ~Fresh(up[n], Join) => ~Fresh(up'[n], Join)
      BY <1>2, <3>1, Tails
    <3>3. CASE joined' = joined \ {m}
      BY <1>2, <1>7, <2>1, <2>3, <3>2, <3>3
    <3>4. CASE Head(up[m]).type = "join"
      <4>1. Head(up[n]) # Gone
        BY <1>3, <2>3, <3>4
      <4>2. Holds(up[n], Gone) => Holds(up'[n], Gone)
        BY <1>2, <3>1, <4>1, Tails
      <4>3. ~Holds(up[n], Gone) => Fresh(up[n], Head(up[n]))
        BY <1>2, <3>1, Tails
      <4>4. Head(up[n]) = Join
        <5>1. Holds(up[n], Head(up[n]))
          BY <1>2, <3>1, Tails
        <5>2. CASE n \in Clients
          <6>1. Head(up[n]) \in {Join, Gone} \cup Requests(n)
            BY <5>1, <5>2, Held DEF IInv, MessagesFit
          <6> QED
            BY <2>3, <3>4, <6>1, Kinds DEF Requests
        <5>3. CASE n = Host
          <6>1. Head(up[n]) \in {Join, Gone} \cup Answers
            BY <5>1, <5>3, Held DEF IInv, MessagesFit
          <6> QED
            BY <2>3, <3>4, <6>1, Kinds DEF Answers
        <5> QED
          BY <5>2, <5>3 DEF Ends
      <4> QED
        BY <1>2, <1>7, <2>1, <3>2, <4>2, <4>3, <4>4
    <3> QED
      BY <2>1, <3>3, <3>4
  <2> QED
    BY <2>2, <2>3
<1>13. ASSUME NEW k \in Clients, Polled(k), UNCHANGED joined
       PROVE  (disconnected'[n] => down'[n] = <<>>) /\ Gap1
  <2>1. CASE n # k
    <3>1. down'[n] = down[n] /\ disconnected'[n] = disconnected[n] /\ up' = up
      BY <1>13, <2>1, QueuesAre DEF Polled
    <3> QED
      BY <1>2, <1>7, <1>13, <3>1
  <2>2. CASE n = k
    <3>1. down[n] # <<>> /\ down'[n] = Tail(down[n]) /\ up' = up /\ ~disconnected[n]
          /\ (disconnected'[n] => Head(down[n]) = Gone)
      BY <1>13, <2>2, QueuesAre DEF Polled
    <3>2. /\ Holds(down[n], Head(down[n])) /\ (Head(down[n]) = Gone => Tail(down[n]) = <<>>)
          /\ (Holds(down'[n], Gone) => Holds(down[n], Gone))
      BY <1>2, <3>1, Tails
    <3> QED
      BY <1>2, <1>7, <1>13, <3>1, <3>2
  <2> QED
    BY <2>1, <2>2
<1>14. ASSUME NEW k \in Clients, NEW failed, Die(k, failed), UNCHANGED joined
       PROVE  (disconnected'[n] => down'[n] = <<>>) /\ Gap1
  <2>1. PICK u \in Arrives(up[k]) : up' = [up EXCEPT ![k] = u \o <<Gone, Join>>]
    BY <1>14 DEF Die
  <2>2. disconnected' = [disconnected EXCEPT ![k] = FALSE] /\ down' = [down EXCEPT ![k] = <<>>]
    BY <1>14 DEF Die
  <2>3. CASE n # k
    <3>1. down'[n] = down[n] /\ disconnected'[n] = disconnected[n] /\ up'[n] = up[n]
      BY <2>1, <2>2, <2>3, QueuesAre
    <3> QED
      BY <1>2, <1>7, <1>14, <3>1
  <2>4. CASE n = k
    <3>1. down'[n] = <<>> /\ ~disconnected'[n]
      BY <2>2, <2>4, QueuesAre
    <3> QED
      BY <3>1, Empty
  <2> QED
    BY <2>3, <2>4
<1>15. ASSUME NEW k \in Clients, Restart(k) \/ ClientPolls(k)
       PROVE  (disconnected'[n] => down'[n] = <<>>) /\ Gap1
  <2>1. joined' = joined
    BY <1>15, ClientQueues DEF trackerVars
  <2> QED
    BY <1>13, <1>14, <1>15, <2>1, ClientQueues
<1>16. ASSUME NEW k \in Ends, RelayAnswer \/ (k \in Clients /\ RelayRequest(k)), RelayAnswer => k = Host
       PROVE  (disconnected'[n] => down'[n] = <<>>) /\ Gap1
  <2>1. /\ up[k] # <<>> /\ Head(up[k]).type # "gone" /\ up' = [up EXCEPT ![k] = Tail(@)]
        /\ UNCHANGED <<disconnected, joined>>
    BY <1>16 DEF RelayAnswer, RelayRequest, Handles, endVars, trackerVars
  <2>2. down'[n] = down[n] \/ Reaches(n)
    BY <1>16, TrackerSends
  <2>3. /\ Holds(up[n], Gone) => Holds(up'[n], Gone)
        /\ ~Fresh(up[n], Join) => ~Fresh(up'[n], Join)
    <3>1. CASE n = k
      <4>1. up'[n] = Tail(up[n]) /\ up[n] # <<>> /\ Head(up[n]) # Gone
        BY <1>3, <2>1, <3>1, QueuesAre
      <4> QED
        BY <1>2, <4>1, Tails
    <3>2. CASE n # k
      <4>1. up'[n] = up[n]
        BY <2>1, <3>2, QueuesAre
      <4> QED
        BY <4>1
    <3> QED
      BY <3>1, <3>2
  <2>4. CASE down'[n] = down[n]
    BY <1>2, <1>7, <2>1, <2>3, <2>4
  <2>5. CASE Reaches(n) /\ down'[n] # down[n]
    <3>1. ~disconnected[n] /\ ~Holds(down[n], Gone)
      BY <1>2, <1>7, <2>5
    <3>2. ~Holds(down'[n], Gone)
      <4>1. PICK m : Reaches(n) /\ Delivers(n, m) /\ down'[n] = Append(down[n], m)
        BY <1>16, <2>5, TrackerSends
      <4>2. m # Gone /\ m \in Message
        <5>1. /\ \A c \in DOMAIN calls : Request(c) # Gone /\ Request(c) \in Message /\ Error(c) # Gone
                                         /\ Error(c) \in Message
          BY CallsType, InMessage, Kinds
        <5>2. \A c \in CallsOf(n) : c \in DOMAIN calls
          BY DEF CallsOf
        <5>3. \A x \in Answers : x # Gone /\ x \in Message
          BY CallsType, InMessage, Kinds DEF Answers
        <5> QED
          BY <4>1, <5>1, <5>2, <5>3, Delivered
      <4> QED
        BY <1>2, <3>1, <4>1, <4>2, Appends
    <3> QED
      BY <2>1, <3>1, <3>2
  <2> QED
    BY <2>2, <2>4, <2>5
<1>17. ASSUME ProcessGetRequest \/ HostPollsGone
       PROVE  (disconnected'[n] => down'[n] = <<>>) /\ Gap1
  <2>1. /\ down[Host] # <<>> /\ down' = [down EXCEPT ![Host] = Tail(@)] /\ UNCHANGED <<up, joined>>
        /\ ~disconnected[Host]
        /\ \/ disconnected' = disconnected
           \/ /\ Head(down[Host]).type = "gone"
              /\ disconnected' = [disconnected EXCEPT ![Host] = TRUE]
    BY <1>17 DEF ProcessGetRequest, HostPollsGone, Polls, endVars, trackerVars
  <2>2. CASE n # Host
    <3>1. down'[n] = down[n] /\ disconnected'[n] = disconnected[n]
      BY <2>1, <2>2, QueuesAre
    <3> QED
      BY <1>2, <1>7, <2>1, <3>1
  <2>3. CASE n = Host
    <3>1. down[n] # <<>> /\ down'[n] = Tail(down[n]) /\ up' = up /\ ~disconnected[n]
          /\ (disconnected'[n] => Head(down[n]) = Gone)
      BY <2>1, <2>3, HostsHead, QueuesAre
    <3>2. /\ Holds(down[n], Head(down[n])) /\ (Head(down[n]) = Gone => Tail(down[n]) = <<>>)
          /\ (Holds(down'[n], Gone) => Holds(down[n], Gone))
      BY <1>2, <3>1, Tails
    <3> QED
      BY <1>2, <1>7, <2>1, <3>1, <3>2
  <2> QED
    BY <2>2, <2>3
<1>18. CASE HostRestart
  <2>1. PICK u \in Arrives(up[Host]) : up' = [up EXCEPT ![Host] = u \o <<Gone, Join>>]
    BY <1>18 DEF HostRestart
  <2>2. disconnected' = [disconnected EXCEPT ![Host] = FALSE] /\ down' = [down EXCEPT ![Host] = <<>>]
        /\ joined' = joined
    BY <1>18 DEF HostRestart, trackerVars
  <2>3. CASE n # Host
    <3>1. down'[n] = down[n] /\ disconnected'[n] = disconnected[n] /\ up'[n] = up[n]
      BY <2>1, <2>2, <2>3, QueuesAre
    <3> QED
      BY <1>2, <1>7, <2>2, <3>1
  <2>4. CASE n = Host
    <3>1. down'[n] = <<>> /\ ~disconnected'[n]
      BY <2>2, <2>4, QueuesAre
    <3> QED
      BY <3>1, Empty
  <2> QED
    BY <2>3, <2>4
<1>19. CASE TrackerRestart
  <2>1. /\ joined' = {} /\ up' = [x \in Ends |-> <<>>] /\ disconnected' = disconnected
        /\ disconnected[n] => down'[n] = down[n]
    BY <1>19 DEF TrackerRestart, endVars
  <2> QED
    BY <1>2, <2>1, Empty
<1>20. ASSUME NEW c \in Calls, HostAnswers(c)
       PROVE  UNCHANGED <<disconnected, down, joined, up>>
  BY <1>20 DEF HostAnswers, trackerVars
<1>21. ASSUME NEW k \in Clients, CallRemoteHostFunction(k)
       PROVE  UNCHANGED <<disconnected, down, joined, up>>
  BY <1>21 DEF CallRemoteHostFunction, trackerVars
<1>22. CASE HostSetsGet
  BY <1>8, <1>22 DEF HostSetsGet, endVars, trackerVars
<1> HIDE DEF Gap, Gap1
<1> QED
  BY <1>8, <1>9, <1>10, <1>11, <1>12, <1>15, <1>16, <1>17, <1>18, <1>19, <1>20, <1>21, <1>22,
     QueuesAre DEF Next, HostPolls

-----------------------------------------------------------------------------
(***************************************************************************)
(* Types.                                                                  *)
(***************************************************************************)
LEMMA CallTypes ==
    ASSUME IInv, Next
    PROVE  /\ calls' \in Seq([client : Clients, key : Nat, callbackID : CallbackIDs])
           /\ status' \in [Calls -> {"unplaced", "waiting", "ok", "refused", "failed", "lost"}]
           /\ runs' \in [Calls -> 0 .. 1]
           /\ key' \in [Clients -> Nat]
           /\ functionCallbackIDCounter' \in [Clients -> 0 .. MaxCalls]
           /\ callbacksByID' \in [Clients -> [CallbackIDs -> {"absent", "live", "null"}]]
<1> DEFINE Statuses == {"unplaced", "waiting", "ok", "refused", "failed", "lost"}
           CallSeqs == Seq([client : Clients, key : Nat, callbackID : CallbackIDs])
           Goal == /\ calls' \in CallSeqs
                   /\ status' \in [Calls -> Statuses]
                   /\ runs' \in [Calls -> 0 .. 1]
                   /\ key' \in [Clients -> Nat]
                   /\ functionCallbackIDCounter' \in [Clients -> 0 .. MaxCalls]
                   /\ callbacksByID' \in [Clients -> [CallbackIDs -> {"absent", "live", "null"}]]
<1>1. /\ calls \in CallSeqs
      /\ status \in [Calls -> Statuses] /\ runs \in [Calls -> 0 .. 1]
      /\ key \in [Clients -> Nat] /\ functionCallbackIDCounter \in [Clients -> 0 .. MaxCalls]
      /\ callbacksByID \in [Clients -> [CallbackIDs -> {"absent", "live", "null"}]]
      /\ MaxCalls \in Nat
  BY RelayAssumption DEF IInv, TypeOK
<1>2. \A k \in Clients : \A c \in CallsOf(k) : c \in Calls
  BY CallsType DEF CallsOf
<1> HIDE DEF CallSeqs
<1>3. ASSUME Quiet
      PROVE  Goal
  BY <1>1, <1>3 DEF Quiet, Kept
<1>4. ASSUME NEW c \in DOMAIN calls, RunsCall(c)
      PROVE  Goal
  <2>1. runs' \in [Calls -> 0 .. 1]
    BY <1>4, RunsOnce
  <2> QED
    BY <1>1, <1>4, <2>1 DEF RunsCall, Kept
<1>5. ASSUME NEW k \in Clients, CallRemoteHostFunction(k)
      PROVE  Goal
  <2>1. PICK c \in Calls :
           /\ c = Len(calls) + 1 /\ c \notin DOMAIN calls /\ DOMAIN calls' = DOMAIN calls \cup {c}
           /\ functionCallbackIDCounter[k] \in CallbackIDs
           /\ calls' \in Seq([client : Clients, key : Nat, callbackID : CallbackIDs])
           /\ calls'[c].client = k /\ calls'[c].key = key[k]
           /\ calls'[c].callbackID = functionCallbackIDCounter[k]
           /\ \A d \in DOMAIN calls : calls'[d] = calls[d] /\ d < c
           /\ Len(calls') = Len(calls) + 1
    BY <1>5, PlacedCall
  <2>2. /\ key' = key /\ runs' = runs /\ status' = [status EXCEPT ![c] = "waiting"]
        /\ functionCallbackIDCounter' = [functionCallbackIDCounter EXCEPT ![k] = @ + 1]
        /\ callbacksByID' = [callbacksByID EXCEPT ![k][functionCallbackIDCounter[k]] = "live"]
    BY <1>5, <2>1 DEF CallRemoteHostFunction
  <2>3. calls' \in CallSeqs
    BY <2>1 DEF CallSeqs
  <2>4. functionCallbackIDCounter[k] + 1 \in 0 .. MaxCalls
    BY <1>1, <2>1 DEF CallbackIDs
  <2>5. functionCallbackIDCounter' \in [Clients -> 0 .. MaxCalls]
    BY <1>1, <2>2, <2>4
  <2> QED
    BY <1>1, <2>1, <2>2, <2>3, <2>5
<1>6. ASSUME NEW k \in Clients, ToldGone(k)
      PROVE  Goal
  <2>1. PICK failed \in SUBSET Failing(k) :
            status' = [c \in Calls |-> IF c \in failed THEN "failed" ELSE status[c]]
    BY <1>6 DEF ToldGone
  <2>2. NoCallbacks \in [CallbackIDs -> {"absent", "live", "null"}]
    BY DEF NoCallbacks
  <2> QED
    BY <1>1, <1>6, <2>1, <2>2 DEF ToldGone, Kept
<1>7. ASSUME NEW k \in Clients, Died(k)
      PROVE  Goal
  <2>1. PICK failed \in SUBSET Failing(k) : Die(k, failed)
    BY <1>7 DEF Died
  <2>2. NoCallbacks \in [CallbackIDs -> {"absent", "live", "null"}]
    BY DEF NoCallbacks
  <2>3. /\ calls' = calls /\ runs' = runs /\ key' = [key EXCEPT ![k] = @ + 1]
        /\ functionCallbackIDCounter' = [functionCallbackIDCounter EXCEPT ![k] = 0]
        /\ callbacksByID' = [callbacksByID EXCEPT ![k] = NoCallbacks]
        /\ status' = [c \in Calls |->
                IF c \in failed THEN "failed"
                ELSE IF \E id \in Waiting(k) : c = CallOf(k, id) THEN "lost"
                ELSE status[c]]
    BY <1>7, <2>1 DEF Died, Die, NewKey
  <2>4. status' \in [Calls -> Statuses]
    BY <1>1, <2>3
  <2>5. key' \in [Clients -> Nat]
    BY <1>1, <2>3
  <2>6. functionCallbackIDCounter' \in [Clients -> 0 .. MaxCalls]
    BY <1>1, <2>3
  <2>7. callbacksByID' \in [Clients -> [CallbackIDs -> {"absent", "live", "null"}]]
    BY <1>1, <2>2, <2>3
  <2> QED
    BY <1>1, <2>3, <2>4, <2>5, <2>6, <2>7
<1>8. ASSUME NEW k \in Clients, NEW c \in CallsOf(k), NEW result \in {"ok", "refused"},
             CalledBack(k, c, result)
      PROVE  Goal
  <2>1. /\ Kept /\ runs' = runs /\ status' = [status EXCEPT ![c] = result]
        /\ callbacksByID' = [callbacksByID EXCEPT ![k][calls[c].callbackID] = "absent"]
    BY <1>8 DEF CalledBack
  <2> QED
    BY <1>1, <1>2, <2>1 DEF Kept
<1>9. ASSUME NEW k \in Clients, NEW id \in CallbackIDs, MadeNull(k, id)
      PROVE  Goal
  BY <1>1, <1>9 DEF MadeNull, Kept
<1> QED
  BY <1>3, <1>4, <1>5, <1>6, <1>7, <1>8, <1>9, Steps DEF CallSeqs

\* The calls in a queue have been placed.
LEMMA CallsInKnown ==
    ASSUME IInv, NEW n \in Ends, NEW q \in {inputQueue[n], up[n], down[n]}
    PROVE  /\ CallsIn(q) \subseteq DOMAIN calls
           /\ \A u \in Arrives(q) : CallsLost(q, u) \subseteq DOMAIN calls
<1>1. q \in Seq(Message)
  BY QueuesAre
<1>2. \A m : Holds(q, m) => m.call \in DOMAIN calls \cup {0}
  BY CallsKnown
<1>3. CallsIn(q) \subseteq DOMAIN calls
  BY <1>2 DEF CallsIn, Holds
<1>4. ASSUME NEW u \in Arrives(q)
      PROVE  CallsLost(q, u) \subseteq DOMAIN calls
  <2>1. Len(u) \in 0 .. Len(q) /\ Len(q) \in Nat
    <3>1. PICK i \in 0 .. Len(q) : u = SubSeq(q, 1, i)
      BY <1>1, ArrivesIsPrefix
    <3> QED
      BY <1>1, <3>1
  <2>2. PICK a \in 1 .. Len(q) + 1 : a = Len(u) + 1
    BY <2>1
  <2> DEFINE s == SubSeq(q, a, Len(q))
  <2>3. \A i \in DOMAIN s : a + i - 1 \in DOMAIN q /\ s[i] = q[a + i - 1]
    BY <1>1, <2>1
  <2> HIDE DEF s
  <2>4. \A i \in DOMAIN s : s[i].call \in DOMAIN calls \cup {0}
    BY <1>2, <2>3 DEF Holds
  <2> QED
    BY <2>2, <2>4 DEF CallsLost, CallsIn, s
<1> QED
  BY <1>3, <1>4

\* What nobody will answer any more was a call.
LEMMA ForgottenStep ==
    ASSUME IInv, Next
    PROVE  forgotten' \subseteq DOMAIN calls'
<1>1. forgotten \subseteq DOMAIN calls /\ DOMAIN calls \subseteq DOMAIN calls'
  BY SetsGrow DEF IInv, TypeOK
<1>2. SUFFICES \A c \in forgotten' : c \in forgotten \/ c \in DOMAIN calls'
  BY <1>1
<1>3. CASE forgotten' = forgotten
  BY <1>3
<1>4. ASSUME NEW n \in Ends, NetSends(n)
      PROVE  forgotten' \subseteq forgotten \cup DOMAIN calls
  <2>1. forgotten' = forgotten \/ (n = Host /\ inputQueue[n] # <<>>
                                  /\ forgotten' = forgotten \cup {Head(inputQueue[n]).call})
    BY <1>4 DEF NetSends
  <2>2. CASE n = Host /\ inputQueue[n] # <<>>
    <3>1. Head(inputQueue[n]) \in Answers
      BY <2>2, InputAtHead
    <3>2. Head(inputQueue[n]).call \in DOMAIN calls
      BY <3>1, Kinds DEF Answers
    <3> QED
      BY <2>1, <3>2
  <2> QED
    BY <2>1, <2>2
<1>5. ASSUME NEW n \in Ends, Lose(n)
      PROVE  forgotten' \subseteq forgotten \cup DOMAIN calls
  <2>1. PICK u \in Arrives(up[n]), d \in Arrives(down[n]) :
            forgotten' \subseteq forgotten \cup CallsLost(up[n], u) \cup CallsLost(down[n], d)
    BY <1>5 DEF Lose
  <2>2. CallsLost(up[n], u) \subseteq DOMAIN calls /\ CallsLost(down[n], d) \subseteq DOMAIN calls
    BY CallsInKnown
  <2> QED
    BY <2>1, <2>2
<1>6. ASSUME NEW k \in Clients, CallRemoteHostFunction(k)
      PROVE  forgotten' \subseteq forgotten \cup DOMAIN calls'
  <2>1. PICK c \in Calls : c = Len(calls) + 1 /\ DOMAIN calls' = DOMAIN calls \cup {c}
    BY <1>6, PlacedCall
  <2> QED
    BY <1>6, <2>1 DEF CallRemoteHostFunction
<1>7. ASSUME ProcessGetRequest
      PROVE  forgotten' \subseteq forgotten \cup DOMAIN calls
  BY <1>7, ProcessGetSteps DEF ProcessGetRequest
<1>8. ASSUME NEW c \in Calls, HostAnswers(c)
      PROVE  forgotten' \subseteq forgotten \cup DOMAIN calls
  BY <1>8 DEF HostAnswers, IInv, StatusFits
<1>9. ASSUME HostRestart
      PROVE  forgotten' \subseteq forgotten \cup DOMAIN calls
  <2>1. PICK u \in Arrives(up[Host]) :
            forgotten' = forgotten \cup answering \cup CallsIn(down[Host])
                            \cup CallsIn(inputQueue[Host]) \cup CallsLost(up[Host], u)
    BY <1>9 DEF HostRestart
  <2>2. /\ CallsIn(down[Host]) \subseteq DOMAIN calls /\ CallsIn(inputQueue[Host]) \subseteq DOMAIN calls
        /\ CallsLost(up[Host], u) \subseteq DOMAIN calls
    BY CallsInKnown, QueuesAre
  <2>3. answering \subseteq DOMAIN calls
    BY DEF IInv, StatusFits
  <2> QED
    BY <2>1, <2>2, <2>3
<1>10. ASSUME NEW k \in Clients, RelayRequest(k)
       PROVE  forgotten' \subseteq forgotten \cup DOMAIN calls
  <2>1. PICK c \in CallsOf(k) : Head(up[k]).call = c
    BY <1>10, RequestTaken
  <2>2. c \in DOMAIN calls
    BY DEF CallsOf
  <2> QED
    BY <1>10, <2>1, <2>2 DEF RelayRequest
<1>11. ASSUME \/ \E n \in Ends : Reconnect(n) \/ TrackerAddsOrRemoves(n)
              \/ \E k \in Clients : Restart(k) \/ ClientPolls(k)
              \/ HostSetsGet \/ HostPollsGone \/ RelayAnswer \/ TrackerRestart
       PROVE  forgotten' = forgotten
  BY <1>11 DEF Reconnect, TrackerAddsOrRemoves, Restart, ClientPolls, PollError, PollPart, PollGone,
               HostSetsGet, HostPollsGone, RelayAnswer, TrackerRestart, historyVars
<1> QED
  BY <1>1, <1>3, <1>4, <1>5, <1>6, <1>7, <1>8, <1>9, <1>10, <1>11 DEF Next, HostPolls

LEMMA DownloadsStep ==
    ASSUME IInv, Next
    PROVE  downloads' \in [Clients -> [Calls -> 0 .. Parts - 1]]
<1>1. downloads \in [Clients -> [Calls -> 0 .. Parts - 1]] /\ Parts \in Nat \ {0}
  BY RelayAssumption DEF IInv, TypeOK
<1>2. NoDownloads \in [Calls -> 0 .. Parts - 1]
  BY <1>1 DEF NoDownloads
<1>3. CASE downloads' = downloads
  BY <1>1, <1>3
<1>4. ASSUME NEW k \in Clients, NEW failed, Die(k, failed)
      PROVE  downloads' \in [Clients -> [Calls -> 0 .. Parts - 1]]
  BY <1>1, <1>2, <1>4 DEF Die
<1>5. ASSUME NEW k \in Clients, PollError(k)
      PROVE  downloads' = downloads \/ \E failed : Die(k, failed)
  BY <1>5 DEF PollError, CallBack
<1>6. ASSUME NEW k \in Clients, PollGone(k)
      PROVE  downloads' = downloads \/ \E failed : Die(k, failed)
  BY <1>6 DEF PollGone
<1>7. ASSUME NEW k \in Clients, PollPart(k)
      PROVE  downloads' \in [Clients -> [Calls -> 0 .. Parts - 1]]
  <2>1. down[k] # <<>> /\ Head(down[k]).type = "part"
    BY <1>7 DEF PollPart, Polls
  <2>2. PICK c \in DOMAIN calls : Head(down[k]).call = c
    BY <2>1, ClientsHead
  <2>3. c \in Calls
    BY CallsType
  <2> DEFINE id == calls[c].callbackID
             received == downloads[k][c] + 1
  <2>4. \/ downloads' = downloads
        \/ CallBack(k, id, "ok", c, [downloads EXCEPT ![k][c] = 0])
        \/ ~(received >= Parts) /\ downloads' = [downloads EXCEPT ![k][c] = received]
    <3>1. CASE calls[c].client # k \/ calls[c].key # key[k]
      BY <1>7, <2>2, <3>1 DEF PollPart, clientVars
    <3>2. CASE calls[c].client = k /\ calls[c].key = key[k] /\ received >= Parts
      BY <1>7, <2>2, <3>2 DEF PollPart
    <3>3. CASE calls[c].client = k /\ calls[c].key = key[k] /\ ~(received >= Parts)
      BY <1>7, <2>2, <3>3 DEF PollPart
    <3> QED
      BY <3>1, <3>2, <3>3
  <2>5. ASSUME CallBack(k, id, "ok", c, [downloads EXCEPT ![k][c] = 0])
        PROVE  \/ downloads' = [downloads EXCEPT ![k][c] = 0]
               \/ \E failed : Die(k, failed)
    BY <2>5 DEF CallBack
  <2>6. downloads[k][c] \in 0 .. Parts - 1
    BY <1>1, <2>3
  <2>7. CASE ~(received >= Parts) /\ downloads' = [downloads EXCEPT ![k][c] = received]
    <3>1. received \in 0 .. Parts - 1
      BY <1>1, <2>6, <2>7
    <3> QED
      BY <1>1, <2>3, <2>7, <3>1
  <2>8. CASE downloads' = [downloads EXCEPT ![k][c] = 0]
    <3>1. 0 \in 0 .. Parts - 1
      BY <1>1
    <3> QED
      BY <1>1, <2>3, <2>8, <3>1
  <2> QED
    BY <1>3, <1>4, <2>4, <2>5, <2>7, <2>8
<1>8. ASSUME NEW k \in Clients, Restart(k)
      PROVE  \E failed : Die(k, failed)
  BY <1>8 DEF Restart
<1>9. ASSUME \/ \E n \in Ends : NetSends(n) \/ Lose(n) \/ Reconnect(n) \/ TrackerAddsOrRemoves(n)
             \/ \E k \in Clients : CallRemoteHostFunction(k) \/ RelayRequest(k)
             \/ HostSetsGet \/ HostPolls \/ HostRestart
             \/ \E c \in Calls : HostAnswers(c)
             \/ RelayAnswer \/ TrackerRestart
      PROVE  downloads' = downloads
  BY <1>9 DEF NetSends, Lose, Reconnect, TrackerAddsOrRemoves, CallRemoteHostFunction, RelayRequest,
              HostSetsGet, HostPolls, ProcessGetRequest, HostPollsGone, HostRestart, HostAnswers,
              RelayAnswer, TrackerRestart, clientVars
<1> QED
  BY <1>3, <1>4, <1>5, <1>6, <1>7, <1>8, <1>9 DEF Next, ClientPolls

\* f is defined for the ends, and for nobody else.
Shaped(f) == f = [x \in Ends |-> f[x]]

\* A step keeps the queues of the ends, and of nobody else.
LEMMA QueueShapes ==
    ASSUME IInv, Next
    PROVE  /\ up' = [x \in Ends |-> up'[x]] /\ down' = [x \in Ends |-> down'[x]]
           /\ inputQueue' = [x \in Ends |-> inputQueue'[x]]
           /\ disconnected' \in [Ends -> BOOLEAN]
<1> DEFINE Goal == /\ Shaped(up') /\ Shaped(down') /\ Shaped(inputQueue')
                   /\ disconnected' \in [Ends -> BOOLEAN]
<1>1. Shaped(up) /\ Shaped(down) /\ Shaped(inputQueue) /\ disconnected \in [Ends -> BOOLEAN]
  BY QueuesAre DEF Shaped
<1>3. \A n, b : b \in BOOLEAN => [disconnected EXCEPT ![n] = b] \in [Ends -> BOOLEAN]
  BY <1>1
<1>4. ASSUME NEW n \in Ends, NetSends(n)
      PROVE  Goal
  <2>1. \/ up' = up
        \/ up' = [up EXCEPT ![n] = Append(up[n], Head(inputQueue[n]))]
    BY <1>4 DEF NetSends
  <2>2. inputQueue' = [inputQueue EXCEPT ![n] = Tail(inputQueue[n])] /\ UNCHANGED <<down, disconnected>>
    BY <1>4 DEF NetSends
  <2> QED
    BY <1>1, <2>1, <2>2 DEF Shaped
<1>5. ASSUME NEW n \in Ends, Lose(n)
      PROVE  Goal
  <2>1. \E u, d : up' = [up EXCEPT ![n] = u] /\ down' = [down EXCEPT ![n] = d]
    BY <1>5 DEF Lose
  <2>2. UNCHANGED <<inputQueue, disconnected>>
    BY <1>5 DEF Lose, endVars
  <2> QED
    BY <1>1, <2>1, <2>2 DEF Shaped
<1>6. ASSUME NEW n \in Ends, Reconnect(n)
      PROVE  Goal
  <2>1. /\ up' = [up EXCEPT ![n] = Append(up[n], Join)] /\ UNCHANGED <<inputQueue, down>>
        /\ disconnected' = [disconnected EXCEPT ![n] = FALSE]
    BY <1>6 DEF Reconnect
  <2> QED
    BY <1>1, <1>3, <2>1 DEF Shaped
<1>7. ASSUME NEW n \in Ends, TrackerAddsOrRemoves(n)
      PROVE  Goal
  <2>1. up' = [up EXCEPT ![n] = Tail(up[n])] /\ UNCHANGED <<inputQueue, down, disconnected>>
    BY <1>7 DEF TrackerAddsOrRemoves, endVars
  <2> QED
    BY <1>1, <2>1 DEF Shaped
<1>8. ASSUME NEW k \in Clients, CallRemoteHostFunction(k)
      PROVE  Goal
  <2>1. \/ inputQueue' = inputQueue
        \/ inputQueue' = [inputQueue EXCEPT ![k] = Append(inputQueue[k], Request(Len(calls) + 1))]
    BY <1>8 DEF CallRemoteHostFunction
  <2>2. UNCHANGED <<up, down, disconnected>>
    BY <1>8 DEF CallRemoteHostFunction
  <2> QED
    BY <1>1, <2>1, <2>2 DEF Shaped
<1>9. ASSUME NEW k \in Clients, Polled(k)
      PROVE  Goal
  <2>1. /\ down' = [down EXCEPT ![k] = Tail(down[k])] /\ UNCHANGED <<inputQueue, up>>
        /\ disconnected' = disconnected \/ disconnected' = [disconnected EXCEPT ![k] = TRUE]
    BY <1>9 DEF Polled
  <2> QED
    BY <1>1, <1>3, <2>1 DEF Shaped
<1>10. ASSUME NEW k \in Clients, NEW failed, Die(k, failed)
       PROVE  Goal
  <2>1. /\ down' = [down EXCEPT ![k] = <<>>] /\ inputQueue' = [inputQueue EXCEPT ![k] = <<>>]
        /\ disconnected' = [disconnected EXCEPT ![k] = FALSE]
        /\ \E u : up' = [up EXCEPT ![k] = u]
    BY <1>10 DEF Die
  <2> QED
    BY <1>1, <1>3, <2>1 DEF Shaped
<1>11. ASSUME ProcessGetRequest \/ HostPollsGone
       PROVE  Goal
  <2>1. /\ down' = [down EXCEPT ![Host] = Tail(down[Host])] /\ UNCHANGED <<inputQueue, up>>
        /\ disconnected' = disconnected \/ disconnected' = [disconnected EXCEPT ![Host] = TRUE]
    BY <1>11 DEF ProcessGetRequest, HostPollsGone, endVars
  <2> QED
    BY <1>1, <1>3, <2>1 DEF Shaped
<1>12. ASSUME HostRestart
       PROVE  Goal
  <2>1. /\ down' = [down EXCEPT ![Host] = <<>>] /\ inputQueue' = [inputQueue EXCEPT ![Host] = <<>>]
        /\ disconnected' = [disconnected EXCEPT ![Host] = FALSE]
        /\ \E u : up' = [up EXCEPT ![Host] = u]
    BY <1>12 DEF HostRestart
  <2> QED
    BY <1>1, <1>3, <2>1 DEF Shaped
<1>13. ASSUME NEW c, HostAnswers(c)
       PROVE  Goal
  <2>1. /\ UNCHANGED <<up, down, disconnected>>
        /\ \/ inputQueue' = inputQueue
           \/ inputQueue' = [inputQueue EXCEPT ![Host] = inputQueue[Host] \o Answer(c)]
    BY <1>13 DEF HostAnswers
  <2> QED
    BY <1>1, <2>1 DEF Shaped
<1>14. ASSUME NEW k \in Clients, RelayRequest(k)
       PROVE  Goal
  <2>1. /\ up' = [up EXCEPT ![k] = Tail(up[k])] /\ UNCHANGED <<inputQueue, disconnected>>
        /\ down' = down \/ \E x, m : down' = [down EXCEPT ![x] = Append(down[x], m)]
    BY <1>14 DEF RelayRequest, Refusal, SentTo, endVars
  <2> QED
    BY <1>1, <2>1 DEF Shaped
<1>15. ASSUME RelayAnswer
       PROVE  Goal
  <2>1. /\ up' = [up EXCEPT ![Host] = Tail(up[Host])] /\ UNCHANGED <<inputQueue, disconnected>>
        /\ down' = down \/ \E x, m : down' = [down EXCEPT ![x] = Append(down[x], m)]
    BY <1>15 DEF RelayAnswer, SentTo, endVars
  <2> QED
    BY <1>1, <2>1 DEF Shaped
<1>16. ASSUME TrackerRestart
       PROVE  Goal
  <2>1. /\ UNCHANGED <<inputQueue, disconnected>> /\ up' = [x \in Ends |-> <<>>]
        /\ \E arrived : down' = [x \in Ends |->
              IF disconnected[x] \/ Lost(x) THEN down[x]
              ELSE Append(SubSeq(down[x], 1, arrived[x]), Gone)]
    BY <1>16 DEF TrackerRestart, endVars
  <2> QED
    BY <1>1, <2>1 DEF Shaped
<1>17. ASSUME HostSetsGet
       PROVE  Goal
  BY <1>1, <1>17 DEF HostSetsGet, endVars
<1>18. Goal
  BY <1>4, <1>5, <1>6, <1>7, <1>8, <1>9, <1>10, <1>11, <1>12, <1>13, <1>14, <1>15, <1>16, <1>17,
     ClientQueues DEF Next, HostPolls
<1> QED
  BY <1>18 DEF Shaped

LEMMA TrackerTypes ==
    ASSUME IInv, Next
    PROVE  /\ joined' \subseteq Ends /\ getSet' \in BOOLEAN
           /\ clientsByHostRequestIDs' \in [Calls -> Clients \cup {Nobody}]
<1> DEFINE Goal == /\ joined' \subseteq Ends /\ getSet' \in BOOLEAN
                   /\ clientsByHostRequestIDs' \in [Calls -> Clients \cup {Nobody}]
<1>1. /\ joined \subseteq Ends /\ getSet \in BOOLEAN
      /\ clientsByHostRequestIDs \in [Calls -> Clients \cup {Nobody}]
  BY DEF IInv, TypeOK
<1>2. CASE UNCHANGED <<joined, getSet, clientsByHostRequestIDs>>
  BY <1>1, <1>2
<1>3. ASSUME NEW n \in Ends, TrackerAddsOrRemoves(n)
      PROVE  Goal
  BY <1>1, <1>3 DEF TrackerAddsOrRemoves, hostVars
<1>4. ASSUME NEW k \in Clients, RelayRequest(k)
      PROVE  Goal
  <2>1. /\ UNCHANGED <<joined, getSet>>
        /\ \/ clientsByHostRequestIDs' = clientsByHostRequestIDs
           \/ clientsByHostRequestIDs' = [clientsByHostRequestIDs EXCEPT ![Head(up[k]).call] = k]
    BY <1>4 DEF RelayRequest, RequestID, hostVars
  <2> QED
    BY <1>1, <2>1
<1>5. ASSUME HostSetsGet \/ HostRestart \/ TrackerRestart
      PROVE  Goal
  BY <1>1, <1>5 DEF HostSetsGet, HostRestart, TrackerRestart, trackerVars, hostVars
<1>6. ASSUME \/ \E n \in Ends : NetSends(n) \/ Lose(n) \/ Reconnect(n)
             \/ \E k \in Clients : CallRemoteHostFunction(k)
             \/ HostPolls \/ RelayAnswer
             \/ \E c \in Calls : HostAnswers(c)
      PROVE  UNCHANGED <<joined, getSet, clientsByHostRequestIDs>>
  BY <1>6 DEF NetSends, Lose, Reconnect, CallRemoteHostFunction, HostPolls, ProcessGetRequest,
              HostPollsGone, RelayAnswer, HostAnswers, trackerVars, hostVars
<1>7. ASSUME NEW k \in Clients, Restart(k) \/ ClientPolls(k)
      PROVE  UNCHANGED <<joined, getSet, clientsByHostRequestIDs>>
  BY <1>7, ClientQueues DEF trackerVars, hostVars
<1> QED
  BY <1>2, <1>3, <1>4, <1>5, <1>6, <1>7 DEF Next

LEMMA TypeStep ==
    ASSUME IInv, Next
    PROVE  TypeOK'
<1>1. /\ up' \in [Ends -> Seq(Message)] /\ down' \in [Ends -> Seq(Message)]
      /\ inputQueue' \in [Ends -> Seq(Message)] /\ disconnected' \in [Ends -> BOOLEAN]
  <2>1. \A n \in Ends : up'[n] \in Seq(Message) /\ down'[n] \in Seq(Message)
                        /\ inputQueue'[n] \in Seq(Message)
    BY UpSources, DownSources, InputSources
  <2> QED
    BY <2>1, QueueShapes
<1>2. \A n \in Ends : Lost(n)' => LastGone(down'[n]) = Len(down'[n])
  <2> SUFFICES ASSUME NEW n \in Ends, Lost(n)'
               PROVE  LastGone(down'[n]) = Len(down'[n])
    OBVIOUS
  <2>1. Holds(down'[n], Gone)
    BY DEF Lost, Gone
  <2>2. down'[n] \in Seq(Message) /\ GoneLast(down'[n])
    BY DownSources
  <2> QED
    BY <2>1, <2>2, LastGoneIsLast
<1>3. answering' \subseteq Calls
  BY AnsweringStep
<1>4. answer' \in [Calls -> 0 .. MaxCalls]
  BY AnswerStep
<1>5. \A n \in Ends : (LastGone(down[n]) = Len(down[n]))' <=> LastGone(down'[n]) = Len(down'[n])
  BY DEF LastGone, Gone
<1>6. Message' = Message /\ Ends' = Ends
  BY DEF Message, Ends
<1> QED
  BY <1>1, <1>2, <1>3, <1>4, <1>5, CallTypes, ForgottenStep, DownloadsStep, TrackerTypes
     DEF TypeOK

-----------------------------------------------------------------------------
(***************************************************************************)
(* The theorems.                                                           *)
(***************************************************************************)
LEMMA InitSound == Init => IInv
<1> SUFFICES ASSUME Init PROVE IInv
  OBVIOUS
<1>1. MaxCalls \in Nat /\ Parts \in Nat \ {0} /\ calls = <<>> /\ DOMAIN calls = {} /\ Len(calls) = 0
  BY RelayAssumption DEF Init
<1>2. /\ up = [n \in Ends |-> <<Join>>] /\ down = [n \in Ends |-> <<>>]
      /\ inputQueue = [n \in Ends |-> <<>>] /\ disconnected = [n \in Ends |-> FALSE]
      /\ joined = {} /\ answering = {}
  BY DEF Init
<1>3. Join \in Message /\ <<Join>> \in Seq(Message) /\ <<>> \in Seq(Message)
  BY InMessage
<1>4. Host \in Ends /\ Clients \subseteq Ends
  BY DEF Ends
<1>5. /\ Only(<<Join>>, {Join, Gone}) /\ Once(<<Join>>)
      /\ \A m : Holds(<<Join>>, m) => m = Join
  BY DEF Only, Once, Holds
<1>6. TypeOK
  <2>1. \A n \in Ends : ~Lost(n)
    BY <1>2, Empty DEF Lost
  <2>2. /\ calls \in Seq([client : Clients, key : Nat, callbackID : CallbackIDs])
        /\ status \in [Calls -> {"unplaced", "waiting", "ok", "refused", "failed", "lost"}]
        /\ answer \in [Calls -> 0 .. MaxCalls] /\ runs \in [Calls -> 0 .. 1]
        /\ forgotten \subseteq DOMAIN calls /\ key \in [Clients -> Nat]
        /\ functionCallbackIDCounter \in [Clients -> 0 .. MaxCalls]
        /\ callbacksByID \in [Clients -> [CallbackIDs -> {"absent", "live", "null"}]]
        /\ downloads \in [Clients -> [Calls -> 0 .. Parts - 1]]
    BY <1>1 DEF Init, NoCallbacks, NoDownloads
  <2>3. /\ inputQueue \in [Ends -> Seq(Message)] /\ disconnected \in [Ends -> BOOLEAN]
        /\ up \in [Ends -> Seq(Message)] /\ down \in [Ends -> Seq(Message)]
    BY <1>2, <1>3
  <2>4. /\ joined \subseteq Ends /\ clientsByHostRequestIDs \in [Calls -> Clients \cup {Nobody}]
        /\ getSet \in BOOLEAN /\ answering \subseteq Calls
    BY DEF Init
  <2> QED
    BY <2>1, <2>2, <2>3, <2>4 DEF TypeOK
<1>7. RightAnswer
  BY DEF RightAnswer, Init
<1>8. MessagesFit
  <2>1. \A k \in Clients : Requests(k) = {}
    BY <1>1 DEF Requests, CallsOf
  <2>2. \A S : Only(<<Join>>, {Join, Gone} \cup S)
    BY <1>5 DEF Only
  <2> QED
    BY <1>2, <1>4, <2>1, <2>2, Empty DEF MessagesFit
<1>9. EndsFit
  BY <1>2, Empty DEF EndsFit, Lost
<1>10. RequestOnce
  BY <1>1, <1>2, <1>4, <1>5, Empty DEF RequestOnce
<1>11. IdsGrow
  BY <1>1 DEF IdsGrow, Init
<1>12. StatusFits
  BY <1>1, <1>2 DEF StatusFits, Init
<1>13. LiveWaits
  BY DEF LiveWaits, Waiting, Init, NoCallbacks
<1> QED
  BY <1>6, <1>7, <1>8, <1>9, <1>10, <1>11, <1>12, <1>13 DEF IInv

LEMMA StepSound == IInv /\ [Next]_vars => IInv'
<1> SUFFICES ASSUME IInv, [Next]_vars PROVE IInv'
  OBVIOUS
<1>1. CASE Next
  BY <1>1, TypeStep, AnswerStep, MessagesStep, EndsStep, OnceStep, IdsStep, StatusStep, LiveStep
     DEF IInv
<1>2. CASE UNCHANGED vars
  <2>1. /\ UNCHANGED <<calls, status, answer, runs, forgotten, key, functionCallbackIDCounter>>
        /\ UNCHANGED <<callbacksByID, downloads, inputQueue, disconnected, up, down, joined>>
        /\ UNCHANGED <<clientsByHostRequestIDs, getSet, answering>>
    BY <1>2 DEF vars, historyVars, clientVars, endVars, hostVars, trackerVars
  <2>2. TypeOK'
    BY <2>1 DEF IInv, TypeOK, Lost
  <2>3. RightAnswer'
    BY <2>1 DEF IInv, RightAnswer
  <2>4. MessagesFit'
    <3>1. /\ \A k \in Clients : /\ Requests(k)' = Requests(k)
                               /\ CurrentRequests(k)' = CurrentRequests(k)
                               /\ CurrentErrors(k)' = CurrentErrors(k)
          /\ AllRequests' = AllRequests /\ Answers' = Answers
      BY <2>1 DEF Requests, CurrentRequests, CurrentErrors, AllRequests, Answers,
                  CallsOf, Client, Current
    <3> QED
      BY <2>1, <3>1 DEF IInv, MessagesFit
  <2>5. EndsFit'
    BY <2>1 DEF IInv, EndsFit, Lost, Reaches
  <2>6. RequestOnce'
    BY <2>1 DEF IInv, RequestOnce, OneStage, Sending, Sent, Relayed, Refused, Client
  <2>7. IdsGrow' /\ StatusFits' /\ LiveWaits'
    BY <2>1 DEF IInv, IdsGrow, StatusFits, LiveWaits, Waiting, CallsOf, Client, Current
  <2> QED
    BY <2>2, <2>3, <2>4, <2>5, <2>6, <2>7 DEF IInv
<1> QED
  BY <1>1, <1>2

LEMMA Sound == Spec => []IInv
  BY InitSound, StepSound, PTL DEF Spec

\* Every variable keeps its type, and an end hears of the loss of its connection
\* last, whatever the three processes do.
THEOREM TypesHold == Spec => []TypeOK
<1>1. IInv => TypeOK
  BY DEF IInv
<1> QED
  BY <1>1, Sound, PTL

\* A callback is given the answer to its own call.
THEOREM RightAnswerHolds == Spec => []RightAnswer
<1>1. IInv => RightAnswer
  BY DEF IInv
<1> QED
  BY <1>1, Sound, PTL

-----------------------------------------------------------------------------
(***************************************************************************)
(* The refinement: every step is one of the call that the client's script  *)
(* sees, or leaves it alone.                                               *)
(***************************************************************************)
LEMMA GivesUp ==
    ASSUME NEW fails \in SUBSET Calls, NEW losses \in SUBSET Calls,
           \A c \in fails \cup losses : status[c] = "waiting",
           status' = [c \in Calls |-> IF c \in fails THEN "failed"
                                      ELSE IF c \in losses THEN "lost" ELSE status[c]],
           UNCHANGED runs
    PROVE  Promise!Next
<1>1. Promise!GiveUp(fails, losses)
  BY DEF Promise!GiveUp
<1> QED
  BY <1>1 DEF Promise!Next

LEMMA CallStep ==
    ASSUME IInv, [Next]_vars
    PROVE  [Promise!Next]_(Promise!remoteCallVars)
<1> DEFINE Goal == [Promise!Next]_(Promise!remoteCallVars)
<1>1. ASSUME UNCHANGED <<status, runs>>
      PROVE  Goal
  BY <1>1 DEF Promise!remoteCallVars
<1>2. CASE UNCHANGED vars
  BY <1>1, <1>2 DEF vars, historyVars
<1>3. ASSUME NEW c \in DOMAIN calls, RunsCall(c)
      PROVE  Promise!Next
  <2>1. /\ c \in Calls /\ runs[c] = 0 /\ status[c] \notin {"unplaced", "ok", "refused"}
        /\ runs' = [runs EXCEPT ![c] = 1] /\ status' = status
    BY <1>3, RunsOnce DEF RunsCall
  <2>2. status[c] \in {"unplaced", "waiting", "ok", "refused", "failed", "lost"}
    BY <2>1 DEF IInv, TypeOK
  <2>3. Promise!Run(c)
    BY <2>1, <2>2 DEF Promise!Run
  <2> QED
    BY <2>1, <2>3 DEF Promise!Next
<1>4. ASSUME NEW k \in Clients, CallRemoteHostFunction(k)
      PROVE  Promise!Next
  <2>1. PICK c \in Calls : c = Len(calls) + 1 /\ c \notin DOMAIN calls
    BY <1>4, PlacedCall
  <2>2. status' = [status EXCEPT ![c] = "waiting"] /\ runs' = runs
    BY <1>4, <2>1 DEF CallRemoteHostFunction
  <2>3. status[c] = "unplaced"
    BY <2>1 DEF IInv, StatusFits
  <2>4. Promise!Place(c)
    BY <2>2, <2>3 DEF Promise!Place
  <2> QED
    BY <2>4 DEF Promise!Next
<1>5. ASSUME NEW k \in Clients, ToldGone(k)
      PROVE  Promise!Next
  <2>1. PICK failed \in SUBSET Failing(k) :
            status' = [c \in Calls |-> IF c \in failed THEN "failed" ELSE status[c]]
    BY <1>5 DEF ToldGone
  <2>2. runs' = runs /\ \A c \in failed : c \in Calls /\ status[c] = "waiting"
    BY <1>5, FailingWaits DEF ToldGone
  <2>3. failed \in SUBSET Calls /\ {} \in SUBSET Calls
    BY <2>2
  <2>4. status' = [c \in Calls |-> IF c \in failed THEN "failed"
                                   ELSE IF c \in {} THEN "lost" ELSE status[c]]
    BY <2>1
  <2>5. \A c \in failed \cup {} : status[c] = "waiting"
    BY <2>2
  <2> QED
    BY <2>2, <2>3, <2>4, <2>5, GivesUp
<1>6. ASSUME NEW k \in Clients, Died(k)
      PROVE  Promise!Next
  <2>1. PICK failed \in SUBSET Failing(k) : Die(k, failed)
    BY <1>6 DEF Died
  <2>2. runs' = runs
        /\ status' = [c \in Calls |->
                IF c \in failed THEN "failed"
                ELSE IF \E id \in Waiting(k) : c = CallOf(k, id) THEN "lost"
                ELSE status[c]]
    BY <1>6, <2>1 DEF Died, Die
  <2>3. \A c : (\E id \in Waiting(k) : c = CallOf(k, id)) <=> c \in Failing(k)
    BY DEF Failing
  <2>4. status' = [c \in Calls |-> IF c \in failed THEN "failed"
                                   ELSE IF c \in Failing(k) THEN "lost" ELSE status[c]]
    BY <2>2, <2>3
  <2>5. /\ Failing(k) \in SUBSET Calls /\ failed \in SUBSET Calls
        /\ \A c \in failed \cup Failing(k) : status[c] = "waiting"
    BY FailingWaits
  <2> QED
    BY <2>2, <2>4, <2>5, GivesUp
<1>7. ASSUME NEW k \in Clients, NEW c \in CallsOf(k), NEW result \in {"ok", "refused"},
             CalledBack(k, c, result)
      PROVE  Promise!Next
  <2>1. /\ Current(c) /\ calls[c].callbackID \in Waiting(k) /\ runs' = runs
        /\ status' = [status EXCEPT ![c] = result]
        /\ (result = "refused" /\ Refused(c)) \/ (result = "ok" /\ runs[c] = 1)
    BY <1>7 DEF CalledBack
  <2>2. CallOf(k, calls[c].callbackID) = c
    BY <2>1, CallOfIs
  <2>3. c \in Failing(k)
    BY <2>1, <2>2 DEF Failing
  <2>4. status[c] = "waiting" /\ c \in Calls /\ c \in DOMAIN calls
    BY <2>3, FailingWaits DEF CallsOf
  <2>5. CASE result = "refused" /\ Refused(c)
    <3>1. runs[c] = 0
      BY <2>4, <2>5 DEF IInv, RequestOnce, OneStage
    <3>2. Promise!Refuse(c)
      BY <2>1, <2>4, <2>5, <3>1 DEF Promise!Refuse
    <3> QED
      BY <2>4, <3>2 DEF Promise!Next
  <2>6. CASE result = "ok" /\ runs[c] = 1
    <3>1. Promise!Answer(c)
      BY <2>1, <2>4, <2>6 DEF Promise!Answer
    <3> QED
      BY <2>4, <3>1 DEF Promise!Next
  <2> QED
    BY <2>1, <2>5, <2>6
<1> QED
  BY <1>1, <1>2, <1>3, <1>4, <1>5, <1>6, <1>7, Steps DEF Quiet, MadeNull

\* The three processes keep the promise: a call has one outcome, the host runs
\* it once at most, "ok" means that it ran, "refused" that no host ever will.
THEOREM RemoteCallHolds == Spec => ImplementsRemoteCall
<1>1. Init => Promise!Init
  BY DEF Init, Promise!Init
<1>2. IInv /\ [Next]_vars => [Promise!Next]_(Promise!remoteCallVars)
  BY CallStep
<1> QED
  BY <1>1, <1>2, Sound, PTL DEF Spec, ImplementsRemoteCall, Promise!Spec
=============================================================================
