------------------------- MODULE HttpInterfaceProofs -------------------------
(***************************************************************************)
(* http.get for any number of gets and of parts: no get is lost, repeated  *)
(* or overtaken, and updateThread never misses its signal.                 *)
(*                                                                         *)
(* The properties need what updateThread knows at each of its steps        *)
(* (FetchFits): which get it holds, and how much of the body response has. *)
(***************************************************************************)
EXTENDS HttpInterface, TLAPS

Result == [get : 1 .. MaxGets, result : Seq(1 .. Parts)]

FetchFits ==
    /\ pcNet \in {"pop", "sleep", "exited"} => ~popped.hasCallback
    /\ pcNet \in {"try", "fetch", "push"} => popped \in Input
    /\ pcNet = "push" => popped.hasCallback /\ response \in {<<>>, Body}
    /\ pcNet = "try" => response = <<>>
    /\ pcNet = "fetch" => response = [i \in 1 .. received |-> i]
    /\ pcNet \in {"try", "fetch"} => retryCount < 2

\* A get is known by its place among those placed.
Numbered == \A n \in DOMAIN gets : gets[n].get = n

IInv == TypeOK /\ InOrder /\ NoLostWakeup /\ FetchFits /\ Numbered

-----------------------------------------------------------------------------
\* What a get in inputQueue may be; exit and None have no callback.
Inputs == Input \cup {None, Exit}

LEMMA InputKinds ==
    /\ None \in Inputs /\ Exit \in Inputs /\ Input \subseteq Inputs
    /\ None \notin Input /\ Exit \notin Input /\ None # Exit
    /\ ~None.hasCallback /\ ~Exit.hasCallback
    /\ \A i \in Input : i.get \in 1 .. MaxGets /\ i.hasCallback \in BOOLEAN
  BY HttpAssumption DEF Inputs, Input, None, Exit

LEMMA LineTypes ==
    ASSUME TypeOK
    PROVE  /\ inputQueue \in Seq(Inputs) /\ Waiting \in Seq(Inputs)
           /\ Len(Waiting) = Len(inputQueue) + 1 /\ Waiting[1] = popped
           /\ \A i \in DOMAIN inputQueue : Waiting[i + 1] = inputQueue[i]
           /\ \A i \in DOMAIN Waiting : i = 1 \/ i - 1 \in DOMAIN inputQueue
           /\ called \in Seq(Result) /\ outputQueue \in Seq(Result)
           /\ Answered \in Seq(Result)
           /\ gets \in Seq(Input)
<1>1. /\ inputQueue \in Seq(Input \cup {Exit}) /\ popped \in Inputs
      /\ called \in Seq(Result) /\ outputQueue \in Seq(Result) /\ gets \in Seq(Input)
  BY DEF TypeOK, Inputs, Result
<1>2. inputQueue \in Seq(Inputs)
  <2>1. Input \cup {Exit} \subseteq Inputs
    BY DEF Inputs
  <2> QED
    BY <1>1, <2>1
<1> HIDE DEF Inputs
<1>3. /\ Waiting \in Seq(Inputs) /\ Len(Waiting) = Len(inputQueue) + 1
      /\ Waiting[1] = popped
      /\ \A i \in DOMAIN inputQueue : Waiting[i + 1] = inputQueue[i]
      /\ \A i \in DOMAIN Waiting : i = 1 \/ i - 1 \in DOMAIN inputQueue
  BY <1>1, <1>2 DEF Waiting
<1>4. Answered \in Seq(Result)
  BY <1>1 DEF Answered
<1> QED
  BY <1>1, <1>2, <1>3, <1>4

LEMMA InitSound == Init => IInv
<1> SUFFICES ASSUME Init PROVE IInv
  OBVIOUS
<1>1. TypeOK
  BY HttpAssumption DEF Init, TypeOK, Input, None, NoOutput
<1>2. Answered = <<>> /\ Waiting = <<None>> /\ gets = <<>>
  BY DEF Init, Answered, Waiting
<1>3. InOrder
  BY <1>2, InputKinds DEF InOrder, NoneLost, OnlyPlaced, AnswersOrdered, AnswersAhead, WaitingOrdered
<1>4. NoLostWakeup /\ Numbered
  BY DEF Init, NoLostWakeup, Numbered
<1>5. FetchFits
  BY InputKinds DEF Init, FetchFits
<1> QED
  BY <1>1, <1>3, <1>4, <1>5 DEF IInv

-----------------------------------------------------------------------------
(***************************************************************************)
(* The order of the gets.                                                  *)
(***************************************************************************)
LEMMA OrderUnchanged ==
    ASSUME InOrder, Numbered, UNCHANGED <<popped, inputQueue, gets, called, outputQueue>>
    PROVE  InOrder' /\ Numbered'
<1>1. Answered' = Answered /\ Waiting' = Waiting /\ gets' = gets
  BY DEF Answered, Waiting
<1> QED
  BY <1>1 DEF InOrder, NoneLost, OnlyPlaced, AnswersOrdered, AnswersAhead, WaitingOrdered,
     Numbered, Body

\* A get goes behind all that were placed.
LEMMA PushKeepsOrder ==
    ASSUME IInv, NEW c \in BOOLEAN, Push(c), UNCHANGED <<popped, called, outputQueue>>
    PROVE  /\ InOrder' /\ Numbered'
           /\ inputQueue' \in Seq(Input \cup {Exit}) /\ gets' \in Seq(Input)
<1> DEFINE N == Len(gets)
           L == Len(inputQueue) + 1
           e == [get |-> N + 1, hasCallback |-> c]
<1>1. /\ inputQueue \in Seq(Inputs) /\ Waiting \in Seq(Inputs) /\ Len(Waiting) = L
      /\ Answered \in Seq(Result) /\ gets \in Seq(Input) /\ N \in Nat /\ L \in Nat
  BY LineTypes DEF IInv
<1>2. e \in Input /\ e \in Inputs
  BY <1>1, HttpAssumption DEF Push, Input, Inputs
<1>3. gets' = Append(gets, e) /\ inputQueue' = Append(inputQueue, e) /\ Answered' = Answered
  BY DEF Push, Answered
<1>4. e.get = N + 1 /\ e.hasCallback = c
  OBVIOUS
<1> HIDE DEF e
<1>5. Waiting' = Append(Waiting, e)
  BY SMTT(60), <1>1, <1>2, <1>3, InputKinds DEF Waiting, IInv, TypeOK, Inputs
<1>6. /\ DOMAIN gets = 1 .. N /\ DOMAIN gets' = 1 .. N + 1 /\ gets'[N + 1] = e
      /\ \A n \in 1 .. N : gets'[n] = gets[n]
      /\ DOMAIN Waiting = 1 .. L /\ DOMAIN Waiting' = 1 .. L + 1 /\ Waiting'[L + 1] = e
      /\ \A n \in 1 .. L : Waiting'[n] = Waiting[n]
  BY <1>1, <1>2, <1>3, <1>5
<1>7. Numbered'
  BY <1>3, <1>4, <1>6 DEF IInv, Numbered
<1>8. InOrder'
  <2> USE DEF IInv, InOrder
  <2>1. NoneLost'
    <3>1. ASSUME NEW n \in 1 .. N, gets[n].hasCallback
          PROVE  \/ \E i \in DOMAIN Answered' : Answered'[i].get = n
                 \/ \E i \in DOMAIN Waiting' : Waiting'[i] = gets'[n]
      <4>1. CASE \E i \in DOMAIN Answered : Answered[i].get = n
        BY <1>3, <4>1
      <4>2. CASE \E i \in DOMAIN Waiting : Waiting[i] = gets[n]
        BY <1>1, <1>6, <4>2
      <4>3. n \in DOMAIN gets
        BY <1>6
      <4>4. \/ \E i \in DOMAIN Answered : Answered[i].get = n
            \/ \E i \in DOMAIN Waiting : Waiting[i] = gets[n]
        BY <3>1, <4>3 DEF NoneLost
      <4> QED
        BY <4>1, <4>2, <4>4
    <3>2. L + 1 \in DOMAIN Waiting' /\ Waiting'[L + 1] = gets'[N + 1]
      BY <1>1, <1>6
    <3>3. \A n \in DOMAIN gets' : n = N + 1 \/ (n \in 1 .. N /\ gets'[n] = gets[n])
      BY <1>1, <1>6
    <3> QED
      BY <3>1, <3>2, <3>3 DEF NoneLost
  <2>2. OnlyPlaced'
    <3>1. \A i \in DOMAIN Answered' :
             Answered'[i].get \in DOMAIN gets' /\ gets'[Answered'[i].get].hasCallback
      BY <1>1, <1>3, <1>6 DEF OnlyPlaced
    <3>2. \A i \in DOMAIN Waiting' : Waiting'[i].hasCallback =>
             Waiting'[i].get \in DOMAIN gets' /\ Waiting'[i] = gets'[Waiting'[i].get]
      BY <1>1, <1>4, <1>6 DEF OnlyPlaced
    <3> QED
      BY <3>1, <3>2 DEF OnlyPlaced
  <2>3. AnswersOrdered'
    BY <1>3 DEF AnswersOrdered
  <2>4. AnswersAhead'
    <3>1. \A i \in DOMAIN Answered : Answered[i].get \in 1 .. N
      BY <1>6 DEF OnlyPlaced
    <3> QED
      BY <1>1, <1>3, <1>4, <1>6, <3>1 DEF AnswersAhead
  <2>5. WaitingOrdered'
    <3>1. \A i \in DOMAIN Waiting : Waiting[i].hasCallback => Waiting[i].get \in 1 .. N
      BY <1>6 DEF OnlyPlaced
    <3>2. ASSUME NEW i \in 1 .. L + 1, NEW j \in 1 .. L + 1, i < j,
                 Waiting'[i].hasCallback, Waiting'[j].hasCallback
          PROVE  Waiting'[i].get < Waiting'[j].get
      <4>1. CASE j = L + 1
        <5>1. i \in 1 .. L
          BY <1>1, <3>2, <4>1
        <5>2. Waiting'[i].get \in 1 .. N /\ Waiting'[j].get = N + 1
          BY <1>4, <1>6, <3>1, <3>2, <4>1, <5>1
        <5> QED
          BY <1>1, <5>2
      <4>2. CASE j # L + 1
        <5>1. i \in 1 .. L /\ j \in 1 .. L
          BY <1>1, <3>2, <4>2
        <5> QED
          BY <1>6, <3>2, <5>1 DEF WaitingOrdered
      <4> QED
        BY <4>1, <4>2
    <3> QED
      BY <1>6, <3>2 DEF WaitingOrdered
  <2>6. \A i \in DOMAIN Answered' : Answered'[i].result \in {<<>>, Body}
    BY <1>3
  <2> QED
    BY <2>1, <2>2, <2>3, <2>4, <2>5, <2>6 DEF Body
<1>9. inputQueue' \in Seq(Input \cup {Exit}) /\ gets' \in Seq(Input)
  BY <1>2, <1>3 DEF IInv, TypeOK
<1> QED
  BY <1>7, <1>8, <1>9

\* Exit goes behind every get.
LEMMA ExitKeepsOrder ==
    ASSUME IInv, inputQueue' = Append(inputQueue, Exit),
           UNCHANGED <<popped, gets, called, outputQueue>>
    PROVE  /\ InOrder' /\ Numbered'
           /\ inputQueue' \in Seq(Input \cup {Exit})
<1> DEFINE L == Len(inputQueue) + 1
<1>1. /\ inputQueue \in Seq(Inputs) /\ Waiting \in Seq(Inputs) /\ Len(Waiting) = L
      /\ Answered \in Seq(Result) /\ gets \in Seq(Input) /\ L \in Nat
  BY LineTypes DEF IInv
<1>2. Waiting' = Append(Waiting, Exit) /\ Answered' = Answered
  BY <1>1, InputKinds DEF Waiting, Answered, IInv, TypeOK, Inputs
<1>3. /\ DOMAIN Waiting = 1 .. L /\ DOMAIN Waiting' = 1 .. L + 1
      /\ Waiting'[L + 1] = Exit /\ ~Waiting'[L + 1].hasCallback
      /\ \A n \in 1 .. L : Waiting'[n] = Waiting[n]
  BY <1>1, <1>2, InputKinds
<1>4. \A x : (\E i \in DOMAIN Waiting : Waiting[i] = x)
                => \E i \in DOMAIN Waiting' : Waiting'[i] = x
  BY <1>1, <1>3
<1>5. InOrder'
  <2> USE DEF IInv, InOrder
  <2>1. NoneLost'
    BY <1>2, <1>4 DEF NoneLost
  <2>2. OnlyPlaced'
    BY <1>1, <1>2, <1>3 DEF OnlyPlaced
  <2>3. AnswersOrdered'
    BY <1>2 DEF AnswersOrdered
  <2>4. AnswersAhead'
    BY <1>1, <1>2, <1>3 DEF AnswersAhead
  <2>5. WaitingOrdered'
    <3>1. ASSUME NEW i \in 1 .. L + 1, NEW j \in 1 .. L + 1, i < j,
                 Waiting'[i].hasCallback, Waiting'[j].hasCallback
          PROVE  Waiting'[i].get < Waiting'[j].get
      <4>1. i \in 1 .. L /\ j \in 1 .. L
        BY <1>1, <1>3, <3>1
      <4> QED
        BY <1>3, <3>1, <4>1 DEF WaitingOrdered
    <3> QED
      BY <1>3, <3>1 DEF WaitingOrdered
  <2>6. \A i \in DOMAIN Answered' : Answered'[i].result \in {<<>>, Body}
    BY <1>2
  <2> QED
    BY <2>1, <2>2, <2>3, <2>4, <2>5, <2>6 DEF Body
<1>6. Numbered'
  BY DEF IInv, Numbered
<1>7. inputQueue' \in Seq(Input \cup {Exit})
  BY DEF IInv, TypeOK
<1> QED
  BY <1>5, <1>6, <1>7

\* updateThread takes the next get only when it is done with the last.
LEMMA PopKeepsOrder ==
    ASSUME IInv, pcNet = "pop", inputQueue # <<>>,
           popped' = Head(inputQueue), inputQueue' = Tail(inputQueue),
           UNCHANGED <<gets, called, outputQueue>>
    PROVE  /\ InOrder' /\ Numbered'
           /\ inputQueue' \in Seq(Input \cup {Exit}) /\ popped' \in Input \cup {Exit}
<1> DEFINE L == Len(inputQueue)
<1>1. /\ inputQueue \in Seq(Inputs) /\ Waiting \in Seq(Inputs) /\ Len(Waiting) = L + 1
      /\ Waiting[1] = popped /\ \A i \in DOMAIN inputQueue : Waiting[i + 1] = inputQueue[i]
      /\ Answered \in Seq(Result) /\ gets \in Seq(Input) /\ L \in Nat \ {0}
  BY LineTypes DEF IInv
<1>2. ~popped.hasCallback
  BY DEF IInv, FetchFits
<1>3. Waiting' = inputQueue /\ Answered' = Answered
  <2>1. inputQueue = <<Head(inputQueue)>> \o Tail(inputQueue)
    BY <1>1
  <2> QED
    BY <2>1 DEF Waiting, Answered
<1>4. /\ DOMAIN Waiting = 1 .. L + 1 /\ DOMAIN Waiting' = 1 .. L
      /\ ~Waiting[1].hasCallback
      /\ \A n \in 1 .. L : Waiting'[n] = Waiting[n + 1]
  BY SMTT(60), <1>1, <1>2, <1>3
<1>5. \A x : x.hasCallback /\ (\E i \in DOMAIN Waiting : Waiting[i] = x)
                => \E i \in DOMAIN Waiting' : Waiting'[i] = x
  <2>1. ASSUME NEW i \in DOMAIN Waiting, Waiting[i].hasCallback
        PROVE  i - 1 \in DOMAIN Waiting' /\ Waiting'[i - 1] = Waiting[i]
    BY <1>1, <1>4, <2>1
  <2> QED
    BY <2>1
<1>6. InOrder'
  <2> USE DEF IInv, InOrder
  <2>0. \A i \in DOMAIN Waiting' : i + 1 \in DOMAIN Waiting
    BY <1>1, <1>4
  <2>1. NoneLost'
    BY <1>3, <1>5 DEF NoneLost
  <2>2. OnlyPlaced'
    BY <1>3, <1>4, <2>0 DEF OnlyPlaced
  <2>3. AnswersOrdered'
    BY <1>3 DEF AnswersOrdered
  <2>4. AnswersAhead'
    BY <1>3, <1>4, <2>0 DEF AnswersAhead
  <2>5. WaitingOrdered'
    <3>1. ASSUME NEW i \in 1 .. L, NEW j \in 1 .. L, i < j,
                 Waiting'[i].hasCallback, Waiting'[j].hasCallback
          PROVE  Waiting'[i].get < Waiting'[j].get
      <4>1. i + 1 \in 1 .. L + 1 /\ j + 1 \in 1 .. L + 1 /\ i + 1 < j + 1
        BY <1>1, <3>1
      <4> QED
        BY <1>4, <3>1, <4>1 DEF WaitingOrdered
    <3> QED
      BY <1>4, <3>1 DEF WaitingOrdered
  <2>6. \A i \in DOMAIN Answered' : Answered'[i].result \in {<<>>, Body}
    BY <1>3
  <2> QED
    BY <2>1, <2>2, <2>3, <2>4, <2>5, <2>6 DEF Body
<1>7. Numbered'
  BY DEF IInv, Numbered
<1>8. inputQueue' \in Seq(Input \cup {Exit}) /\ popped' \in Input \cup {Exit}
  BY DEF IInv, TypeOK
<1> QED
  BY <1>6, <1>7, <1>8

\* What was fetched goes behind the answers of every get placed before.
LEMMA AnswerKeepsOrder ==
    ASSUME IInv, NetPush
    PROVE  /\ InOrder' /\ Numbered' /\ outputQueue' \in Seq(Result)
<1> DEFINE A == Len(Answered)
           L == Len(inputQueue) + 1
           e == [get |-> popped.get, result |-> response]
<1>1. /\ inputQueue \in Seq(Inputs) /\ Waiting \in Seq(Inputs) /\ Len(Waiting) = L
      /\ Waiting[1] = popped /\ \A i \in DOMAIN inputQueue : Waiting[i + 1] = inputQueue[i]
      /\ Answered \in Seq(Result) /\ gets \in Seq(Input) /\ L \in Nat \ {0} /\ A \in Nat
      /\ called \in Seq(Result) /\ outputQueue \in Seq(Result)
  BY LineTypes DEF IInv
<1>2. /\ popped \in Input /\ popped.hasCallback /\ response \in {<<>>, Body}
      /\ response \in Seq(1 .. Parts)
  BY DEF IInv, FetchFits, NetPush, TypeOK
<1>3. e \in Result /\ e.get = popped.get /\ e.result = response
  BY <1>2, InputKinds DEF Result
<1>4. /\ outputQueue' = Append(outputQueue, e) /\ popped' = None
      /\ inputQueue' = inputQueue /\ gets' = gets /\ called' = called
  BY DEF NetPush, loopVars
<1> HIDE DEF e
<1>5. outputQueue' \in Seq(Result)
  BY <1>1, <1>3, <1>4
<1>6. Answered' = Append(Answered, e)
  BY <1>1, <1>3, <1>4 DEF Answered
<1>7. /\ DOMAIN Waiting = 1 .. L /\ DOMAIN Waiting' = 1 .. L
      /\ Waiting'[1] = None /\ ~Waiting'[1].hasCallback
      /\ \A n \in 2 .. L : Waiting'[n] = Waiting[n]
  BY <1>1, <1>4, InputKinds DEF Waiting
<1>8. /\ DOMAIN Answered = 1 .. A /\ DOMAIN Answered' = 1 .. A + 1
      /\ Answered'[A + 1] = e
      /\ \A n \in 1 .. A : Answered'[n] = Answered[n]
  BY <1>1, <1>3, <1>6
<1>9. InOrder'
  <2> USE DEF IInv, InOrder
  <2>0. /\ popped.get \in DOMAIN gets /\ popped = gets[popped.get]
        /\ \A i \in DOMAIN Answered : Answered[i].get < popped.get
        /\ \A j \in 2 .. L : Waiting[j].hasCallback => popped.get < Waiting[j].get
    <3>1. 1 \in DOMAIN Waiting /\ Waiting[1].hasCallback
      BY <1>1, <1>2, <1>7
    <3>2. \A j \in 2 .. L : j \in DOMAIN Waiting /\ 1 < j
      BY <1>1, <1>7
    <3>3. popped.get \in DOMAIN gets /\ popped = gets[popped.get]
      BY <1>1, <3>1 DEF OnlyPlaced
    <3>4. \A i \in DOMAIN Answered : Answered[i].get < popped.get
      BY <1>1, <3>1 DEF AnswersAhead
    <3>5. \A j \in 2 .. L : Waiting[j].hasCallback => popped.get < Waiting[j].get
      BY <1>1, <3>1, <3>2 DEF WaitingOrdered
    <3> QED
      BY <3>3, <3>4, <3>5
  <2>1. NoneLost'
    <3>1. ASSUME NEW n \in DOMAIN gets, gets[n].hasCallback
          PROVE  \/ \E i \in DOMAIN Answered' : Answered'[i].get = n
                 \/ \E i \in DOMAIN Waiting' : Waiting'[i] = gets[n]
      <4>1. CASE \E i \in DOMAIN Answered : Answered[i].get = n
        BY <1>1, <1>8, <4>1
      <4>2. CASE \E i \in DOMAIN Waiting : Waiting[i] = gets[n]
        <5>1. PICK i \in DOMAIN Waiting : Waiting[i] = gets[n]
          BY <4>2
        <5>2. CASE i = 1
          <6>1. A + 1 \in DOMAIN Answered' /\ Answered'[A + 1].get = n
            BY <1>1, <1>3, <1>8, <5>1, <5>2 DEF Numbered
          <6> QED
            BY <6>1
        <5>3. CASE i # 1
          BY <1>1, <1>7, <5>1, <5>3
        <5> QED
          BY <5>2, <5>3
      <4>3. \/ \E i \in DOMAIN Answered : Answered[i].get = n
            \/ \E i \in DOMAIN Waiting : Waiting[i] = gets[n]
        BY <3>1 DEF NoneLost
      <4> QED
        BY <4>1, <4>2, <4>3
    <3> QED
      BY <1>4, <3>1 DEF NoneLost
  <2>2. OnlyPlaced'
    <3>1. ASSUME NEW i \in 1 .. A + 1
          PROVE  Answered'[i].get \in DOMAIN gets /\ gets[Answered'[i].get].hasCallback
      <4>1. CASE i = A + 1
        BY <1>2, <1>3, <1>8, <2>0, <4>1
      <4>2. CASE i # A + 1
        <5>1. i \in 1 .. A
          BY <1>1, <4>2
        <5> QED
          BY <1>8, <5>1 DEF OnlyPlaced
      <4> QED
        BY <4>1, <4>2
    <3>2. ASSUME NEW i \in 1 .. L, Waiting'[i].hasCallback
          PROVE  Waiting'[i].get \in DOMAIN gets /\ Waiting'[i] = gets[Waiting'[i].get]
      <4>1. i \in 2 .. L
        BY <1>1, <1>7, <3>2
      <4> QED
        BY <1>7, <3>2, <4>1 DEF OnlyPlaced
    <3> QED
      BY <1>4, <1>7, <1>8, <3>1, <3>2 DEF OnlyPlaced
  <2>3. AnswersOrdered'
    <3>1. ASSUME NEW i \in 1 .. A + 1, NEW j \in 1 .. A + 1, i < j
          PROVE  Answered'[i].get < Answered'[j].get
      <4>1. i \in 1 .. A
        BY <1>1, <3>1
      <4>2. CASE j = A + 1
        BY <1>3, <1>8, <2>0, <4>1, <4>2
      <4>3. CASE j # A + 1
        <5>1. j \in 1 .. A
          BY <1>1, <4>3
        <5> QED
          BY <1>8, <3>1, <4>1, <5>1 DEF AnswersOrdered
      <4> QED
        BY <4>2, <4>3
    <3> QED
      BY <1>8, <3>1 DEF AnswersOrdered
  <2>4. AnswersAhead'
    <3>1. ASSUME NEW i \in 1 .. A + 1, NEW j \in 1 .. L, Waiting'[j].hasCallback
          PROVE  Answered'[i].get < Waiting'[j].get
      <4>1. j \in 2 .. L /\ Waiting'[j] = Waiting[j]
        BY <1>1, <1>7, <3>1
      <4>2. CASE i = A + 1
        BY <1>3, <1>8, <2>0, <3>1, <4>1, <4>2
      <4>3. CASE i # A + 1
        <5>1. i \in 1 .. A
          BY <1>1, <4>3
        <5> QED
          BY <1>7, <1>8, <3>1, <4>1, <5>1 DEF AnswersAhead
      <4> QED
        BY <4>2, <4>3
    <3> QED
      BY <1>7, <1>8, <3>1 DEF AnswersAhead
  <2>5. WaitingOrdered'
    <3>1. ASSUME NEW i \in 1 .. L, NEW j \in 1 .. L, i < j,
                 Waiting'[i].hasCallback, Waiting'[j].hasCallback
          PROVE  Waiting'[i].get < Waiting'[j].get
      <4>1. i \in 2 .. L /\ j \in 2 .. L
        BY <1>1, <1>7, <3>1
      <4> QED
        BY <1>7, <3>1, <4>1 DEF WaitingOrdered
    <3> QED
      BY <1>7, <3>1 DEF WaitingOrdered
  <2>6. \A i \in DOMAIN Answered' : Answered'[i].result \in {<<>>, Body}
    BY <1>1, <1>2, <1>3, <1>8
  <2> QED
    BY <2>1, <2>2, <2>3, <2>4, <2>5, <2>6 DEF Body
<1>10. Numbered'
  BY <1>4 DEF IInv, Numbered
<1> QED
  BY <1>5, <1>9, <1>10

\* Taking an answer moves it along.
LEMMA CalledKeepsOrder ==
    ASSUME IInv, UpdatePop
    PROVE  /\ InOrder' /\ Numbered'
           /\ called' \in Seq(Result) /\ outputQueue' \in Seq(Result)
           /\ output' \in Result
<1>1. /\ called \in Seq(Result) /\ outputQueue \in Seq(Result) /\ outputQueue # <<>>
      /\ called' = Append(called, Head(outputQueue)) /\ outputQueue' = Tail(outputQueue)
      /\ output' = Head(outputQueue)
      /\ popped' = popped /\ inputQueue' = inputQueue /\ gets' = gets
  BY LineTypes DEF UpdatePop, IInv, netVars
<1>2. /\ called' \in Seq(Result) /\ outputQueue' \in Seq(Result) /\ output' \in Result
  BY <1>1
<1>3. Append(called, Head(outputQueue)) \o Tail(outputQueue) = called \o outputQueue
  BY <1>1
<1>4. Answered' = Answered /\ Waiting' = Waiting
  BY <1>1, <1>3 DEF Answered, Waiting
<1> QED
  BY <1>1, <1>2, <1>4 DEF IInv, InOrder, NoneLost, OnlyPlaced, AnswersOrdered,
     AnswersAhead, WaitingOrdered, Numbered, Body

-----------------------------------------------------------------------------
(***************************************************************************)
(* The steps.                                                              *)
(***************************************************************************)

\* Where a try ends: with an answer, with none to give, or before another try.
LEMMA AfterTryCases ==
    ASSUME retryCount \in 0 .. 1, NEW s \in BOOLEAN
    PROVE  \/ AfterTry(s) = "push" /\ popped.hasCallback
           \/ AfterTry(s) = "pop" /\ ~popped.hasCallback
           \/ AfterTry(s) = "try" /\ retryCount = 0 /\ ~s
<1>1. ~(retryCount + 1 >= 2) => retryCount = 0
  OBVIOUS
<1> QED
  BY <1>1, Zenon DEF AfterTry

LEMMA NetKeeps ==
    ASSUME IInv, Net \/ NetWakesSpuriously
    PROVE  IInv'
<1> USE DEF IInv
<1>1. UNCHANGED <<pcScript, pcLoop, output, called, gets>>
  BY DEF Net, NetPop, NetTry, NetReceive, NetFetched, NetPush, NetWakesSpuriously, loopVars
<1>2. CASE NetPop
  <2>1. CASE inputQueue = <<>>
    <3>1. /\ pcNet = "pop" /\ pcNet' = "sleep"
          /\ UNCHANGED <<popped, inputQueue, outputQueue, received>>
          /\ response' = <<>> /\ retryCount' = 0
      BY <1>2, <2>1 DEF NetPop
    <3>2. InOrder' /\ Numbered'
      BY <1>1, <3>1, OrderUnchanged
    <3> QED
      BY <1>1, <2>1, <3>1, <3>2 DEF TypeOK, FetchFits, NoLostWakeup
  <2>2. CASE inputQueue # <<>>
    <3>1. /\ pcNet = "pop"
          /\ popped' = Head(inputQueue) /\ inputQueue' = Tail(inputQueue)
          /\ pcNet' = IF Head(inputQueue) = Exit THEN "exited" ELSE "try"
          /\ UNCHANGED <<outputQueue, received>>
          /\ response' = <<>> /\ retryCount' = 0
      BY <1>2, <2>2 DEF NetPop
    <3>2. /\ InOrder' /\ Numbered'
          /\ inputQueue' \in Seq(Input \cup {Exit}) /\ popped' \in Input \cup {Exit}
      BY <1>1, <2>2, <3>1, PopKeepsOrder
    <3>3. TypeOK'
      BY <1>1, <3>1, <3>2 DEF TypeOK
    <3>4. FetchFits' /\ NoLostWakeup'
      BY <3>1, <3>2, InputKinds DEF FetchFits, NoLostWakeup
    <3> QED
      BY <3>2, <3>3, <3>4
  <2> QED
    BY <2>1, <2>2
<1>3. CASE NetTry \/ NetReceive \/ NetFetched \/ NetWakesSpuriously
  <2>1. UNCHANGED <<popped, inputQueue, outputQueue>>
    BY <1>3 DEF NetTry, NetReceive, NetFetched, NetWakesSpuriously
  <2>2. InOrder' /\ Numbered'
    BY <1>1, <2>1, OrderUnchanged
  <2>3. NoLostWakeup'
    BY <1>3 DEF NoLostWakeup, NetTry, NetReceive, NetFetched, NetWakesSpuriously, AfterTry
  <2>4. CASE NetTry
    <3>1. /\ pcNet = "try" /\ popped \in Input /\ response = <<>> /\ retryCount \in 0 .. 1
          /\ response' = response /\ received' = 0
      BY <2>4 DEF NetTry, FetchFits, TypeOK
    <3>2. CASE pcNet' = "fetch" /\ retryCount' = retryCount
      <4>1. response' = [i \in 1 .. received' |-> i]
        BY <3>1
      <4>2. TypeOK'
        BY <1>1, <2>1, <3>1, <3>2, HttpAssumption DEF TypeOK
      <4>3. FetchFits'
        BY <2>1, <3>1, <3>2, <4>1 DEF FetchFits
      <4> QED
        BY <2>2, <2>3, <4>2, <4>3
    <3>3. CASE pcNet' = AfterTry(FALSE) /\ retryCount' = retryCount + 1
      <4>1. FALSE \in BOOLEAN
        OBVIOUS
      <4>2. \/ pcNet' = "push" /\ popped.hasCallback
            \/ pcNet' = "pop" /\ ~popped.hasCallback
            \/ pcNet' = "try" /\ retryCount = 0
        BY <3>1, <3>3, <4>1, AfterTryCases
      <4>3. TypeOK'
        <5>1. pcNet' \in {"push", "pop", "try"}
          BY <4>2, Zenon
        <5>2. response' = response /\ retryCount' \in 0 .. 2 /\ received' \in 0 .. Parts
          BY <3>1, <3>3, HttpAssumption
        <5> QED
          BY <1>1, <2>1, <5>1, <5>2 DEF TypeOK
      <4>4. FetchFits'
        <5>1. popped' = popped /\ response' = <<>>
          BY <2>1, <3>1
        <5>2. CASE pcNet' = "push" /\ popped.hasCallback
          BY <3>1, <5>1, <5>2 DEF FetchFits
        <5>3. CASE pcNet' = "pop" /\ ~popped.hasCallback
          BY <5>1, <5>3 DEF FetchFits
        <5>4. CASE pcNet' = "try" /\ retryCount = 0
          <6>1. retryCount' = retryCount + 1
            BY <3>3
          <6> QED
            BY <3>1, <5>1, <5>4, <6>1 DEF FetchFits
        <5> QED
          BY <4>2, <5>2, <5>3, <5>4, Zenon
      <4> QED
        BY <2>2, <2>3, <4>3, <4>4
    <3> QED
      BY <2>4, <3>2, <3>3 DEF NetTry
  <2>5. CASE NetReceive
    <3>1. /\ pcNet = "fetch" /\ pcNet' = "fetch" /\ received \in 0 .. Parts - 1
          /\ received' = received + 1 /\ response' = Append(response, received + 1)
          /\ retryCount' = retryCount /\ retryCount < 2 /\ popped \in Input
          /\ response = [i \in 1 .. received |-> i] /\ response \in Seq(1 .. Parts)
      BY <2>5, HttpAssumption DEF NetReceive, FetchFits, TypeOK
    <3>2. response' = [i \in 1 .. received' |-> i]
      BY <3>1, HttpAssumption
    <3>3. response' \in Seq(1 .. Parts)
      BY <3>1, HttpAssumption
    <3>4. TypeOK'
      BY <1>1, <2>1, <3>1, <3>3, HttpAssumption DEF TypeOK
    <3>5. FetchFits'
      BY <2>1, <3>1, <3>2 DEF FetchFits
    <3> QED
      BY <2>2, <2>3, <3>4, <3>5
  <2>6. CASE NetFetched
    <3>1. /\ pcNet = "fetch" /\ popped \in Input /\ retryCount \in 0 .. 1
          /\ retryCount' = retryCount + 1 /\ received' = received
          /\ response = [i \in 1 .. received |-> i]
      BY <2>6 DEF NetFetched, FetchFits, TypeOK
    <3>2. /\ \/ AfterTry(TRUE) = "push" /\ popped.hasCallback
             \/ AfterTry(TRUE) = "pop" /\ ~popped.hasCallback
          /\ \/ AfterTry(FALSE) = "push" /\ popped.hasCallback
             \/ AfterTry(FALSE) = "pop" /\ ~popped.hasCallback
             \/ AfterTry(FALSE) = "try" /\ retryCount = 0
      BY <3>1, AfterTryCases
    <3>3. response' \in Seq(1 .. Parts)
      <4>1. response' = response \/ response' = <<>>
        BY <2>6, Zenon DEF NetFetched, Cleared
      <4>2. response \in Seq(1 .. Parts)
        BY DEF TypeOK
      <4>3. <<>> \in Seq(1 .. Parts)
        OBVIOUS
      <4> QED
        BY <4>1, <4>2, <4>3, Zenon
    <3>4. \/ pcNet' = "push" /\ popped.hasCallback /\ response' \in {<<>>, Body}
          \/ pcNet' = "pop" /\ ~popped.hasCallback
          \/ pcNet' = "try" /\ retryCount = 0 /\ response' = <<>>
      <4>1. CASE response' = Body /\ pcNet' = AfterTry(TRUE)
        BY <3>2, <4>1, Zenon
      <4>2. CASE response' = <<>> /\ pcNet' = AfterTry(FALSE)
        BY <3>2, <4>2, Zenon
      <4>3. \/ response' = Body /\ pcNet' = AfterTry(TRUE)
            \/ response' = <<>> /\ pcNet' = AfterTry(FALSE)
        BY <2>6, <3>1 DEF NetFetched, Cleared, Body
      <4> QED
        BY <4>1, <4>2, <4>3, Zenon
    <3>5. pcNet' \in {"push", "pop", "try"}
      BY <3>4, Zenon
    <3>6. TypeOK'
      BY <1>1, <2>1, <3>1, <3>3, <3>5 DEF TypeOK
    <3>7. FetchFits'
      <4>1. popped' = popped /\ popped \in Input /\ Body' = Body
        BY <2>1, <3>1 DEF Body
      <4>2. CASE pcNet' = "push" /\ popped.hasCallback /\ response' \in {<<>>, Body}
        BY <4>1, <4>2 DEF FetchFits
      <4>3. CASE pcNet' = "pop" /\ ~popped.hasCallback
        BY <4>1, <4>3 DEF FetchFits
      <4>4. CASE pcNet' = "try" /\ retryCount = 0 /\ response' = <<>>
        BY <3>1, <4>1, <4>4 DEF FetchFits
      <4> QED
        BY <3>4, <4>2, <4>3, <4>4, Zenon
    <3> QED
      BY <2>2, <2>3, <3>6, <3>7
  <2>7. CASE NetWakesSpuriously
    <3>1. /\ pcNet = "sleep" /\ pcNet' = "pop"
          /\ UNCHANGED <<response, received, retryCount>>
      BY <2>7 DEF NetWakesSpuriously
    <3>2. TypeOK' /\ FetchFits'
      BY <1>1, <2>1, <3>1 DEF TypeOK, FetchFits
    <3> QED
      BY <2>2, <2>3, <3>2
  <2> QED
    BY <1>3, <2>4, <2>5, <2>6, <2>7
<1>4. CASE NetPush
  <2>1. InOrder' /\ Numbered' /\ outputQueue' \in Seq(Result)
    BY <1>4, AnswerKeepsOrder
  <2>2. /\ pcNet = "push" /\ pcNet' = "pop" /\ popped' = None
        /\ UNCHANGED <<response, received, retryCount, inputQueue>>
    BY <1>4 DEF NetPush
  <2>3. TypeOK'
    BY <1>1, <2>1, <2>2 DEF TypeOK, Result
  <2>4. FetchFits' /\ NoLostWakeup'
    BY <2>2, InputKinds DEF FetchFits, NoLostWakeup
  <2> QED
    BY <2>1, <2>3, <2>4
<1> QED
  BY <1>2, <1>3, <1>4 DEF Net

\* The event loop and the script's thread leave what updateThread holds alone.
LEMMA OthersKeep ==
    ASSUME IInv, \/ Loop \/ CallbackGet \/ LoopStops
                 \/ ScriptGet \/ ScriptNotify \/ DestroyPushExit \/ DestroyJoin
    PROVE  IInv'
<1> USE DEF IInv
<1>1. /\ UNCHANGED <<popped, response, received, retryCount>>
      /\ pcNet' = pcNet \/ (pcNet = "sleep" /\ pcNet' = "pop")
  BY DEF Loop, UpdateTop, UpdatePop, CallbackNotify, CallbackReturns, CallbackGet,
     LoopStops, ScriptGet, ScriptNotify, DestroyPushExit, DestroyJoin, NotifyOne, netVars
<1>2. FetchFits'
  BY <1>1 DEF FetchFits, Body
<1>3. CASE ScriptGet \/ CallbackGet
  <2>1. PICK c \in BOOLEAN : Push(c)
    BY <1>3 DEF ScriptGet, CallbackGet
  <2>2. /\ UNCHANGED <<popped, called, outputQueue, output, pcNet>>
        /\ \/ pcScript' = "notify" /\ pcLoop' = pcLoop
           \/ pcLoop' = "notify" /\ pcScript' = pcScript
    BY <1>3 DEF ScriptGet, CallbackGet, netVars, loopVars
  <2>3. /\ InOrder' /\ Numbered'
        /\ inputQueue' \in Seq(Input \cup {Exit}) /\ gets' \in Seq(Input)
    BY <2>1, <2>2, PushKeepsOrder
  <2>4. TypeOK'
    BY <1>1, <2>2, <2>3 DEF TypeOK
  <2>5. NoLostWakeup'
    BY <2>2 DEF NoLostWakeup
  <2> QED
    BY <1>2, <2>3, <2>4, <2>5
<1>4. CASE UpdatePop
  <2>1. /\ InOrder' /\ Numbered'
        /\ called' \in Seq(Result) /\ outputQueue' \in Seq(Result)
        /\ output' \in Result
    BY <1>4, CalledKeepsOrder
  <2>2. UNCHANGED <<pcScript, pcNet, inputQueue, gets>> /\ pcLoop = "pop" /\ pcLoop' = "call"
    BY <1>4 DEF UpdatePop, netVars
  <2>3. output' \in [get : 0 .. MaxGets, result : Seq(1 .. Parts)]
    BY <2>1, HttpAssumption DEF Result
  <2>4. TypeOK'
    BY <1>1, <2>1, <2>2, <2>3 DEF TypeOK, Result
  <2>5. NoLostWakeup'
    BY <2>2 DEF NoLostWakeup
  <2> QED
    BY <1>2, <2>1, <2>4, <2>5
<1>5. CASE DestroyPushExit
  <2>1. /\ inputQueue' = Append(inputQueue, Exit) /\ pcScript' = "exit"
        /\ UNCHANGED <<popped, gets, called, outputQueue, output, pcLoop, pcNet>>
    BY <1>5 DEF DestroyPushExit, netVars, loopVars
  <2>2. InOrder' /\ Numbered' /\ inputQueue' \in Seq(Input \cup {Exit})
    BY <2>1, ExitKeepsOrder
  <2>3. TypeOK'
    BY <1>1, <2>1, <2>2 DEF TypeOK
  <2>4. NoLostWakeup'
    BY <2>1 DEF NoLostWakeup
  <2> QED
    BY <1>2, <2>2, <2>3, <2>4
<1>6. CASE \/ UpdateTop \/ CallbackNotify \/ CallbackReturns \/ LoopStops
           \/ ScriptNotify \/ DestroyJoin
  <2>1. /\ UNCHANGED <<inputQueue, gets, called, outputQueue>>
        /\ output' \in {output, NoOutput}
    BY <1>6 DEF UpdateTop, CallbackNotify, CallbackReturns, LoopStops, ScriptNotify,
       DestroyJoin, loopVars
  <2>2. InOrder' /\ Numbered'
    BY <1>1, <2>1, OrderUnchanged
  <2>3. NoOutput \in [get : 0 .. MaxGets, result : Seq(1 .. Parts)]
    BY HttpAssumption DEF NoOutput
  <2>4. /\ pcScript' \in {"run", "notify", "exit", "join", "gone"}
        /\ pcLoop' \in {"top", "pop", "call", "notify", "stopped"}
    BY <1>6 DEF UpdateTop, CallbackNotify, CallbackReturns, LoopStops, ScriptNotify,
       DestroyJoin, loopVars, TypeOK
  <2>5. TypeOK'
    BY <1>1, <2>1, <2>3, <2>4 DEF TypeOK
  <2>6. NoLostWakeup'
    BY <1>6 DEF UpdateTop, CallbackNotify, CallbackReturns, LoopStops, ScriptNotify,
       DestroyJoin, loopVars, netVars, NotifyOne, NoLostWakeup
  <2> QED
    BY <1>2, <2>2, <2>5, <2>6
<1> QED
  BY <1>3, <1>4, <1>5, <1>6 DEF Loop

LEMMA NextKeeps == IInv /\ [Next]_vars => IInv'
<1> SUFFICES ASSUME IInv, [Next]_vars PROVE IInv'
  OBVIOUS
<1>1. CASE Next
  BY <1>1, NetKeeps, OthersKeep DEF Next
<1>2. CASE UNCHANGED vars
  <2>1. InOrder' /\ Numbered'
    BY <1>2, OrderUnchanged DEF IInv, vars, netVars, loopVars
  <2>2. TypeOK' /\ FetchFits' /\ NoLostWakeup'
    BY <1>2 DEF IInv, TypeOK, FetchFits, Body, NoLostWakeup, vars, netVars, loopVars
  <2> QED
    BY <2>1, <2>2 DEF IInv
<1> QED
  BY <1>1, <1>2

LEMMA Sound == Spec => []IInv
  BY InitSound, NextKeeps, PTL DEF Spec

\* Every variable of the interface keeps its type; no get is tried a third time.
THEOREM TypesHold == Spec => []TypeOK
<1>1. IInv => TypeOK
  BY DEF IInv
<1> QED
  BY <1>1, Sound, PTL

\* Callbacks are called in the order the gets were placed, once each at most,
\* with the whole body or with nothing.
THEOREM OrderHolds == Spec => []InOrder
<1>1. IInv => InOrder
  BY DEF IInv
<1> QED
  BY <1>1, Sound, PTL

\* updateThread sleeps on a get only while the thread that pushed it is about
\* to signal (ThreadSafeQueue::push signals after it has let go of the lock).
THEOREM WakeupHolds == Spec => []NoLostWakeup
<1>1. IInv => NoLostWakeup
  BY DEF IInv
<1> QED
  BY <1>1, Sound, PTL

=============================================================================
