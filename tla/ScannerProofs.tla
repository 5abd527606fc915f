---------------------------- MODULE ScannerProofs ----------------------------
(***************************************************************************)
(* The Scanner destroys every enet host once and completes only after two  *)
(* passes over the whole list, for every set of networks, list of local    *)
(* addresses and size of a batch.                                          *)
(***************************************************************************)
EXTENDS Scanner, FiniteSetTheorems, WellFoundedInduction, TLAPS

-----------------------------------------------------------------------------
(***************************************************************************)
(* The list of addresses.                                                  *)
(***************************************************************************)
LEMMA LeastElement ==
    ASSUME NEW S \in SUBSET Nat, S # {}
    PROVE  \E m \in S : \A n \in S : m <= n
<1>1. PICK m \in S : \A n \in S : <<n, m>> \notin OpToRel(<, Nat)
  BY NatLessThanWellFounded, WFMin, Zenon
<1>2. \A n \in S : ~(n < m)
  BY <1>1 DEF OpToRel
<1> QED
  BY <1>2

LEMMA SetInduction ==
    ASSUME NEW S, 0 \in S, \A n \in Nat : n \in S => n + 1 \in S
    PROVE  \A n \in Nat : n \in S
<1>1. SUFFICES ASSUME Nat \ S # {} PROVE FALSE
  OBVIOUS
<1>2. PICK m \in Nat \ S : \A n \in Nat \ S : m <= n
  BY <1>1, LeastElement
<1>3. m # 0 /\ m - 1 \in Nat
  BY <1>2
<1> QED
  BY <1>2, <1>3

LEMMA ListIsSeq ==
    ASSUME NEW S, NEW k \in Nat, NEW f \in [1 .. k -> S]
    PROVE  f \in Seq(S) /\ Len(f) = k
  OBVIOUS

\* What FlattenSeq computes up to its n-th sequence.
JoinedUpTo(lists, n, g) ==
    g = [i \in 1 .. n |-> IF i = 1 THEN lists[i] ELSE g[i - 1] \o lists[i]]

LEMMA JoinedStep ==
    ASSUME NEW S, NEW lists \in Seq(Seq(S)), NEW n \in Nat, n + 1 <= Len(lists),
           NEW g \in [1 .. n -> Seq(S)], JoinedUpTo(lists, n, g)
    PROVE  \E h \in [1 .. n + 1 -> Seq(S)] : JoinedUpTo(lists, n + 1, h)
<1> DEFINE last == IF n = 0 THEN lists[1] ELSE g[n] \o lists[n + 1]
           h == [i \in 1 .. n + 1 |-> IF i = n + 1 THEN last ELSE g[i]]
<1>1. lists[n + 1] \in Seq(S) /\ (n # 0 => g[n] \in Seq(S))
  OBVIOUS
<1>2. last \in Seq(S)
  BY <1>1
<1>3. h \in [1 .. n + 1 -> Seq(S)]
  <2> HIDE DEF last
  <2> QED
    BY <1>2
<1>4. ASSUME NEW i \in 1 .. n + 1
      PROVE  h[i] = IF i = 1 THEN lists[i] ELSE h[i - 1] \o lists[i]
  <2>1. CASE i = n + 1
    BY <2>1
  <2>2. CASE i # n + 1
    <3>1. i \in 1 .. n /\ h[i] = g[i] /\ (i # 1 => h[i - 1] = g[i - 1])
      BY <2>2
    <3>2. g[i] = IF i = 1 THEN lists[i] ELSE g[i - 1] \o lists[i]
      BY <3>1 DEF JoinedUpTo
    <3> QED
      BY <3>1, <3>2
  <2> QED
    BY <2>1, <2>2
<1>5. JoinedUpTo(lists, n + 1, h)
  <2>1. h = [i \in 1 .. n + 1 |-> h[i]]
    OBVIOUS
  <2> HIDE DEF h
  <2>2. [i \in 1 .. n + 1 |-> h[i]]
          = [i \in 1 .. n + 1 |-> IF i = 1 THEN lists[i] ELSE h[i - 1] \o lists[i]]
    BY <1>4
  <2> QED
    BY <2>1, <2>2 DEF JoinedUpTo
<1> HIDE DEF h
<1> QED
  BY <1>3, <1>5

LEMMA JoinedExists ==
    ASSUME NEW S, NEW lists \in Seq(Seq(S))
    PROVE  \E g \in [1 .. Len(lists) -> Seq(S)] : JoinedUpTo(lists, Len(lists), g)
<1> DEFINE Joined(n) == \E g \in [1 .. n -> Seq(S)] : JoinedUpTo(lists, n, g)
           Good == {n \in Nat : n <= Len(lists) => Joined(n)}
<1>1. 0 \in Good
  <2> DEFINE none == [i \in 1 .. 0 |-> lists[i]]
  <2>1. none \in [1 .. 0 -> Seq(S)]
    OBVIOUS
  <2>2. JoinedUpTo(lists, 0, none)
    BY DEF JoinedUpTo
  <2>3. Joined(0)
    BY <2>1, <2>2
  <2> QED
    BY <2>3
<1>2. ASSUME NEW n \in Nat, n \in Good PROVE n + 1 \in Good
  <2>1. CASE n + 1 <= Len(lists)
    <3>1. n <= Len(lists)
      BY <2>1
    <3>2. PICK g \in [1 .. n -> Seq(S)] : JoinedUpTo(lists, n, g)
      BY <1>2, <3>1
    <3>3. Joined(n + 1)
      BY <2>1, <3>2, JoinedStep
    <3> QED
      BY <3>3
  <2> QED
    BY <2>1
<1>3. \A n \in Nat : n \in Good
  <2> HIDE DEF Good
  <2> QED
    BY <1>1, <1>2, SetInduction
<1>4. Len(lists) \in Nat
  OBVIOUS
<1> QED
  BY <1>3, <1>4

\* The sequences of a list, one after the other, are a sequence.
LEMMA FlattenType ==
    ASSUME NEW S, NEW lists \in Seq(Seq(S))
    PROVE  FlattenSeq(lists) \in Seq(S)
<1> DEFINE f == CHOOSE g : JoinedUpTo(lists, Len(lists), g)
<1>1. Len(lists) \in Nat /\ \A i \in 1 .. Len(lists) : lists[i] \in Seq(S)
  OBVIOUS
<1>2. JoinedUpTo(lists, Len(lists), f)
  BY JoinedExists
<1>3. Len(lists) # 0 => FlattenSeq(lists) = f[Len(lists)]
  BY DEF FlattenSeq, JoinedUpTo
<1> HIDE DEF f
<1> DEFINE Fine == {n \in Nat : n \in 1 .. Len(lists) => f[n] \in Seq(S)}
<1>4. 0 \in Fine
  OBVIOUS
<1>5. ASSUME NEW n \in Nat, n \in Fine PROVE n + 1 \in Fine
  <2> SUFFICES ASSUME n + 1 \in 1 .. Len(lists) PROVE f[n + 1] \in Seq(S)
    OBVIOUS
  <2>0. (n + 1) - 1 = n
    OBVIOUS
  <2>1. f[n + 1] = IF n + 1 = 1 THEN lists[n + 1] ELSE f[(n + 1) - 1] \o lists[n + 1]
    BY <1>2 DEF JoinedUpTo
  <2>2. n # 0 => f[n] \in Seq(S)
    BY <1>1, <1>5
  <2> QED
    BY <1>1, <2>0, <2>1, <2>2
<1> HIDE DEF Fine
<1>6. \A n \in Nat : n \in Fine
  BY <1>4, <1>5, SetInduction
<1>7. CASE Len(lists) = 0
  BY <1>7 DEF FlattenSeq
<1>8. CASE Len(lists) # 0
  <2>1. f[Len(lists)] \in Seq(S)
    BY <1>1, <1>6, <1>8 DEF Fine
  <2> QED
    BY <1>3, <1>8, <2>1
<1> QED
  BY <1>7, <1>8

LEMMA ScanListType ==
    ASSUME NEW localIPs \in LocalIPLists
    PROVE  getScanIPs(localIPs) \in Seq(IPs)
<1>1. /\ localIPs \in Seq(Nets \X Numbers) /\ LastNumber \in Nat
      /\ Loopback \in IPs /\ Nets \X Numbers \subseteq IPs
  BY ScannerAssumption DEF IPs
<1>2. ASSUME NEW localIP \in Nets \X Numbers PROVE NetworkOf(localIP) \in Seq(IPs)
  <2>1. localIP[1] \in Nets /\ localIP[2] \in 0 .. LastNumber
    BY DEF Numbers
  <2>2. \A n \in 1 .. LastNumber :
           <<localIP[1], IF n <= localIP[2] THEN n - 1 ELSE n>> \in IPs
    <3> TAKE n \in 1 .. LastNumber
    <3> DEFINE number == IF n <= localIP[2] THEN n - 1 ELSE n
    <3>1. number \in Numbers
      BY <1>1, <2>1 DEF Numbers
    <3> HIDE DEF number
    <3>2. <<localIP[1], number>> \in Nets \X Numbers
      BY <2>1, <3>1
    <3> QED
      BY <1>1, <3>2 DEF number
  <2>3. NetworkOf(localIP) \in [1 .. LastNumber -> IPs]
    BY <2>2 DEF NetworkOf
  <2> QED
    BY <1>1, <2>3, ListIsSeq
<1> DEFINE lists == [i \in DOMAIN localIPs |-> NetworkOf(localIPs[i])]
<1>3. lists \in Seq(Seq(IPs))
  <2>1. Len(localIPs) \in Nat /\ DOMAIN localIPs = 1 .. Len(localIPs)
    BY <1>1
  <2>2. \A i \in 1 .. Len(localIPs) : localIPs[i] \in Nets \X Numbers
    BY <1>1
  <2>3. lists \in [1 .. Len(localIPs) -> Seq(IPs)]
    BY <1>2, <2>1, <2>2
  <2> QED
    BY <2>1, <2>3, ListIsSeq
<1> HIDE DEF lists
<1>4. FlattenSeq(lists) \in Seq(IPs)
  BY <1>3, FlattenType
<1>5. <<Loopback>> \in Seq(IPs)
  BY <1>1
<1> QED
  BY <1>4, <1>5 DEF getScanIPs, lists

-----------------------------------------------------------------------------
(***************************************************************************)
(* The invariant.  An entry whose host was destroyed is on the list of     *)
(* those to remove, and this list holds no entry that still has a host of  *)
(* the Scanner's own; both are empty when a batch begins.  What this pass  *)
(* has walked over was tried in this pass.                                 *)
(***************************************************************************)
ClosedListed ==
    /\ Having({"closed"}) \subseteq completedIPsToRemove
    /\ completedIPsToRemove \subseteq Having({"closed", "reported"})
    /\ pc \in {"idle", "finish"} => completedIPsToRemove = {}
    /\ pc \in {"poll", "connect"} => Having({"closed"}) = {}

WalkedTried ==
    /\ \A i \in 1 .. scanIndex : <<pass, scanIPs[i]>> \in tried
    /\ hasTriedAgain => {1} \X ToSet(scanIPs) \subseteq tried

CompleteFits ==
    complete => /\ hasTriedAgain /\ scanIndex = Len(scanIPs)
                /\ Having(Entries \ {"none"}) = {}
                /\ pc \notin {"poll", "connect"}

IInv == TypeOK /\ HostsOwned /\ ClosedListed /\ WalkedTried /\ CompleteFits

LEMMA AddressesFinite == IsFiniteSet(IPs)
<1>1. IsFiniteSet(Numbers)
  BY ScannerAssumption, FS_Interval DEF Numbers
<1>2. IsFiniteSet(Nets \X Numbers)
  BY <1>1, ScannerAssumption, FS_Product
<1>3. IsFiniteSet({Loopback})
  BY FS_Singleton
<1> QED
  BY <1>2, <1>3, FS_Union DEF IPs

\* The addresses that have an enet host of the Scanner's.
Open == Having(Raw \cup Interface)

LEMMA HavingFinite ==
    ASSUME NEW S PROVE IsFiniteSet(Having(S)) /\ Cardinality(Having(S)) \in Nat
<1>1. Having(S) \in SUBSET IPs
  BY DEF Open, Having
<1> QED
  BY <1>1, AddressesFinite, FS_Subset, FS_CardinalityType

\* What the rest of the type invariant leaves open, from the count of hosts.
LEMMA HostsInRange ==
    ASSUME NEW open \in SUBSET IPs, NEW n \in 0 .. MaxTaken
    PROVE  Cardinality(open) + n \in 0 .. (Cardinality(IPs) + MaxTaken)
<1>1. /\ Cardinality(open) \in Nat /\ Cardinality(open) <= Cardinality(IPs)
      /\ Cardinality(IPs) \in Nat /\ MaxTaken \in Nat
  BY AddressesFinite, FS_Subset, FS_CardinalityType, ScannerAssumption
<1> QED
  BY <1>1

-----------------------------------------------------------------------------
(***************************************************************************)
(* The hosts.                                                              *)
(***************************************************************************)

\* An entry that has a host gets another that has one, or one that has none gets
\* another that has none.
LEMMA SameHosts ==
    ASSUME HostsOwned, connectionsByIP \in [IPs -> Entries], NEW ip \in IPs, NEW entry,
           connectionsByIP[ip] \in Raw \cup Interface, entry \in Raw \cup Interface,
           connectionsByIP' = [connectionsByIP EXCEPT ![ip] = entry],
           enetHosts' = enetHosts, taken' = taken
    PROVE  HostsOwned'
<1>1. Open' = Open
  BY Zenon DEF Open, Having
<1> QED
  BY <1>1 DEF HostsOwned, Open

\* An entry loses its host, which is destroyed or taken.
LEMMA OneHostLess ==
    ASSUME IInv, NEW ip \in IPs, NEW entry \in {"none", "closed"},
           connectionsByIP[ip] \in Raw \cup Interface,
           connectionsByIP' = [connectionsByIP EXCEPT ![ip] = entry],
           \/ enetHosts' = enetHosts - 1 /\ taken' = taken
           \/ enetHosts' = enetHosts /\ taken' = taken + 1
    PROVE  HostsOwned'
<1>1. Open' = Open \ {ip}
  <2>1. \A x \in IPs : connectionsByIP'[x] = IF x = ip THEN entry ELSE connectionsByIP[x]
    BY DEF IInv, TypeOK
  <2>2. entry \notin Raw \cup Interface
    BY DEF Raw, Interface
  <2> QED
    BY <2>1, <2>2 DEF Open, Having
<1>2. ip \in Open
  BY DEF Open, Having
<1>3. IsFiniteSet(Open) /\ Cardinality(Open) \in Nat
  BY HavingFinite DEF Open
<1>4. Cardinality(Open \ {ip}) = Cardinality(Open) - 1
  BY <1>2, <1>3, FS_RemoveElement
<1>5. enetHosts = Cardinality(Open) + taken /\ taken \in Nat
  BY DEF IInv, HostsOwned, Open, TypeOK
<1>6. Cardinality(Open') = Cardinality(Open) - 1
  BY <1>1, <1>4
<1>7. enetHosts' = Cardinality(Open') + taken'
  BY <1>3, <1>5, <1>6
<1> QED
  BY <1>7 DEF HostsOwned, Open

LEMMA HostsStep ==
    ASSUME IInv, [Next]_vars
    PROVE  HostsOwned'
<1>1. /\ connectionsByIP \in [IPs -> Entries] /\ taken \in Nat
      /\ enetHosts = Cardinality(Open) + taken /\ HostsOwned
      /\ IsFiniteSet(Open) /\ Cardinality(Open) \in Nat
  BY HavingFinite DEF Open, IInv, TypeOK, HostsOwned
<1>2. ASSUME connectionsByIP' = connectionsByIP, enetHosts' = enetHosts, taken' = taken
      PROVE  HostsOwned'
  BY <1>1, <1>2 DEF Open, HostsOwned, Having
<1>3. CASE StartScan
  <2>1. Open' = {}
    <3>1. \A ip \in IPs : connectionsByIP'[ip] = "none"
      BY <1>3 DEF StartScan, cleanupPreviousScan
    <3> QED
      BY <3>1 DEF Open, Having, Raw, Interface
  <2>2. enetHosts' = enetHosts - Cardinality(Open) /\ taken' = taken
    BY <1>3 DEF StartScan, cleanupPreviousScan, Open
  <2>3. Cardinality(Open') = 0
    BY <2>1, FS_EmptySet
  <2> QED
    BY <1>1, <2>2, <2>3 DEF HostsOwned, Open
<1>4. ASSUME NEW ip \in IPs, GetConnection(ip) PROVE HostsOwned'
  BY <1>4, OneHostLess DEF GetConnection, Interface
<1>5. CASE BeginUpdate \/ PollDone \/ ServiceDone \/ Finish \/ UNCHANGED vars
  BY <1>2, <1>5 DEF BeginUpdate, PollDone, ServiceDone, Finish, mapVars, vars
<1>6. ASSUME NEW ip \in IPs, PollAnswer(ip) PROVE HostsOwned'
  <2>1. /\ connectionsByIP[ip] \in Raw \cup Interface /\ "reported" \in Raw \cup Interface
        /\ connectionsByIP' = [connectionsByIP EXCEPT ![ip] = "reported"]
        /\ enetHosts' = enetHosts /\ taken' = taken
    BY <1>6 DEF PollAnswer, Interface
  <2> QED
    BY <1>1, <2>1, SameHosts
<1>7. CASE Connect
  <2> DEFINE batch == {scanIPs[i] : i \in (scanIndex + 1) .. batchEnd}
             new == batch \cap Having({"none", "closed"})
  <2>1. PICK failed \in SUBSET new :
           /\ connectionsByIP' = [ip \in IPs |->
                 CASE ip \in failed       -> "none"
                   [] ip \in new \ failed -> "raw"
                   [] OTHER               -> connectionsByIP[ip]]
           /\ enetHosts' = enetHosts + Cardinality(new \ failed)
    BY <1>7 DEF Connect
  <2>2. new \in SUBSET Having({"none", "closed"})
    OBVIOUS
  <2> HIDE DEF new
  <2> DEFINE made == new \ failed
  <2>3. made \in SUBSET IPs /\ \A ip \in made : connectionsByIP[ip] \in {"none", "closed"}
    BY <2>2 DEF Open, Having
  <2>4. \A ip \in failed : connectionsByIP[ip] \in {"none", "closed"}
    BY <2>1, <2>2 DEF Open, Having
  <2>5. Open' = Open \cup made
    <3>1. ASSUME NEW ip \in IPs
          PROVE  connectionsByIP'[ip] \in Raw \cup Interface
                    <=> connectionsByIP[ip] \in Raw \cup Interface \/ ip \in made
      <4>1. "none" \notin Raw \cup Interface /\ "raw" \in Raw \cup Interface
        BY DEF Raw, Interface
      <4>2. CASE ip \in failed
        <5>1. connectionsByIP'[ip] = "none" /\ ip \notin made
          BY <2>1, <4>2
        <5>2. connectionsByIP[ip] \notin Raw \cup Interface
          BY <2>4, <4>2 DEF Raw, Interface
        <5> QED
          BY <4>1, <5>1, <5>2
      <4>3. CASE ip \in made
        <5>1. connectionsByIP'[ip] = "raw"
          BY <2>1, <4>3
        <5> QED
          BY <4>1, <4>3, <5>1
      <4>4. CASE ip \notin failed /\ ip \notin made
        <5>1. connectionsByIP'[ip] = connectionsByIP[ip]
          BY <2>1, <4>4
        <5> QED
          BY <4>4, <5>1
      <4> QED
        BY <4>2, <4>3, <4>4
    <3> QED
      BY <2>3, <3>1 DEF Open, Having
  <2>6. Open \cap made = {}
    BY <2>3 DEF Open, Having, Raw, Interface
  <2>7. IsFiniteSet(made) /\ Cardinality(made) \in Nat
    BY <2>3, AddressesFinite, FS_Subset, FS_CardinalityType
  <2> HIDE DEF made
  <2>8. Cardinality(Open') = Cardinality(Open) + Cardinality(made)
    <3>1. Cardinality(Open \cup made)
            = Cardinality(Open) + Cardinality(made) - Cardinality(Open \cap made)
      BY <1>1, <2>7, FS_Union
    <3>2. Cardinality(Open \cap made) = 0
      BY <2>6, FS_EmptySet
    <3>3. Cardinality(Open') = Cardinality(Open \cup made)
      BY <2>5
    <3> QED
      BY <1>1, <2>7, <3>1, <3>2, <3>3
  <2>9. taken' = taken /\ enetHosts' = enetHosts + Cardinality(made)
    BY <1>7, <2>1 DEF Connect, made
  <2> QED
    BY <1>1, <2>7, <2>8, <2>9 DEF HostsOwned, Open
<1>8. ASSUME NEW ip \in IPs, HandleReceivedData(ip) PROVE HostsOwned'
  <2>1. connectionsByIP[ip] \in Raw \cup Interface /\ taken' = taken
    BY <1>8 DEF HandleReceivedData, Raw
  <2>2. CASE Handshake(ip)
    BY <1>1, <1>8, <2>1, <2>2, SameHosts DEF Handshake, Interface
  <2>3. CASE Close(ip)
    BY <2>1, <2>3, OneHostLess DEF Close
  <2> QED
    BY <1>8, <2>2, <2>3 DEF HandleReceivedData
<1>9. ASSUME NEW ip \in IPs, ServiceDisconnect(ip) PROVE HostsOwned'
  <2>1. connectionsByIP[ip] \in Raw \cup Interface /\ taken' = taken /\ Close(ip)
    BY <1>9 DEF ServiceDisconnect, Raw
  <2> QED
    BY <2>1, OneHostLess DEF Close
<1>10. CASE RemoveCompleted
  <2> DEFINE removed == completedIPsToRemove \cap Having(Interface)
  <2>1. completedIPsToRemove \subseteq Having({"closed", "reported"})
    BY DEF IInv, ClosedListed
  <2>2. removed \in SUBSET Open
    BY DEF Open, Having
  <2>3. Open' = Open \ removed
    <3>1. \A ip \in IPs : connectionsByIP'[ip] =
             IF ip \in completedIPsToRemove THEN "none" ELSE connectionsByIP[ip]
      BY <1>10 DEF RemoveCompleted
    <3>2. \A ip \in IPs : connectionsByIP'[ip] \in Raw \cup Interface
             <=> connectionsByIP[ip] \in Raw \cup Interface /\ ip \notin completedIPsToRemove
      BY <3>1 DEF Raw, Interface
    <3>3. \A ip \in completedIPsToRemove :
             connectionsByIP[ip] \in Raw \cup Interface => connectionsByIP[ip] \in Interface
      BY <2>1 DEF Open, Having, Raw, Interface
    <3> QED
      BY <3>2, <3>3 DEF Open, Having
  <2>4. enetHosts' = enetHosts - Cardinality(removed) /\ taken' = taken
    BY <1>10 DEF RemoveCompleted
  <2> HIDE DEF removed
  <2>5. Open \cap removed = removed
    BY <2>2
  <2>6. /\ Cardinality(Open') = Cardinality(Open) - Cardinality(removed)
        /\ Cardinality(removed) \in Nat
    <3>1. Cardinality(Open \ removed) = Cardinality(Open) - Cardinality(Open \cap removed)
      BY <1>1, FS_Difference
    <3>2. Cardinality(Open') = Cardinality(Open \ removed)
      BY <2>3
    <3>3. Cardinality(removed) \in Nat
      BY <1>1, <2>2, FS_Subset, FS_CardinalityType
    <3> QED
      BY <2>5, <3>1, <3>2, <3>3
  <2> QED
    BY <1>1, <2>4, <2>6 DEF HostsOwned, Open
<1>11. ASSUME NEW ip \in IPs, Arrives(ip) PROVE HostsOwned'
  <2>1. PICK event \in {"handshake", "other", "disconnect"} :
           connectionsByIP' = [connectionsByIP EXCEPT ![ip] = event]
    BY <1>11 DEF Arrives
  <2>2. /\ connectionsByIP[ip] \in Raw \cup Interface /\ event \in Raw \cup Interface
        /\ enetHosts' = enetHosts /\ taken' = taken
    BY <1>11 DEF Arrives, Raw
  <2> QED
    BY <1>1, <2>1, <2>2, SameHosts
<1>12. ASSUME NEW ip \in IPs, Answers(ip) PROVE HostsOwned'
  <2>1. /\ connectionsByIP[ip] \in Raw \cup Interface /\ "answered" \in Raw \cup Interface
        /\ connectionsByIP' = [connectionsByIP EXCEPT ![ip] = "answered"]
        /\ enetHosts' = enetHosts /\ taken' = taken
    BY <1>12 DEF Answers, Interface
  <2> QED
    BY <1>1, <2>1, SameHosts
<1> QED
  BY <1>3, <1>4, <1>5, <1>6, <1>7, <1>8, <1>9, <1>10, <1>11, <1>12 DEF Next, Update

-----------------------------------------------------------------------------
(***************************************************************************)
(* The types.                                                              *)
(***************************************************************************)

\* batchEnd is a place in the list, not before the one reached.
LEMMA BatchType ==
    ASSUME IInv
    PROVE  /\ scanIPs \in Seq(IPs) /\ Len(scanIPs) \in Nat /\ scanIndex \in 0 .. Len(scanIPs)
           /\ batchEnd \in scanIndex .. Len(scanIPs)
           /\ {scanIPs[i] : i \in (scanIndex + 1) .. batchEnd} \subseteq IPs
<1>1. scanIPs \in Seq(IPs) /\ Len(scanIPs) \in Nat /\ scanIndex \in 0 .. Len(scanIPs)
  BY DEF IInv, TypeOK
<1>2. batchEnd \in scanIndex .. Len(scanIPs)
  BY <1>1, ScannerAssumption DEF batchEnd
<1>3. \A i \in 1 .. Len(scanIPs) : scanIPs[i] \in IPs
  BY <1>1
<1>4. \A i \in (scanIndex + 1) .. batchEnd : i \in 1 .. Len(scanIPs)
  BY <1>1, <1>2
<1> QED
  BY <1>1, <1>2, <1>3, <1>4

LEMMA EntriesStep ==
    ASSUME IInv, [Next]_vars
    PROVE  connectionsByIP' \in [IPs -> Entries] /\ completedIPsToRemove' \subseteq IPs
<1>1. connectionsByIP \in [IPs -> Entries] /\ completedIPsToRemove \subseteq IPs
  BY DEF IInv, TypeOK
<1>2. /\ {"none", "closed"} \cup Raw \cup Interface \subseteq Entries
      /\ {"raw", "handshake", "other", "disconnect"} \subseteq Raw
      /\ {"asked", "answered", "reported"} \subseteq Interface
  BY DEF Entries, Raw, Interface
<1>3. CASE StartScan
  BY <1>2, <1>3 DEF StartScan, cleanupPreviousScan
<1>4. ASSUME NEW ip \in IPs,
             GetConnection(ip) \/ PollAnswer(ip) \/ Arrives(ip) \/ Answers(ip)
             \/ HandleReceivedData(ip) \/ ServiceDisconnect(ip)
      PROVE  connectionsByIP' \in [IPs -> Entries] /\ completedIPsToRemove' \subseteq IPs
  <2>1. \E entry \in Entries : connectionsByIP' = [connectionsByIP EXCEPT ![ip] = entry]
    BY <1>2, <1>4 DEF GetConnection, PollAnswer, Arrives, Answers, HandleReceivedData,
       ServiceDisconnect, Handshake, Close
  <2>2. completedIPsToRemove' \in {completedIPsToRemove, completedIPsToRemove \cup {ip}}
    BY <1>4 DEF GetConnection, PollAnswer, Arrives, Answers, HandleReceivedData,
       ServiceDisconnect, Handshake, Close
  <2> QED
    BY <1>1, <2>1, <2>2
<1>5. CASE BeginUpdate \/ PollDone \/ ServiceDone \/ Finish \/ UNCHANGED vars
  BY <1>1, <1>5 DEF BeginUpdate, PollDone, ServiceDone, Finish, mapVars, vars
<1>6. CASE Connect
  <2> DEFINE new == {scanIPs[i] : i \in (scanIndex + 1) .. batchEnd} \cap Having({"none", "closed"})
  <2>1. PICK failed \in SUBSET new :
           connectionsByIP' = [ip \in IPs |->
              CASE ip \in failed       -> "none"
                [] ip \in new \ failed -> "raw"
                [] OTHER               -> connectionsByIP[ip]]
    BY <1>6 DEF Connect
  <2> HIDE DEF new
  <2>2. \A ip \in IPs : connectionsByIP[ip] \in Entries /\ "none" \in Entries /\ "raw" \in Entries
    BY <1>1, <1>2
  <2>3. connectionsByIP' \in [IPs -> Entries]
    BY <2>1, <2>2
  <2>4. completedIPsToRemove' = completedIPsToRemove
    BY <1>6 DEF Connect
  <2> QED
    BY <1>1, <2>3, <2>4
<1>7. CASE RemoveCompleted
  BY <1>1, <1>2, <1>7 DEF RemoveCompleted
<1> QED
  BY <1>3, <1>4, <1>5, <1>6, <1>7 DEF Next, Update

LEMMA TypeStep ==
    ASSUME IInv, [Next]_vars
    PROVE  TypeOK'
<1> DEFINE Others ==
              /\ pc \in {"idle", "poll", "connect", "service", "remove", "finish"}
              /\ complete \in BOOLEAN /\ hasTriedAgain \in BOOLEAN
              /\ scanIPs \in Seq(IPs) /\ scanIndex \in 0 .. Len(scanIPs)
              /\ callbackFunction \in BOOLEAN
              /\ scans \in 0 .. MaxScans /\ taken \in 0 .. MaxTaken
              /\ tried \subseteq {1, 2} \X IPs /\ accepted \in BOOLEAN
<1>1. Others
  BY DEF IInv, TypeOK
<1>2. Others'
  <2>1. CASE StartScan
    <3>1. scanIPs' \in Seq(IPs) /\ Len(scanIPs') \in Nat
      BY <2>1, ScanListType DEF StartScan
    <3>2. scans' \in 0 .. MaxScans
      BY <1>1, <2>1, ScannerAssumption DEF StartScan
    <3>3. /\ pc' = pc /\ complete' = FALSE /\ hasTriedAgain' = FALSE /\ scanIndex' = 0
          /\ callbackFunction' \in BOOLEAN /\ taken' = taken
          /\ tried' = {} /\ accepted' = FALSE
      BY <2>1 DEF StartScan
    <3>4. scanIndex' \in 0 .. Len(scanIPs') /\ taken' \in 0 .. MaxTaken
      BY <1>1, <3>1, <3>3
    <3>5. tried' \subseteq {1, 2} \X IPs
      BY <3>3
    <3>6. complete' \in BOOLEAN /\ hasTriedAgain' \in BOOLEAN /\ accepted' \in BOOLEAN
      BY <3>3
    <3> QED
      BY Zenon, <1>1, <3>1, <3>2, <3>3, <3>4, <3>5, <3>6
  <2>2. ASSUME NEW ip \in IPs, GetConnection(ip) PROVE Others'
    <3>1. taken' \in 0 .. MaxTaken
      BY <1>1, <2>2, ScannerAssumption DEF GetConnection
    <3> QED
      BY <1>1, <2>2, <3>1 DEF GetConnection, scanVars
  <2>3. ASSUME NEW ip \in IPs,
               PollAnswer(ip) \/ Arrives(ip) \/ Answers(ip) \/ HandleReceivedData(ip)
               \/ ServiceDisconnect(ip)
        PROVE  Others'
    <3>1. UNCHANGED <<pc, scanVars, scans, taken, tried>> /\ accepted' \in BOOLEAN
      BY <1>1, <2>3 DEF PollAnswer, Arrives, Answers, HandleReceivedData, ServiceDisconnect
    <3> QED
      BY <1>1, <3>1 DEF scanVars
  <2>4. CASE BeginUpdate \/ PollDone \/ ServiceDone \/ RemoveCompleted
    <3>1. /\ UNCHANGED <<scanVars, scans, taken, tried, accepted>>
          /\ pc' \in {"idle", "poll", "connect", "service", "remove", "finish"}
      BY <2>4 DEF BeginUpdate, PollDone, ServiceDone, RemoveCompleted
    <3> QED
      BY <1>1, <3>1 DEF scanVars
  <2>5. CASE Connect
    <3> DEFINE batch == {scanIPs[i] : i \in (scanIndex + 1) .. batchEnd}
    <3>1. /\ scanIndex' = batchEnd /\ pc' = "service" /\ tried' = tried \cup ({pass} \X batch)
          /\ UNCHANGED <<complete, hasTriedAgain, scanIPs, callbackFunction, scans, taken, accepted>>
      BY <2>5 DEF Connect
    <3>2. batch \subseteq IPs /\ batchEnd \in 0 .. Len(scanIPs)
      BY <1>1, BatchType
    <3> HIDE DEF batch
    <3>3. tried' \subseteq {1, 2} \X IPs
      <4>1. pass \in {1, 2}
        BY DEF pass
      <4>2. {pass} \X batch \subseteq {1, 2} \X IPs
        BY <3>2, <4>1
      <4> QED
        BY <1>1, <3>1, <4>2
    <3> QED
      BY <1>1, <3>1, <3>2, <3>3
  <2>6. CASE Finish
    <3>1. /\ complete' \in BOOLEAN /\ hasTriedAgain' \in BOOLEAN /\ callbackFunction' \in BOOLEAN
          /\ scanIndex' \in {scanIndex, 0} /\ pc' = "idle"
          /\ UNCHANGED <<scanIPs, scans, taken, tried, accepted>>
      BY <1>1, <2>6 DEF Finish
    <3> QED
      BY <1>1, <3>1
  <2>7. CASE UNCHANGED vars
    BY <1>1, <2>7 DEF vars, scanVars
  <2> QED
    BY <2>1, <2>2, <2>3, <2>4, <2>5, <2>6, <2>7 DEF Next, Update
<1>3. enetHosts' \in 0 .. (Cardinality(IPs) + MaxTaken)
  <2>1. Open' \in SUBSET IPs /\ taken' \in 0 .. MaxTaken
    BY <1>2 DEF Open, Having
  <2>2. enetHosts' = Cardinality(Open') + taken'
    BY HostsStep DEF HostsOwned, Open
  <2> QED
    BY <2>1, <2>2, HostsInRange
<1> QED
  BY <1>2, <1>3, EntriesStep DEF TypeOK

-----------------------------------------------------------------------------
(***************************************************************************)
(* The rest of the invariant.                                              *)
(***************************************************************************)
LEMMA ListedStep ==
    ASSUME IInv, [Next]_vars
    PROVE  ClosedListed'
<1>1. /\ connectionsByIP \in [IPs -> Entries] /\ completedIPsToRemove \subseteq IPs
      /\ \A ip \in IPs : connectionsByIP[ip] = "closed" => ip \in completedIPsToRemove
      /\ \A ip \in completedIPsToRemove : connectionsByIP[ip] \in {"closed", "reported"}
      /\ pc \in {"idle", "finish"} => completedIPsToRemove = {}
      /\ pc \in {"poll", "connect"} => \A ip \in IPs : connectionsByIP[ip] # "closed"
  BY DEF IInv, TypeOK, ClosedListed, Having
<1> DEFINE Listed ==
              /\ \A ip \in IPs : connectionsByIP'[ip] = "closed" => ip \in completedIPsToRemove'
              /\ \A ip \in completedIPsToRemove' : connectionsByIP'[ip] \in {"closed", "reported"}
              /\ pc' \in {"idle", "finish"} => completedIPsToRemove' = {}
              /\ pc' \in {"poll", "connect"} => \A ip \in IPs : connectionsByIP'[ip] # "closed"
<1>2. SUFFICES Listed
  BY EntriesStep DEF ClosedListed, Having
<1>3. CASE StartScan
  BY <1>3 DEF StartScan, cleanupPreviousScan
<1>4. ASSUME NEW ip \in IPs, GetConnection(ip) PROVE Listed
  BY <1>1, <1>4 DEF GetConnection
<1>5. CASE BeginUpdate \/ PollDone \/ ServiceDone \/ Finish \/ UNCHANGED vars
  <2>1. UNCHANGED mapVars /\ (pc' = pc \/ pc = "idle" \/ pc = "finish" \/ pc = "poll" \/ pc' = "remove")
        /\ (pc' \in {"idle", "finish"} => pc \in {"idle", "finish"})
        /\ (pc' \in {"poll", "connect"} => pc \in {"idle", "poll", "connect"})
    BY <1>5 DEF BeginUpdate, PollDone, ServiceDone, Finish, vars, mapVars
  <2> QED
    BY <1>1, <2>1 DEF mapVars
<1>6. ASSUME NEW ip \in IPs, PollAnswer(ip) PROVE Listed
  <2>1. /\ connectionsByIP' = [connectionsByIP EXCEPT ![ip] = "reported"] /\ pc' = pc /\ pc = "poll"
        /\ completedIPsToRemove' \in {completedIPsToRemove, completedIPsToRemove \cup {ip}}
    BY <1>6 DEF PollAnswer
  <2> QED
    BY <1>1, <2>1
<1>7. CASE Connect
  <2> DEFINE new == {scanIPs[i] : i \in (scanIndex + 1) .. batchEnd} \cap Having({"none", "closed"})
  <2>1. PICK failed \in SUBSET new :
           connectionsByIP' = [ip \in IPs |->
              CASE ip \in failed       -> "none"
                [] ip \in new \ failed -> "raw"
                [] OTHER               -> connectionsByIP[ip]]
    BY <1>7 DEF Connect
  <2>2. pc = "connect" /\ pc' = "service" /\ completedIPsToRemove' = completedIPsToRemove
    BY <1>7 DEF Connect
  <2>3. \A ip \in new : connectionsByIP[ip] \in {"none", "closed"} /\ ip \in IPs
    BY DEF Having
  <2> HIDE DEF new
  <2>4. \A ip \in IPs : connectionsByIP'[ip] \in {"none", "raw"} \/ connectionsByIP'[ip] = connectionsByIP[ip]
    BY <2>1
  <2>5. \A ip \in completedIPsToRemove : ip \notin new /\ connectionsByIP'[ip] = connectionsByIP[ip]
    BY <1>1, <2>1, <2>2, <2>3
  <2> QED
    BY <1>1, <2>2, <2>4, <2>5
<1>8. ASSUME NEW ip \in IPs, HandleReceivedData(ip) \/ ServiceDisconnect(ip) PROVE Listed
  <2>1. connectionsByIP[ip] \in {"handshake", "other", "disconnect"} /\ pc = "service" /\ pc' = pc
    BY <1>8 DEF HandleReceivedData, ServiceDisconnect
  <2>2. CASE Handshake(ip)
    BY <1>1, <2>1, <2>2 DEF Handshake
  <2>3. CASE Close(ip)
    BY <1>1, <2>1, <2>3 DEF Close
  <2> QED
    BY <1>8, <2>2, <2>3 DEF HandleReceivedData, ServiceDisconnect
<1>9. CASE RemoveCompleted
  BY <1>1, <1>9 DEF RemoveCompleted
<1>10. ASSUME NEW ip \in IPs, Arrives(ip) \/ Answers(ip) PROVE Listed
  <2>1. PICK entry \in {"handshake", "other", "disconnect", "answered"} :
           connectionsByIP' = [connectionsByIP EXCEPT ![ip] = entry]
    BY <1>10 DEF Arrives, Answers
  <2>2. /\ connectionsByIP[ip] \in {"raw", "asked"} /\ pc' = pc
        /\ completedIPsToRemove' = completedIPsToRemove
    BY <1>10 DEF Arrives, Answers
  <2> QED
    BY <1>1, <2>1, <2>2
<1> QED
  BY <1>3, <1>4, <1>5, <1>6, <1>7, <1>8, <1>9, <1>10 DEF Next, Update

LEMMA TriedStep ==
    ASSUME IInv, [Next]_vars
    PROVE  WalkedTried'
<1>1. /\ \A i \in 1 .. scanIndex : <<pass, scanIPs[i]>> \in tried
      /\ hasTriedAgain => {1} \X ToSet(scanIPs) \subseteq tried
  BY DEF IInv, WalkedTried
<1>2. ASSUME UNCHANGED <<hasTriedAgain, scanIndex, scanIPs, tried>> PROVE WalkedTried'
  BY <1>1, <1>2 DEF WalkedTried, pass
<1>3. CASE StartScan
  BY <1>3 DEF StartScan, WalkedTried
<1>4. CASE Connect
  <2> DEFINE batch == {scanIPs[i] : i \in (scanIndex + 1) .. batchEnd}
  <2>1. /\ scanIndex' = batchEnd /\ tried' = tried \cup ({pass} \X batch)
        /\ hasTriedAgain' = hasTriedAgain /\ scanIPs' = scanIPs
    BY <1>4 DEF Connect
  <2>2. batchEnd \in scanIndex .. Len(scanIPs) /\ scanIndex \in Nat
    BY BatchType
  <2>3. pass' = pass
    BY <2>1 DEF pass
  <2>4. ASSUME NEW i \in 1 .. batchEnd PROVE <<pass, scanIPs[i]>> \in tried'
    <3>1. CASE i \in 1 .. scanIndex
      BY <1>1, <2>1, <3>1
    <3>2. CASE i \notin 1 .. scanIndex
      <4>1. i \in (scanIndex + 1) .. batchEnd
        BY <2>2, <3>2
      <4>2. scanIPs[i] \in batch
        BY <4>1
      <4> QED
        BY <2>1, <4>2
    <3> QED
      BY <3>1, <3>2
  <2>5. \A i \in 1 .. scanIndex' : <<pass', scanIPs'[i]>> \in tried'
    BY <2>1, <2>3, <2>4
  <2>6. hasTriedAgain' => {1} \X ToSet(scanIPs') \subseteq tried'
    BY <1>1, <2>1
  <2> QED
    BY <2>5, <2>6 DEF WalkedTried
<1>5. CASE Finish
  <2>1. scanIPs' = scanIPs /\ tried' = tried
    BY <1>5 DEF Finish
  <2>2. CASE UNCHANGED <<hasTriedAgain, scanIndex>>
    BY <1>2, <2>1, <2>2
  <2>3. CASE ~hasTriedAgain /\ hasTriedAgain' = TRUE /\ scanIndex' = 0 /\ scanIndex >= Len(scanIPs)
    <3>1. Len(scanIPs) \in Nat /\ scanIndex = Len(scanIPs) /\ pass = 1
      BY <2>3, BatchType DEF pass
    <3>2. \A i \in 1 .. Len(scanIPs) : <<1, scanIPs[i]>> \in tried
      BY <1>1, <3>1
    <3>3. {1} \X ToSet(scanIPs) \subseteq tried
      BY <3>2, BatchType DEF ToSet
    <3> QED
      BY <2>1, <2>3, <3>3 DEF WalkedTried
  <2> QED
    BY <1>5, <2>2, <2>3 DEF Finish, passOver
<1>6. ASSUME NEW ip \in IPs,
             GetConnection(ip) \/ PollAnswer(ip) \/ Arrives(ip) \/ Answers(ip)
             \/ HandleReceivedData(ip) \/ ServiceDisconnect(ip)
      PROVE  WalkedTried'
  BY <1>2, <1>6 DEF GetConnection, PollAnswer, Arrives, Answers, HandleReceivedData,
     ServiceDisconnect, scanVars
<1>7. CASE BeginUpdate \/ PollDone \/ ServiceDone \/ RemoveCompleted \/ UNCHANGED vars
  BY <1>2, <1>7 DEF BeginUpdate, PollDone, ServiceDone, RemoveCompleted, scanVars, vars
<1> QED
  BY <1>3, <1>4, <1>5, <1>6, <1>7 DEF Next, Update

\* A complete scan has nothing left that an event could come for.
LEMMA CompleteStep ==
    ASSUME IInv, [Next]_vars
    PROVE  CompleteFits'
<1>1. connectionsByIP \in [IPs -> Entries] /\ pc \in {"idle", "poll", "connect", "service", "remove", "finish"}
      /\ complete \in BOOLEAN
  BY DEF IInv, TypeOK
<1>2. complete => /\ hasTriedAgain /\ scanIndex = Len(scanIPs)
                  /\ \A ip \in IPs : connectionsByIP[ip] = "none"
                  /\ pc \notin {"poll", "connect"}
  BY <1>1 DEF IInv, CompleteFits, Having
<1> DEFINE Nothing(c) == \A ip \in IPs : c[ip] = "none"
           Fits == /\ complete' => hasTriedAgain' /\ scanIndex' = Len(scanIPs')
                   /\ complete' => Nothing(connectionsByIP')
                   /\ complete' => pc' \notin {"poll", "connect"}
<1>3. SUFFICES Fits
  BY EntriesStep DEF CompleteFits, Having
<1>4. CASE StartScan
  BY <1>4 DEF StartScan
<1>5. ASSUME NEW ip \in IPs,
             GetConnection(ip) \/ PollAnswer(ip) \/ Arrives(ip) \/ Answers(ip)
             \/ HandleReceivedData(ip) \/ ServiceDisconnect(ip)
      PROVE  Fits
  <2>1. connectionsByIP[ip] # "none" /\ complete' = complete
    BY <1>5 DEF GetConnection, PollAnswer, Arrives, Answers, HandleReceivedData,
       ServiceDisconnect, scanVars
  <2> QED
    BY <1>2, <2>1
<1>6. CASE BeginUpdate \/ PollDone \/ ServiceDone \/ UNCHANGED vars
  <2>1. /\ UNCHANGED <<scanVars, connectionsByIP>>
        /\ pc' \in {"poll", "connect"} => pc \in {"poll", "connect"} \/ ~complete
    BY <1>1, <1>6 DEF BeginUpdate, PollDone, ServiceDone, mapVars, vars
  <2> QED
    BY <1>2, <2>1 DEF scanVars
<1>7. CASE Connect
  BY <1>2, <1>7 DEF Connect
<1>8. CASE RemoveCompleted
  <2>1. /\ UNCHANGED scanVars /\ pc' = "finish"
        /\ connectionsByIP' = [ip \in IPs |->
              IF ip \in completedIPsToRemove THEN "none" ELSE connectionsByIP[ip]]
    BY <1>8 DEF RemoveCompleted
  <2> QED
    BY <1>2, <2>1 DEF scanVars
<1>9. CASE Finish
  <2>1. UNCHANGED <<scanIPs, connectionsByIP>> /\ pc' = "idle"
    BY <1>9 DEF Finish, mapVars
  <2>2. CASE UNCHANGED <<complete, hasTriedAgain, scanIndex>>
    BY <1>2, <2>1, <2>2
  <2>3. CASE passOver /\ complete' = complete
    BY <1>1, <2>3 DEF passOver
  <2>4. CASE passOver /\ hasTriedAgain /\ UNCHANGED <<hasTriedAgain, scanIndex>>
    <3>1. scanIndex = Len(scanIPs)
      BY <2>4, BatchType DEF passOver
    <3>2. Nothing(connectionsByIP)
      BY <1>1, <2>4 DEF passOver, Having
    <3> QED
      BY <2>1, <2>4, <3>1, <3>2
  <2> QED
    BY <1>9, <2>2, <2>3, <2>4 DEF Finish
<1> QED
  BY <1>4, <1>5, <1>6, <1>7, <1>8, <1>9 DEF Next, Update

LEMMA InitSound == Init => IInv
<1> SUFFICES ASSUME Init PROVE IInv
  OBVIOUS
<1>1. Open = {}
  BY DEF Init, Open, Having, Raw, Interface
<1>2. Cardinality(Open) = 0
  BY <1>1, FS_EmptySet
<1>3. HostsOwned
  BY <1>2 DEF Init, HostsOwned, Open
<1>4. TypeOK
  <2>1. Cardinality(IPs) \in Nat /\ MaxTaken \in Nat /\ MaxScans \in Nat
    BY AddressesFinite, FS_CardinalityType, ScannerAssumption
  <2>2. scanIPs \in Seq(IPs) /\ Len(scanIPs) = 0
    BY DEF Init
  <2>3. /\ connectionsByIP \in [IPs -> Entries] /\ completedIPsToRemove \subseteq IPs
        /\ tried \subseteq {1, 2} \X IPs
    BY DEF Init, Entries
  <2>4. /\ pc = "idle" /\ complete = FALSE /\ hasTriedAgain = FALSE
        /\ scanIndex = 0 /\ callbackFunction = FALSE
        /\ scans = 0 /\ taken = 0 /\ enetHosts = 0 /\ accepted = FALSE
    BY DEF Init
  <2>5. /\ scanIndex \in 0 .. Len(scanIPs) /\ scans \in 0 .. MaxScans
        /\ taken \in 0 .. MaxTaken /\ enetHosts \in 0 .. (Cardinality(IPs) + MaxTaken)
    BY <2>1, <2>2, <2>4
  <2>6. /\ pc \in {"idle", "poll", "connect", "service", "remove", "finish"}
        /\ complete \in BOOLEAN /\ hasTriedAgain \in BOOLEAN
        /\ callbackFunction \in BOOLEAN /\ accepted \in BOOLEAN
    BY <2>4
  <2> QED
    BY Zenon, <2>2, <2>3, <2>5, <2>6 DEF TypeOK
<1>5. ClosedListed /\ WalkedTried /\ CompleteFits
  BY DEF Init, ClosedListed, WalkedTried, CompleteFits, Having
<1> QED
  BY <1>3, <1>4, <1>5 DEF IInv

THEOREM Sound == Spec => []IInv
<1>1. IInv /\ [Next]_vars => IInv'
  BY TypeStep, HostsStep, ListedStep, TriedStep, CompleteStep DEF IInv
<1> QED
  BY <1>1, InitSound, PTL DEF Spec

\* The state of the Scanner is always of its type.
THEOREM TypesHold == Spec => []TypeOK
<1>1. IInv => TypeOK
  BY DEF IInv
<1> QED
  BY <1>1, Sound, PTL

\* Every enet host is destroyed once: the open ones are those of the map's
\* connections and of the connections that were taken.
THEOREM HostsHold == Spec => []HostsOwned
<1>1. IInv => HostsOwned
  BY DEF IInv
<1> QED
  BY <1>1, Sound, PTL

\* When a scan is complete every address has been tried twice, and nothing is
\* left in the map.
THEOREM CompleteHolds == Spec => []CompleteScanTriedAll
<1>1. IInv => CompleteScanTriedAll
  <2> SUFFICES ASSUME IInv, complete
               PROVE  /\ {1, 2} \X ToSet(scanIPs) \subseteq tried
                      /\ Having(Entries \ {"none"}) = {}
    BY DEF CompleteScanTriedAll
  <2>1. /\ hasTriedAgain /\ scanIndex = Len(scanIPs) /\ pass = 2
        /\ Having(Entries \ {"none"}) = {}
    BY DEF IInv, CompleteFits, pass
  <2>2. \A i \in 1 .. Len(scanIPs) : <<2, scanIPs[i]>> \in tried
    BY <2>1 DEF IInv, WalkedTried
  <2>3. \A ip \in ToSet(scanIPs) : <<2, ip>> \in tried
    BY <2>2, BatchType DEF ToSet
  <2>4. \A ip \in ToSet(scanIPs) : <<1, ip>> \in tried
    BY <2>1 DEF IInv, WalkedTried
  <2>5. ASSUME NEW p \in {1, 2} \X ToSet(scanIPs) PROVE p \in tried
    <3>1. p = <<p[1], p[2]>> /\ p[1] \in {1, 2} /\ p[2] \in ToSet(scanIPs)
      OBVIOUS
    <3>2. CASE p[1] = 1
      BY <2>4, <3>1, <3>2
    <3>3. CASE p[1] = 2
      BY <2>3, <3>1, <3>3
    <3> QED
      BY <3>1, <3>2, <3>3
  <2> QED
    BY <2>1, <2>5
<1> QED
  BY <1>1, Sound, PTL

=============================================================================
