--------------------------- MODULE ClientGetProofs ---------------------------
(***************************************************************************)
(* ClientGet keeps its types, names what a process may die of, and calls a *)
(* callback once, whatever the trackers, the callbacks and the gets.       *)
(*                                                                         *)
(* A step works on the memory, a record m of references, calls and answers *)
(* of which it leaves a record r: the first lemmas say of each operator of *)
(* ClientGet what it makes of m.  The invariant has two halves.  Control   *)
(* is about the script's thread, the slots and the connections, and says   *)
(* for which get an interface may still call a slot.  MemoryFits is about  *)
(* the memory: a get owes or has given one answer, two if the call of its  *)
(* host failed to encode, and a callback has a reference for each of the   *)
(* arguments, slots and calls that may use it, until a host's key is found.*)
(***************************************************************************)
EXTENDS ClientGet, FiniteSetTheorems, WellFoundedInduction, TLAPS

Crashes == {"no", "no callback", "freed", "null interface", "unbound table"}
Calls == [tracker : Nat, unheard : Nat, host : Nat]
Get == [tracker : Trackers, callback : Callbacks \cup {NoCallback}]
Mem == [args : [Gets -> 0 .. 2], refs : [Callbacks -> Nat], answers : [Gets -> Nat],
        calls : [Gets -> Calls], crash : Crashes]

GetsFit == gets \in Seq(Get) /\ Len(gets) <= MaxGets

Out(m, g) == m.calls[g].tracker + m.calls[g].unheard + m.calls[g].host
Owed(m, g) == m.answers[g] + Out(m, g)

\* A count of f moves by n.
Moved(f, e, x, n) == e = [f EXCEPT ![x] = @ + n]

LEMMA ExceptType ==
    ASSUME NEW S, NEW T, NEW f \in [S -> T], NEW x, NEW y \in T
    PROVE  [f EXCEPT ![x] = y] \in [S -> T]
  OBVIOUS

LEMMA GetsFacts ==
    ASSUME GetsFit
    PROVE  /\ Len(gets) \in Nat /\ MaxGets \in Nat /\ DOMAIN gets = 1 .. Len(gets)
           /\ DOMAIN gets \subseteq Gets
           /\ \A g \in DOMAIN gets : /\ gets[g].tracker \in Trackers
                                     /\ gets[g].callback \in Callbacks \cup {NoCallback}
<1>1. gets \in Seq(Get) /\ Len(gets) <= MaxGets /\ MaxGets \in Nat
  BY ClientGetAssumption DEF GetsFit
<1>2. Len(gets) \in Nat /\ DOMAIN gets = 1 .. Len(gets)
  BY <1>1
<1>3. ASSUME NEW g \in DOMAIN gets PROVE gets[g] \in Get
  BY <1>1, <1>2, <1>3
<1> QED
  BY <1>1, <1>2, <1>3 DEF Gets, Get

\* What Using does when the process lives, and how it may die.
Used(m, r, g, k, d) ==
    LET c == gets[g].callback
    IN  /\ r \in Mem
        /\ r.args = m.args /\ r.calls = m.calls
        /\ r.crash = "no" =>
              /\ m.crash = "no" /\ c \in Callbacks /\ c # NoCallback
              /\ Moved(m.answers, r.answers, g, k)
              /\ Moved(m.refs, r.refs, c, d)
        /\ r.crash # "no" => r.answers = m.answers
        /\ r.crash \in {m.crash, "no callback", "freed"}
        /\ m.crash # "no" => r = m
        /\ r.crash = "no callback" => m.crash = "no callback" \/ c = NoCallback
        /\ m.crash = "no" /\ c # NoCallback /\ m.refs[c] >= 1 /\ m.refs[c] + d >= 0
              => r.crash = "no"
LEMMA UsingFacts ==
    ASSUME GetsFit, NEW m \in Mem, NEW g \in DOMAIN gets, NEW k \in Nat, NEW d \in Int
    PROVE  Used(m, Using(m, g, k, d), g, k, d)
<1> DEFINE r == Using(m, g, k, d)
           c == gets[g].callback
<1>1. g \in Gets /\ c \in Callbacks \cup {NoCallback}
  BY GetsFacts
<1>2. /\ m.args \in [Gets -> 0 .. 2] /\ m.refs \in [Callbacks -> Nat]
      /\ m.answers \in [Gets -> Nat] /\ m.calls \in [Gets -> Calls] /\ m.crash \in Crashes
  BY DEF Mem
<1>3. CASE m.crash # "no"
  BY <1>3 DEF Using, Used
<1>4. CASE m.crash = "no" /\ c = NoCallback
  <2>1. r = [m EXCEPT !.crash = "no callback"]
    BY <1>4 DEF Using
  <2>2. r \in Mem /\ r.crash = "no callback" /\ r.args = m.args /\ r.calls = m.calls
        /\ r.answers = m.answers
    BY <2>1 DEF Mem, Crashes
  <2> HIDE DEF r
  <2> QED
    BY <1>4, <2>2 DEF r, Used
<1>5. CASE m.crash = "no" /\ c # NoCallback /\ (m.refs[c] = 0 \/ m.refs[c] + d < 0)
  <2>1. r = [m EXCEPT !.crash = "freed"]
    BY <1>5 DEF Using
  <2>2. r \in Mem /\ r.crash = "freed" /\ r.args = m.args /\ r.calls = m.calls
        /\ r.answers = m.answers
    BY <2>1 DEF Mem, Crashes
  <2>3. ~(m.refs[c] >= 1 /\ m.refs[c] + d >= 0)
    BY <1>1, <1>2, <1>5
  <2> HIDE DEF r
  <2> QED
    BY <1>5, <2>2, <2>3 DEF r, Used
<1>6. CASE m.crash = "no" /\ c # NoCallback /\ ~(m.refs[c] = 0 \/ m.refs[c] + d < 0)
  <2>0. c \in Callbacks /\ m.refs[c] \in Nat /\ m.answers[g] \in Nat
    BY <1>1, <1>2, <1>6
  <2>1. r = [m EXCEPT !.refs[c] = @ + d, !.answers[g] = @ + k]
    BY <1>6 DEF Using
  <2>2. /\ r = [args |-> m.args, refs |-> [m.refs EXCEPT ![c] = @ + d],
                answers |-> [m.answers EXCEPT ![g] = @ + k], calls |-> m.calls,
                crash |-> m.crash]
    BY <2>1 DEF Mem
  <2>3. [m.refs EXCEPT ![c] = @ + d] \in [Callbacks -> Nat]
    BY <1>2, <1>6, <2>0
  <2>4. [m.answers EXCEPT ![g] = @ + k] \in [Gets -> Nat]
    BY <1>1, <1>2, <2>0
  <2>5. r \in Mem /\ r.crash = "no" /\ r.args = m.args /\ r.calls = m.calls
        /\ Moved(m.answers, r.answers, g, k)
        /\ Moved(m.refs, r.refs, c, d)
    BY <1>2, <1>6, <2>2, <2>3, <2>4 DEF Mem, Moved
  <2> HIDE DEF r
  <2> QED
    BY <1>6, <2>0, <2>5 DEF r, Used
<1> QED
  BY <1>3, <1>4, <1>5, <1>6 DEF Crashes

-----------------------------------------------------------------------------
\* IfCallback uses nothing when there is no callback.
UsedIfAny(m, r, g, d) ==
    LET c == gets[g].callback
    IN  /\ r \in Mem
        /\ r.args = m.args /\ r.calls = m.calls /\ r.answers = m.answers
        /\ c = NoCallback => r = m
        /\ r.crash = "no" => m.crash = "no" /\ (c # NoCallback => Moved(m.refs, r.refs, c, d))
        /\ r.crash \in {m.crash, "freed"}
        /\ m.crash # "no" => r = m
        /\ m.crash = "no" /\ c # NoCallback /\ m.refs[c] >= 1 /\ m.refs[c] + d >= 0
              => r.crash = "no"
LEMMA IfCallbackFacts ==
    ASSUME GetsFit, NEW m \in Mem, NEW g \in DOMAIN gets, NEW d \in Int
    PROVE  UsedIfAny(m, IfCallback(m, g, d), g, d)
<1> DEFINE r == IfCallback(m, g, d)
           u == Using(m, g, 0, d)
           c == gets[g].callback
<1>1. CASE c = NoCallback
  BY <1>1 DEF IfCallback, UsedIfAny
<1>2. CASE c # NoCallback
  <2>1. r = u
    BY <1>2 DEF IfCallback
  <2>2. Used(m, u, g, 0, d)
    BY UsingFacts
  <2>3. \A e : Moved(m.answers, e, g, 0) => e = m.answers
    <3>1. m.answers \in [Gets -> Nat] /\ g \in Gets
      BY GetsFacts DEF Mem
    <3> QED
      BY <3>1 DEF Moved
  <2> HIDE DEF r, u
  <2>4. u.answers = m.answers
    BY <2>2, <2>3 DEF Used
  <2>5. u.crash \in {m.crash, "freed"}
    BY <1>2, <2>2 DEF Used
  <2>6. UsedIfAny(m, u, g, d)
    BY <1>2, <2>2, <2>4, <2>5 DEF Used, UsedIfAny
  <2> QED
    BY <2>1, <2>6 DEF r
<1> QED
  BY <1>1, <1>2

\* What ReleaseArgs does when the process lives, and how it may die.
Released(m, r, g) ==
    LET c == gets[g].callback
    IN  /\ r \in Mem
        /\ r.calls = m.calls /\ r.answers = m.answers
        /\ r.crash = "no" =>
              /\ m.crash = "no" /\ m.args[g] > 0
              /\ Moved(m.args, r.args, g, -1)
              /\ m.args[g] > 1 => r.refs = m.refs
              /\ m.args[g] = 1 /\ c # NoCallback => Moved(m.refs, r.refs, c, -1)
        /\ r.crash \in {m.crash, "freed"}
        /\ m.crash # "no" => r = m
        /\ m.crash = "no" /\ m.args[g] > 0 /\ (c # NoCallback => m.refs[c] >= 1)
              => r.crash = "no"
LEMMA ReleaseArgsFacts ==
    ASSUME GetsFit, NEW m \in Mem, NEW g \in DOMAIN gets
    PROVE  Released(m, ReleaseArgs(m, g), g)
<1> DEFINE r == ReleaseArgs(m, g)
           a == [m EXCEPT !.args[g] = 0]
           c == gets[g].callback
<1>1. g \in Gets /\ c \in Callbacks \cup {NoCallback}
  BY GetsFacts
<1>2. /\ m.args \in [Gets -> 0 .. 2] /\ m.refs \in [Callbacks -> Nat]
      /\ m.answers \in [Gets -> Nat] /\ m.calls \in [Gets -> Calls] /\ m.crash \in Crashes
  BY DEF Mem
<1>3. m.args[g] \in 0 .. 2
  BY <1>1, <1>2
<1>4. CASE m.crash # "no"
  BY <1>4 DEF ReleaseArgs, Released
<1>5. CASE m.crash = "no" /\ m.args[g] = 0
  <2>1. r = [m EXCEPT !.crash = "freed"]
    BY <1>5 DEF ReleaseArgs
  <2>2. r \in Mem /\ r.crash = "freed" /\ r.calls = m.calls /\ r.answers = m.answers
    BY <2>1 DEF Mem, Crashes
  <2> HIDE DEF r
  <2> QED
    BY <1>5, <2>2 DEF r, Released
<1>6. CASE m.crash = "no" /\ m.args[g] = 1
  <2>1. r = IfCallback(a, g, -1)
    BY <1>6 DEF ReleaseArgs
  <2>2. /\ a = [args |-> [m.args EXCEPT ![g] = 0], refs |-> m.refs,
                answers |-> m.answers, calls |-> m.calls, crash |-> m.crash]
    BY DEF Mem
  <2>3. [m.args EXCEPT ![g] = 0] \in [Gets -> 0 .. 2]
    BY <1>2, 0 \in 0 .. 2, ExceptType
  <2>9. [m.args EXCEPT ![g] = 0] = [m.args EXCEPT ![g] = @ + -1]
    BY <1>1, <1>2, <1>6
  <2>4. /\ a \in Mem /\ Moved(m.args, a.args, g, -1) /\ a.refs = m.refs
        /\ a.answers = m.answers /\ a.calls = m.calls /\ a.crash = m.crash
    BY <1>2, <1>6, <2>2, <2>3, <2>9 DEF Mem, Moved
  <2> HIDE DEF a
  <2>5. UsedIfAny(a, r, g, -1)
    BY <2>1, <2>4, IfCallbackFacts
  <2>6. c = NoCallback => r = a
    BY <2>1 DEF IfCallback
  <2>7. c # NoCallback => m.refs[c] \in Nat
    BY <1>1, <1>2
  <2> HIDE DEF r
  <2>8. c # NoCallback /\ m.refs[c] >= 1 => r.crash = "no"
    BY <1>6, <2>4, <2>5, <2>7 DEF UsedIfAny
  <2> QED
    BY <1>6, <2>4, <2>5, <2>6, <2>7, <2>8 DEF r, Released, UsedIfAny
<1>7. CASE m.crash = "no" /\ m.args[g] = 2
  <2>1. r = [m EXCEPT !.args[g] = @ - 1]
    BY <1>7 DEF ReleaseArgs
  <2>2. /\ r = [args |-> [m.args EXCEPT ![g] = @ - 1], refs |-> m.refs,
                answers |-> m.answers, calls |-> m.calls, crash |-> m.crash]
    BY <2>1 DEF Mem
  <2>0. m.args[g] - 1 \in 0 .. 2
    BY <1>7
  <2>3. [m.args EXCEPT ![g] = @ - 1] \in [Gets -> 0 .. 2]
    BY <1>2, <2>0, ExceptType
  <2>9. [m.args EXCEPT ![g] = @ - 1] = [m.args EXCEPT ![g] = @ + -1]
    BY <1>1, <1>2, <1>3
  <2>4. /\ r \in Mem /\ Moved(m.args, r.args, g, -1) /\ r.refs = m.refs
        /\ r.answers = m.answers /\ r.calls = m.calls /\ r.crash = m.crash
    BY <1>2, <2>2, <2>3, <2>9 DEF Mem, Moved
  <2> HIDE DEF r
  <2> QED
    BY <1>7, <2>4 DEF r, Released
<1> QED
  BY <1>3, <1>4, <1>5, <1>6, <1>7

-----------------------------------------------------------------------------
\* What holds a reference to callback c, when the gets of s are in a slot.
Uses == (0 .. MaxGets) \X {"args", "slot", "call", "held"}
Needed(m, s, c, g, use) ==
    \/ g = 0 /\ use = "held" /\ c \in Held
    \/ /\ g \in DOMAIN gets /\ gets[g].callback = c
       /\ \/ use = "args" /\ m.args[g] > 0
          \/ use = "slot" /\ g \in s
          \/ use = "call" /\ Out(m, g) > 0
Needs(m, s, c) == {u \in Uses : Needed(m, s, c, u[1], u[2])}
Backed(m, s) == \A c \in Callbacks : m.refs[c] >= Cardinality(Needs(m, s, c))

LEMMA NeedsFinite ==
    ASSUME NEW m, NEW s, NEW c
    PROVE  IsFiniteSet(Needs(m, s, c)) /\ Cardinality(Needs(m, s, c)) \in Nat
<1>1. MaxGets \in Int /\ 0 \in Int
  BY ClientGetAssumption
<1>2. IsFiniteSet(0 .. MaxGets)
  BY <1>1, FS_Interval
<1>3. IsFiniteSet({"args", "slot", "call", "held"})
  <2>1. IsFiniteSet({"args", "slot"}) /\ IsFiniteSet({"call", "held"})
    <3>1. ASSUME NEW a, NEW b PROVE IsFiniteSet({a, b})
      <4>1. IsFiniteSet({a} \cup {b})
        BY FS_Singleton, FS_AddElement
      <4>2. {a} \cup {b} = {a, b}
        OBVIOUS
      <4> QED
        BY <4>1, <4>2
    <3> QED
      BY <3>1
  <2>2. {"args", "slot", "call", "held"} = {"args", "slot"} \cup {"call", "held"}
    OBVIOUS
  <2> QED
    BY <2>1, <2>2, FS_Union
<1>4. IsFiniteSet(Uses)
  BY <1>2, <1>3, FS_Product DEF Uses
<1>5. Needs(m, s, c) \in SUBSET Uses
  BY DEF Needs
<1> QED
  BY <1>4, <1>5, FS_Subset, FS_CardinalityType

\* While uses go, references may go with them.
LEMMA BackedUse ==
    ASSUME NEW m \in Mem, NEW s, Backed(m, s), NEW c \in Callbacks,
           NEW u \in Needs(m, s, c)
    PROVE  m.refs[c] \in Nat /\ m.refs[c] >= 1
<1>1. IsFiniteSet(Needs(m, s, c)) /\ Cardinality(Needs(m, s, c)) \in Nat
  BY NeedsFinite
<1>2. Cardinality(Needs(m, s, c)) # 0
  BY <1>1, FS_EmptySet
<1> QED
  BY <1>1, <1>2 DEF Backed, Mem

LEMMA BackedSame ==
    ASSUME NEW m \in Mem, NEW s, Backed(m, s), NEW r \in Mem, NEW t, r.refs = m.refs,
           \A c \in Callbacks : Needs(r, t, c) \subseteq Needs(m, s, c)
    PROVE  Backed(r, t)
<1> SUFFICES ASSUME NEW c \in Callbacks
             PROVE  r.refs[c] >= Cardinality(Needs(r, t, c))
  BY DEF Backed
<1>1. IsFiniteSet(Needs(m, s, c)) /\ Cardinality(Needs(m, s, c)) \in Nat
      /\ Cardinality(Needs(r, t, c)) \in Nat
  BY NeedsFinite
<1>2. Cardinality(Needs(r, t, c)) <= Cardinality(Needs(m, s, c))
  BY <1>1, FS_Subset
<1>3. m.refs[c] \in Nat
  BY DEF Mem
<1> QED
  BY <1>1, <1>2, <1>3 DEF Backed

LEMMA BackedLess ==
    ASSUME NEW m \in Mem, NEW s, Backed(m, s), NEW r \in Mem, NEW t,
           NEW c \in Callbacks, Moved(m.refs, r.refs, c, -1),
           \A d \in Callbacks : Needs(r, t, d) \subseteq Needs(m, s, d),
           NEW u \in Needs(m, s, c), u \notin Needs(r, t, c)
    PROVE  Backed(r, t)
<1> SUFFICES ASSUME NEW d \in Callbacks
             PROVE  r.refs[d] >= Cardinality(Needs(r, t, d))
  BY DEF Backed
<1>1. IsFiniteSet(Needs(m, s, d)) /\ Cardinality(Needs(m, s, d)) \in Nat
      /\ Cardinality(Needs(r, t, d)) \in Nat
  BY NeedsFinite
<1>2. Cardinality(Needs(r, t, d)) <= Cardinality(Needs(m, s, d))
  BY <1>1, FS_Subset
<1>3. m.refs \in [Callbacks -> Nat] /\ m.refs[d] >= Cardinality(Needs(m, s, d))
  BY DEF Mem, Backed
<1>4. r.refs[d] = IF d = c THEN m.refs[d] - 1 ELSE m.refs[d]
  BY <1>3 DEF Moved
<1>5. m.refs[d] \in Nat
  BY <1>3
<1>6. CASE d = c
  <2>1. Needs(r, t, c) # Needs(m, s, c)
    OBVIOUS
  <2>2. Cardinality(Needs(r, t, d)) # Cardinality(Needs(m, s, d))
    BY <1>1, <1>6, <2>1, FS_Subset
  <2> QED
    BY <1>1, <1>2, <1>3, <1>4, <1>5, <1>6, <2>2
<1>7. CASE d # c
  BY <1>1, <1>2, <1>3, <1>4, <1>5, <1>7
<1> QED
  BY <1>6, <1>7

LEMMA BackedMore ==
    ASSUME NEW m \in Mem, NEW s, Backed(m, s), NEW r \in Mem, NEW t,
           NEW c \in Callbacks, Moved(m.refs, r.refs, c, 1), NEW u,
           \A d \in Callbacks : d # c => Needs(r, t, d) \subseteq Needs(m, s, d),
           Needs(r, t, c) \subseteq Needs(m, s, c) \cup {u}
    PROVE  Backed(r, t)
<1> SUFFICES ASSUME NEW d \in Callbacks
             PROVE  r.refs[d] >= Cardinality(Needs(r, t, d))
  BY DEF Backed
<1>1. IsFiniteSet(Needs(m, s, d)) /\ Cardinality(Needs(m, s, d)) \in Nat
      /\ Cardinality(Needs(r, t, d)) \in Nat
  BY NeedsFinite
<1>3. m.refs \in [Callbacks -> Nat] /\ m.refs[d] >= Cardinality(Needs(m, s, d))
  BY DEF Mem, Backed
<1>4. r.refs[d] = IF d = c THEN m.refs[d] + 1 ELSE m.refs[d]
  BY <1>3 DEF Moved
<1>5. m.refs[d] \in Nat
  BY <1>3
<1>6. CASE d = c
  <2> DEFINE more == Needs(m, s, d) \cup {u}
  <2>1. IsFiniteSet(more) /\ Cardinality(more) <= Cardinality(Needs(m, s, d)) + 1
        /\ Cardinality(more) \in Nat
    <3>1. /\ IsFiniteSet(more)
          /\ Cardinality(more) = IF u \in Needs(m, s, d) THEN Cardinality(Needs(m, s, d))
                                  ELSE Cardinality(Needs(m, s, d)) + 1
      BY <1>1, FS_AddElement
    <3>2. Cardinality(more) \in Nat
      BY <3>1, FS_CardinalityType
    <3> HIDE DEF more
    <3> QED
      BY <1>1, <3>1, <3>2
  <2>2. Needs(r, t, d) \in SUBSET more
    BY <1>6
  <2> HIDE DEF more
  <2>3. Cardinality(Needs(r, t, d)) <= Cardinality(more)
    BY <2>1, <2>2, FS_Subset
  <2> QED
    BY <1>1, <1>3, <1>4, <1>5, <1>6, <2>1, <2>3
<1>7. CASE d # c
  <2>1. Cardinality(Needs(r, t, d)) <= Cardinality(Needs(m, s, d))
    BY <1>1, <1>7, FS_Subset
  <2> QED
    BY <1>1, <1>3, <1>4, <1>5, <1>7, <2>1
<1> QED
  BY <1>6, <1>7

-----------------------------------------------------------------------------
\* How many calls there are says what a get owes, and uses its callback.
LEMMA OutFacts ==
    ASSUME NEW m \in Mem, NEW g \in Gets
    PROVE  /\ m.calls[g] \in Calls /\ m.answers[g] \in Nat /\ m.args[g] \in 0 .. 2
           /\ m.calls[g].tracker \in Nat /\ m.calls[g].unheard \in Nat
           /\ m.calls[g].host \in Nat
           /\ Out(m, g) \in Nat /\ Owed(m, g) \in Nat
<1>1. m.calls[g] \in Calls /\ m.answers[g] \in Nat /\ m.args[g] \in 0 .. 2
  BY DEF Mem
<1>2. m.calls[g].tracker \in Nat /\ m.calls[g].unheard \in Nat /\ m.calls[g].host \in Nat
  BY <1>1 DEF Calls
<1> QED
  BY <1>1, <1>2 DEF Out, Owed

\* The calls of get g alone are changed, to call.
LEMMA CallsPut ==
    ASSUME NEW m \in Mem, NEW g \in Gets, NEW call \in Calls
    PROVE  LET r == [m EXCEPT !.calls[g] = call]
           IN  /\ r \in Mem /\ r.args = m.args /\ r.refs = m.refs
               /\ r.answers = m.answers /\ r.crash = m.crash
               /\ r.calls[g] = call
               /\ \A h \in Gets : h # g => r.calls[h] = m.calls[h]
<1> DEFINE r == [m EXCEPT !.calls[g] = call]
<1>1. r = [args |-> m.args, refs |-> m.refs, answers |-> m.answers,
           calls |-> [m.calls EXCEPT ![g] = call], crash |-> m.crash]
  BY DEF Mem
<1>2. m.calls \in [Gets -> Calls]
  BY DEF Mem
<1>3. [m.calls EXCEPT ![g] = call] \in [Gets -> Calls]
  BY <1>2, ExceptType
<1>4. r \in Mem
  BY <1>1, <1>3 DEF Mem
<1> QED
  BY <1>1, <1>2, <1>4

\* One more call, of the tracker.
Asking(m, r, g) ==
    /\ r \in Mem /\ r.args = m.args /\ r.refs = m.refs
    /\ r.answers = m.answers /\ r.crash = m.crash
    /\ Out(r, g) = Out(m, g) + 1
    /\ \A h \in Gets : r.calls[h].host = m.calls[h].host
    /\ \A h \in Gets : h # g => r.calls[h] = m.calls[h]

LEMMA AskingFacts ==
    ASSUME NEW m \in Mem, NEW g \in Gets
    PROVE  /\ Asking(m, [m EXCEPT !.calls[g].tracker = @ + 1], g)
           /\ Asking(m, [m EXCEPT !.calls[g].unheard = @ + 1], g)
<1>1. /\ m.calls[g] \in Calls
      /\ m.calls[g].tracker \in Nat /\ m.calls[g].unheard \in Nat
      /\ m.calls[g].host \in Nat
  BY OutFacts
<1> DEFINE a == [m.calls[g] EXCEPT !.tracker = @ + 1]
           b == [m.calls[g] EXCEPT !.unheard = @ + 1]
<1>2. /\ a \in Calls /\ a.tracker = m.calls[g].tracker + 1
      /\ a.unheard = m.calls[g].unheard /\ a.host = m.calls[g].host
  BY <1>1 DEF Calls
<1>3. /\ b \in Calls /\ b.unheard = m.calls[g].unheard + 1
      /\ b.tracker = m.calls[g].tracker /\ b.host = m.calls[g].host
  BY <1>1 DEF Calls
<1>4. /\ [m EXCEPT !.calls[g].tracker = @ + 1] = [m EXCEPT !.calls[g] = a]
      /\ [m EXCEPT !.calls[g].unheard = @ + 1] = [m EXCEPT !.calls[g] = b]
  BY DEF Mem
<1> HIDE DEF a, b
<1>5. Asking(m, [m EXCEPT !.calls[g] = a], g)
  <2> DEFINE r == [m EXCEPT !.calls[g] = a]
  <2>1. /\ r \in Mem /\ r.args = m.args /\ r.refs = m.refs
        /\ r.answers = m.answers /\ r.crash = m.crash
        /\ r.calls[g] = a
        /\ \A h \in Gets : h # g => r.calls[h] = m.calls[h]
    BY <1>2, CallsPut
  <2> HIDE DEF r
  <2>2. Out(r, g) = Out(m, g) + 1
    BY <1>1, <1>2, <2>1 DEF Out
  <2>3. \A h \in Gets : r.calls[h].host = m.calls[h].host
    BY <1>2, <2>1
  <2> QED
    BY <2>1, <2>2, <2>3 DEF Asking, r
<1>6. Asking(m, [m EXCEPT !.calls[g] = b], g)
  <2> DEFINE r == [m EXCEPT !.calls[g] = b]
  <2>1. /\ r \in Mem /\ r.args = m.args /\ r.refs = m.refs
        /\ r.answers = m.answers /\ r.crash = m.crash
        /\ r.calls[g] = b
        /\ \A h \in Gets : h # g => r.calls[h] = m.calls[h]
    BY <1>3, CallsPut
  <2> HIDE DEF r
  <2>2. Out(r, g) = Out(m, g) + 1
    BY <1>1, <1>3, <2>1 DEF Out
  <2>3. \A h \in Gets : r.calls[h].host = m.calls[h].host
    BY <1>3, <2>1
  <2> QED
    BY <2>1, <2>2, <2>3 DEF Asking, r
<1> QED
  BY <1>4, <1>5, <1>6

\* Others' answers and calls, and every call of a host, are left alone.
OthersKept(m, r, g) ==
    /\ \A h \in Gets : h # g => r.answers[h] = m.answers[h] /\ r.calls[h] = m.calls[h]
    /\ \A h \in Gets : r.calls[h].host = m.calls[h].host

\* doGet: one more answer is owed or given.
Gotten(m, r, g) ==
    LET t == gets[g].tracker
        c == gets[g].callback
    IN  /\ r \in Mem /\ r.args = m.args
        /\ OthersKept(m, r, g)
        /\ r.answers[g] <= m.answers[g] + 1
        /\ r.crash = "no" => m.args[g] > 0 /\ Owed(r, g) = Owed(m, g) + 1
        /\ r.crash \in {"no", "freed", "no callback", "null interface"}
        /\ r.crash = "null interface" => t \notin netInterfaces
        /\ r.crash = "no callback" => c = NoCallback

LEMMA DoGetFacts ==
    ASSUME GetsFit, NEW m \in Mem, m.crash = "no", NEW g \in DOMAIN gets,
           NEW r \in DoGet(m, g)
    PROVE  Gotten(m, r, g)
<1> DEFINE t == gets[g].tracker
           c == gets[g].callback
           p == IfCallback(m, g, 1)
<1>1. g \in Gets
  BY GetsFacts
<1>2. /\ m.calls[g] \in Calls /\ m.answers[g] \in Nat /\ m.args[g] \in 0 .. 2
      /\ Out(m, g) \in Nat /\ Owed(m, g) \in Nat
  BY <1>1, OutFacts
<1>3. UsedIfAny(m, p, g, 1)
  BY IfCallbackFacts
<1>4. /\ p \in Mem /\ p.args = m.args /\ p.calls = m.calls /\ p.answers = m.answers
      /\ p.crash \in {"no", "freed"}
  BY <1>3 DEF UsedIfAny
<1>5. CASE m.args[g] = 0
  <2>1. r = [m EXCEPT !.crash = "freed"]
    BY <1>5 DEF DoGet
  <2>2. r \in Mem /\ r.crash = "freed" /\ r.args = m.args /\ r.calls = m.calls
        /\ r.answers = m.answers
    BY <2>1 DEF Mem, Crashes
  <2> QED
    BY <1>1, <1>2, <2>2 DEF Gotten, OthersKept
<1>6. CASE m.args[g] # 0 /\ t \notin netInterfaces
  <2>1. r = [m EXCEPT !.crash = "null interface"]
    BY <1>6 DEF DoGet
  <2>2. r \in Mem /\ r.crash = "null interface" /\ r.args = m.args /\ r.calls = m.calls
        /\ r.answers = m.answers
    BY <2>1 DEF Mem, Crashes
  <2>3. OthersKept(m, r, g) /\ r.answers[g] <= m.answers[g] + 1
    <3>1. OthersKept(m, r, g)
      BY <2>2 DEF OthersKept
    <3>2. r.answers[g] = m.answers[g]
      BY <2>2
    <3> QED
      BY <1>2, <3>1, <3>2
  <2> QED
    BY <1>6, <2>2, <2>3 DEF Gotten
<1>7. CASE m.args[g] # 0 /\ t \in netInterfaces
  <2>0. \/ r = [p EXCEPT !.calls[g].tracker = @ + 1]
        \/ r = [p EXCEPT !.calls[g].unheard = @ + 1]
        \/ r = Answered(p, g)
    BY <1>7 DEF DoGet
  <2>1. ASSUME Asking(p, r, g) PROVE Gotten(m, r, g)
    <3> HIDE DEF p
    <3>1. /\ r \in Mem /\ r.args = m.args /\ r.answers = m.answers
          /\ r.crash \in {"no", "freed"}
          /\ Out(r, g) = Out(m, g) + 1
          /\ \A h \in Gets : r.calls[h].host = m.calls[h].host
          /\ \A h \in Gets : h # g => r.calls[h] = m.calls[h]
      BY <1>4, <2>1 DEF Asking, Out
    <3>2. Owed(r, g) = Owed(m, g) + 1
      BY <1>2, <3>1 DEF Owed
    <3>3. r.answers[g] <= m.answers[g] + 1
      BY <1>2, <3>1
    <3>4. m.args[g] > 0
      BY <1>2, <1>7
    <3> QED
      BY <3>1, <3>2, <3>3, <3>4 DEF Gotten, OthersKept
  <2>2. CASE r = Answered(p, g)
    <3>1. Used(p, r, g, 1, -1)
      BY <1>4, <2>2, UsingFacts DEF Answered
    <3>2. m.answers \in [Gets -> Nat]
      BY DEF Mem
    <3> HIDE DEF p
    <3>3. /\ r \in Mem /\ r.args = m.args /\ r.calls = m.calls
          /\ r.crash = "no" => Moved(m.answers, r.answers, g, 1)
          /\ r.crash # "no" => r.answers = m.answers
          /\ r.crash \in {"no", "freed", "no callback"}
          /\ r.crash = "no callback" => c = NoCallback
      BY <1>4, <3>1 DEF Used
    <3>4. /\ \A h \in Gets : h # g => r.answers[h] = m.answers[h]
          /\ r.answers[g] <= m.answers[g] + 1
          /\ r.crash = "no" => r.answers[g] = m.answers[g] + 1
      <4>1. CASE r.crash = "no"
        BY <1>1, <1>2, <3>2, <3>3, <4>1 DEF Moved
      <4>2. CASE r.crash # "no"
        <5>1. r.answers = m.answers
          BY <3>3, <4>2
        <5> QED
          BY <1>2, <4>2, <5>1
      <4> QED
        BY <4>1, <4>2
    <3>5. r.crash = "no" => Owed(r, g) = Owed(m, g) + 1
      BY <1>2, <3>3, <3>4 DEF Owed, Out
    <3>6. m.args[g] > 0
      BY <1>2, <1>7
    <3> QED
      BY <3>3, <3>4, <3>5, <3>6 DEF Gotten, OthersKept
  <2> QED
    BY <1>1, <1>4, <2>0, <2>1, <2>2, AskingFacts
<1> QED
  BY <1>5, <1>6, <1>7

\* Nothing is freed too early in doGet while what uses a callback backs it.
LEMMA DoGetBacked ==
    ASSUME GetsFit, NEW m \in Mem, m.crash = "no", NEW g \in DOMAIN gets,
           NEW r \in DoGet(m, g), NEW s, Backed(m, s), m.args[g] > 0,
           gets[g].callback # NoCallback, gets[g].tracker \in netInterfaces
    PROVE  r.crash = "no" /\ Backed(r, s)
<1> DEFINE c == gets[g].callback
           p == IfCallback(m, g, 1)
           u == <<g, "args">>
           v == <<g, "call">>
<1>1. g \in Gets /\ g \in 0 .. MaxGets /\ c \in Callbacks /\ 0 \notin DOMAIN gets
  BY GetsFacts DEF Gets
<1>2. u \in Uses /\ v \in Uses
  BY <1>1 DEF Uses
<1>3. u \in Needs(m, s, c)
  BY <1>2 DEF Needs, Needed
<1>4. m.refs[c] \in Nat /\ m.refs[c] >= 1 /\ m.refs \in [Callbacks -> Nat]
  BY <1>1, <1>3, BackedUse DEF Mem
<1>5. UsedIfAny(m, p, g, 1)
  BY IfCallbackFacts
<1>6. /\ p \in Mem /\ p.args = m.args /\ p.calls = m.calls
      /\ p.crash = "no" /\ Moved(m.refs, p.refs, c, 1)
  BY <1>4, <1>5 DEF UsedIfAny
<1>7. p.refs[c] = m.refs[c] + 1
  BY <1>1, <1>4, <1>6 DEF Moved
<1>8. \/ r = [p EXCEPT !.calls[g].tracker = @ + 1]
      \/ r = [p EXCEPT !.calls[g].unheard = @ + 1]
      \/ r = Answered(p, g)
  <2>1. m.args[g] # 0
    OBVIOUS
  <2> QED
    BY <2>1 DEF DoGet
<1>9. ASSUME Asking(p, r, g) PROVE r.crash = "no" /\ Backed(r, s)
  <2> HIDE DEF p
  <2>1. /\ r \in Mem /\ r.args = m.args /\ r.crash = "no" /\ Moved(m.refs, r.refs, c, 1)
        /\ \A h \in Gets : h # g => r.calls[h] = m.calls[h]
    BY <1>6, <1>9 DEF Asking
  <2>2. \A h \in DOMAIN gets : h # g => Out(r, h) = Out(m, h)
    BY <2>1, GetsFacts DEF Out
  <2>3. \A d : d # c => Needs(r, s, d) \subseteq Needs(m, s, d)
    BY <2>1, <2>2 DEF Needs, Needed
  <2>4. Needs(r, s, c) \subseteq Needs(m, s, c) \cup {v}
    BY <2>1, <2>2 DEF Needs, Needed, Uses
  <2>5. Backed(r, s)
    BY <1>1, <2>1, <2>3, <2>4, BackedMore
  <2> QED
    BY <2>1, <2>5
<1>10. CASE r = Answered(p, g)
  <2>1. Used(p, r, g, 1, -1)
    BY <1>6, <1>10, UsingFacts DEF Answered
  <2> HIDE DEF p
  <2>2. p.refs[c] >= 1 /\ p.refs[c] + -1 >= 0
    BY <1>4, <1>7
  <2>3. /\ r \in Mem /\ r.args = m.args /\ r.calls = m.calls /\ r.crash = "no"
        /\ Moved(p.refs, r.refs, c, -1)
    BY <1>6, <2>1, <2>2 DEF Used
  <2>4. r.refs = m.refs
    BY <1>1, <1>4, <1>6, <1>7, <2>3 DEF Moved
  <2>5. \A d : Needs(r, s, d) \subseteq Needs(m, s, d)
    BY <2>3 DEF Needs, Needed, Out
  <2> QED
    BY <2>3, <2>4, <2>5, BackedSame
<1> QED
  BY <1>1, <1>6, <1>8, <1>9, <1>10, AskingFacts

-----------------------------------------------------------------------------
\* A closure, or katipo.get itself, has placed or answered get g and released its
\* arguments.
Delivered(m, r, g) ==
    LET t == gets[g].tracker
        c == gets[g].callback
    IN  /\ r \in Mem
        /\ OthersKept(m, r, g)
        /\ r.answers[g] <= m.answers[g] + 1
        /\ r.crash = "no" =>
              /\ m.args[g] > 0 /\ Moved(m.args, r.args, g, -1)
              /\ Owed(r, g) = Owed(m, g) + 1
        /\ r.crash \in {"no", "freed", "no callback", "null interface"}
        /\ r.crash = "null interface" => t \notin netInterfaces
        /\ r.crash = "no callback" => c = NoCallback

LEMMA GetReleased ==
    ASSUME GetsFit, NEW m \in Mem, m.crash = "no", NEW g \in DOMAIN gets,
           NEW d \in DoGet(m, g)
    PROVE  Delivered(m, ReleaseArgs(d, g), g)
<1> DEFINE r == ReleaseArgs(d, g)
<1>1. Gotten(m, d, g)
  BY DoGetFacts
<1>2. d \in Mem
  BY <1>1 DEF Gotten
<1>3. Released(d, r, g)
  BY <1>2, ReleaseArgsFacts
<1> HIDE DEF r
<1>4. /\ r \in Mem /\ OthersKept(m, r, g) /\ r.answers[g] <= m.answers[g] + 1
  BY <1>1, <1>3 DEF Gotten, Released, OthersKept
<1>5. r.crash = "no" => /\ m.args[g] > 0 /\ Moved(m.args, r.args, g, -1)
                        /\ Owed(r, g) = Owed(m, g) + 1
  <2>1. SUFFICES ASSUME r.crash = "no"
                 PROVE  /\ m.args[g] > 0 /\ Moved(m.args, r.args, g, -1)
                        /\ Owed(r, g) = Owed(m, g) + 1
    OBVIOUS
  <2>2. /\ d.crash = "no" /\ Moved(d.args, r.args, g, -1) /\ r.calls = d.calls
        /\ r.answers = d.answers
    BY <1>3, <2>1 DEF Released
  <2>3. d.args = m.args /\ m.args[g] > 0 /\ Owed(d, g) = Owed(m, g) + 1
    BY <1>1, <2>2 DEF Gotten
  <2>4. Owed(r, g) = Owed(d, g)
    BY <2>2 DEF Owed, Out
  <2> QED
    BY <2>2, <2>3, <2>4
<1>6. r.crash \in {d.crash, "freed"}
  BY <1>3 DEF Released
<1>7. /\ r.crash \in {"no", "freed", "no callback", "null interface"}
      /\ r.crash = "null interface" => gets[g].tracker \notin netInterfaces
      /\ r.crash = "no callback" => gets[g].callback = NoCallback
  BY <1>1, <1>6 DEF Gotten
<1>8. Delivered(m, r, g)
  BY <1>4, <1>5, <1>7 DEF Delivered
<1> QED
  BY <1>8 DEF r

\* The arguments give back a reference that they held.
LEMMA ReleaseBacked ==
    ASSUME GetsFit, NEW m \in Mem, m.crash = "no", NEW g \in DOMAIN gets,
           NEW s, Backed(m, s), m.args[g] > 0, gets[g].callback # NoCallback
    PROVE  ReleaseArgs(m, g).crash = "no" /\ Backed(ReleaseArgs(m, g), s)
<1> DEFINE r == ReleaseArgs(m, g)
           c == gets[g].callback
           u == <<g, "args">>
<1>1. g \in Gets /\ g \in 0 .. MaxGets /\ c \in Callbacks /\ 0 \notin DOMAIN gets
  BY GetsFacts DEF Gets
<1>2. u \in Needs(m, s, c)
  BY <1>1 DEF Needs, Needed, Uses
<1>3. m.refs[c] \in Nat /\ m.refs[c] >= 1 /\ m.args \in [Gets -> 0 .. 2]
  BY <1>1, <1>2, BackedUse DEF Mem
<1>4. Released(m, r, g)
  BY ReleaseArgsFacts
<1> HIDE DEF r
<1>5. r.crash = "no"
  BY <1>3, <1>4 DEF Released
<1>6. r \in Mem /\ r.calls = m.calls /\ Moved(m.args, r.args, g, -1)
  BY <1>4, <1>5 DEF Released
<1>7. \A h \in Gets : r.args[h] = IF h = g THEN m.args[h] - 1 ELSE m.args[h]
  BY <1>1, <1>3, <1>6 DEF Moved
<1>8. m.args[g] \in {1, 2}
  BY <1>1, <1>3
<1>9. \A h \in DOMAIN gets : r.args[h] > 0 => m.args[h] > 0
  <2>1. TAKE h \in DOMAIN gets
  <2>2. h \in Gets /\ m.args[h] \in 0 .. 2
    BY <1>3, GetsFacts
  <2> QED
    BY <1>7, <1>8, <2>2
<1>10. \A d : Needs(r, s, d) \subseteq Needs(m, s, d)
  BY <1>6, <1>9 DEF Needs, Needed, Out
<1>11. CASE m.args[g] = 2
  <2>1. r.refs = m.refs
    BY <1>4, <1>5, <1>11 DEF Released
  <2> QED
    BY <1>5, <1>6, <1>10, <2>1, BackedSame DEF r
<1>12. CASE m.args[g] = 1
  <2>1. Moved(m.refs, r.refs, c, -1)
    BY <1>4, <1>5, <1>12 DEF Released
  <2>2. r.args[g] = 0
    BY <1>1, <1>7, <1>12
  <2>3. u \notin Needs(r, s, c)
    BY <1>1, <2>2 DEF Needs, Needed
  <2>4. Backed(r, s)
    BY <1>1, <1>2, <1>6, <1>10, <2>1, <2>3, BackedLess
  <2> QED
    BY <1>5, <2>4 DEF r
<1> QED
  BY <1>8, <1>11, <1>12

\* What took the slot gives back the reference it held.
LEMMA SlotBacked ==
    ASSUME GetsFit, NEW m \in Mem, NEW g \in DOMAIN gets,
           NEW s, Backed(m, s), g \in s, gets[g].callback # NoCallback,
           NEW r \in Mem, r.args = m.args, r.calls = m.calls,
           Moved(m.refs, r.refs, gets[g].callback, -1)
    PROVE  Backed(r, s \ {g})
<1> DEFINE c == gets[g].callback
           u == <<g, "slot">>
<1>1. g \in Gets /\ g \in 0 .. MaxGets /\ c \in Callbacks /\ 0 \notin DOMAIN gets
  BY GetsFacts DEF Gets
<1>2. u \in Needs(m, s, c)
  BY <1>1 DEF Needs, Needed, Uses
<1>3. u \notin Needs(r, s \ {g}, c)
  BY <1>1 DEF Needs, Needed
<1>4. \A d : Needs(r, s \ {g}, d) \subseteq Needs(m, s, d)
  BY DEF Needs, Needed, Out
<1> QED
  BY <1>1, <1>2, <1>3, <1>4, BackedLess

LEMMA SlotUse ==
    ASSUME GetsFit, NEW m \in Mem, NEW g \in DOMAIN gets,
           NEW s, Backed(m, s), g \in s, gets[g].callback # NoCallback
    PROVE  LET c == gets[g].callback
           IN  m.refs[c] \in Nat /\ m.refs[c] >= 1 /\ m.refs[c] + -1 >= 0
<1> DEFINE c == gets[g].callback
           u == <<g, "slot">>
<1>1. g \in 0 .. MaxGets /\ c \in Callbacks
  BY GetsFacts DEF Gets
<1>2. u \in Needs(m, s, c)
  BY <1>1 DEF Needs, Needed, Uses
<1>3. m.refs[c] \in Nat /\ m.refs[c] >= 1
  BY <1>1, <1>2, BackedUse
<1> QED
  BY <1>3

LEMMA OnConnectedFacts ==
    ASSUME GetsFit, NEW m \in Mem, m.crash = "no", NEW g \in DOMAIN gets,
           NEW r \in OnConnected(m, g)
    PROVE  /\ Delivered(m, r, g)
           /\ \A s : /\ Backed(m, s) /\ g \in s /\ m.args[g] > 0
                     /\ gets[g].callback # NoCallback
                     /\ gets[g].tracker \in netInterfaces
                     => r.crash = "no" /\ Backed(r, s \ {g})
<1>1. PICK d \in DoGet(m, g) : r = IfCallback(ReleaseArgs(d, g), g, -1)
  BY DEF OnConnected
<1> DEFINE q == ReleaseArgs(d, g)
<1>2. Delivered(m, q, g)
  BY GetReleased
<1>3. q \in Mem
  BY <1>2 DEF Delivered
<1>4. UsedIfAny(q, r, g, -1)
  BY <1>1, <1>3, IfCallbackFacts
<1>5. Delivered(m, r, g)
  <2> HIDE DEF q
  <2>1. /\ r \in Mem /\ r.args = q.args /\ r.calls = q.calls /\ r.answers = q.answers
        /\ r.crash \in {q.crash, "freed"} /\ (r.crash = "no" => q.crash = "no")
    BY <1>4 DEF UsedIfAny
  <2>2. Owed(r, g) = Owed(q, g) /\ OthersKept(m, r, g)
    BY <1>2, <2>1 DEF Owed, Out, OthersKept, Delivered
  <2>3. r.answers[g] <= m.answers[g] + 1
    BY <1>2, <2>1 DEF Delivered
  <2>4. r.crash = "no" => /\ m.args[g] > 0 /\ Moved(m.args, r.args, g, -1)
                          /\ Owed(r, g) = Owed(m, g) + 1
    BY <1>2, <2>1, <2>2 DEF Delivered
  <2>5. /\ r.crash \in {"no", "freed", "no callback", "null interface"}
        /\ r.crash = "null interface" => gets[g].tracker \notin netInterfaces
        /\ r.crash = "no callback" => gets[g].callback = NoCallback
    BY <1>2, <2>1 DEF Delivered
  <2> QED
    BY <2>1, <2>2, <2>3, <2>4, <2>5 DEF Delivered
<1>6. ASSUME NEW s, Backed(m, s), g \in s, m.args[g] > 0, gets[g].callback # NoCallback,
             gets[g].tracker \in netInterfaces
      PROVE  r.crash = "no" /\ Backed(r, s \ {g})
  <2>1. d.crash = "no" /\ Backed(d, s)
    BY <1>6, DoGetBacked
  <2>2. Gotten(m, d, g)
    BY DoGetFacts
  <2>3. d \in Mem /\ d.args[g] > 0
    BY <1>6, <2>2 DEF Gotten
  <2>4. q.crash = "no" /\ Backed(q, s)
    BY <1>6, <2>1, <2>3, ReleaseBacked
  <2> HIDE DEF q
  <2>5. q.refs[gets[g].callback] >= 1 /\ q.refs[gets[g].callback] + -1 >= 0
    BY <1>3, <1>6, <2>4, SlotUse
  <2>6. /\ r \in Mem /\ r.args = q.args /\ r.calls = q.calls /\ r.crash = "no"
        /\ Moved(q.refs, r.refs, gets[g].callback, -1)
    BY <1>4, <1>6, <2>4, <2>5 DEF UsedIfAny
  <2>7. Backed(r, s \ {g})
    BY <1>3, <1>6, <2>4, <2>6, SlotBacked
  <2> QED
    BY <2>6, <2>7
<1> QED
  BY <1>5, <1>6

LEMMA OnConnectionFailedFacts ==
    ASSUME GetsFit, NEW m \in Mem, m.crash = "no", NEW g \in DOMAIN gets,
           NEW r, r = OnConnectionFailed(m, g)
    PROVE  /\ Delivered(m, r, g) /\ r.crash # "null interface"
           /\ r.calls = m.calls /\ (r.crash # "no" => r.answers = m.answers)
           /\ \A s : /\ Backed(m, s) /\ g \in s /\ m.args[g] > 0
                     /\ gets[g].callback # NoCallback
                     => r.crash = "no" /\ Backed(r, s \ {g})
<1> DEFINE q == ReleaseArgs(m, g)
           c == gets[g].callback
<1>1. Released(m, q, g)
  BY ReleaseArgsFacts
<1>2. q \in Mem
  BY <1>1 DEF Released
<1>3. Used(q, r, g, 1, -1)
  BY <1>2, UsingFacts DEF OnConnectionFailed, Answered
<1>4. g \in Gets
  BY GetsFacts
<1>5. m.answers[g] \in Nat /\ Owed(m, g) \in Nat /\ Out(m, g) \in Nat /\ m.answers \in [Gets -> Nat]
  BY <1>4, OutFacts DEF Mem
<1>6. /\ Delivered(m, r, g) /\ r.crash # "null interface"
      /\ r.calls = m.calls /\ (r.crash # "no" => r.answers = m.answers)
  <2> HIDE DEF q
  <2>1. /\ q.calls = m.calls /\ q.answers = m.answers /\ q.crash \in {"no", "freed"}
        /\ q.crash = "no" => m.args[g] > 0 /\ Moved(m.args, q.args, g, -1)
    BY <1>1 DEF Released
  <2>2. /\ r \in Mem /\ r.args = q.args /\ r.calls = m.calls
        /\ r.crash = "no" => q.crash = "no" /\ Moved(m.answers, r.answers, g, 1)
        /\ r.crash # "no" => r.answers = m.answers
        /\ r.crash \in {"no", "freed", "no callback"}
        /\ r.crash = "no callback" => c = NoCallback
    BY <1>3, <2>1 DEF Used
  <2>3. /\ \A h \in Gets : h # g => r.answers[h] = m.answers[h]
        /\ r.answers[g] <= m.answers[g] + 1
        /\ r.crash = "no" => r.answers[g] = m.answers[g] + 1
    <3>1. CASE r.crash = "no"
      BY <1>4, <1>5, <2>2, <3>1 DEF Moved
    <3>2. CASE r.crash # "no"
      <4>1. r.answers = m.answers
        BY <2>2, <3>2
      <4> QED
        BY <1>5, <3>2, <4>1
    <3> QED
      BY <3>1, <3>2
  <2>4. r.crash = "no" => Owed(r, g) = Owed(m, g) + 1
    BY <1>5, <2>2, <2>3 DEF Owed, Out
  <2>5. OthersKept(m, r, g)
    BY <2>2, <2>3 DEF OthersKept
  <2> QED
    BY <2>1, <2>2, <2>3, <2>4, <2>5 DEF Delivered
<1>7. ASSUME NEW s, Backed(m, s), g \in s, m.args[g] > 0, gets[g].callback # NoCallback
      PROVE  r.crash = "no" /\ Backed(r, s \ {g})
  <2>1. q.crash = "no" /\ Backed(q, s)
    BY <1>7, ReleaseBacked
  <2> HIDE DEF q
  <2>2. q.refs[c] >= 1 /\ q.refs[c] + -1 >= 0
    BY <1>2, <1>7, <2>1, SlotUse
  <2>3. /\ r \in Mem /\ r.args = q.args /\ r.calls = q.calls /\ r.crash = "no"
        /\ Moved(q.refs, r.refs, c, -1)
    BY <1>3, <1>7, <2>1, <2>2 DEF Used
  <2>4. Backed(r, s \ {g})
    BY <1>2, <1>7, <2>1, <2>3, SlotBacked
  <2> QED
    BY <2>3, <2>4
<1> QED
  BY <1>6, <1>7

-----------------------------------------------------------------------------
\* An outstanding call of get g is answered; calls may take its place.
Settles(m, r, g) ==
    /\ r \in Mem /\ r.args = m.args
    /\ \A h \in Gets : h # g => r.answers[h] = m.answers[h] /\ r.calls[h] = m.calls[h]
    /\ r.crash = "no" => m.crash = "no" /\ Owed(r, g) = Owed(m, g)
    /\ r.answers[g] <= m.answers[g] + Out(m, g)
    /\ r.calls[g].tracker <= m.calls[g].tracker
    /\ r.crash \in {m.crash, "freed", "no callback"}
    /\ r.crash = "no callback" => m.crash = "no callback" \/ gets[g].callback = NoCallback
    /\ m.crash # "no" => r.answers = m.answers /\ r.crash = m.crash

LEMMA NoCallsFacts ==
    NoCalls \in Calls /\ NoCalls.tracker = 0 /\ NoCalls.unheard = 0 /\ NoCalls.host = 0
  BY DEF NoCalls, Calls

LEMMA FailFacts ==
    ASSUME GetsFit, NEW m \in Mem, NEW g \in DOMAIN gets, calls[g] = m.calls[g]
    PROVE  /\ Settles(m, Fail(m, g), g)
           /\ Fail(m, g).calls[g] \in {m.calls[g], NoCalls}
           /\ \A s : /\ Backed(m, s) /\ m.crash = "no" /\ gets[g].callback # NoCallback
                     /\ Out(m, g) <= 1
                     => Fail(m, g).crash = "no" /\ Backed(Fail(m, g), s)
<1> DEFINE n == Out(m, g)
           q == Using(m, g, n, -n)
           r == Fail(m, g)
           c == gets[g].callback
<1>1. g \in Gets /\ g \in 0 .. MaxGets /\ 0 \notin DOMAIN gets /\ c \in Callbacks \cup {NoCallback}
  BY GetsFacts DEF Gets
<1>2. /\ m.answers[g] \in Nat /\ n \in Nat /\ Owed(m, g) \in Nat /\ m.answers \in [Gets -> Nat]
      /\ m.refs \in [Callbacks -> Nat]
  BY <1>1, OutFacts DEF Mem
<1>3. Outstanding(g) = n
  BY DEF Outstanding, Out
<1>4. CASE n = 0
  <2>1. r = m
    BY <1>3, <1>4 DEF Fail
  <2> HIDE DEF r
  <2>2. m.answers[g] <= m.answers[g] + Out(m, g)
    BY <1>2, <1>4
  <2>5. m.calls[g].tracker <= m.calls[g].tracker
    BY <1>1, OutFacts
  <2>3. Settles(m, r, g)
    BY <2>1, <2>2, <2>5 DEF Settles
  <2>4. m.calls[g] \in {m.calls[g], NoCalls}
    OBVIOUS
  <2> QED
    BY <2>1, <2>3, <2>4 DEF r
<1>5. CASE n # 0
  <2>1. r = [q EXCEPT !.calls[g] = NoCalls]
    BY <1>3, <1>5 DEF Fail
  <2>2. -n \in Int
    BY <1>2
  <2>3. Used(m, q, g, n, -n)
    BY <1>2, <2>2, UsingFacts
  <2> HIDE DEF q, r
  <2>4. q \in Mem /\ q.args = m.args /\ q.calls = m.calls
    BY <2>3 DEF Used
  <2>5. /\ r \in Mem /\ r.args = q.args /\ r.refs = q.refs
        /\ r.answers = q.answers /\ r.crash = q.crash
        /\ r.calls[g] = NoCalls
        /\ \A h \in Gets : h # g => r.calls[h] = q.calls[h]
    BY <1>1, <2>1, <2>4, CallsPut, NoCallsFacts
  <2>6. /\ \A h \in Gets : h # g => r.answers[h] = m.answers[h]
        /\ r.answers[g] <= m.answers[g] + n
        /\ r.crash = "no" => r.answers[g] = m.answers[g] + n
    <3>1. CASE r.crash = "no"
      <4>1. Moved(m.answers, r.answers, g, n)
        BY <2>3, <2>5, <3>1 DEF Used
      <4> HIDE DEF n
      <4> QED
        BY <1>1, <1>2, <4>1 DEF Moved
    <3>2. CASE r.crash # "no"
      <4>1. r.answers = m.answers
        BY <2>3, <2>5, <3>2 DEF Used
      <4> HIDE DEF n
      <4> QED
        BY <1>2, <3>2, <4>1
    <3> QED
      BY <3>1, <3>2
  <2>7. Out(r, g) = 0
    BY <2>5, NoCallsFacts DEF Out
  <2>8. r.crash = "no" => Owed(r, g) = Owed(m, g)
    BY <1>2, <2>6, <2>7 DEF Owed
  <2>9. /\ r.crash \in {m.crash, "freed", "no callback"}
        /\ r.crash = "no" => m.crash = "no"
        /\ r.crash = "no callback" => m.crash = "no callback" \/ gets[g].callback = NoCallback
        /\ m.crash # "no" => r.answers = m.answers /\ r.crash = m.crash
    BY <2>3, <2>5 DEF Used
  <2>13. r.calls[g].tracker <= m.calls[g].tracker
    BY <1>1, <2>5, NoCallsFacts, OutFacts
  <2>10. Settles(m, r, g)
    BY <2>4, <2>5, <2>6, <2>8, <2>9, <2>13 DEF Settles
  <2>11. ASSUME NEW s, Backed(m, s), m.crash = "no", c # NoCallback, n <= 1
         PROVE  r.crash = "no" /\ Backed(r, s)
    <3>1. n = 1 /\ -n = -1 /\ c \in Callbacks
      BY <1>1, <1>2, <1>5, <2>11
    <3> DEFINE u == <<g, "call">>
    <3>2. u \in Needs(m, s, c)
      BY <1>1, <3>1 DEF Needs, Needed, Uses
    <3>3. m.refs[c] \in Nat /\ m.refs[c] >= 1
      BY <2>11, <3>1, <3>2, BackedUse
    <3>4. q.crash = "no" /\ Moved(m.refs, q.refs, c, -1)
      <4> HIDE DEF n
      <4>1. Used(m, q, g, 1, -1)
        BY <2>3, <3>1
      <4>2. m.refs[c] + -1 >= 0
        BY <3>3
      <4>3. q.crash = "no"
        BY <2>11, <3>3, <4>1, <4>2 DEF Used
      <4> QED
        BY <4>1, <4>3 DEF Used
    <3>5. u \notin Needs(r, s, c)
      BY <1>1, <2>7 DEF Needs, Needed
    <3>6. \A h \in DOMAIN gets : Out(r, h) > 0 => Out(m, h) > 0
      <4>1. TAKE h \in DOMAIN gets
      <4>2. CASE h = g
        BY <2>7, <4>2
      <4>3. CASE h # g
        BY <2>4, <2>5, <4>3, GetsFacts DEF Out
      <4> QED
        BY <4>2, <4>3
    <3>7. \A d : Needs(r, s, d) \subseteq Needs(m, s, d)
      BY <2>4, <2>5, <3>6 DEF Needs, Needed
    <3>8. Moved(m.refs, r.refs, c, -1) /\ r.crash = "no"
      BY <2>5, <3>4
    <3>9. Backed(r, s)
      BY <2>5, <2>11, <3>1, <3>2, <3>5, <3>7, <3>8, BackedLess
    <3> QED
      BY <3>8, <3>9
  <2> QED
    BY <2>5, <2>10, <2>11 DEF r
<1> QED
  BY <1>2, <1>4, <1>5

LEMMA FailType ==
    ASSUME GetsFit, NEW m \in Mem, NEW g \in DOMAIN gets, calls \in [Gets -> Calls]
    PROVE  Fail(m, g) \in Mem
<1> DEFINE n == Outstanding(g)
           q == Using(m, g, n, -n)
<1>1. g \in Gets
  BY GetsFacts
<1>2. calls[g] \in Calls
  BY <1>1
<1>3. n \in Nat /\ -n \in Int
  BY <1>2 DEF Outstanding, Calls
<1>4. Used(m, q, g, n, -n)
  BY <1>3, UsingFacts
<1>5. q \in Mem
  BY <1>4 DEF Used
<1> HIDE DEF q
<1>6. [q EXCEPT !.calls[g] = NoCalls] \in Mem
  BY <1>1, <1>5, CallsPut, NoCallsFacts
<1> QED
  BY <1>6 DEF Fail, q

-----------------------------------------------------------------------------
(***************************************************************************)
(* FailCalls: the function its definition asks for, and what it leaves.    *)
(***************************************************************************)
LEMMA LeastElement ==
    ASSUME NEW S \in SUBSET Nat, S # {}
    PROVE  \E m \in S : \A n \in S : m <= n
<1>1. PICK m \in S : \A n \in S : <<n, m>> \notin OpToRel(<, Nat)
  BY NatLessThanWellFounded, WFMin, Zenon
<1>2. \A n \in S : ~(n < m)
  BY <1>1 DEF OpToRel
<1> QED
  BY <1>2

LEMMA SetInduction ==
    ASSUME NEW S, 0 \in S, \A n \in Nat : n \in S => n + 1 \in S
    PROVE  \A n \in Nat : n \in S
<1>1. SUFFICES ASSUME Nat \ S # {} PROVE FALSE
  OBVIOUS
<1>2. PICK m \in Nat \ S : \A n \in Nat \ S : m <= n
  BY <1>1, LeastElement
<1>3. m # 0 /\ m - 1 \in Nat
  BY <1>2
<1>4. m - 1 \in S
  BY <1>2, <1>3
<1> QED
  BY <1>2, <1>3, <1>4

\* What the first n gets leave when those of tracker t fail.
FailedUpTo(m, t, n, f) ==
    f = [i \in 0 .. n |-> IF i = 0 THEN m
                          ELSE IF gets[i].tracker = t THEN Fail(f[i - 1], i)
                          ELSE f[i - 1]]

LEMMA FailedExists ==
    ASSUME GetsFit, NEW m \in Mem, NEW t, calls \in [Gets -> Calls]
    PROVE  \E f \in [0 .. Len(gets) -> Mem] : FailedUpTo(m, t, Len(gets), f)
<1> DEFINE Failed(n) == \E f \in [0 .. n -> Mem] : FailedUpTo(m, t, n, f)
           Good == {n \in Nat : n <= Len(gets) => Failed(n)}
<1>0. Len(gets) \in Nat /\ DOMAIN gets = 1 .. Len(gets)
  BY GetsFacts
<1>1. 0 \in Good
  <2> DEFINE none == [i \in 0 .. 0 |-> m]
  <2>1. none \in [0 .. 0 -> Mem]
    OBVIOUS
  <2>2. FailedUpTo(m, t, 0, none)
    BY DEF FailedUpTo
  <2>3. Failed(0)
    BY <2>1, <2>2
  <2> QED
    BY <2>3
<1>2. ASSUME NEW n \in Nat, n \in Good PROVE n + 1 \in Good
  <2>1. CASE n + 1 <= Len(gets)
    <3>1. n <= Len(gets) /\ n + 1 \in DOMAIN gets
      BY <1>0, <2>1
    <3>2. PICK f \in [0 .. n -> Mem] : FailedUpTo(m, t, n, f)
      BY <1>2, <3>1
    <3> DEFINE y == IF gets[n + 1].tracker = t THEN Fail(f[n], n + 1) ELSE f[n]
               e == [i \in 0 .. n + 1 |-> IF i = n + 1 THEN y ELSE f[i]]
    <3>3. f[n] \in Mem
      OBVIOUS
    <3>4. y \in Mem
      BY <3>1, <3>3, FailType
    <3>5. e \in [0 .. n + 1 -> Mem]
      <4> HIDE DEF y
      <4> QED
        BY <3>4
    <3>6. ASSUME NEW i \in 0 .. n + 1
          PROVE  e[i] = IF i = 0 THEN m
                        ELSE IF gets[i].tracker = t THEN Fail(e[i - 1], i)
                        ELSE e[i - 1]
      <4>1. CASE i = n + 1
        <5>1. e[i] = y /\ i - 1 = n /\ n \in 0 .. n + 1 /\ n # n + 1 /\ i # 0
          BY <4>1
        <5>2. e[i - 1] = f[n]
          BY <5>1
        <5> HIDE DEF e
        <5> QED
          BY <4>1, <5>1, <5>2
      <4>2. CASE i # n + 1
        <5>1. i \in 0 .. n /\ e[i] = f[i]
          BY <4>2
        <5>2. i # 0 => e[i - 1] = f[i - 1]
          BY <5>1
        <5>3. f[i] = IF i = 0 THEN m
                     ELSE IF gets[i].tracker = t THEN Fail(f[i - 1], i)
                     ELSE f[i - 1]
          BY <3>2, <5>1 DEF FailedUpTo
        <5> HIDE DEF e
        <5> QED
          BY <5>1, <5>2, <5>3
      <4> QED
        BY <4>1, <4>2
    <3>7. e = [i \in 0 .. n + 1 |-> e[i]]
      OBVIOUS
    <3> HIDE DEF e
    <3>8. FailedUpTo(m, t, n + 1, e)
      BY <3>6, <3>7 DEF FailedUpTo
    <3>9. Failed(n + 1)
      BY <3>5, <3>8
    <3> QED
      BY <3>9
  <2> QED
    BY <2>1
<1>3. \A n \in Nat : n \in Good
  <2> HIDE DEF Good
  <2> QED
    BY <1>1, <1>2, SetInduction
<1> QED
  BY <1>0, <1>3

\* What the failure of the first n gets leaves.
Failing(m, x, n) ==
    /\ x \in Mem /\ x.args = m.args
    /\ \A g \in Gets : g > n => x.calls[g] = m.calls[g]
    /\ \A g \in Gets : x.calls[g] \in {m.calls[g], NoCalls}
    /\ \A g \in Gets : x.answers[g] <= m.answers[g] + Out(m, g)
    /\ \A g \in Gets : g > n => x.answers[g] = m.answers[g]
    /\ x.crash = "no" => m.crash = "no" /\ \A g \in Gets : Owed(x, g) = Owed(m, g)
    /\ x.crash \in {m.crash, "freed", "no callback"}
    /\ x.crash = "no callback" => m.crash = "no callback" \/ Silent
    /\ m.crash # "no" => x.answers = m.answers /\ x.crash = m.crash
FailingBacked(m, x) ==
    \A s : /\ Backed(m, s) /\ m.crash = "no" /\ ~Silent
           /\ \A g \in Gets : Out(m, g) <= 1
           => x.crash = "no" /\ Backed(x, s)

LEMMA FailingBegins ==
    ASSUME NEW m \in Mem
    PROVE  Failing(m, m, 0) /\ FailingBacked(m, m)
<1>1. \A g \in Gets : m.answers[g] <= m.answers[g] + Out(m, g)
  <2>1. TAKE g \in Gets
  <2>2. m.answers[g] \in Nat /\ Out(m, g) \in Nat
    BY OutFacts
  <2> QED
    BY <2>2
<1> QED
  BY <1>1 DEF Failing, FailingBacked

LEMMA FailingStep ==
    ASSUME GetsFit, NEW m \in Mem, m.calls = calls, NEW n \in Nat, n + 1 \in DOMAIN gets,
           NEW y, Failing(m, y, n), FailingBacked(m, y)
    PROVE  /\ Failing(m, y, n + 1)
           /\ Failing(m, Fail(y, n + 1), n + 1) /\ FailingBacked(m, Fail(y, n + 1))
<1> DEFINE g == n + 1
           x == Fail(y, g)
<1>1. g \in Gets /\ \A h \in Gets : h \in Nat
  BY GetsFacts DEF Gets
<1>2. y \in Mem /\ y.calls[g] = m.calls[g] /\ y.answers[g] = m.answers[g] /\ g > n
  <2>1. g > n
    OBVIOUS
  <2> HIDE DEF g
  <2> QED
    BY <1>1, <2>1 DEF Failing
<1>3. Out(y, g) = Out(m, g)
  BY <1>2 DEF Out
<1>4. calls[g] = y.calls[g]
  BY <1>2
<1>5. Failing(m, y, n + 1)
  <2>1. \A h \in Gets : h > n + 1 => h > n
    BY <1>1
  <2> QED
    BY <2>1 DEF Failing
<1>6. /\ Settles(y, x, g)
      /\ x.calls[g] \in {y.calls[g], NoCalls}
      /\ \A s : /\ Backed(y, s) /\ y.crash = "no" /\ gets[g].callback # NoCallback
                /\ Out(y, g) <= 1
                => x.crash = "no" /\ Backed(x, s)
  BY <1>2, <1>4, FailFacts
<1> HIDE DEF x
<1>7. Failing(m, x, g)
  <2>1. \A h \in Gets : h # g => x.answers[h] = y.answers[h] /\ x.calls[h] = y.calls[h]
    BY <1>6 DEF Settles
  <2>2. \A h \in Gets : h > g => h > n /\ h # g
    BY <1>1
  <2> HIDE DEF g
  <2>3. /\ x \in Mem /\ x.args = m.args
        /\ \A h \in Gets : h > g => x.calls[h] = m.calls[h]
        /\ \A h \in Gets : h > g => x.answers[h] = m.answers[h]
    BY <1>6, <2>1, <2>2 DEF Failing, Settles
  <2>4. \A h \in Gets : x.calls[h] \in {m.calls[h], NoCalls}
    BY <1>2, <1>6, <2>1 DEF Failing
  <2>5. \A h \in Gets : x.answers[h] <= m.answers[h] + Out(m, h)
    <3>1. TAKE h \in Gets
    <3>2. CASE h = g
      <4>1. x.answers[g] <= y.answers[g] + Out(y, g)
        BY <1>6 DEF Settles
      <4> QED
        BY <1>2, <1>3, <3>2, <4>1
    <3>3. CASE h # g
      BY <2>1, <3>3 DEF Failing
    <3> QED
      BY <3>2, <3>3
  <2>6. ASSUME x.crash = "no"
        PROVE  m.crash = "no" /\ \A h \in Gets : Owed(x, h) = Owed(m, h)
    <3>1. y.crash = "no" /\ Owed(x, g) = Owed(y, g)
      BY <1>6, <2>6 DEF Settles
    <3>2. m.crash = "no" /\ \A h \in Gets : Owed(y, h) = Owed(m, h)
      BY <3>1 DEF Failing
    <3>3. \A h \in Gets : h # g => Owed(x, h) = Owed(y, h)
      BY <2>1 DEF Owed, Out
    <3> QED
      BY <3>1, <3>2, <3>3
  <2>7. /\ x.crash \in {m.crash, "freed", "no callback"}
        /\ x.crash = "no callback" => m.crash = "no callback" \/ Silent
    <3>1. gets[g].callback = NoCallback => Silent
      BY DEF Silent, g
    <3> QED
      BY <1>6, <3>1 DEF Failing, Settles
  <2>8. m.crash # "no" => x.answers = m.answers /\ x.crash = m.crash
    BY <1>6 DEF Failing, Settles
  <2> QED
    BY <2>3, <2>4, <2>5, <2>6, <2>7, <2>8 DEF Failing
<1>8. FailingBacked(m, x)
  <2> SUFFICES ASSUME NEW s, Backed(m, s), m.crash = "no", ~Silent,
                      \A h \in Gets : Out(m, h) <= 1
               PROVE  x.crash = "no" /\ Backed(x, s)
    BY DEF FailingBacked
  <2>1. y.crash = "no" /\ Backed(y, s)
    BY DEF FailingBacked
  <2>2. gets[g].callback # NoCallback
    BY DEF Silent
  <2> HIDE DEF g
  <2> QED
    BY <1>1, <1>3, <1>6, <2>1, <2>2
<1> QED
  BY <1>5, <1>7, <1>8 DEF x

LEMMA FailCallsFacts ==
    ASSUME GetsFit, NEW m \in Mem, m.calls = calls, NEW t
    PROVE  /\ Failing(m, FailCalls(m, t), Len(gets))
           /\ FailingBacked(m, FailCalls(m, t))
<1> DEFINE L == Len(gets)
           f == CHOOSE e : FailedUpTo(m, t, L, e)
<1>0. L \in Nat /\ DOMAIN gets = 1 .. L /\ calls \in [Gets -> Calls]
  BY GetsFacts DEF Mem
<1>1. FailedUpTo(m, t, L, f)
  BY <1>0, FailedExists
<1>2. FailCalls(m, t) = f[L]
  BY DEF FailCalls, FailedUpTo
<1> HIDE DEF f
<1>3. \A i \in 0 .. L : f[i] = IF i = 0 THEN m
                               ELSE IF gets[i].tracker = t THEN Fail(f[i - 1], i)
                               ELSE f[i - 1]
  BY <1>1 DEF FailedUpTo
<1> HIDE DEF L
<1> DEFINE Good == {n \in Nat : n <= L => Failing(m, f[n], n) /\ FailingBacked(m, f[n])}
<1>4. 0 \in Good
  <2>1. f[0] = m
    BY <1>0, <1>3
  <2> QED
    BY <2>1, FailingBegins
<1>5. ASSUME NEW n \in Nat, n \in Good PROVE n + 1 \in Good
  <2> SUFFICES ASSUME n + 1 <= L
               PROVE  Failing(m, f[n + 1], n + 1) /\ FailingBacked(m, f[n + 1])
    OBVIOUS
  <2>1. n <= L /\ n + 1 \in 0 .. L /\ n + 1 \in 1 .. L /\ n + 1 # 0 /\ (n + 1) - 1 = n
    BY <1>0
  <2>2. f[n + 1] \in {Fail(f[n], n + 1), f[n]}
    BY <1>3, <2>1
  <2>3. Failing(m, f[n], n) /\ FailingBacked(m, f[n])
    BY <1>5, <2>1
  <2>4. n + 1 \in DOMAIN gets
    BY <1>0, <2>1
  <2>5. /\ Failing(m, f[n], n + 1)
        /\ Failing(m, Fail(f[n], n + 1), n + 1) /\ FailingBacked(m, Fail(f[n], n + 1))
    BY <2>3, <2>4, FailingStep
  <2> QED
    BY <2>2, <2>3, <2>5
<1>6. \A n \in Nat : n \in Good
  <2> HIDE DEF Good
  <2> QED
    BY <1>4, <1>5, SetInduction
<1> QED
  BY <1>0, <1>2, <1>6 DEF L

-----------------------------------------------------------------------------
\* The answers of the tracker and of the host, and what they leave.
LEMMA KeyFoundFacts ==
    ASSUME GetsFit, NEW m \in Mem, m.crash = "no", NEW g \in DOMAIN gets,
           m.calls[g].tracker > 0
    PROVE  Settles(m, KeyFound(m, g), g)
<1> DEFINE call == [m.calls[g] EXCEPT !.tracker = @ - 1, !.host = @ + 1]
           p == [m EXCEPT !.calls[g] = call]
           r == KeyFound(m, g)
<1>1. g \in Gets
  BY GetsFacts
<1>2. /\ m.calls[g] \in Calls /\ m.calls[g].tracker \in Nat
      /\ m.calls[g].unheard \in Nat /\ m.calls[g].host \in Nat
      /\ m.answers[g] \in Nat /\ Out(m, g) \in Nat
  BY <1>1, OutFacts
<1>3. m.calls[g].tracker - 1 \in Nat /\ m.calls[g].host + 1 \in Nat
  BY <1>2
<1>4. /\ call \in Calls /\ call.tracker = m.calls[g].tracker - 1
      /\ call.unheard = m.calls[g].unheard /\ call.host = m.calls[g].host + 1
  BY <1>2, <1>3 DEF Calls
<1>5. r = Using(p, g, 0, -1)
  BY DEF KeyFound
<1> HIDE DEF call
<1>6. /\ p \in Mem /\ p.args = m.args /\ p.refs = m.refs
      /\ p.answers = m.answers /\ p.crash = m.crash
      /\ p.calls[g] = call
      /\ \A h \in Gets : h # g => p.calls[h] = m.calls[h]
  BY <1>1, <1>4, CallsPut
<1> HIDE DEF p, r
<1>7. Used(p, r, g, 0, -1)
  BY <1>5, <1>6, UsingFacts
<1>8. /\ r \in Mem /\ r.args = m.args /\ r.calls = p.calls
      /\ r.crash \in {"no", "freed", "no callback"}
      /\ r.crash = "no callback" => gets[g].callback = NoCallback
  BY <1>6, <1>7 DEF Used
<1>9. r.answers = m.answers
  <2>1. CASE r.crash = "no"
    <3>1. Moved(m.answers, r.answers, g, 0) /\ m.answers \in [Gets -> Nat]
      BY <1>6, <1>7, <2>1 DEF Used, Mem
    <3> QED
      BY <1>1, <1>2, <3>1 DEF Moved
  <2>2. CASE r.crash # "no"
    BY <1>6, <1>7, <2>2 DEF Used
  <2> QED
    BY <2>1, <2>2
<1>10. Out(r, g) = Out(m, g)
  <2>1. /\ r.calls[g].tracker = m.calls[g].tracker - 1
        /\ r.calls[g].unheard = m.calls[g].unheard
        /\ r.calls[g].host = m.calls[g].host + 1
    BY <1>4, <1>6, <1>8
  <2> QED
    BY <1>2, <2>1 DEF Out
<1>11. Owed(r, g) = Owed(m, g) /\ r.answers[g] <= m.answers[g] + Out(m, g)
  BY <1>2, <1>9, <1>10 DEF Owed
<1>12. r.calls[g].tracker <= m.calls[g].tracker
  <2>1. r.calls[g].tracker = m.calls[g].tracker - 1
    BY <1>4, <1>6, <1>8
  <2> QED
    BY <1>2, <2>1
<1>13. Settles(m, r, g)
  BY <1>6, <1>8, <1>9, <1>11, <1>12 DEF Settles
<1> QED
  BY <1>13 DEF r

\* A refusal of the tracker, or an answer of the host: the call goes, and the
\* callback is called for it.
CallAnswered(m, r, g) ==
    /\ Settles(m, r, g)
    /\ \A h \in Gets : r.calls[h].host <= m.calls[h].host
    /\ \A s : /\ Backed(m, s) /\ gets[g].callback # NoCallback /\ Out(m, g) <= 1
              => r.crash = "no" /\ Backed(r, s)

LEMMA AnswerFacts ==
    ASSUME GetsFit, NEW m \in Mem, m.crash = "no", NEW g \in DOMAIN gets,
           NEW call \in Calls,
           call.tracker + call.unheard + call.host = Out(m, g) - 1,
           call.host <= m.calls[g].host, call.tracker <= m.calls[g].tracker,
           NEW r, r = Answered([m EXCEPT !.calls[g] = call], g)
    PROVE  CallAnswered(m, r, g)
<1> DEFINE p == [m EXCEPT !.calls[g] = call]
           c == gets[g].callback
<1>1. g \in Gets /\ g \in 0 .. MaxGets /\ 0 \notin DOMAIN gets /\ c \in Callbacks \cup {NoCallback}
  BY GetsFacts DEF Gets
<1>2. /\ m.answers[g] \in Nat /\ Out(m, g) \in Nat /\ m.answers \in [Gets -> Nat]
      /\ call.tracker \in Nat /\ call.unheard \in Nat /\ call.host \in Nat
  BY <1>1, OutFacts DEF Mem, Calls
<1>3. /\ p \in Mem /\ p.args = m.args /\ p.refs = m.refs
      /\ p.answers = m.answers /\ p.crash = m.crash
      /\ p.calls[g] = call
      /\ \A h \in Gets : h # g => p.calls[h] = m.calls[h]
  BY <1>1, CallsPut
<1>13. r = Using(p, g, 1, -1)
  BY DEF Answered
<1> HIDE DEF p
<1>4. Used(p, r, g, 1, -1)
  <2>1. Used(p, Using(p, g, 1, -1), g, 1, -1)
    <3>1. p \in Mem /\ 1 \in Nat /\ -1 \in Int
      BY <1>3
    <3> QED
      BY <3>1, UsingFacts
  <2> QED
    BY <1>13, <2>1
<1>5. /\ r \in Mem /\ r.args = m.args /\ r.calls = p.calls
      /\ r.crash \in {"no", "freed", "no callback"}
      /\ r.crash = "no callback" => c = NoCallback
  BY <1>3, <1>4 DEF Used
<1>6. /\ \A h \in Gets : h # g => r.answers[h] = m.answers[h]
      /\ r.answers[g] <= m.answers[g] + 1
      /\ r.crash = "no" => r.answers[g] = m.answers[g] + 1
  <2>1. CASE r.crash = "no"
    <3>1. Moved(m.answers, r.answers, g, 1)
      BY <1>3, <1>4, <2>1 DEF Used
    <3> QED
      BY <1>1, <1>2, <3>1 DEF Moved
  <2>2. CASE r.crash # "no"
    <3>1. r.answers = m.answers
      BY <1>3, <1>4, <2>2 DEF Used
    <3> QED
      BY <1>2, <2>2, <3>1
  <2> QED
    BY <2>1, <2>2
<1>7. Out(r, g) = Out(m, g) - 1 /\ Out(m, g) >= 1
  <2>1. Out(r, g) = Out(m, g) - 1
    BY <1>3, <1>5 DEF Out
  <2>2. call.tracker + call.unheard + call.host >= 0
    BY <1>2
  <2> QED
    BY <1>2, <2>1, <2>2
<1>8. r.crash = "no" => Owed(r, g) = Owed(m, g)
  BY <1>2, <1>6, <1>7 DEF Owed
<1>9. r.answers[g] <= m.answers[g] + Out(m, g)
  <2>1. r.answers[g] \in Nat
    BY <1>1, <1>5, OutFacts
  <2> QED
    BY <1>2, <1>6, <1>7, <2>1
<1>10. Settles(m, r, g)
  BY <1>3, <1>5, <1>6, <1>8, <1>9 DEF Settles
<1>11. \A h \in Gets : r.calls[h].host <= m.calls[h].host
  <2>1. TAKE h \in Gets
  <2>2. m.calls[h].host \in Nat
    BY OutFacts
  <2>3. CASE h = g
    BY <1>3, <1>5, <2>3
  <2>4. CASE h # g
    <3>1. r.calls[h].host = m.calls[h].host
      BY <1>3, <1>5, <2>4
    <3> QED
      BY <2>2, <3>1
  <2> QED
    BY <2>3, <2>4
<1>12. ASSUME NEW s, Backed(m, s), c # NoCallback, Out(m, g) <= 1
       PROVE  r.crash = "no" /\ Backed(r, s)
  <2> DEFINE u == <<g, "call">>
  <2>1. c \in Callbacks /\ Out(m, g) = 1 /\ Out(r, g) = 0
    BY <1>1, <1>2, <1>7, <1>12
  <2>2. u \in Needs(m, s, c)
    BY <1>1, <2>1 DEF Needs, Needed, Uses
  <2>3. m.refs[c] \in Nat /\ m.refs[c] >= 1
    BY <1>12, <2>1, <2>2, BackedUse
  <2>4. m.refs[c] + -1 >= 0
    BY <2>3
  <2>5. r.crash = "no"
    BY <1>3, <1>4, <1>12, <2>3, <2>4 DEF Used
  <2>6. Moved(m.refs, r.refs, c, -1)
    BY <1>3, <1>4, <2>5 DEF Used
  <2>7. u \notin Needs(r, s, c)
    BY <1>1, <2>1 DEF Needs, Needed
  <2>8. \A h \in DOMAIN gets : Out(r, h) > 0 => Out(m, h) > 0
    <3>1. TAKE h \in DOMAIN gets
    <3>2. CASE h = g
      BY <2>1, <3>2
    <3>3. CASE h # g
      BY <1>3, <1>5, <3>3, GetsFacts DEF Out
    <3> QED
      BY <3>2, <3>3
  <2>9. \A d : Needs(r, s, d) \subseteq Needs(m, s, d)
    BY <1>5, <2>8 DEF Needs, Needed
  <2>10. Backed(r, s)
    <3>1. r \in Mem /\ Backed(m, s) /\ c \in Callbacks
      BY <1>5, <1>12, <2>1
    <3> HIDE DEF c, u
    <3> QED
      BY <2>2, <2>6, <2>7, <2>9, <3>1, BackedLess
  <2> QED
    BY <2>5, <2>10
<1> QED
  BY <1>10, <1>11, <1>12 DEF CallAnswered

LEMMA KeyRefusedFacts ==
    ASSUME GetsFit, NEW m \in Mem, m.crash = "no", NEW g \in DOMAIN gets,
           m.calls[g].tracker > 0
    PROVE  CallAnswered(m, KeyRefused(m, g), g)
<1> DEFINE call == [m.calls[g] EXCEPT !.tracker = @ - 1]
<1>1. g \in Gets
  BY GetsFacts
<1>2. /\ m.calls[g] \in Calls /\ m.calls[g].tracker \in Nat
      /\ m.calls[g].unheard \in Nat /\ m.calls[g].host \in Nat
  BY <1>1, OutFacts
<1>3. m.calls[g].tracker - 1 \in Nat
  BY <1>2
<1>4. /\ call \in Calls /\ call.tracker = m.calls[g].tracker - 1
      /\ call.unheard = m.calls[g].unheard /\ call.host = m.calls[g].host
  BY <1>2, <1>3 DEF Calls
<1>5. KeyRefused(m, g) = Answered([m EXCEPT !.calls[g] = call], g)
  <2>1. [m EXCEPT !.calls[g].tracker = @ - 1] = [m EXCEPT !.calls[g] = call]
    BY DEF Mem
  <2> QED
    BY <2>1 DEF KeyRefused
<1> HIDE DEF call
<1>6. call.tracker + call.unheard + call.host = Out(m, g) - 1
  BY <1>2, <1>4 DEF Out
<1>7. call.host <= m.calls[g].host /\ call.tracker <= m.calls[g].tracker
  BY <1>2, <1>4
<1> QED
  BY <1>4, <1>5, <1>6, <1>7, AnswerFacts

LEMMA SiteAnsweredFacts ==
    ASSUME GetsFit, NEW m \in Mem, m.crash = "no", NEW g \in DOMAIN gets,
           m.calls[g].host > 0
    PROVE  CallAnswered(m, SiteAnswered(m, g), g)
<1> DEFINE call == [m.calls[g] EXCEPT !.host = @ - 1]
<1>1. g \in Gets
  BY GetsFacts
<1>2. /\ m.calls[g] \in Calls /\ m.calls[g].tracker \in Nat
      /\ m.calls[g].unheard \in Nat /\ m.calls[g].host \in Nat
  BY <1>1, OutFacts
<1>3. m.calls[g].host - 1 \in Nat
  BY <1>2
<1>4. /\ call \in Calls /\ call.tracker = m.calls[g].tracker
      /\ call.unheard = m.calls[g].unheard /\ call.host = m.calls[g].host - 1
  BY <1>2, <1>3 DEF Calls
<1>5. SiteAnswered(m, g) = Answered([m EXCEPT !.calls[g] = call], g)
  <2>1. [m EXCEPT !.calls[g].host = @ - 1] = [m EXCEPT !.calls[g] = call]
    BY DEF Mem
  <2> QED
    BY <2>1 DEF SiteAnswered
<1> HIDE DEF call
<1>6. call.tracker + call.unheard + call.host = Out(m, g) - 1
  BY <1>2, <1>4 DEF Out
<1>7. call.host <= m.calls[g].host /\ call.tracker <= m.calls[g].tracker
  BY <1>2, <1>4
<1> QED
  BY <1>4, <1>5, <1>6, <1>7, AnswerFacts

\* The key cannot be encoded with: one answer more than was owed, and one call
\* that waits for the teardown.
Unsent(m, r, g) ==
    /\ r \in Mem /\ r.args = m.args
    /\ \A h \in Gets : h # g => r.answers[h] = m.answers[h] /\ r.calls[h] = m.calls[h]
    /\ r.calls[g].tracker = m.calls[g].tracker - 1
    /\ r.calls[g].host = m.calls[g].host
    /\ r.answers[g] <= m.answers[g] + 1
    /\ r.crash = "no" => Owed(r, g) = Owed(m, g) + 1
    /\ r.crash \in {"no", "freed", "no callback"}
    /\ r.crash = "no callback" => gets[g].callback = NoCallback

LEMMA KeyUnusableFacts ==
    ASSUME GetsFit, NEW m \in Mem, m.crash = "no", NEW g \in DOMAIN gets,
           m.calls[g].tracker > 0
    PROVE  Unsent(m, KeyUnusable(m, g), g)
<1> DEFINE call == [m.calls[g] EXCEPT !.tracker = @ - 1, !.unheard = @ + 1]
           p == [m EXCEPT !.calls[g] = call]
           q == Using(p, g, 1, -1)
           r == KeyUnusable(m, g)
<1>1. g \in Gets
  BY GetsFacts
<1>2. /\ m.calls[g] \in Calls /\ m.calls[g].tracker \in Nat
      /\ m.calls[g].unheard \in Nat /\ m.calls[g].host \in Nat
      /\ m.answers[g] \in Nat /\ Out(m, g) \in Nat /\ m.answers \in [Gets -> Nat]
  BY <1>1, OutFacts DEF Mem
<1>3. m.calls[g].tracker - 1 \in Nat /\ m.calls[g].unheard + 1 \in Nat
  BY <1>2
<1>4. /\ call \in Calls /\ call.tracker = m.calls[g].tracker - 1
      /\ call.unheard = m.calls[g].unheard + 1 /\ call.host = m.calls[g].host
  BY <1>2, <1>3 DEF Calls
<1>5. r = Using(q, g, 0, -1)
  BY DEF KeyUnusable, Answered
<1> HIDE DEF call
<1>6. /\ p \in Mem /\ p.args = m.args /\ p.refs = m.refs
      /\ p.answers = m.answers /\ p.crash = m.crash
      /\ p.calls[g] = call
      /\ \A h \in Gets : h # g => p.calls[h] = m.calls[h]
  BY <1>1, <1>4, CallsPut
<1> HIDE DEF p
<1>7. Used(p, q, g, 1, -1)
  BY <1>6, UsingFacts
<1> HIDE DEF q, r
<1>17. q \in Mem
  BY <1>7 DEF Used
<1>8. /\ q.args = m.args /\ q.calls = p.calls
      /\ q.crash \in {"no", "freed", "no callback"}
      /\ q.crash = "no callback" => gets[g].callback = NoCallback
      /\ q.crash = "no" => Moved(m.answers, q.answers, g, 1)
      /\ q.crash # "no" => q.answers = m.answers
  BY <1>6, <1>7 DEF Used
<1>9. Used(q, r, g, 0, -1)
  <2>1. 0 \in Nat /\ -1 \in Int
    OBVIOUS
  <2>2. Used(q, Using(q, g, 0, -1), g, 0, -1)
    BY <1>17, <2>1, UsingFacts
  <2> QED
    BY <1>5, <2>2
<1>10. /\ r \in Mem /\ r.args = m.args /\ r.calls = p.calls
       /\ r.crash \in {"no", "freed", "no callback"}
       /\ r.crash = "no callback" => gets[g].callback = NoCallback
       /\ r.crash = "no" => q.crash = "no" /\ Moved(q.answers, r.answers, g, 0)
       /\ r.crash # "no" => r.answers = q.answers
  BY <1>8, <1>9 DEF Used
<1>11. /\ \A h \in Gets : h # g => q.answers[h] = m.answers[h]
       /\ q.answers[g] <= m.answers[g] + 1
       /\ q.crash = "no" => q.answers[g] = m.answers[g] + 1
  <2>1. CASE q.crash = "no"
    <3>1. Moved(m.answers, q.answers, g, 1)
      BY <1>8, <2>1
    <3> QED
      BY <1>1, <1>2, <3>1 DEF Moved
  <2>2. CASE q.crash # "no"
    <3>1. q.answers = m.answers
      BY <1>8, <2>2
    <3> QED
      BY <1>2, <2>2, <3>1
  <2> QED
    BY <2>1, <2>2
<1>12. r.answers = q.answers
  <2>1. CASE r.crash = "no"
    <3>1. q.answers \in [Gets -> Nat] /\ q.answers[g] \in Nat
      BY <1>1, <1>17 DEF Mem
    <3> QED
      BY <1>10, <2>1, <3>1 DEF Moved
  <2>2. CASE r.crash # "no"
    BY <1>10, <2>2
  <2> QED
    BY <2>1, <2>2
<1>13. /\ r.calls[g].tracker = m.calls[g].tracker - 1
       /\ r.calls[g].unheard = m.calls[g].unheard + 1
       /\ r.calls[g].host = m.calls[g].host
       /\ \A h \in Gets : h # g => r.calls[h] = m.calls[h]
  BY <1>4, <1>6, <1>10
<1>14. Out(r, g) = Out(m, g)
  BY <1>2, <1>13 DEF Out
<1>15. r.crash = "no" => Owed(r, g) = Owed(m, g) + 1
  BY <1>2, <1>10, <1>11, <1>12, <1>14 DEF Owed
<1>16. Unsent(m, r, g)
  BY <1>10, <1>11, <1>12, <1>13, <1>15 DEF Unsent
<1> QED
  BY <1>16 DEF r

-----------------------------------------------------------------------------
(***************************************************************************)
(* The parts of the invariant that are about the memory m.                 *)
(***************************************************************************)

\* Nothing is known of a get that is not placed.
FreshIn(m) ==
    m.crash = "no" =>
       \A g \in Gets : g > Len(gets) =>
           m.calls[g] = NoCalls /\ m.args[g] = 0 /\ m.answers[g] = 0

Allowed(e, g) == IF g \in e THEN 2 ELSE 1

\* A get owes or has given at most one answer, and none while a closure or
\* katipo.get has its arguments.  One whose call of the host failed to encode (e)
\* may have given two, and asks the tracker no more.
OneOwed(m, g, e) ==
    /\ Owed(m, g) <= Allowed(e, g)
    /\ m.args[g] > 0 => Owed(m, g) = 0
    /\ g \in e => m.calls[g].tracker = 0 /\ m.args[g] = 0
OnceIn(m, e) == m.crash = "no" => \A g \in Gets : OneOwed(m, g, e)

AnsweredIn(m, e) == \A g \in Gets : m.answers[g] <= Allowed(e, g)

OnlyRelayed(m, s) == m.crash = "no" => \A g \in Gets : m.calls[g].host > 0 => g \in s

LEMMA OnceAnswered ==
    ASSUME NEW m \in Mem, m.crash = "no", NEW e, OnceIn(m, e)
    PROVE  AnsweredIn(m, e) /\ (e = {} => \A g \in Gets : Out(m, g) <= 1)
<1>1. ASSUME NEW g \in Gets
      PROVE  m.answers[g] <= Allowed(e, g) /\ Out(m, g) <= Allowed(e, g)
  <2>1. m.answers[g] \in Nat /\ Out(m, g) \in Nat
    BY OutFacts
  <2>2. m.answers[g] + Out(m, g) <= Allowed(e, g) /\ Allowed(e, g) \in Nat
    BY DEF OnceIn, OneOwed, Owed, Allowed
  <2> QED
    BY <2>1, <2>2
<1> QED
  BY <1>1 DEF AnsweredIn, Allowed

LEMMA DeliveredFits ==
    ASSUME GetsFit, NEW m \in Mem, m.crash = "no", NEW g \in DOMAIN gets,
           NEW r, Delivered(m, r, g), FreshIn(m), NEW e
    PROVE  /\ FreshIn(r)
           /\ \A s : OnlyRelayed(m, s) => OnlyRelayed(r, s)
           /\ OnceIn(m, e) /\ m.args[g] <= 1 => OnceIn(r, e)
           /\ OnceIn(m, e) /\ m.args[g] > 0 => AnsweredIn(r, e)
<1>1. g \in Gets /\ g <= Len(gets) /\ \A h \in Gets : h \in Nat
  BY GetsFacts DEF Gets
<1>2. m.args \in [Gets -> 0 .. 2] /\ r \in Mem
  BY DEF Mem, Delivered
<1>3. /\ \A h \in Gets : h # g => r.answers[h] = m.answers[h] /\ r.calls[h] = m.calls[h]
      /\ \A h \in Gets : r.calls[h].host = m.calls[h].host
      /\ r.answers[g] <= m.answers[g] + 1
  BY DEF Delivered, OthersKept
<1>4. r.crash = "no" =>
         /\ m.args[g] > 0 /\ Owed(r, g) = Owed(m, g) + 1
         /\ \A h \in Gets : r.args[h] = IF h = g THEN m.args[h] - 1 ELSE m.args[h]
  BY <1>1, <1>2 DEF Delivered, Moved
<1>5. FreshIn(r)
  <2> SUFFICES ASSUME r.crash = "no", NEW h \in Gets, h > Len(gets)
               PROVE  r.calls[h] = NoCalls /\ r.args[h] = 0 /\ r.answers[h] = 0
    BY DEF FreshIn
  <2>1. h # g
    BY <1>1, GetsFacts
  <2> QED
    BY <1>3, <1>4, <2>1 DEF FreshIn
<1>6. ASSUME NEW s, OnlyRelayed(m, s) PROVE OnlyRelayed(r, s)
  BY <1>3, <1>6 DEF OnlyRelayed
<1>7. ASSUME OnceIn(m, e), m.args[g] <= 1 PROVE OnceIn(r, e)
  <2> SUFFICES ASSUME r.crash = "no", NEW h \in Gets
               PROVE  OneOwed(r, h, e)
    BY DEF OnceIn, OneOwed
  <2>1. OneOwed(m, h, e)
    BY <1>7 DEF OnceIn, OneOwed
  <2>2. CASE h = g
    <3>1. Owed(r, g) = 1 /\ r.args[g] = 0 /\ g \notin e
      <4>1. m.args[g] = 1
        BY <1>1, <1>2, <1>4, <1>7
      <4> QED
        BY <1>1, <1>4, <2>1, <2>2, <4>1 DEF OneOwed
    <3> QED
      BY <2>2, <3>1 DEF OneOwed, Allowed
  <2>3. CASE h # g
    <3>1. Owed(r, h) = Owed(m, h) /\ r.args[h] = m.args[h] /\ r.calls[h] = m.calls[h]
      BY <1>3, <1>4, <2>3 DEF Owed, Out
    <3> QED
      BY <2>1, <3>1 DEF OneOwed
  <2> QED
    BY <2>2, <2>3
<1>8. ASSUME OnceIn(m, e), m.args[g] > 0 PROVE AnsweredIn(r, e)
  <2> SUFFICES ASSUME NEW h \in Gets PROVE r.answers[h] <= Allowed(e, h)
    BY DEF AnsweredIn
  <2>1. CASE h = g
    <3>1. m.answers[g] + Out(m, g) = 0
      BY <1>1, <1>8 DEF OnceIn, OneOwed, Owed
    <3>2. m.answers[g] \in Nat /\ Out(m, g) \in Nat /\ r.answers[g] \in Nat
      BY <1>1, <1>2, OutFacts
    <3> QED
      BY <1>3, <2>1, <3>1, <3>2 DEF Allowed
  <2>2. CASE h # g
    BY <1>3, <1>8, <2>2, OnceAnswered DEF AnsweredIn
  <2> QED
    BY <2>1, <2>2
<1> QED
  BY <1>5, <1>6, <1>7, <1>8

LEMMA SettlesFits ==
    ASSUME GetsFit, NEW m \in Mem, m.crash = "no", NEW g \in DOMAIN gets,
           NEW r, Settles(m, r, g), FreshIn(m), NEW e
    PROVE  /\ FreshIn(r)
           /\ OnceIn(m, e) => OnceIn(r, e) /\ AnsweredIn(r, e)
<1>1. g \in Gets /\ g <= Len(gets) /\ \A h \in Gets : h \in Nat
  BY GetsFacts DEF Gets
<1>2. /\ r \in Mem /\ r.args = m.args
      /\ \A h \in Gets : h # g => r.answers[h] = m.answers[h] /\ r.calls[h] = m.calls[h]
      /\ r.crash = "no" => Owed(r, g) = Owed(m, g)
      /\ r.answers[g] <= m.answers[g] + Out(m, g)
  BY DEF Settles
<1>3. FreshIn(r)
  <2> SUFFICES ASSUME NEW h \in Gets, h > Len(gets)
               PROVE  r.calls[h] = NoCalls /\ r.args[h] = 0 /\ r.answers[h] = 0
    BY DEF FreshIn
  <2>1. h # g
    BY <1>1, GetsFacts
  <2> QED
    BY <1>2, <2>1 DEF FreshIn
<1>4. ASSUME OnceIn(m, e), r.crash = "no", NEW h \in Gets
      PROVE  OneOwed(r, h, e)
  <2>1. Owed(r, h) = Owed(m, h) /\ r.args[h] = m.args[h]
    BY <1>2, <1>4 DEF Owed, Out
  <2>2. r.calls[h].tracker <= m.calls[h].tracker
    <3>1. CASE h = g
      <4>1. r.calls[g].tracker <= m.calls[g].tracker
        BY DEF Settles
      <4> QED
        BY <3>1, <4>1
    <3>2. CASE h # g
      <4>1. m.calls[h].tracker \in Nat
        BY OutFacts
      <4>2. r.calls[h].tracker = m.calls[h].tracker
        BY <1>2, <3>2
      <4> QED
        BY <4>1, <4>2
    <3> QED
      BY <3>1, <3>2
  <2>3. r.calls[h].tracker \in Nat /\ m.calls[h].tracker \in Nat
    BY <1>2, OutFacts
  <2>4. OneOwed(m, h, e)
    BY <1>4 DEF OnceIn, OneOwed
  <2> QED
    BY <2>1, <2>2, <2>3, <2>4 DEF OneOwed
<1>5. ASSUME OnceIn(m, e), NEW h \in Gets PROVE r.answers[h] <= Allowed(e, h)
  <2>1. CASE h = g
    <3>1. m.answers[g] + Out(m, g) <= Allowed(e, g) /\ Allowed(e, g) \in Nat
      BY <1>1, <1>5 DEF OnceIn, OneOwed, Owed, Allowed
    <3>2. m.answers[g] \in Nat /\ Out(m, g) \in Nat /\ r.answers[g] \in Nat
      BY <1>1, <1>2, OutFacts
    <3> QED
      BY <1>2, <2>1, <3>1, <3>2
  <2>2. CASE h # g
    BY <1>2, <1>5, <2>2, OnceAnswered DEF AnsweredIn
  <2> QED
    BY <2>1, <2>2
<1> QED
  BY <1>3, <1>4, <1>5 DEF OnceIn, OneOwed, AnsweredIn

\* From now on g is a get whose call of its host failed to encode.
LEMMA UnsentFits ==
    ASSUME GetsFit, NEW m \in Mem, m.crash = "no", NEW g \in DOMAIN gets,
           m.calls[g].tracker > 0, NEW r, Unsent(m, r, g), FreshIn(m), NEW e
    PROVE  /\ FreshIn(r)
           /\ \A s : OnlyRelayed(m, s) => OnlyRelayed(r, s)
           /\ OnceIn(m, e) => OnceIn(r, e \cup {g}) /\ AnsweredIn(r, e \cup {g})
<1>1. g \in Gets /\ g <= Len(gets) /\ \A h \in Gets : h \in Nat
  BY GetsFacts DEF Gets
<1>2. /\ r \in Mem /\ r.args = m.args
      /\ \A h \in Gets : h # g => r.answers[h] = m.answers[h] /\ r.calls[h] = m.calls[h]
      /\ r.calls[g].tracker = m.calls[g].tracker - 1
      /\ r.calls[g].host = m.calls[g].host
      /\ r.answers[g] <= m.answers[g] + 1
      /\ r.crash = "no" => Owed(r, g) = Owed(m, g) + 1
  BY DEF Unsent
<1>3. FreshIn(r)
  <2> SUFFICES ASSUME r.crash = "no", NEW h \in Gets, h > Len(gets)
               PROVE  r.calls[h] = NoCalls /\ r.args[h] = 0 /\ r.answers[h] = 0
    BY DEF FreshIn
  <2>1. h # g
    BY <1>1, GetsFacts
  <2> QED
    BY <1>2, <2>1 DEF FreshIn
<1>4. ASSUME NEW s, OnlyRelayed(m, s) PROVE OnlyRelayed(r, s)
  <2>1. \A h \in Gets : r.calls[h].host = m.calls[h].host
    BY <1>2
  <2> QED
    BY <1>4, <2>1 DEF OnlyRelayed
<1>5. /\ m.calls[g].tracker \in Nat /\ m.calls[g].unheard \in Nat
      /\ m.calls[g].host \in Nat /\ m.answers[g] \in Nat /\ Out(m, g) \in Nat
      /\ Out(m, g) >= 1 /\ Owed(m, g) \in Nat
  <2>1. /\ m.calls[g].tracker \in Nat /\ m.calls[g].unheard \in Nat
        /\ m.calls[g].host \in Nat /\ m.answers[g] \in Nat /\ Out(m, g) \in Nat
    BY <1>1, OutFacts
  <2> QED
    BY <2>1 DEF Out, Owed
<1>6. ASSUME OnceIn(m, e)
      PROVE  g \notin e /\ Owed(m, g) = 1 /\ m.calls[g].tracker = 1 /\ m.answers[g] = 0
             /\ m.args[g] = 0
  <2>1. OneOwed(m, g, e)
    BY <1>1, <1>6 DEF OnceIn
  <2>2. g \notin e
    BY <2>1 DEF OneOwed
  <2>3. Owed(m, g) <= 1
    BY <2>1, <2>2 DEF OneOwed, Allowed
  <2>4. Owed(m, g) = 1 /\ m.calls[g].tracker = 1 /\ m.answers[g] = 0
    BY <1>5, <2>3 DEF Owed, Out
  <2>5. m.args[g] \in 0 .. 2
    BY <1>1 DEF Mem
  <2>6. m.args[g] = 0
    BY <2>1, <2>4, <2>5 DEF OneOwed
  <2> QED
    BY <2>2, <2>4, <2>6
<1>7. ASSUME OnceIn(m, e), r.crash = "no", NEW h \in Gets
      PROVE  OneOwed(r, h, e \cup {g})
  <2>1. CASE h = g
    <3>1. Owed(r, g) = 2 /\ r.args[g] = 0 /\ r.calls[g].tracker = 0
      BY <1>2, <1>6, <1>7
    <3> QED
      BY <2>1, <3>1 DEF OneOwed, Allowed
  <2>2. CASE h # g
    <3>1. Owed(r, h) = Owed(m, h) /\ r.args[h] = m.args[h] /\ r.calls[h] = m.calls[h]
      BY <1>2, <2>2 DEF Owed, Out
    <3>2. OneOwed(m, h, e)
      BY <1>7 DEF OnceIn
    <3> QED
      BY <2>2, <3>1, <3>2 DEF OneOwed, Allowed
  <2> QED
    BY <2>1, <2>2
<1>8. ASSUME OnceIn(m, e), NEW h \in Gets PROVE r.answers[h] <= Allowed(e \cup {g}, h)
  <2>1. CASE h = g
    <3>1. r.answers[g] \in Nat
      BY <1>1, <1>2, OutFacts
    <3> QED
      BY <1>2, <1>6, <1>8, <2>1, <3>1 DEF Allowed
  <2>2. CASE h # g
    <3>1. m.answers[h] <= Allowed(e, h)
      BY <1>8, OnceAnswered DEF AnsweredIn
    <3> QED
      BY <1>2, <2>2, <3>1 DEF Allowed
  <2> QED
    BY <2>1, <2>2
<1> QED
  BY <1>3, <1>4, <1>7, <1>8 DEF OnceIn, AnsweredIn

LEMMA SettledRelayed ==
    ASSUME NEW m \in Mem, m.crash = "no", NEW g, NEW r, CallAnswered(m, r, g), NEW s,
           OnlyRelayed(m, s)
    PROVE  OnlyRelayed(r, s)
<1> SUFFICES ASSUME NEW h \in Gets, r.calls[h].host > 0 PROVE h \in s
  BY DEF OnlyRelayed
<1>1. r \in Mem /\ r.calls[h].host <= m.calls[h].host
  BY DEF CallAnswered, Settles
<1>2. r.calls[h].host \in Nat /\ m.calls[h].host \in Nat
  BY <1>1, OutFacts
<1>3. m.calls[h].host > 0
  BY <1>1, <1>2
<1> QED
  BY <1>3 DEF OnlyRelayed

LEMMA FailingFits ==
    ASSUME GetsFit, NEW m \in Mem, NEW r, Failing(m, r, Len(gets)), FreshIn(m), NEW e
    PROVE  /\ FreshIn(r)
           /\ \A s : OnlyRelayed(m, s) => OnlyRelayed(r, s)
           /\ OnceIn(m, e) => OnceIn(r, e)
           /\ OnceIn(m, e) /\ m.crash = "no" => AnsweredIn(r, e)
           /\ AnsweredIn(m, e) /\ m.crash # "no" => AnsweredIn(r, e)
<1>1. FreshIn(r)
  BY DEF FreshIn, Failing
<1>2. ASSUME NEW s, OnlyRelayed(m, s) PROVE OnlyRelayed(r, s)
  <2> SUFFICES ASSUME r.crash = "no", NEW g \in Gets, r.calls[g].host > 0 PROVE g \in s
    BY DEF OnlyRelayed
  <2>1. m.crash = "no" /\ r.calls[g] \in {m.calls[g], NoCalls}
    BY DEF Failing
  <2>2. NoCalls.host = 0
    BY NoCallsFacts
  <2>3. r.calls[g] = m.calls[g]
    BY <2>1, <2>2
  <2> QED
    BY <1>2, <2>1, <2>3 DEF OnlyRelayed
<1>3. ASSUME OnceIn(m, e), r.crash = "no", NEW g \in Gets
      PROVE  OneOwed(r, g, e)
  <2>1. /\ m.crash = "no" /\ Owed(r, g) = Owed(m, g) /\ r.args[g] = m.args[g]
        /\ r.calls[g] \in {m.calls[g], NoCalls}
    BY <1>3 DEF Failing
  <2>2. OneOwed(m, g, e)
    BY <1>3, <2>1 DEF OnceIn, OneOwed
  <2> QED
    BY <2>1, <2>2, NoCallsFacts DEF OneOwed
<1>4. ASSUME OnceIn(m, e), m.crash = "no", NEW g \in Gets
      PROVE  r.answers[g] <= Allowed(e, g)
  <2>1. m.answers[g] + Out(m, g) <= Allowed(e, g) /\ Allowed(e, g) \in Nat
    BY <1>4 DEF OnceIn, OneOwed, Owed, Allowed
  <2>2. r \in Mem /\ r.answers[g] <= m.answers[g] + Out(m, g)
    BY DEF Failing
  <2>3. m.answers[g] \in Nat /\ Out(m, g) \in Nat /\ r.answers[g] \in Nat
    BY <2>2, OutFacts
  <2> QED
    BY <2>1, <2>2, <2>3
<1>5. AnsweredIn(m, e) /\ m.crash # "no" => AnsweredIn(r, e)
  BY DEF AnsweredIn, Failing
<1> QED
  BY <1>1, <1>2, <1>3, <1>4, <1>5 DEF OnceIn, OneOwed, AnsweredIn

-----------------------------------------------------------------------------
(***************************************************************************)
(* The inductive invariant.                                                *)
(***************************************************************************)
Owner == gets[onConnected].tracker

\* An interface is made, stored and bound by the get that took the slots.
PcFits ==
    /\ Len(gets) <= MaxGets
    /\ pc # "idle" => Len(gets) > 0
    /\ pc = "get" => onConnected # Current /\ onConnectionFailed # Current
    /\ pc \in {"construct", "store", "bind"} => onConnected = Current
    /\ pc = "construct" => link[gets[Current].tracker] = "none"
    /\ pc = "store" => /\ link[gets[Current].tracker] # "none"
                       /\ gets[Current].tracker \notin netInterfaces
    /\ pc = "bind" => gets[Current].tracker \in netInterfaces \ bound
    /\ \A t \in netInterfaces \ bound : pc = "bind" /\ t = gets[Current].tracker
    /\ \A t \in Trackers : link[t] # "none" /\ t \notin netInterfaces =>
          pc = "store" /\ t = gets[Current].tracker

\* Unless the slots were taken from it, an interface that may still call them
\* does so for the get that took them.
LinkFits ==
    /\ \A t \in greeted : link[t] # "none"
    /\ \A t \in greeting : link[t] = "up"
    /\ \A t \in Trackers : link[t] # "none" => onConnected # NoGet
    /\ ~overlapped => \A t \in Connecting : t = Owner
    /\ ~overlapped /\ pc = "construct" => Connecting = {}

FailedSlot == ~Silent => onConnectionFailed = onConnected

\* katipo.get holds the arguments until it returns, and the slots until one of
\* them is called.
ArgsFit ==
    crash = "no" =>
    /\ pc = "get" => args[Current] = 1
    /\ ~overlapped /\ pc \in {"construct", "store", "bind"} => args[Current] = 2
    /\ \A g \in Gets : args[g] = 2 => pc \in {"construct", "store", "bind"} /\ g = Current
    /\ ~overlapped /\ Connecting # {} => args[onConnected] > 0

Slot == IF pc = "construct" \/ Connecting # {} THEN {onConnected} ELSE {}

\* A callback has a reference for whatever may still use it.
Counted ==
    crash = "no" /\ ~overlapped /\ ~Silent /\ relayed = {} /\ encodeFailed = {} =>
       Backed(Memory, Slot)

Fresh == FreshIn(Memory)
Once == ~overlapped => OnceIn(Memory, encodeFailed)
Relayed == OnlyRelayed(Memory, relayed)

ControlTypes ==
    /\ pc \in {"idle", "get", "construct", "store", "bind"}
    /\ gets \in Seq(Get)
    /\ onConnected \in 0 .. Len(gets)
    /\ onConnectionFailed \in 0 .. Len(gets)
    /\ bound \subseteq netInterfaces
    /\ netInterfaces \subseteq {t \in Trackers : link[t] # "none"}
    /\ link \in [Trackers -> {"none", "up", "lost", "closed"}]
    /\ greeting \subseteq greeted /\ greeted \subseteq Trackers
    /\ overlapped \in BOOLEAN

Control == ControlTypes /\ PcFits /\ LinkFits /\ FailedSlot
MemoryFits ==
    /\ Memory \in Mem /\ relayed \subseteq DOMAIN gets /\ encodeFailed \subseteq DOMAIN gets
    /\ Fresh /\ Relayed /\ ArgsFit /\ Once /\ Counted
    /\ CrashesNamed /\ AnsweredOnce
IInv == Control /\ MemoryFits

LEMMA TypeParts ==
    TypeOK <=> /\ ControlTypes /\ Memory \in Mem
               /\ relayed \subseteq DOMAIN gets /\ encodeFailed \subseteq DOMAIN gets
<1>1. Memory \in Mem <=> /\ calls \in [Gets -> Calls] /\ args \in [Gets -> 0 .. 2]
                         /\ refs \in [Callbacks -> Nat] /\ answers \in [Gets -> Nat]
                         /\ crash \in Crashes
  BY DEF Memory, Mem
<1> QED
  BY <1>1 DEF TypeOK, ControlTypes, Get, Calls, Crashes


LEMMA CurrentFits ==
    ASSUME Control
    PROVE  /\ GetsFit
           /\ pc # "idle" => /\ Current \in DOMAIN gets /\ Current \in 0 .. Len(gets)
                             /\ Current # NoGet /\ gets[Current].tracker \in Trackers
                             /\ Current \in Gets
           /\ onConnected # NoGet => onConnected \in DOMAIN gets /\ onConnected \in Gets
           /\ onConnectionFailed # NoGet =>
                 onConnectionFailed \in DOMAIN gets /\ onConnectionFailed \in Gets
<1>1. GetsFit
  BY DEF GetsFit, Control, ControlTypes, PcFits
<1>2. /\ Len(gets) \in Nat /\ DOMAIN gets = 1 .. Len(gets) /\ DOMAIN gets \subseteq Gets
      /\ \A g \in DOMAIN gets : gets[g].tracker \in Trackers
  BY <1>1, GetsFacts
<1>3. onConnected \in 0 .. Len(gets) /\ onConnectionFailed \in 0 .. Len(gets)
  BY DEF Control, ControlTypes
<1>4. ASSUME pc # "idle"
      PROVE  /\ Current \in DOMAIN gets /\ Current \in 0 .. Len(gets) /\ Current # NoGet
             /\ gets[Current].tracker \in Trackers /\ Current \in Gets
  <2>1. Len(gets) > 0
    BY <1>4 DEF Control, PcFits
  <2>2. Len(gets) \in 1 .. Len(gets) /\ Len(gets) \in 0 .. Len(gets) /\ Len(gets) # 0
    BY <1>2, <2>1
  <2> QED
    BY <1>2, <2>2 DEF Current, NoGet
<1> QED
  BY <1>1, <1>2, <1>3, <1>4 DEF NoGet

\* What is placed stays, and the new get is the last.
LEMMA Placing ==
    ASSUME gets \in Seq(Get), NEW e \in Get, gets' = Append(gets, e)
    PROVE  /\ Len(gets) \in Nat
           /\ gets' \in Seq(Get) /\ Len(gets') = Len(gets) + 1 /\ gets'[Len(gets) + 1] = e
           /\ DOMAIN gets = 1 .. Len(gets) /\ DOMAIN gets' = 1 .. Len(gets) + 1
           /\ \A i \in 1 .. Len(gets) : gets'[i] = gets[i]
  OBVIOUS

LEMMA PlaceGetControl ==
    ASSUME Control, NEW t \in Trackers, NEW c \in Callbacks \cup {NoCallback},
           PlaceGet(t, c)
    PROVE  Control'
<1> DEFINE e == [tracker |-> t, callback |-> c]
<1>1. e \in Get
  BY DEF Get
<1>2. /\ gets' = Append(gets, e) /\ gets \in Seq(Get) /\ Len(gets) < MaxGets
      /\ pc = "idle" /\ pc' = "get"
      /\ UNCHANGED <<onConnected, onConnectionFailed, netInterfaces, bound, link, greeted,
                     greeting, overlapped>>
  BY DEF PlaceGet, Control, ControlTypes, netVars
<1> HIDE DEF e
<1>3. /\ Len(gets) \in Nat
      /\ gets' \in Seq(Get) /\ Len(gets') = Len(gets) + 1 /\ gets'[Len(gets) + 1] = e
      /\ DOMAIN gets = 1 .. Len(gets) /\ DOMAIN gets' = 1 .. Len(gets) + 1
      /\ \A i \in 1 .. Len(gets) : gets'[i] = gets[i]
  BY <1>1, <1>2, Placing
<1>4. onConnected \in 0 .. Len(gets) /\ onConnectionFailed \in 0 .. Len(gets)
  BY DEF Control, ControlTypes
<1>5. ControlTypes'
  BY <1>2, <1>3, <1>4 DEF Control, ControlTypes
<1>6. PcFits'
  BY <1>2, <1>3, <1>4, ClientGetAssumption DEF Control, PcFits, Current
<1>7. LinkFits'
  <2>1. Connecting' = Connecting
    BY <1>2 DEF Connecting
  <2>2. Connecting # {} => onConnected \in 1 .. Len(gets)
    BY <1>3, <1>4 DEF Control, LinkFits, Connecting, NoGet
  <2>3. Connecting # {} => Owner' = Owner
    BY <1>2, <1>3, <2>2 DEF Owner
  <2> QED
    BY <1>2, <2>1, <2>3 DEF Control, LinkFits
<1>8. FailedSlot'
  <2>1. Silent => Silent'
    BY <1>3 DEF Silent
  <2> QED
    BY <1>2, <2>1 DEF Control, FailedSlot
<1> QED
  BY <1>5, <1>6, <1>7, <1>8 DEF Control

LEMMA TakeSlotsControl ==
    ASSUME Control, TakeSlots
    PROVE  Control'
<1>1. /\ pc = "get" /\ pc' = "construct" /\ gets[Current].tracker \notin netInterfaces
      /\ onConnected' = Current
      /\ onConnectionFailed' = IF gets[Current].callback = NoCallback
                               THEN onConnectionFailed ELSE Current
      /\ overlapped' = (overlapped \/ Connecting # {})
      /\ UNCHANGED <<gets, netInterfaces, bound, link, greeted, greeting>>
  BY DEF TakeSlots, netVars
<1>2. Current \in DOMAIN gets /\ Current \in 0 .. Len(gets) /\ Current # NoGet
      /\ gets[Current].tracker \in Trackers
  BY <1>1, CurrentFits
<1>3. Connecting' = Connecting /\ Current' = Current
  BY <1>1 DEF Connecting, Current
<1>4. ControlTypes'
  BY <1>1, <1>2 DEF Control, ControlTypes
<1>5. PcFits'
  BY <1>1, <1>2, <1>3 DEF Control, PcFits
<1>6. LinkFits'
  BY <1>1, <1>2, <1>3 DEF Control, LinkFits
<1>7. FailedSlot'
  BY <1>1, <1>2 DEF Control, FailedSlot, Silent
<1> QED
  BY <1>4, <1>5, <1>6, <1>7 DEF Control

LEMMA ConstructControl ==
    ASSUME Control, Construct
    PROVE  Control'
<1> DEFINE t == gets[Current].tracker
<1>1. /\ pc = "construct" /\ pc' = "store" /\ link' = [link EXCEPT ![t] = "up"]
      /\ UNCHANGED <<gets, onConnected, onConnectionFailed, netInterfaces, bound, greeted,
                     greeting, overlapped>>
  BY DEF Construct
<1>2. Current \in DOMAIN gets /\ Current # NoGet /\ t \in Trackers /\ onConnected = Current
      /\ link[t] = "none" /\ Current' = Current /\ Owner = t /\ Owner' = t
  <2>1. Current \in DOMAIN gets /\ Current # NoGet /\ t \in Trackers /\ Current' = Current
    BY <1>1, CurrentFits DEF Current
  <2>2. onConnected = Current /\ link[t] = "none"
    BY <1>1 DEF Control, PcFits
  <2> QED
    BY <1>1, <2>1, <2>2 DEF Owner
<1>3. link \in [Trackers -> {"none", "up", "lost", "closed"}]
  BY DEF Control, ControlTypes
<1>4. t \notin netInterfaces
  BY <1>2 DEF Control, ControlTypes
<1> HIDE DEF t
<1>5. \A u \in Trackers : link'[u] = IF u = t THEN "up" ELSE link[u]
  BY <1>1, <1>3
<1>6. ControlTypes'
  BY <1>1, <1>2, <1>3, <1>5 DEF Control, ControlTypes
<1>7. PcFits'
  BY <1>1, <1>2, <1>4, <1>5 DEF Control, PcFits, t
<1>8. LinkFits'
  BY <1>1, <1>2, <1>5 DEF Control, LinkFits, Connecting
<1>9. FailedSlot'
  BY <1>1 DEF Control, FailedSlot, Silent
<1> QED
  BY <1>6, <1>7, <1>8, <1>9 DEF Control

LEMMA StoreControl ==
    ASSUME Control, Store
    PROVE  Control'
<1> DEFINE t == gets[Current].tracker
<1>1. /\ pc = "store" /\ pc' = "bind" /\ netInterfaces' = netInterfaces \cup {t}
      /\ UNCHANGED <<gets, onConnected, onConnectionFailed, bound, link, greeted,
                     greeting, overlapped>>
  BY DEF Store, netVars
<1>2. Current \in DOMAIN gets /\ t \in Trackers /\ onConnected = Current
      /\ link[t] # "none" /\ t \notin netInterfaces /\ Current' = Current
      /\ Owner' = Owner /\ Connecting' = Connecting
  <2>1. Current \in DOMAIN gets /\ t \in Trackers /\ Current' = Current
    BY <1>1, CurrentFits DEF Current
  <2>2. onConnected = Current /\ link[t] # "none" /\ t \notin netInterfaces
    BY <1>1 DEF Control, PcFits
  <2>3. Owner' = Owner /\ Connecting' = Connecting
    BY <1>1 DEF Owner, Connecting
  <2> QED
    BY <2>1, <2>2, <2>3
<1> HIDE DEF t
<1>3. ControlTypes'
  BY <1>1, <1>2 DEF Control, ControlTypes
<1>4. PcFits'
  <2>1. gets'[Current'].tracker = t
    BY <1>1, <1>2 DEF t
  <2> QED
    BY <1>1, <1>2, <2>1 DEF Control, ControlTypes, PcFits, t
<1>5. LinkFits'
  BY <1>1, <1>2 DEF Control, LinkFits
<1>6. FailedSlot'
  BY <1>1 DEF Control, FailedSlot, Silent
<1> QED
  BY <1>3, <1>4, <1>5, <1>6 DEF Control

LEMMA BindControl ==
    ASSUME Control, pc = "bind", pc' = "idle", bound' = bound \cup {gets[Current].tracker},
           UNCHANGED <<gets, onConnected, onConnectionFailed, netInterfaces, netVars,
                       overlapped>>
    PROVE  Control'
<1> DEFINE t == gets[Current].tracker
<1>1. UNCHANGED <<link, greeted, greeting>>
  BY DEF netVars
<1>2. t \in netInterfaces /\ Current' = Current /\ Owner' = Owner /\ Connecting' = Connecting
  BY <1>1 DEF Control, PcFits, Current, Owner, Connecting
<1> HIDE DEF t
<1>3. ControlTypes'
  BY <1>1, <1>2 DEF Control, ControlTypes, t
<1>4. PcFits'
  BY <1>1, <1>2 DEF Control, PcFits, t
<1>5. LinkFits'
  BY <1>1, <1>2 DEF Control, LinkFits
<1>6. FailedSlot'
  BY DEF Control, FailedSlot, Silent
<1> QED
  BY <1>3, <1>4, <1>5, <1>6 DEF Control

\* katipo.get ends.
LEMMA IdleControl ==
    ASSUME Control, pc = "get", pc' = "idle",
           UNCHANGED <<gets, onConnected, onConnectionFailed, netInterfaces, bound, netVars,
                       overlapped>>
    PROVE  Control'
<1>1. UNCHANGED <<link, greeted, greeting>>
  BY DEF netVars
<1>2. Current' = Current /\ Owner' = Owner /\ Connecting' = Connecting
  BY <1>1 DEF Current, Owner, Connecting
<1>3. ControlTypes'
  BY <1>1 DEF Control, ControlTypes
<1>4. PcFits'
  BY <1>1, <1>2 DEF Control, PcFits
<1>5. LinkFits'
  BY <1>1, <1>2 DEF Control, LinkFits
<1>6. FailedSlot'
  BY DEF Control, FailedSlot, Silent
<1> QED
  BY <1>3, <1>4, <1>5, <1>6 DEF Control

\* The script's thread does nothing: a net thread or the event loop moves a
\* connection, and no interface begins to connect.
LEMMA NetControl ==
    ASSUME Control, UNCHANGED scriptVars,
           link' \in [Trackers -> {"none", "up", "lost", "closed"}],
           greeting' \subseteq greeted', greeted' \subseteq Trackers,
           \A t \in Trackers : link'[t] = "none" <=> link[t] = "none",
           \A t \in greeted' : link'[t] # "none",
           \A t \in greeting' : link'[t] = "up",
           Connecting' \subseteq Connecting
    PROVE  Control' /\ Slot' \subseteq Slot
<1>1. UNCHANGED <<pc, gets, onConnected, onConnectionFailed, netInterfaces, bound, overlapped>>
  BY DEF scriptVars
<1>2. Current' = Current /\ Owner' = Owner
  BY <1>1 DEF Current, Owner
<1>3. ControlTypes'
  BY <1>1 DEF Control, ControlTypes
<1>4. PcFits'
  <2>1. pc # "idle" => gets[Current].tracker \in Trackers
    BY CurrentFits
  <2> QED
    BY <1>1, <1>2, <2>1 DEF Control, PcFits
<1>5. LinkFits'
  BY <1>1, <1>2 DEF Control, LinkFits
<1>6. FailedSlot'
  BY <1>1 DEF Control, FailedSlot, Silent
<1>7. Slot' \subseteq Slot
  BY <1>1 DEF Slot
<1> QED
  BY <1>3, <1>4, <1>5, <1>6, <1>7 DEF Control

LEMMA KeptControl ==
    ASSUME Control, UNCHANGED <<scriptVars, netVars>>
    PROVE  Control' /\ Slot' = Slot /\ Connecting' = Connecting
<1>1. UNCHANGED <<pc, onConnected, link, greeted, greeting>> /\ UNCHANGED scriptVars
  BY DEF scriptVars, netVars
<1>2. Connecting' = Connecting /\ Slot' = Slot
  BY <1>1 DEF Connecting, Slot
<1>3. /\ link \in [Trackers -> {"none", "up", "lost", "closed"}]
      /\ greeting \subseteq greeted /\ greeted \subseteq Trackers
      /\ \A t \in greeted : link[t] # "none"
      /\ \A t \in greeting : link[t] = "up"
  BY DEF Control, ControlTypes, LinkFits
<1> QED
  BY <1>1, <1>2, <1>3, NetControl

-----------------------------------------------------------------------------
(***************************************************************************)
(* What a step makes of the memory.                                        *)
(***************************************************************************)
LEMMA MemoryIs ==
    /\ Memory.args = args /\ Memory.refs = refs /\ Memory.answers = answers
    /\ Memory.calls = calls /\ Memory.crash = crash
  BY DEF Memory

LEMMA Becoming ==
    ASSUME NEW r \in Mem, Becomes(r)
    PROVE  Memory' = r
  BY DEF Becomes, Memory, Mem

LEMMA FitsNext ==
    ASSUME UNCHANGED gets, NEW r, Memory' = r
    PROVE  /\ r \in Mem => (Memory \in Mem)'
           /\ r.crash = crash' /\ r.args = args'
           /\ FreshIn(r) => Fresh'
           /\ OnceIn(r, encodeFailed') => Once'
           /\ OnlyRelayed(r, relayed') => Relayed'
           /\ AnsweredIn(r, encodeFailed') => AnsweredOnce'
           /\ overlapped' => Once' /\ AnsweredOnce'
<1>1. r.crash = crash' /\ r.args = args' /\ r.answers = answers' /\ r.calls = calls'
  BY DEF Memory
<1>2. r \in Mem => (Memory \in Mem)'
  BY DEF Mem, Calls
<1>3. FreshIn(r) => Fresh'
  BY <1>1 DEF Fresh, FreshIn, Memory
<1>4. OnceIn(r, encodeFailed') => Once'
  BY <1>1 DEF Once, OnceIn, OneOwed, Memory, Owed, Out
<1>5. OnlyRelayed(r, relayed') => Relayed'
  BY <1>1 DEF Relayed, OnlyRelayed, Memory
<1>6. AnsweredIn(r, encodeFailed') => AnsweredOnce'
  BY <1>1 DEF AnsweredIn, AnsweredOnce, Allowed, MayBeAnswered
<1>7. overlapped' => Once' /\ AnsweredOnce'
  BY DEF Once, AnsweredOnce
<1> QED
  BY <1>1, <1>2, <1>3, <1>4, <1>5, <1>6, <1>7

LEMMA CountedNext ==
    ASSUME UNCHANGED gets, NEW r, Memory' = r, NEW s, Slot' = s,
           r.crash = "no" /\ ~overlapped' /\ ~Silent /\ relayed' = {} /\ encodeFailed' = {}
              => Backed(r, s)
    PROVE  Counted'
<1>1. r.crash = crash'
  BY DEF Memory
<1>2. \A c : Needs(Memory, Slot, c)' = Needs(r, s, c)
  BY DEF Needs, Needed, Out
<1>3. Backed(r, s) => Backed(Memory, Slot)'
  BY <1>2 DEF Backed
<1>4. Silent' = Silent
  BY DEF Silent
<1> QED
  BY <1>1, <1>3, <1>4 DEF Counted

LEMMA BackedShrinks ==
    ASSUME NEW m \in Mem, NEW s, Backed(m, s), NEW t, t \subseteq s
    PROVE  Backed(m, t)
<1>1. \A c : Needs(m, t, c) \subseteq Needs(m, s, c)
  BY DEF Needs, Needed
<1> QED
  BY <1>1, BackedSame

\* The step leaves the memory alone.
LEMMA MemoryKept ==
    ASSUME IInv, crash = "no", UNCHANGED <<gets, relayed, encodeFailed, overlapped>>,
           UNCHANGED <<calls, countVars, crash>>, Slot' \subseteq Slot, ArgsFit'
    PROVE  MemoryFits'
<1>1. Memory' = Memory /\ Memory.crash = crash /\ UNCHANGED answers
  BY DEF Memory, countVars
<1>2. /\ Memory \in Mem /\ Counted
      /\ relayed \subseteq DOMAIN gets /\ encodeFailed \subseteq DOMAIN gets
  BY DEF IInv, MemoryFits
<1>3. FreshIn(Memory) /\ OnlyRelayed(Memory, relayed)
  BY DEF IInv, MemoryFits, Fresh, Relayed
<1>4. (Memory \in Mem)' /\ Fresh' /\ Relayed'
  BY <1>1, <1>2, <1>3, FitsNext
<1>5. Once' /\ AnsweredOnce'
  <2>1. CASE overlapped
    BY <1>1, <2>1, FitsNext
  <2>2. CASE ~overlapped
    <3>1. OnceIn(Memory, encodeFailed)
      BY <2>2 DEF IInv, MemoryFits, Once
    <3>2. AnsweredIn(Memory, encodeFailed)
      BY <1>1, <1>2, <3>1, OnceAnswered
    <3> QED
      BY <1>1, <3>1, <3>2, FitsNext
  <2> QED
    BY <2>1, <2>2
<1>6. Counted'
  <2>1. Memory.crash = "no" /\ ~overlapped' /\ ~Silent /\ relayed' = {} /\ encodeFailed' = {}
           => Backed(Memory, Slot')
    BY <1>1, <1>2, BackedShrinks DEF Counted
  <2> QED
    BY <1>1, <2>1, CountedNext
<1>7. CrashesNamed'
  BY <1>1 DEF CrashesNamed
<1>8. (relayed \subseteq DOMAIN gets /\ encodeFailed \subseteq DOMAIN gets)'
  BY <1>2
<1> QED
  BY <1>4, <1>5, <1>6, <1>7, <1>8 DEF MemoryFits

\* The step makes r of the memory, and nothing is freed too early.
LEMMA MemoryMoves ==
    ASSUME UNCHANGED gets, relayed' \subseteq DOMAIN gets, encodeFailed' \subseteq DOMAIN gets,
           NEW r \in Mem, Becomes(r),
           FreshIn(r), OnlyRelayed(r, relayed'),
           ~overlapped' => OnceIn(r, encodeFailed') /\ AnsweredIn(r, encodeFailed'),
           NEW s, Slot' = s,
           ~overlapped' /\ ~Silent /\ relayed' = {} /\ encodeFailed' = {}
              => r.crash = "no" /\ Backed(r, s),
           r.crash \in {"no", "freed", "no callback", "null interface"},
           r.crash = "null interface" => overlapped',
           r.crash = "no callback" => Silent,
           ArgsFit'
    PROVE  MemoryFits'
<1>1. Memory' = r
  BY Becoming
<1>2. /\ (Memory \in Mem)' /\ r.crash = crash' /\ Fresh' /\ Relayed' /\ Once' /\ AnsweredOnce'
  BY <1>1, FitsNext
<1>3. Counted'
  BY <1>1, CountedNext
<1>4. Silent' = Silent
  BY DEF Silent
<1>5. CrashesNamed'
  BY <1>2, <1>4 DEF CrashesNamed
<1>6. (relayed \subseteq DOMAIN gets /\ encodeFailed \subseteq DOMAIN gets)'
  OBVIOUS
<1> QED
  BY <1>2, <1>3, <1>5, <1>6 DEF MemoryFits

\* What a step finds.
LEMMA Found ==
    ASSUME IInv, crash = "no"
    PROVE  /\ GetsFit /\ Memory \in Mem /\ Memory.crash = "no"
           /\ relayed \subseteq DOMAIN gets /\ encodeFailed \subseteq DOMAIN gets
           /\ FreshIn(Memory) /\ OnlyRelayed(Memory, relayed)
           /\ ~overlapped => OnceIn(Memory, encodeFailed) /\ AnsweredIn(Memory, encodeFailed)
           /\ ~overlapped /\ encodeFailed = {} => \A g \in Gets : Out(Memory, g) <= 1
           /\ ~overlapped /\ ~Silent /\ relayed = {} /\ encodeFailed = {} => Backed(Memory, Slot)
           /\ args \in [Gets -> 0 .. 2]
<1>1. /\ GetsFit /\ Memory \in Mem /\ Memory.crash = "no"
      /\ relayed \subseteq DOMAIN gets /\ encodeFailed \subseteq DOMAIN gets
      /\ FreshIn(Memory) /\ OnlyRelayed(Memory, relayed)
  BY CurrentFits, MemoryIs DEF IInv, MemoryFits, Fresh, Relayed
<1>2. ~overlapped => OnceIn(Memory, encodeFailed)
  BY DEF IInv, MemoryFits, Once
<1>3. ~overlapped => AnsweredIn(Memory, encodeFailed)
  BY <1>1, <1>2, OnceAnswered
<1>6. ~overlapped /\ encodeFailed = {} => \A g \in Gets : Out(Memory, g) <= 1
  BY <1>1, <1>2, OnceAnswered
<1>4. ~overlapped /\ ~Silent /\ relayed = {} /\ encodeFailed = {} => Backed(Memory, Slot)
  BY DEF IInv, MemoryFits, Counted
<1>5. args \in [Gets -> 0 .. 2]
  BY <1>1, MemoryIs DEF Mem
<1> QED
  BY <1>1, <1>2, <1>3, <1>4, <1>5, <1>6

\* The arguments of get g alone are released, if the process lives.
LEMMA ArgsReleased ==
    ASSUME NEW m \in Mem, NEW r, NEW g \in Gets, Moved(m.args, r.args, g, -1)
    PROVE  \A h \in Gets : r.args[h] = IF h = g THEN m.args[h] - 1 ELSE m.args[h]
<1>1. m.args \in [Gets -> 0 .. 2]
  BY DEF Mem
<1> QED
  BY <1>1 DEF Moved

-----------------------------------------------------------------------------
(***************************************************************************)
(* The steps.                                                              *)
(***************************************************************************)
LEMMA GetFromKnownStep ==
    ASSUME IInv, GetFromKnown
    PROVE  IInv'
<1> DEFINE g == Current
<1>1. /\ crash = "no" /\ pc = "get" /\ pc' = "idle"
      /\ gets[g].tracker \in netInterfaces
      /\ UNCHANGED <<gets, onConnected, onConnectionFailed, netInterfaces, bound, netVars,
                     relayed, encodeFailed, overlapped>>
  BY DEF GetFromKnown, Running, hostVars
<1>2. PICK d \in DoGet(Memory, g) : Becomes(ReleaseArgs(d, g))
  BY DEF GetFromKnown
<1>3. Control'
  BY <1>1, IdleControl DEF IInv
<1>4. g \in DOMAIN gets /\ g \in Gets /\ g' = g
  BY <1>1, CurrentFits DEF IInv, Current
<1>5. UNCHANGED <<link, greeted, greeting>>
  BY <1>1 DEF netVars
<1>6. Connecting' = Connecting /\ Slot' = Slot
  BY <1>1, <1>5 DEF Connecting, Slot
<1>7. args[g] = 1
  BY <1>1 DEF IInv, MemoryFits, ArgsFit
<1>8. onConnected # g
  BY <1>1 DEF IInv, Control, PcFits
<1> DEFINE r == ReleaseArgs(d, g)
<1>9. Delivered(Memory, r, g)
  BY <1>1, <1>2, <1>4, Found, GetReleased
<1>10. r \in Mem
  BY <1>9 DEF Delivered
<1>11. ASSUME ~overlapped', ~Silent, relayed' = {} /\ encodeFailed' = {}
       PROVE  r.crash = "no" /\ Backed(r, Slot)
  <2>1. Backed(Memory, Slot)
    BY <1>1, <1>11, Found
  <2>2. gets[g].callback # NoCallback
    BY <1>4, <1>11 DEF Silent
  <2>3. Memory.args[g] > 0
    BY <1>7, MemoryIs
  <2>4. GetsFit /\ Memory \in Mem /\ Memory.crash = "no"
    BY <1>1, Found
  <2>5. d.crash = "no" /\ Backed(d, Slot)
    BY <1>1, <1>2, <1>4, <2>1, <2>2, <2>3, <2>4, DoGetBacked
  <2>6. Gotten(Memory, d, g)
    BY <1>2, <1>4, <2>4, DoGetFacts
  <2>7. d \in Mem /\ d.args[g] > 0
    BY <2>3, <2>6 DEF Gotten
  <2> QED
    BY <1>4, <2>2, <2>4, <2>5, <2>7, ReleaseBacked
<1> HIDE DEF r
<1>12. Becomes(r)
  BY <1>2 DEF r
<1> HIDE DEF g
<1>13. Memory.args[g] = 1
  BY <1>7, MemoryIs
<1>14. /\ FreshIn(r) /\ OnlyRelayed(r, relayed)
       /\ ~overlapped => OnceIn(r, encodeFailed) /\ AnsweredIn(r, encodeFailed)
  <2>1. Memory.args[g] <= 1 /\ Memory.args[g] > 0
    BY <1>13
  <2> QED
    BY <1>1, <1>4, <1>9, <2>1, Found, DeliveredFits
<1>15. /\ r.crash \in {"no", "freed", "no callback", "null interface"}
       /\ r.crash # "null interface"
       /\ r.crash = "no callback" => Silent
  BY <1>1, <1>4, <1>9 DEF Delivered, Silent, g
<1>16. ArgsFit'
  <2> SUFFICES ASSUME crash' = "no" PROVE ArgsFit'
    BY DEF ArgsFit
  <2>1. r.crash = "no" /\ args' = r.args
    BY <1>12 DEF Becomes
  <2>2. Moved(Memory.args, r.args, g, -1) /\ Memory \in Mem
    BY <1>1, <1>9, <2>1, Found DEF Delivered
  <2>3. \A h \in Gets : args'[h] = IF h = g THEN args[h] - 1 ELSE args[h]
    <3>1. \A h \in Gets : r.args[h] = IF h = g THEN Memory.args[h] - 1 ELSE Memory.args[h]
      <4>1. g \in Gets /\ Memory \in Mem /\ Moved(Memory.args, r.args, g, -1)
        BY <1>4, <2>2
      <4> QED
        BY <4>1, ArgsReleased
    <3> QED
      BY <2>1, <3>1, MemoryIs
  <2>4. \A h \in Gets : args'[h] # 2
    <3>1. \A h \in Gets : args[h] # 2
      BY <1>1 DEF IInv, MemoryFits, ArgsFit
    <3> QED
      BY <1>7, <2>3, <3>1
  <2>5. ~overlapped' /\ Connecting' # {} => args'[onConnected'] > 0
    <3>1. SUFFICES ASSUME ~overlapped, Connecting # {} PROVE args'[onConnected] > 0
      BY <1>1, <1>6
    <3>2. args[onConnected] > 0
      BY <1>1, <3>1 DEF IInv, MemoryFits, ArgsFit
    <3>3. onConnected \in Gets
      BY <3>1, CurrentFits DEF IInv, Control, LinkFits, Connecting
    <3> QED
      BY <1>8, <2>3, <3>2, <3>3 DEF g
  <2> QED
    BY <1>1, <2>4, <2>5 DEF ArgsFit
<1>17. MemoryFits'
  BY <1>1, <1>6, <1>10, <1>11, <1>12, <1>14, <1>15, <1>16, Found, MemoryMoves
<1> QED
  BY <1>3, <1>17 DEF IInv

LEMMA TakeSlotsStep ==
    ASSUME IInv, TakeSlots
    PROVE  IInv'
<1> DEFINE g == Current
           c == gets[g].callback
           m == [Memory EXCEPT !.args[g] = @ + 1]
           r == IfCallback(m, g, 1)
           u == <<g, "slot">>
<1>1. /\ crash = "no" /\ pc = "get" /\ pc' = "construct"
      /\ onConnected' = g
      /\ overlapped' = (overlapped \/ Connecting # {})
      /\ UNCHANGED <<gets, netVars, relayed, encodeFailed>>
  BY DEF TakeSlots, Running, hostVars
<1>2. Becomes(r)
  BY DEF TakeSlots
<1>3. Control'
  BY TakeSlotsControl DEF IInv
<1>4. /\ g \in DOMAIN gets /\ g \in Gets /\ g' = g /\ g \in 0 .. MaxGets
      /\ 0 \notin DOMAIN gets
  BY <1>1, CurrentFits, GetsFacts DEF IInv, Current, Gets
<1>5. UNCHANGED <<link, greeted, greeting>>
  BY <1>1 DEF netVars
<1>6. Connecting' = Connecting
  BY <1>5 DEF Connecting
<1>7. args[g] = 1
  BY <1>1 DEF IInv, MemoryFits, ArgsFit
<1>8. /\ GetsFit /\ Memory \in Mem /\ Memory.crash = "no"
      /\ FreshIn(Memory) /\ OnlyRelayed(Memory, relayed) /\ args \in [Gets -> 0 .. 2]
  BY <1>1, Found
<1>9. /\ m \in Mem /\ m.args = [args EXCEPT ![g] = 2] /\ m.refs = Memory.refs
      /\ m.answers = Memory.answers /\ m.calls = Memory.calls /\ m.crash = "no"
  <2>1. m = [args |-> [args EXCEPT ![g] = @ + 1], refs |-> refs,
             answers |-> answers, calls |-> calls, crash |-> crash]
    BY DEF Memory
  <2>2. [args EXCEPT ![g] = @ + 1] = [args EXCEPT ![g] = 2]
    BY <1>4, <1>7, <1>8
  <2>3. [args EXCEPT ![g] = 2] \in [Gets -> 0 .. 2]
    BY <1>8, 2 \in 0 .. 2, ExceptType
  <2>4. /\ refs \in [Callbacks -> Nat] /\ answers \in [Gets -> Nat]
        /\ calls \in [Gets -> Calls] /\ crash \in Crashes
    BY <1>8, MemoryIs DEF Mem
  <2> HIDE DEF m, g
  <2>5. /\ m.args = [args EXCEPT ![g] = 2] /\ m.refs = refs
        /\ m.answers = answers /\ m.calls = calls /\ m.crash = crash
    BY <2>1, <2>2
  <2>6. m \in Mem
    BY <2>1, <2>2, <2>3, <2>4 DEF Mem
  <2> QED
    BY <1>1, <2>5, <2>6, MemoryIs
<1> HIDE DEF m
<1>10. \A h \in Gets : m.args[h] = IF h = g THEN 2 ELSE args[h]
  BY <1>8, <1>9
<1>11. UsedIfAny(m, r, g, 1)
  BY <1>4, <1>8, <1>9, IfCallbackFacts
<1> HIDE DEF r
<1>12. /\ r \in Mem /\ r.args = m.args /\ r.calls = Memory.calls
       /\ r.answers = Memory.answers /\ r.crash \in {"no", "freed"}
  BY <1>9, <1>11 DEF UsedIfAny
<1>13. FreshIn(r) /\ OnlyRelayed(r, relayed)
  <2>1. \A h \in Gets : h > Len(gets) => h # g
    <3>1. \A h \in Gets : h \in Nat
      BY DEF Gets
    <3> QED
      BY <1>4, <1>8, <3>1, GetsFacts
  <2> HIDE DEF g
  <2> QED
    BY <1>8, <1>10, <1>12, <2>1, MemoryIs DEF FreshIn, OnlyRelayed
<1>14. ASSUME ~overlapped PROVE OnceIn(r, encodeFailed) /\ AnsweredIn(r, encodeFailed)
  <2>1. OnceIn(Memory, encodeFailed) /\ AnsweredIn(Memory, encodeFailed)
    BY <1>1, <1>14, Found
  <2>2. \A h \in Gets : Owed(r, h) = Owed(Memory, h)
    BY <1>12 DEF Owed, Out
  <2>3. \A h \in Gets : r.args[h] > 0 => Memory.args[h] > 0
    BY <1>7, <1>10, <1>12, MemoryIs
  <2> QED
    BY <1>7, <1>8, <1>10, <1>12, <2>1, <2>2, <2>3, MemoryIs
       DEF OnceIn, OneOwed, AnsweredIn
<1>15. ASSUME ~overlapped', ~Silent, relayed' = {} /\ encodeFailed' = {}
       PROVE  r.crash = "no" /\ Backed(r, {g})
  <2>1. Slot = {} /\ Backed(Memory, Slot)
    BY <1>1, <1>15, Found DEF Slot
  <2>2. c # NoCallback /\ c \in Callbacks
    BY <1>4, <1>8, <1>15, GetsFacts DEF Silent
  <2>3. \A h \in DOMAIN gets : m.args[h] > 0 => Memory.args[h] > 0
    BY <1>7, <1>8, <1>10, GetsFacts, MemoryIs
  <2>4. Backed(m, {})
    <3>1. \A d : Needs(m, {}, d) \subseteq Needs(Memory, {}, d)
      BY <1>9, <2>3 DEF Needs, Needed, Out
    <3> QED
      BY <1>8, <1>9, <2>1, <3>1, BackedSame
  <2>5. m.refs[c] \in Nat /\ m.refs[c] >= 1
    <3> DEFINE v == <<g, "args">>
    <3>1. m.args[g] > 0
      BY <1>4, <1>10
    <3>2. v \in Needs(m, {}, c)
      BY <1>4, <3>1 DEF Needs, Needed, Uses
    <3> QED
      BY <1>9, <2>2, <2>4, <3>2, BackedUse
  <2>6. m.refs[c] + 1 >= 0
    BY <2>5
  <2>7. r.crash = "no" /\ Moved(m.refs, r.refs, c, 1)
    BY <1>9, <1>11, <2>2, <2>5, <2>6 DEF UsedIfAny
  <2>8. \A d : d # c => Needs(r, {g}, d) \subseteq Needs(m, {}, d)
    BY <1>9, <1>12 DEF Needs, Needed, Out
  <2>9. Needs(r, {g}, c) \subseteq Needs(m, {}, c) \cup {u}
    BY <1>9, <1>12 DEF Needs, Needed, Out, Uses
  <2>10. Backed(r, {g})
    <3> HIDE DEF c, u
    <3> QED
      BY <1>9, <1>12, <2>2, <2>4, <2>7, <2>8, <2>9, BackedMore
  <2> QED
    BY <2>7, <2>10
<1>16. Slot' = {g}
  BY <1>1 DEF Slot
<1>17. Becomes(r)
  BY <1>2 DEF r
<1>18. ArgsFit'
  <2> SUFFICES ASSUME crash' = "no" PROVE ArgsFit'
    BY DEF ArgsFit
  <2>1. \A h \in Gets : args'[h] = IF h = g THEN 2 ELSE args[h]
    BY <1>10, <1>12, <1>17 DEF Becomes
  <2>2. \A h \in Gets : args[h] # 2
    BY <1>1 DEF IInv, MemoryFits, ArgsFit
  <2>3. ~overlapped' => Connecting' = {}
    BY <1>1, <1>6
  <2> HIDE DEF g
  <2> QED
    BY <1>1, <1>4, <2>1, <2>2, <2>3 DEF ArgsFit, g
<1>19. ~overlapped' => ~overlapped
  BY <1>1 DEF IInv, Control, ControlTypes
<1> HIDE DEF r, g
<1>20. MemoryFits'
  BY <1>1, <1>12, <1>13, <1>14, <1>15, <1>16, <1>17, <1>18, <1>19, Found, MemoryMoves
<1> QED
  BY <1>3, <1>20 DEF IInv

LEMMA ConstructStep ==
    ASSUME IInv, Construct
    PROVE  IInv'
<1> DEFINE t == gets[Current].tracker
<1>1. /\ crash = "no" /\ pc = "construct" /\ pc' = "store" /\ link' = [link EXCEPT ![t] = "up"]
      /\ UNCHANGED <<gets, onConnected, greeted, greeting, relayed, encodeFailed, overlapped>>
      /\ UNCHANGED <<calls, countVars, crash>>
  BY DEF Construct, Running, hostVars
<1>2. Control'
  BY ConstructControl DEF IInv
<1>3. Slot' \subseteq Slot
  BY <1>1 DEF Slot
<1>4. ArgsFit'
  <2>1. onConnected = Current /\ Current' = Current
    BY <1>1 DEF IInv, Control, PcFits, Current
  <2>2. args' = args
    BY <1>1 DEF countVars
  <2> QED
    BY <1>1, <2>1, <2>2 DEF IInv, MemoryFits, ArgsFit
<1> QED
  BY <1>1, <1>2, <1>3, <1>4, MemoryKept DEF IInv

LEMMA StoreStep ==
    ASSUME IInv, Store
    PROVE  IInv'
<1>1. /\ crash = "no" /\ pc = "store" /\ pc' = "bind"
      /\ UNCHANGED <<gets, onConnected, netVars, relayed, encodeFailed, overlapped>>
      /\ UNCHANGED <<calls, countVars, crash>>
  BY DEF Store, Running, hostVars
<1>2. Control'
  BY StoreControl DEF IInv
<1>3. Connecting' = Connecting /\ Slot' = Slot /\ Current' = Current /\ args' = args
  BY <1>1 DEF Slot, Connecting, netVars, Current, countVars
<1>4. ArgsFit'
  BY <1>1, <1>3 DEF IInv, MemoryFits, ArgsFit
<1> QED
  BY <1>1, <1>2, <1>3, <1>4, MemoryKept DEF IInv

LEMMA BindTuiStep ==
    ASSUME IInv, BindTui
    PROVE  IInv'
<1> DEFINE g == Current
           r == ReleaseArgs(Memory, g)
<1>1. /\ crash = "no" /\ pc = "bind" /\ pc' = "idle"
      /\ bound' = bound \cup {gets[g].tracker}
      /\ UNCHANGED <<gets, onConnected, onConnectionFailed, netInterfaces, netVars,
                     relayed, encodeFailed, overlapped>>
  BY DEF BindTui, Running, hostVars
<1>2. Becomes(r)
  BY DEF BindTui
<1>3. Control'
  BY <1>1, BindControl DEF IInv
<1>4. g \in DOMAIN gets /\ g \in Gets /\ g' = g
  BY <1>1, CurrentFits DEF IInv, Current
<1>5. UNCHANGED <<link, greeted, greeting>>
  BY <1>1 DEF netVars
<1>6. Connecting' = Connecting /\ Slot' = Slot
  BY <1>1, <1>5 DEF Connecting, Slot
<1>7. ~overlapped => args[g] = 2
  BY <1>1 DEF IInv, MemoryFits, ArgsFit
<1>8. /\ GetsFit /\ Memory \in Mem /\ Memory.crash = "no"
      /\ FreshIn(Memory) /\ OnlyRelayed(Memory, relayed) /\ args \in [Gets -> 0 .. 2]
  BY <1>1, Found
<1>9. Released(Memory, r, g)
  BY <1>4, <1>8, ReleaseArgsFacts
<1>10. ASSUME ~overlapped', ~Silent, relayed' = {} /\ encodeFailed' = {}
       PROVE  r.crash = "no" /\ Backed(r, Slot)
  <2>1. Backed(Memory, Slot)
    BY <1>1, <1>10, Found
  <2>2. gets[g].callback # NoCallback
    BY <1>4, <1>10 DEF Silent
  <2>3. Memory.args[g] > 0
    BY <1>1, <1>7, <1>10, MemoryIs
  <2> QED
    BY <1>4, <1>8, <2>1, <2>2, <2>3, ReleaseBacked
<1> HIDE DEF r
<1>11. /\ r \in Mem /\ r.calls = Memory.calls /\ r.answers = Memory.answers
       /\ r.crash \in {"no", "freed"}
  BY <1>8, <1>9 DEF Released
<1>12. r.crash = "no" => \A h \in Gets : r.args[h] = IF h = g THEN args[h] - 1 ELSE args[h]
  <2> SUFFICES ASSUME r.crash = "no"
               PROVE  \A h \in Gets : r.args[h] = IF h = g THEN args[h] - 1 ELSE args[h]
    OBVIOUS
  <2>1. Moved(Memory.args, r.args, g, -1)
    BY <1>9 DEF Released
  <2> QED
    <3>1. \A h \in Gets : r.args[h] = IF h = g THEN Memory.args[h] - 1 ELSE Memory.args[h]
      BY <1>4, <1>8, <2>1, ArgsReleased
    <3> QED
      BY <3>1, MemoryIs
<1>13. FreshIn(r) /\ OnlyRelayed(r, relayed)
  <2>1. \A h \in Gets : h > Len(gets) => h # g
    <3>1. \A h \in Gets : h \in Nat
      BY DEF Gets
    <3> QED
      BY <1>4, <1>8, <3>1, GetsFacts
  <2> HIDE DEF g
  <2> QED
    BY <1>8, <1>11, <1>12, <2>1, MemoryIs DEF FreshIn, OnlyRelayed
<1>14. ASSUME ~overlapped PROVE OnceIn(r, encodeFailed) /\ AnsweredIn(r, encodeFailed)
  <2>1. OnceIn(Memory, encodeFailed) /\ AnsweredIn(Memory, encodeFailed)
    BY <1>1, <1>14, Found
  <2>2. \A h \in Gets : Owed(r, h) = Owed(Memory, h)
    BY <1>11 DEF Owed, Out
  <2>3. r.crash = "no" => \A h \in Gets : r.args[h] > 0 => Memory.args[h] > 0
    BY <1>7, <1>12, <1>14, MemoryIs
  <2> QED
    BY <1>7, <1>8, <1>11, <1>12, <1>14, <2>1, <2>2, <2>3, MemoryIs
       DEF OnceIn, OneOwed, AnsweredIn
<1>15. Becomes(r)
  BY <1>2 DEF r
<1>16. ArgsFit'
  <2> SUFFICES ASSUME crash' = "no" PROVE ArgsFit'
    BY DEF ArgsFit
  <2>1. \A h \in Gets : args'[h] = IF h = g THEN args[h] - 1 ELSE args[h]
    BY <1>12, <1>15 DEF Becomes
  <2>2. \A h \in Gets : args[h] = 2 => h = g
    BY <1>1 DEF IInv, MemoryFits, ArgsFit
  <2>3. \A h \in Gets : args[h] \in 0 .. 2
    BY <1>8
  <2>4. \A h \in Gets : args'[h] # 2
    <3>1. TAKE h \in Gets
    <3> QED
      BY <2>1, <2>2, <2>3
  <2>5. ~overlapped' /\ Connecting' # {} => args'[onConnected'] > 0
    <3>1. SUFFICES ASSUME ~overlapped PROVE args'[onConnected] > 0
      BY <1>1, <1>6
    <3>2. onConnected = g
      BY <1>1 DEF IInv, Control, PcFits
    <3> QED
      BY <1>4, <1>7, <2>1, <3>1, <3>2
  <2> QED
    BY <1>1, <2>4, <2>5 DEF ArgsFit
<1> HIDE DEF g
<1>17. MemoryFits'
  BY <1>1, <1>6, <1>10, <1>11, <1>13, <1>14, <1>15, <1>16, Found, MemoryMoves
<1> QED
  BY <1>3, <1>17 DEF IInv

LEMMA PlaceGetStep ==
    ASSUME IInv, NEW t \in Trackers, NEW c \in Callbacks \cup {NoCallback},
           PlaceGet(t, c)
    PROVE  IInv'
<1> DEFINE n == Len(gets) + 1
           e == [tracker |-> t, callback |-> c]
           u == <<n, "args">>
<1>1. /\ crash = "no" /\ pc = "idle" /\ pc' = "get"
      /\ Len(gets) < MaxGets
      /\ gets' = Append(gets, e)
      /\ args' = [args EXCEPT ![n] = 1]
      /\ UNCHANGED <<onConnected, link, greeted, greeting, calls, answers, relayed,
                     encodeFailed, overlapped>>
  BY DEF PlaceGet, Running, netVars, hostVars
<1>2. \/ crash' = "freed" /\ refs' = refs /\ c \in Held /\ refs[c] = 0
      \/ crash' = "no" /\ c = NoCallback /\ refs' = refs
      \/ /\ crash' = "no" /\ c # NoCallback /\ refs' = [refs EXCEPT ![c] = @ + 1]
         /\ ~(c \in Held /\ refs[c] = 0)
  BY <1>1 DEF PlaceGet
<1>3. Control'
  BY PlaceGetControl DEF IInv
<1>4. gets \in Seq(Get) /\ e \in Get
  BY DEF IInv, Control, ControlTypes, Get
<1>5. /\ Len(gets) \in Nat
      /\ Len(gets') = Len(gets) + 1 /\ gets'[n] = e
      /\ DOMAIN gets = 1 .. Len(gets) /\ DOMAIN gets' = 1 .. Len(gets) + 1
      /\ \A i \in 1 .. Len(gets) : gets'[i] = gets[i]
  <2> HIDE DEF e
  <2> QED
    BY <1>1, <1>4, Placing
<1>6. n \in Gets /\ n \notin DOMAIN gets /\ n \in 0 .. MaxGets /\ n # 0 /\ n > Len(gets)
      /\ Current' = n
  BY <1>1, <1>5, ClientGetAssumption DEF Gets, Current
<1>7. /\ GetsFit /\ Memory \in Mem /\ Memory.crash = "no"
      /\ relayed \subseteq DOMAIN gets /\ encodeFailed \subseteq DOMAIN gets
      /\ FreshIn(Memory) /\ OnlyRelayed(Memory, relayed) /\ args \in [Gets -> 0 .. 2]
  BY <1>1, Found
<1>8. calls[n] = NoCalls /\ args[n] = 0 /\ answers[n] = 0
  BY <1>6, <1>7, MemoryIs DEF FreshIn
<1>9. Connecting' = Connecting /\ Slot' = Slot
  <2>1. Connecting' = Connecting
    BY <1>1 DEF Connecting
  <2> QED
    BY <1>1, <2>1 DEF Slot
<1>10. /\ calls \in [Gets -> Calls] /\ refs \in [Callbacks -> Nat]
       /\ answers \in [Gets -> Nat] /\ crash' \in Crashes /\ c \in Callbacks \cup {NoCallback}
  BY <1>2, <1>7, MemoryIs DEF Mem, Crashes
<1>11. (Memory \in Mem)'
  <2>1. [args EXCEPT ![n] = 1] \in [Gets -> 0 .. 2]
    BY <1>7, 1 \in 0 .. 2, ExceptType
  <2>2. refs' \in [Callbacks -> Nat]
    <3>1. c \in Callbacks => refs[c] + 1 \in Nat
      BY <1>10
    <3>2. c # NoCallback => [refs EXCEPT ![c] = @ + 1] \in [Callbacks -> Nat]
      BY <1>10, <3>1, ExceptType
    <3> QED
      BY <1>2, <1>10, <3>2
  <2> QED
    BY <1>1, <1>10, <2>1, <2>2 DEF Memory, Mem, Calls
<1> HIDE DEF n, e
<1>12. \A g \in Gets : args'[g] = IF g = n THEN 1 ELSE args[g]
  BY <1>1, <1>7
<1>13. Memory'.crash = crash' /\ Memory'.args = args' /\ Memory'.calls = calls
       /\ Memory'.answers = answers
  BY <1>1 DEF Memory
<1>14. Fresh'
  <2> SUFFICES ASSUME NEW g \in Gets, g > Len(gets')
               PROVE  calls[g] = NoCalls /\ args'[g] = 0 /\ answers[g] = 0
    BY <1>13 DEF Fresh, FreshIn
  <2>1. g \in Nat
    BY DEF Gets
  <2>2. g > Len(gets) /\ g # n
    BY <1>5, <2>1 DEF n
  <2> QED
    BY <1>7, <1>12, <2>2, MemoryIs DEF FreshIn
<1>15. Relayed' /\ (relayed \subseteq DOMAIN gets /\ encodeFailed \subseteq DOMAIN gets)'
  <2>1. Relayed'
    BY <1>1, <1>7, <1>13, MemoryIs DEF Relayed, OnlyRelayed
  <2> QED
    BY <1>1, <1>5, <1>7, <2>1
<1>16. ArgsFit'
  <2>1. \A g \in Gets : args[g] # 2
    BY <1>1 DEF IInv, MemoryFits, ArgsFit
  <2>2. args'[n] = 1 /\ \A g \in Gets : args'[g] # 2
    BY <1>6, <1>12, <2>1
  <2>3. ~overlapped' /\ Connecting' # {} => args'[onConnected'] > 0
    <3>1. SUFFICES ASSUME ~overlapped, Connecting # {} PROVE args'[onConnected] > 0
      BY <1>1, <1>9
    <3>2. args[onConnected] > 0
      BY <1>1, <3>1 DEF IInv, MemoryFits, ArgsFit
    <3>3. onConnected \in Gets /\ onConnected \in DOMAIN gets
      BY <3>1, CurrentFits DEF IInv, Control, LinkFits, Connecting
    <3> QED
      BY <1>6, <1>12, <3>2, <3>3
  <2> QED
    BY <1>1, <1>6, <2>2, <2>3 DEF ArgsFit
<1>17. Once'
  <2> SUFFICES ASSUME ~overlapped, NEW g \in Gets
               PROVE  OneOwed(Memory', g, encodeFailed)
    BY <1>1, <1>13 DEF Once, OnceIn, OneOwed, Owed, Out
  <2>1. Owed(Memory', g) = Owed(Memory, g)
    BY <1>13, MemoryIs DEF Owed, Out
  <2>2. OneOwed(Memory, g, encodeFailed)
    BY <1>1, <1>7, Found DEF OnceIn
  <2>3. Owed(Memory, n) = 0
    BY <1>8, NoCallsFacts, MemoryIs DEF Owed, Out
  <2>4. n \notin encodeFailed
    BY <1>6, <1>7
  <2> QED
    BY <1>12, <1>13, <2>1, <2>2, <2>3, <2>4, MemoryIs DEF OneOwed, Allowed
<1>18. AnsweredOnce'
  BY <1>1 DEF IInv, MemoryFits, AnsweredOnce, MayBeAnswered
<1>19. Silent' => Silent \/ c = NoCallback
  BY <1>5 DEF Silent, n, e
<1>20. Silent \/ c = NoCallback => Silent'
  BY <1>5, <1>6 DEF Silent, n, e
<1>21. ASSUME ~overlapped, ~Silent, relayed = {} /\ encodeFailed = {}, c # NoCallback, c \in Held
       PROVE  refs[c] # 0
  <2> DEFINE v == <<0, "held">>
  <2>1. Backed(Memory, Slot) /\ c \in Callbacks
    BY <1>1, <1>10, <1>21, Found
  <2>2. v \in Needs(Memory, Slot, c)
    BY <1>6, <1>21, ClientGetAssumption DEF Needs, Needed, Uses
  <2>3. Memory.refs[c] \in Nat /\ Memory.refs[c] >= 1
    BY <1>7, <2>1, <2>2, BackedUse
  <2> QED
    BY <2>3, MemoryIs
<1>22. CrashesNamed'
  <2>1. CASE crash' = "no"
    BY <2>1 DEF CrashesNamed
  <2>2. CASE crash' = "freed"
    BY <1>1, <1>2, <1>20, <1>21, <2>2 DEF CrashesNamed
  <2> QED
    BY <1>2, <2>1, <2>2
<1>23. Counted'
  <2>1. SUFFICES ASSUME crash' = "no", ~overlapped, ~Silent', relayed = {} /\ encodeFailed = {}
                 PROVE  Backed(Memory, Slot)'
    BY <1>1 DEF Counted
  <2>2. c # NoCallback /\ ~Silent /\ c \in Callbacks
    BY <1>10, <1>20, <2>1
  <2>3. refs' = [refs EXCEPT ![c] = @ + 1]
    BY <1>2, <2>1, <2>2
  <2>4. Backed(Memory, Slot)
    BY <1>1, <2>1, <2>2, Found
  <2>5. SUFFICES ASSUME NEW d \in Callbacks
                 PROVE  refs'[d] >= Cardinality(Needs(Memory, Slot, d)')
    BY DEF Backed, Memory
  <2>6. /\ IsFiniteSet(Needs(Memory, Slot, d)) /\ Cardinality(Needs(Memory, Slot, d)) \in Nat
        /\ refs[d] \in Nat /\ refs[d] >= Cardinality(Needs(Memory, Slot, d))
    BY <1>10, <2>4, NeedsFinite, MemoryIs DEF Backed
  <2> DEFINE more == Needs(Memory, Slot, d) \cup IF d = c THEN {u} ELSE {}
  <2>7. /\ IsFiniteSet(more)
        /\ Cardinality(more) \in Nat
        /\ Cardinality(more) <= Cardinality(Needs(Memory, Slot, d)) + IF d = c THEN 1 ELSE 0
    <3>1. CASE d = c
      <4>1. /\ IsFiniteSet(more)
            /\ Cardinality(more) = IF u \in Needs(Memory, Slot, d)
                                   THEN Cardinality(Needs(Memory, Slot, d))
                                   ELSE Cardinality(Needs(Memory, Slot, d)) + 1
        BY <2>6, <3>1, FS_AddElement
      <4>2. Cardinality(more) \in Nat
        BY <4>1, FS_CardinalityType
      <4> HIDE DEF more
      <4> QED
        BY <2>6, <3>1, <4>1, <4>2
    <3>2. CASE d # c
      <4>1. more = Needs(Memory, Slot, d)
        BY <3>2
      <4> HIDE DEF more
      <4> QED
        BY <2>6, <3>2, <4>1
    <3> QED
      BY <3>1, <3>2
  <2>8. Needs(Memory, Slot, d)' \in SUBSET more
    <3>1. SUFFICES ASSUME NEW w \in Uses, Needed(Memory, Slot, d, w[1], w[2])'
                   PROVE  w \in more
      BY DEF Needs
    <3>2. CASE w[1] = n
      <4>1. gets'[n].callback = c /\ Out(Memory', n) = 0 /\ args'[n] = 1
        BY <1>5, <1>6, <1>8, <1>12, <1>13, NoCallsFacts DEF Out, e
      <4>2. n \notin Slot'
        <5>1. Slot \subseteq {onConnected} /\ onConnected # n
          BY <1>5, <1>6 DEF Slot, IInv, Control, ControlTypes
        <5> QED
          BY <1>9, <5>1
      <4>3. d = c /\ w[2] = "args"
        BY <1>6, <3>1, <3>2, <4>1, <4>2 DEF Needed, Out
      <4>4. w = u
        BY <3>2, <4>3 DEF Uses
      <4> QED
        BY <4>3, <4>4
    <3>3. CASE w[1] # n
      <4>1. w[1] \in DOMAIN gets' => /\ w[1] \in DOMAIN gets /\ gets'[w[1]] = gets[w[1]]
                                     /\ w[1] \in Gets
        BY <1>5, <1>7, <3>3, GetsFacts DEF n
      <4>2. w[1] \in DOMAIN gets' => /\ Memory'.args[w[1]] = Memory.args[w[1]]
                                     /\ Out(Memory', w[1]) = Out(Memory, w[1])
        BY <1>12, <1>13, <3>3, <4>1, MemoryIs DEF Out
      <4>3. Needed(Memory, Slot, d, w[1], w[2])
        BY <1>9, <3>1, <4>1, <4>2 DEF Needed, Out
      <4> QED
        BY <4>3 DEF Needs
    <3> QED
      BY <3>2, <3>3
  <2> HIDE DEF more
  <2>9. /\ IsFiniteSet(Needs(Memory, Slot, d)')
        /\ Cardinality(Needs(Memory, Slot, d)') <= Cardinality(more)
    BY <2>7, <2>8, FS_Subset
  <2>10. Cardinality(Needs(Memory, Slot, d)') \in Nat
    BY <2>9, FS_CardinalityType
  <2>11. refs'[d] = refs[d] + IF d = c THEN 1 ELSE 0
    BY <1>10, <2>3, <2>6
  <2> QED
    BY <2>6, <2>7, <2>9, <2>10, <2>11
<1> QED
  BY <1>3, <1>11, <1>14, <1>15, <1>16, <1>17, <1>18, <1>22, <1>23 DEF IInv, MemoryFits

\* A net thread or the event loop moves a connection, and the memory is left alone.
LEMMA ConnectionStep ==
    ASSUME IInv, crash = "no", UNCHANGED scriptVars, UNCHANGED <<relayed, encodeFailed>>,
           UNCHANGED <<calls, countVars, crash>>,
           link' \in [Trackers -> {"none", "up", "lost", "closed"}],
           greeting' \subseteq greeted', greeted' \subseteq Trackers,
           \A t \in Trackers : link'[t] = "none" <=> link[t] = "none",
           \A t \in greeted' : link'[t] # "none",
           \A t \in greeting' : link'[t] = "up",
           Connecting' \subseteq Connecting
    PROVE  IInv'
<1>1. Control' /\ Slot' \subseteq Slot
  BY NetControl DEF IInv
<1>2. /\ UNCHANGED <<pc, gets, onConnected, overlapped>> /\ args' = args /\ crash' = crash
      /\ Current' = Current
  BY DEF scriptVars, countVars, Current
<1>3. ArgsFit'
  BY <1>2 DEF IInv, MemoryFits, ArgsFit
<1> QED
  BY <1>1, <1>2, <1>3, MemoryKept DEF IInv

LEMMA LinkTypes ==
    ASSUME IInv
    PROVE  /\ link \in [Trackers -> {"none", "up", "lost", "closed"}]
           /\ greeting \subseteq greeted /\ greeted \subseteq Trackers
           /\ \A t \in greeted : link[t] # "none"
           /\ \A t \in greeting : link[t] = "up"
  BY DEF IInv, Control, ControlTypes, LinkFits

LEMMA NetHandshakeStep ==
    ASSUME IInv, NEW t \in Trackers, NetHandshake(t)
    PROVE  IInv'
<1>1. /\ crash = "no" /\ link[t] = "up" /\ t \notin greeted
      /\ greeted' = greeted \cup {t} /\ greeting' = greeting \cup {t} /\ link' = link
      /\ UNCHANGED scriptVars /\ UNCHANGED <<relayed, encodeFailed>>
      /\ UNCHANGED <<calls, countVars, crash>>
  BY DEF NetHandshake, Running, hostVars
<1>2. Connecting' \subseteq Connecting
  BY <1>1 DEF Connecting
<1> QED
  BY <1>1, <1>2, LinkTypes, ConnectionStep

LEMMA LoseStep ==
    ASSUME IInv, NEW t \in Trackers, Lose(t)
    PROVE  IInv'
<1>1. /\ crash = "no" /\ link[t] = "up" /\ t \notin greeting
      /\ link' = [link EXCEPT ![t] = "lost"]
      /\ greeted' = greeted /\ greeting' = greeting
      /\ UNCHANGED scriptVars /\ UNCHANGED <<relayed, encodeFailed>>
      /\ UNCHANGED <<calls, countVars, crash>>
  BY DEF Lose, Running, hostVars
<1>2. /\ \A u \in Trackers : link'[u] = IF u = t THEN "lost" ELSE link[u]
      /\ link' \in [Trackers -> {"none", "up", "lost", "closed"}]
  BY <1>1, LinkTypes
<1>3. Connecting' \subseteq Connecting
  BY <1>1, <1>2 DEF Connecting
<1> QED
  BY <1>1, <1>2, <1>3, LinkTypes, ConnectionStep

\* The step leaves the script and the connections alone.
LEMMA PollMoves ==
    ASSUME IInv, crash = "no", UNCHANGED <<scriptVars, netVars>>,
           relayed' \subseteq DOMAIN gets, encodeFailed' \subseteq DOMAIN gets,
           relayed' = {} /\ encodeFailed' = {} => relayed = {} /\ encodeFailed = {},
           NEW r \in Mem, NEW g \in DOMAIN gets, Becomes(r), r.args = args,
           r.crash \in {"no", "freed", "no callback"},
           r.crash = "no callback" => gets[g].callback = NoCallback,
           FreshIn(r), OnlyRelayed(r, relayed'),
           ~overlapped => OnceIn(r, encodeFailed') /\ AnsweredIn(r, encodeFailed'),
           relayed' = {} /\ encodeFailed' = {} =>
              \A s : /\ Backed(Memory, s) /\ gets[g].callback # NoCallback
                     /\ Out(Memory, g) <= 1
                     => r.crash = "no" /\ Backed(r, s)
    PROVE  IInv'
<1>1. Control' /\ Slot' = Slot /\ Connecting' = Connecting
  BY KeptControl DEF IInv
<1>2. UNCHANGED <<pc, gets, onConnected, overlapped>> /\ Current' = Current
  BY DEF scriptVars, Current
<1>5. g \in Gets
  BY Found, GetsFacts
<1>6. ASSUME ~overlapped', ~Silent, relayed' = {} /\ encodeFailed' = {}
      PROVE  r.crash = "no" /\ Backed(r, Slot)
  <2>1. Backed(Memory, Slot) /\ Out(Memory, g) <= 1
    BY <1>2, <1>5, <1>6, Found
  <2>2. gets[g].callback # NoCallback
    BY <1>6 DEF Silent
  <2> QED
    BY <1>6, <2>1, <2>2
<1>7. r.crash = "no callback" => Silent
  BY DEF Silent
<1>8. args' = args
  BY DEF Becomes
<1>9. ArgsFit'
  BY <1>1, <1>2, <1>8 DEF IInv, MemoryFits, ArgsFit
<1>10. MemoryFits'
  BY <1>1, <1>2, <1>6, <1>7, <1>9, MemoryMoves
<1> QED
  BY <1>1, <1>10 DEF IInv

\* A call of get g is answered, and no call of its host fails to encode.
LEMMA PollSettles ==
    ASSUME IInv, crash = "no", UNCHANGED <<scriptVars, netVars>>,
           relayed \subseteq relayed', relayed' \subseteq DOMAIN gets,
           encodeFailed' = encodeFailed,
           NEW r, NEW g \in DOMAIN gets, Settles(Memory, r, g), Becomes(r),
           OnlyRelayed(r, relayed'),
           \A s : /\ Backed(Memory, s) /\ gets[g].callback # NoCallback
                  /\ Out(Memory, g) <= 1 /\ relayed' = {}
                  => r.crash = "no" /\ Backed(r, s)
    PROVE  IInv'
<1>1. /\ r \in Mem /\ r.args = args /\ r.crash \in {"no", "freed", "no callback"}
      /\ r.crash = "no callback" => gets[g].callback = NoCallback
  BY Found, MemoryIs DEF Settles
<1>2. FreshIn(r) /\ (~overlapped => /\ OnceIn(r, encodeFailed')
                                  /\ AnsweredIn(r, encodeFailed'))
  BY Found, SettlesFits
<1>3. encodeFailed' \subseteq DOMAIN gets
  BY Found
<1> QED
  BY <1>1, <1>2, <1>3, PollMoves

LEMMA PollTrackerStep ==
    ASSUME IInv, NEW g \in Gets, PollTracker(g)
    PROVE  IInv'
<1>1. /\ crash = "no" /\ calls[g].tracker > 0 /\ UNCHANGED <<scriptVars, netVars>>
  BY DEF PollTracker, Running
<1>2. /\ GetsFit /\ Memory \in Mem /\ Memory.crash = "no"
      /\ relayed \subseteq DOMAIN gets /\ encodeFailed \subseteq DOMAIN gets
      /\ FreshIn(Memory) /\ OnlyRelayed(Memory, relayed)
  BY <1>1, Found
<1>3. g \in DOMAIN gets /\ Memory.calls[g].tracker > 0
  <2>1. calls[g] # NoCalls
    BY <1>1, NoCallsFacts
  <2>2. ~(g > Len(gets))
    BY <1>2, <2>1, MemoryIs DEF FreshIn
  <2> QED
    BY <1>1, <1>2, <2>2, GetsFacts, MemoryIs DEF Gets
<1>4. CASE /\ Becomes(KeyFound(Memory, g)) /\ relayed' = relayed \cup {g}
           /\ encodeFailed' = encodeFailed
  <2> DEFINE r == KeyFound(Memory, g)
  <2>1. Settles(Memory, r, g)
    BY <1>2, <1>3, KeyFoundFacts
  <2> HIDE DEF r
  <2>2. OnlyRelayed(r, relayed')
    BY <1>2, <1>4, <2>1 DEF OnlyRelayed, Settles
  <2>3. Becomes(r) /\ relayed' # {}
    BY <1>4 DEF r
  <2> QED
    BY <1>1, <1>2, <1>3, <1>4, <2>1, <2>2, <2>3, PollSettles
<1>6. CASE /\ Becomes(KeyUnusable(Memory, g)) /\ relayed' = relayed
           /\ encodeFailed' = encodeFailed \cup {g}
  <2> DEFINE r == KeyUnusable(Memory, g)
  <2>1. Unsent(Memory, r, g)
    BY <1>2, <1>3, KeyUnusableFacts
  <2>2. Becomes(r)
    BY <1>6
  <2> HIDE DEF r
  <2>3. /\ FreshIn(r) /\ OnlyRelayed(r, relayed')
        /\ OnceIn(Memory, encodeFailed) =>
              OnceIn(r, encodeFailed') /\ AnsweredIn(r, encodeFailed')
    BY <1>2, <1>3, <1>6, <2>1, UnsentFits
  <2>4. ~overlapped => OnceIn(r, encodeFailed') /\ AnsweredIn(r, encodeFailed')
    BY <1>1, <2>3, Found
  <2>5. /\ r \in Mem /\ r.args = args /\ r.crash \in {"no", "freed", "no callback"}
        /\ r.crash = "no callback" => gets[g].callback = NoCallback
    BY <2>1, MemoryIs DEF Unsent
  <2>6. encodeFailed' \subseteq DOMAIN gets /\ encodeFailed' # {}
    BY <1>2, <1>3, <1>6
  <2>7. ASSUME relayed' = {} /\ encodeFailed' = {} PROVE FALSE
    BY <2>6, <2>7
  <2> QED
    BY <1>1, <1>2, <1>3, <1>6, <2>2, <2>3, <2>4, <2>5, <2>6, <2>7, PollMoves
<1>5. CASE Becomes(KeyRefused(Memory, g)) /\ UNCHANGED <<relayed, encodeFailed>>
  <2> DEFINE r == KeyRefused(Memory, g)
  <2>1. CallAnswered(Memory, r, g)
    BY <1>2, <1>3, KeyRefusedFacts
  <2>2. Becomes(r)
    BY <1>5
  <2> HIDE DEF r
  <2>3. OnlyRelayed(r, relayed')
    BY <1>2, <1>5, <2>1, SettledRelayed
  <2>4. /\ Settles(Memory, r, g)
        /\ \A s : /\ Backed(Memory, s) /\ gets[g].callback # NoCallback
                  /\ Out(Memory, g) <= 1
                  => r.crash = "no" /\ Backed(r, s)
    BY <2>1 DEF CallAnswered
  <2> QED
    BY <1>1, <1>2, <1>3, <1>5, <2>2, <2>3, <2>4, PollSettles
<1> QED
  BY <1>4, <1>5, <1>6 DEF PollTracker, hostVars

LEMMA PollHostStep ==
    ASSUME IInv, NEW g \in Gets, PollHost(g)
    PROVE  IInv'
<1>1. /\ crash = "no" /\ calls[g].host > 0 /\ UNCHANGED <<scriptVars, netVars>>
      /\ relayed' = relayed /\ encodeFailed' = encodeFailed
  BY DEF PollHost, Running, hostVars
<1>2. /\ GetsFit /\ Memory \in Mem /\ Memory.crash = "no"
      /\ relayed \subseteq DOMAIN gets /\ encodeFailed \subseteq DOMAIN gets
      /\ FreshIn(Memory) /\ OnlyRelayed(Memory, relayed)
  BY <1>1, Found
<1>3. g \in DOMAIN gets /\ Memory.calls[g].host > 0
  <2>1. calls[g] # NoCalls
    BY <1>1, NoCallsFacts
  <2>2. ~(g > Len(gets))
    BY <1>2, <2>1, MemoryIs DEF FreshIn
  <2> QED
    BY <1>1, <1>2, <2>2, GetsFacts, MemoryIs DEF Gets
<1> DEFINE r == SiteAnswered(Memory, g)
<1>4. CallAnswered(Memory, r, g)
  BY <1>2, <1>3, SiteAnsweredFacts
<1>5. Becomes(r)
  BY DEF PollHost
<1> HIDE DEF r
<1>6. OnlyRelayed(r, relayed')
  BY <1>1, <1>2, <1>4, SettledRelayed
<1>7. /\ Settles(Memory, r, g)
      /\ \A s : /\ Backed(Memory, s) /\ gets[g].callback # NoCallback
                /\ Out(Memory, g) <= 1
                => r.crash = "no" /\ Backed(r, s)
  BY <1>4 DEF CallAnswered
<1> QED
  BY <1>1, <1>2, <1>3, <1>5, <1>6, <1>7, PollSettles

LEMMA PollClosedStep ==
    ASSUME IInv, NEW t \in Trackers, PollClosed(t)
    PROVE  IInv'
<1>1. /\ crash = "no" /\ t \in netInterfaces /\ t \notin bound
      /\ crash' = "unbound table"
      /\ UNCHANGED <<scriptVars, netVars>>
      /\ UNCHANGED <<relayed, encodeFailed, calls, args, refs, answers>>
  BY DEF PollClosed, Running, countVars, hostVars
<1>2. Control' /\ UNCHANGED <<pc, gets, overlapped>>
  BY <1>1, KeptControl DEF IInv, scriptVars
<1>3. pc = "bind"
  BY <1>1 DEF IInv, Control, PcFits
<1>4. (Memory \in Mem)' /\ Memory'.crash = "unbound table"
  <2>1. Memory \in Mem
    BY <1>1, Found
  <2> QED
    BY <1>1, <2>1 DEF Memory, Mem, Crashes, Calls
<1>5. (relayed \subseteq DOMAIN gets /\ encodeFailed \subseteq DOMAIN gets)'
  BY <1>1, <1>2, Found
<1>6. Fresh' /\ Relayed' /\ ArgsFit' /\ Once' /\ Counted'
  BY <1>1, <1>4 DEF Fresh, FreshIn, Relayed, OnlyRelayed, ArgsFit, Once, OnceIn, Counted
<1>7. CrashesNamed' /\ AnsweredOnce'
  BY <1>1, <1>2, <1>3 DEF CrashesNamed, AnsweredOnce, MayBeAnswered, IInv, MemoryFits
<1> QED
  BY <1>2, <1>4, <1>5, <1>6, <1>7 DEF IInv, MemoryFits

\* A slot is called at most when the get that set it has returned, or another
\* got the slots.
LEMMA SlotCalled ==
    ASSUME IInv, crash = "no", NEW t \in Connecting, t \in bound, ~overlapped
    PROVE  /\ onConnected \in DOMAIN gets /\ onConnected \in Gets
           /\ gets[onConnected].tracker = t /\ Connecting = {t}
           /\ pc \in {"idle", "get"} /\ args[onConnected] = 1
           /\ Slot = {onConnected}
<1>1. t \in Trackers /\ link[t] # "none" /\ t \in netInterfaces
  BY DEF Connecting, IInv, Control, ControlTypes
<1>2. onConnected \in DOMAIN gets /\ onConnected \in Gets
  BY <1>1, CurrentFits DEF IInv, Control, LinkFits
<1>3. gets[onConnected].tracker = t /\ Connecting = {t}
  BY DEF IInv, Control, LinkFits, Owner
<1>4. pc \in {"idle", "get"}
  <2>1. pc \in {"construct", "store", "bind"} => gets[Current].tracker = t
    BY <1>3 DEF IInv, Control, PcFits
  <2>2. pc # "construct" /\ pc # "store" /\ pc # "bind"
    BY <1>1, <2>1 DEF IInv, Control, PcFits
  <2> QED
    BY <2>2 DEF IInv, Control, ControlTypes
<1>5. args[onConnected] = 1
  <2>1. args[onConnected] > 0 /\ args[onConnected] # 2
    BY <1>2, <1>4 DEF IInv, MemoryFits, ArgsFit
  <2>2. args[onConnected] \in 0 .. 2
    BY <1>2, Found
  <2> QED
    BY <2>1, <2>2
<1>6. Slot = {onConnected}
  BY DEF Slot
<1> QED
  BY <1>2, <1>3, <1>4, <1>5, <1>6

\* What is left of the arguments once the slots are called, for get g.
LEMMA SlotArgs ==
    ASSUME IInv, crash = "no", UNCHANGED <<pc, gets, onConnected, overlapped>>,
           NEW g \in DOMAIN gets, NEW r, Delivered(Memory, r, g), NEW t \in Connecting,
           t \in bound, Connecting' \subseteq Connecting \ {t},
           pc = "get" => g # Current,
           crash' = "no" => r.crash = "no" /\ args' = r.args
    PROVE  ArgsFit'
<1> SUFFICES ASSUME crash' = "no" PROVE ArgsFit'
  BY DEF ArgsFit
<1>1. r.crash = "no" /\ args' = r.args /\ Memory \in Mem /\ g \in Gets
      /\ args \in [Gets -> 0 .. 2] /\ Current' = Current
  BY Found, GetsFacts DEF Current
<1>2. Moved(Memory.args, r.args, g, -1)
  BY <1>1 DEF Delivered
<1>3. \A h \in Gets : args'[h] = IF h = g THEN args[h] - 1 ELSE args[h]
  <2>1. \A h \in Gets : r.args[h] = IF h = g THEN Memory.args[h] - 1 ELSE Memory.args[h]
    BY <1>1, <1>2, ArgsReleased
  <2> QED
    BY <1>1, <2>1, MemoryIs
<1>4. \A h \in Gets : args'[h] = 2 => args[h] = 2
  <2>1. TAKE h \in Gets
  <2>2. args[h] \in 0 .. 2
    BY <1>1
  <2> QED
    BY <1>3, <2>2
<1>5. \A h \in Gets : args'[h] = 2 => pc \in {"construct", "store", "bind"} /\ h = Current
  BY <1>4 DEF IInv, MemoryFits, ArgsFit
<1>6. pc = "get" => args'[Current] = 1
  <2>1. pc = "get" => Current \in Gets /\ args[Current] = 1
    BY CurrentFits DEF IInv, MemoryFits, ArgsFit
  <2> QED
    BY <1>3, <2>1
<1>7. ~overlapped => pc \in {"idle", "get"} /\ Connecting' = {}
  BY SlotCalled
<1> QED
  BY <1>1, <1>5, <1>6, <1>7 DEF ArgsFit

LEMMA NetOnConnectedStep ==
    ASSUME IInv, NEW t \in Trackers, NetOnConnected(t)
    PROVE  IInv'
<1> DEFINE g == onConnected
<1>1. /\ crash = "no" /\ t \in greeting /\ greeting' = greeting \ {t}
      /\ link' = link /\ greeted' = greeted /\ relayed' = relayed /\ encodeFailed' = encodeFailed
      /\ UNCHANGED scriptVars
  BY DEF NetOnConnected, Running, hostVars
<1>2. t \in Connecting /\ Connecting' \subseteq Connecting \ {t} /\ t \in greeted
  BY <1>1, LinkTypes DEF Connecting
<1>3. Control' /\ Slot' \subseteq Slot
  BY <1>1, <1>2, LinkTypes, NetControl DEF IInv
<1>4. CASE t \notin bound
  <2>1. UNCHANGED <<calls, countVars, crash>>
    BY <1>4 DEF NetOnConnected
  <2> QED
    BY <1>1, <1>2, <2>1, LinkTypes, ConnectionStep
<1>5. CASE t \in bound
  <2>1. PICK r \in OnConnected(Memory, g) : Becomes(r)
    BY <1>5 DEF NetOnConnected
  <2>2. UNCHANGED <<pc, gets, onConnected, overlapped>>
    BY <1>1 DEF scriptVars
  <2>3. g \in DOMAIN gets /\ g \in Gets
    BY <1>1, CurrentFits, LinkTypes DEF IInv, Control, LinkFits
  <2>4. /\ GetsFit /\ Memory \in Mem /\ Memory.crash = "no"
        /\ relayed \subseteq DOMAIN gets /\ encodeFailed \subseteq DOMAIN gets
        /\ FreshIn(Memory) /\ OnlyRelayed(Memory, relayed)
    BY <1>1, Found
  <2>5. /\ Delivered(Memory, r, g)
        /\ \A s : /\ Backed(Memory, s) /\ g \in s /\ Memory.args[g] > 0
                  /\ gets[g].callback # NoCallback
                  /\ gets[g].tracker \in netInterfaces
                  => r.crash = "no" /\ Backed(r, s \ {g})
    BY <2>1, <2>3, <2>4, OnConnectedFacts
  <2>6. r \in Mem /\ r.crash \in {"no", "freed", "no callback", "null interface"}
    BY <2>5 DEF Delivered
  <2>7. ~overlapped => /\ gets[g].tracker \in netInterfaces /\ Connecting' = {}
                       /\ pc \in {"idle", "get"} /\ Memory.args[g] = 1 /\ Slot = {g}
    <3>1. bound \subseteq netInterfaces
      BY DEF IInv, Control, ControlTypes
    <3> QED
      BY <1>1, <1>2, <1>5, <3>1, SlotCalled, MemoryIs
  <2>8. FreshIn(r) /\ OnlyRelayed(r, relayed')
    BY <1>1, <2>3, <2>4, <2>5, DeliveredFits
  <2>9. ASSUME ~overlapped' PROVE OnceIn(r, encodeFailed) /\ AnsweredIn(r, encodeFailed)
    <3>1. OnceIn(Memory, encodeFailed) /\ Memory.args[g] <= 1 /\ Memory.args[g] > 0
      BY <1>1, <2>2, <2>7, <2>9, Found
    <3> QED
      BY <2>3, <2>4, <2>5, <3>1, DeliveredFits
  <2>10. ASSUME ~overlapped', ~Silent, relayed' = {} /\ encodeFailed' = {}
         PROVE  r.crash = "no" /\ Backed(r, Slot')
    <3>1. Backed(Memory, Slot) /\ Slot = {g} /\ Memory.args[g] > 0
      BY <1>1, <2>2, <2>7, <2>10, Found
    <3>2. gets[g].callback # NoCallback
      BY <2>3, <2>10 DEF Silent
    <3>3. r.crash = "no" /\ Backed(r, Slot \ {g})
      BY <2>2, <2>5, <2>7, <2>10, <3>1, <3>2
    <3>4. Slot' = Slot \ {g}
      BY <2>2, <2>7, <2>10, <3>1 DEF Slot
    <3> QED
      BY <3>3, <3>4
  <2>11. r.crash = "null interface" => overlapped'
    BY <2>2, <2>5, <2>7 DEF Delivered, IInv, Control, ControlTypes
  <2>12. r.crash = "no callback" => Silent
    BY <2>3, <2>5 DEF Delivered, Silent
  <2>13. ArgsFit'
    <3>1. crash' = "no" => r.crash = "no" /\ args' = r.args
      BY <2>1 DEF Becomes
    <3>2. pc = "get" => g # Current
      BY DEF IInv, Control, PcFits
    <3> QED
      BY <1>1, <1>2, <1>5, <2>2, <2>3, <2>5, <3>1, <3>2, SlotArgs
  <2>14. MemoryFits'
    BY <1>1, <2>1, <2>2, <2>4, <2>6, <2>8, <2>9, <2>10, <2>11, <2>12, <2>13, MemoryMoves
  <2> QED
    BY <1>3, <2>14 DEF IInv
<1> QED
  BY <1>4, <1>5

LEMMA PollDisconnectedStep ==
    ASSUME IInv, NEW t \in Trackers, PollDisconnected(t)
    PROVE  IInv'
<1> DEFINE g == onConnectionFailed
           m == IF CallsFailedSlot(t) THEN OnConnectionFailed(Memory, g) ELSE Memory
           r == FailCalls(m, t)
<1>1. /\ crash = "no" /\ link[t] = "lost"
      /\ link' = [link EXCEPT ![t] = "closed"]
      /\ greeted' = greeted /\ greeting' = greeting
      /\ relayed' = relayed /\ encodeFailed' = encodeFailed
      /\ UNCHANGED scriptVars
  BY DEF PollDisconnected, Running, hostVars
<1>2. Becomes(r)
  BY DEF PollDisconnected
<1>3. UNCHANGED <<pc, gets, onConnected, overlapped>> /\ Current' = Current
  BY <1>1 DEF scriptVars, Current
<1>4. /\ \A u \in Trackers : link'[u] = IF u = t THEN "closed" ELSE link[u]
      /\ link' \in [Trackers -> {"none", "up", "lost", "closed"}]
      /\ t \notin greeting
  BY <1>1, LinkTypes
<1>5. Connecting' \subseteq Connecting \ {t}
  BY <1>1, <1>4 DEF Connecting
<1>6. Control' /\ Slot' \subseteq Slot
  BY <1>1, <1>4, <1>5, LinkTypes, NetControl DEF IInv
<1>7. /\ GetsFit /\ Memory \in Mem /\ Memory.crash = "no"
      /\ relayed \subseteq DOMAIN gets /\ encodeFailed \subseteq DOMAIN gets
      /\ FreshIn(Memory) /\ OnlyRelayed(Memory, relayed) /\ Memory.calls = calls
  BY <1>1, Found, MemoryIs
<1>8. ASSUME NEW n \in Mem, n.calls = calls, r = FailCalls(n, t), FreshIn(n),
             OnlyRelayed(n, relayed),
             n.crash \in {"no", "freed", "no callback"},
             n.crash = "no callback" => Silent,
             ~overlapped => /\ OnceIn(n, encodeFailed)
                            /\ n.crash # "no" => AnsweredIn(n, encodeFailed),
             ~overlapped /\ ~Silent /\ relayed = {} /\ encodeFailed = {}
                => n.crash = "no" /\ Backed(n, Slot'),
             crash' = "no" /\ n.crash = "no" /\ args' = n.args => ArgsFit'
      PROVE  MemoryFits'
  <2> HIDE DEF r
  <2>1. Failing(n, r, Len(gets)) /\ FailingBacked(n, r)
    BY <1>7, <1>8, FailCallsFacts
  <2>2. /\ r \in Mem /\ r.args = n.args
        /\ r.crash \in {"no", "freed", "no callback"}
        /\ r.crash = "no callback" => Silent
        /\ r.crash = "no" => n.crash = "no"
    BY <1>8, <2>1 DEF Failing
  <2>3. FreshIn(r) /\ OnlyRelayed(r, relayed)
    BY <1>7, <1>8, <2>1, FailingFits
  <2>4. ASSUME ~overlapped PROVE OnceIn(r, encodeFailed) /\ AnsweredIn(r, encodeFailed)
    BY <1>7, <1>8, <2>1, <2>4, FailingFits
  <2>5. ASSUME ~overlapped, ~Silent, relayed = {} /\ encodeFailed = {}
        PROVE  r.crash = "no" /\ Backed(r, Slot')
    <3>1. n.crash = "no" /\ Backed(n, Slot')
      BY <1>8, <2>5
    <3>2. OnceIn(n, encodeFailed)
      BY <1>8, <2>5
    <3>3. \A h \in Gets : Out(n, h) <= 1
      BY <1>8, <2>5, <3>1, <3>2, OnceAnswered
    <3> QED
      BY <2>1, <2>5, <3>1, <3>3 DEF FailingBacked
  <2>6. Becomes(r)
    BY <1>2
  <2>7. ArgsFit'
    <3>1. crash' = "no" => n.crash = "no" /\ args' = n.args
      BY <2>2, <2>6 DEF Becomes
    <3>2. crash' # "no" => ArgsFit'
      BY DEF ArgsFit
    <3> QED
      BY <1>8, <3>1, <3>2
  <2> QED
    BY <1>1, <1>3, <1>7, <2>2, <2>3, <2>4, <2>5, <2>6, <2>7, MemoryMoves
<1>9. CASE ~CallsFailedSlot(t)
  <2>1. r = FailCalls(Memory, t)
    BY <1>9
  <2>2. ~overlapped => OnceIn(Memory, encodeFailed)
    BY <1>1, Found
  <2>3. ~overlapped /\ ~Silent /\ relayed = {} /\ encodeFailed = {} => Backed(Memory, Slot')
    BY <1>1, <1>6, <1>7, Found, BackedShrinks
  <2>4. crash' = "no" /\ args' = Memory.args => ArgsFit'
    <3>1. SUFFICES ASSUME args' = args PROVE ArgsFit'
      BY MemoryIs
    <3>2. Connecting' \subseteq Connecting
      BY <1>5
    <3> QED
      BY <1>1, <1>3, <3>1, <3>2 DEF IInv, MemoryFits, ArgsFit
  <2> HIDE DEF r
  <2>5. MemoryFits'
    BY <1>7, <1>8, <2>1, <2>2, <2>3, <2>4
  <2> QED
    BY <1>6, <2>5 DEF IInv
<1>10. CASE CallsFailedSlot(t)
  <2> DEFINE n == OnConnectionFailed(Memory, g)
  <2>1. r = FailCalls(n, t)
    BY <1>10
  <2>2. /\ t \in Connecting /\ t \in bound /\ g \in DOMAIN gets /\ g \in Gets
    BY <1>1, <1>10, CurrentFits DEF CallsFailedSlot, Connecting, IInv
  <2>3. /\ Delivered(Memory, n, g) /\ n.crash # "null interface"
        /\ n.calls = Memory.calls /\ (n.crash # "no" => n.answers = Memory.answers)
        /\ \A s : /\ Backed(Memory, s) /\ g \in s /\ Memory.args[g] > 0
                  /\ gets[g].callback # NoCallback
                  => n.crash = "no" /\ Backed(n, s \ {g})
    BY <1>7, <2>2, OnConnectionFailedFacts
  <2> HIDE DEF n, r
  <2>4. /\ n \in Mem /\ n.calls = calls
        /\ n.crash \in {"no", "freed", "no callback"}
        /\ n.crash = "no callback" => Silent
    BY <1>7, <2>2, <2>3 DEF Delivered, Silent
  <2>5. FreshIn(n) /\ OnlyRelayed(n, relayed)
    BY <1>7, <2>2, <2>3, DeliveredFits
  <2>6. ~overlapped => OnceIn(n, encodeFailed) /\ (n.crash # "no" => AnsweredIn(n, encodeFailed))
    <3>1. SUFFICES ASSUME ~overlapped
                   PROVE  /\ OnceIn(n, encodeFailed)
                          /\ n.crash # "no" => AnsweredIn(n, encodeFailed)
      OBVIOUS
    <3>2. OnceIn(Memory, encodeFailed) /\ AnsweredIn(Memory, encodeFailed)
      BY <1>1, <3>1, Found
    <3>3. Memory.args[g] <= 1
      <4>1. args[g] # 2
        BY <1>1, <2>2, <3>1, SlotCalled DEF IInv, MemoryFits, ArgsFit
      <4>2. args[g] \in 0 .. 2
        BY <1>1, <2>2, Found
      <4> QED
        BY <4>1, <4>2, MemoryIs
    <3>4. OnceIn(n, encodeFailed)
      BY <1>7, <2>2, <2>3, <3>2, <3>3, DeliveredFits
    <3>5. n.crash # "no" => AnsweredIn(n, encodeFailed)
      BY <2>3, <3>2 DEF AnsweredIn
    <3> QED
      BY <3>4, <3>5
  <2>7. ASSUME ~overlapped, ~Silent, relayed = {} /\ encodeFailed = {}
        PROVE  n.crash = "no" /\ Backed(n, Slot')
    <3>1. g = onConnected
      BY <2>7 DEF IInv, Control, FailedSlot
    <3>2. Backed(Memory, Slot)
      BY <1>1, <2>7, Found
    <3>3. Slot = {g} /\ Memory.args[g] > 0 /\ Connecting = {t} /\ pc \in {"idle", "get"}
      BY <1>1, <2>2, <2>7, <3>1, SlotCalled, MemoryIs
    <3>4. gets[g].callback # NoCallback
      BY <2>2, <2>7 DEF Silent
    <3>5. n.crash = "no" /\ Backed(n, Slot \ {g})
      BY <2>3, <3>2, <3>3, <3>4
    <3>6. Slot' = {}
      BY <1>3, <1>5, <3>3 DEF Slot
    <3>7. Slot \ {g} = {}
      BY <3>3
    <3> QED
      BY <3>5, <3>6, <3>7
  <2>8. crash' = "no" /\ n.crash = "no" /\ args' = n.args => ArgsFit'
    <3>1. pc = "get" => g # Current
      BY DEF IInv, Control, PcFits
    <3> QED
      BY <1>1, <1>3, <1>5, <2>2, <2>3, <3>1, SlotArgs
  <2>9. MemoryFits'
    BY <1>8, <2>1, <2>4, <2>5, <2>6, <2>7, <2>8
  <2> QED
    BY <1>6, <2>9 DEF IInv
<1> QED
  BY <1>9, <1>10

-----------------------------------------------------------------------------
LEMMA InitFits == Init => IInv
<1> SUFFICES ASSUME Init PROVE IInv
  OBVIOUS
<1> USE DEF Init
<1>1. MaxGets \in Nat /\ Held \subseteq Callbacks
  BY ClientGetAssumption
<1>2. Len(gets) = 0 /\ gets \in Seq(Get) /\ DOMAIN gets = {}
  OBVIOUS
<1>3. Connecting = {}
  BY DEF Connecting
<1>4. Control
  <2>1. \A t \in Trackers : link[t] = "none"
    OBVIOUS
  <2>2. ControlTypes
    <3>1. pc \in {"idle", "get", "construct", "store", "bind"} /\ overlapped \in BOOLEAN
      OBVIOUS
    <3>2. onConnected \in 0 .. Len(gets) /\ onConnectionFailed \in 0 .. Len(gets)
      BY <1>2 DEF NoGet
    <3>3. link \in [Trackers -> {"none", "up", "lost", "closed"}]
      OBVIOUS
    <3>4. /\ bound = {} /\ netInterfaces = {} /\ greeting = {} /\ greeted = {}
      OBVIOUS
    <3> QED
      BY <1>2, <3>1, <3>2, <3>3, <3>4 DEF ControlTypes
  <2>3. PcFits
    BY <1>1, <1>2, <2>1 DEF PcFits
  <2>4. LinkFits
    BY <1>3, <2>1 DEF LinkFits
  <2>5. FailedSlot
    BY DEF FailedSlot
  <2> QED
    BY <2>2, <2>3, <2>4, <2>5 DEF Control
<1>5. Memory \in Mem
  BY NoCallsFacts DEF Memory, Mem, Crashes
<1>6. Fresh /\ Relayed
  BY NoCallsFacts, MemoryIs DEF Fresh, FreshIn, Relayed, OnlyRelayed
<1>7. ArgsFit
  BY <1>3 DEF ArgsFit
<1>8. Once /\ AnsweredOnce
  BY NoCallsFacts, MemoryIs DEF Once, OnceIn, OneOwed, Owed, Out, Allowed,
     AnsweredOnce, MayBeAnswered
<1>9. Counted
  <2>1. Slot = {}
    BY <1>3 DEF Slot
  <2>2. SUFFICES ASSUME NEW c \in Callbacks
                 PROVE  refs[c] >= Cardinality(Needs(Memory, {}, c))
    BY <2>1, MemoryIs DEF Counted, Backed
  <2> DEFINE held == <<0, "held">>
  <2>3. Needs(Memory, {}, c) \subseteq IF c \in Held THEN {held} ELSE {}
    BY <1>2 DEF Needs, Needed, Uses
  <2>4. IsFiniteSet({held}) /\ Cardinality({held}) = 1 /\ Cardinality({}) = 0
    BY FS_Singleton, FS_EmptySet
  <2>5. Cardinality(Needs(Memory, {}, c)) \in Nat
    BY NeedsFinite
  <2> HIDE DEF held
  <2>6. CASE c \in Held
    <3>1. Cardinality(Needs(Memory, {}, c)) <= 1
      BY <2>3, <2>4, <2>6, FS_Subset
    <3>2. refs[c] = 1
      BY <2>6
    <3> QED
      BY <2>5, <3>1, <3>2
  <2>7. CASE c \notin Held
    <3>1. Needs(Memory, {}, c) = {}
      BY <2>3, <2>7
    <3>2. refs[c] = 0
      BY <2>7
    <3>3. Cardinality(Needs(Memory, {}, c)) = 0
      BY <2>4, <3>1
    <3> QED
      BY <3>2, <3>3
  <2> QED
    BY <2>6, <2>7
<1>10. CrashesNamed /\ relayed \subseteq DOMAIN gets /\ encodeFailed \subseteq DOMAIN gets
  BY DEF CrashesNamed
<1> QED
  BY <1>4, <1>5, <1>6, <1>7, <1>8, <1>9, <1>10 DEF IInv, MemoryFits

LEMMA StutterFits ==
    ASSUME IInv, UNCHANGED vars
    PROVE  IInv'
<1>1. UNCHANGED <<scriptVars, netVars>> /\ UNCHANGED <<calls, countVars, crash>>
      /\ UNCHANGED <<relayed, encodeFailed>>
  BY DEF vars, hostVars
<1>2. Control' /\ Slot' = Slot /\ Connecting' = Connecting
  BY <1>1, KeptControl DEF IInv
<1>3. /\ UNCHANGED <<pc, gets, onConnected, overlapped>> /\ UNCHANGED <<args, answers>>
      /\ Current' = Current /\ Memory' = Memory
  BY <1>1 DEF scriptVars, countVars, Current, Memory
<1>4. ArgsFit'
  BY <1>1, <1>2, <1>3 DEF IInv, MemoryFits, ArgsFit
<1>5. CASE crash = "no"
  BY <1>1, <1>2, <1>3, <1>4, <1>5, MemoryKept DEF IInv
<1>6. CASE crash # "no"
  <2>1. Memory'.crash # "no" /\ crash' # "no"
    BY <1>1, <1>3, <1>6, MemoryIs
  <2>2. Fresh' /\ Relayed' /\ Once' /\ Counted'
    BY <2>1 DEF Fresh, FreshIn, Relayed, OnlyRelayed, Once, OnceIn, Counted
  <2>3. Silent' = Silent
    BY <1>3 DEF Silent
  <2>4. /\ CrashesNamed' /\ AnsweredOnce'
        /\ (relayed \subseteq DOMAIN gets /\ encodeFailed \subseteq DOMAIN gets)'
    BY <1>1, <1>3, <2>3 DEF CrashesNamed, AnsweredOnce, MayBeAnswered, IInv, MemoryFits
  <2>5. (Memory \in Mem)'
    BY <1>3, FitsNext DEF IInv, MemoryFits
  <2> QED
    BY <1>2, <1>4, <2>2, <2>4, <2>5 DEF IInv, MemoryFits
<1> QED
  BY <1>5, <1>6

LEMMA NextFits == IInv /\ [Next]_vars => IInv'
<1> SUFFICES ASSUME IInv, [Next]_vars PROVE IInv'
  OBVIOUS
<1>1. ASSUME NEW t \in Trackers, NEW c \in Callbacks \cup {NoCallback}, PlaceGet(t, c)
      PROVE  IInv'
  BY <1>1, PlaceGetStep
<1>2. CASE ScriptStep
  BY <1>2, GetFromKnownStep, TakeSlotsStep, ConstructStep, StoreStep, BindTuiStep
     DEF ScriptStep
<1>3. ASSUME NEW t \in Trackers, NetStep(t) \/ Lose(t) \/ PollClosed(t) PROVE IInv'
  BY <1>3, NetHandshakeStep, NetOnConnectedStep, LoseStep, PollClosedStep DEF NetStep
<1>4. CASE LoopStep
  BY <1>4, PollDisconnectedStep, PollTrackerStep DEF LoopStep
<1>5. ASSUME NEW g \in Gets, PollHost(g) PROVE IInv'
  BY <1>5, PollHostStep
<1>6. CASE UNCHANGED vars
  BY <1>6, StutterFits
<1> QED
  BY <1>1, <1>2, <1>3, <1>4, <1>5, <1>6 DEF Next

LEMMA InvHolds == Spec => []IInv
  BY InitFits, NextFits, PTL DEF Spec

\* Every variable keeps its type, and an interface is bound after it is stored
\* and stored after it is made.
THEOREM TypesHold == Spec => []TypeOK
<1>1. IInv => TypeOK
  BY TypeParts DEF IInv, Control, MemoryFits
<1> QED
  BY <1>1, InvHolds, PTL

\* The counts of doGet and of the closures hold a callback, and the interface a
\* closure finds is there, unless a get took the slots from one that was still
\* connecting, had no callback, or was given the key of its host: only then,
\* whether the call of the host is sent or fails to encode, is anything freed too
\* early.
THEOREM CrashesHold == Spec => []CrashesNamed
<1>1. IInv => CrashesNamed
  BY DEF IInv, MemoryFits
<1> QED
  BY <1>1, InvHolds, PTL

\* The callback of a get is called once, whichever of the connection, the
\* tracker, the host and the teardown answers it, unless the slots were taken
\* from an interface that was still connecting; at most twice if the call of its
\* host failed to encode, which the teardown answers again.
THEOREM AnsweredOnceHolds == Spec => []AnsweredOnce
<1>1. IInv => AnsweredOnce
  BY DEF IInv, MemoryFits
<1> QED
  BY <1>1, InvHolds, PTL

=============================================================================
