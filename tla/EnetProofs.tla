------------------------------ MODULE EnetProofs ------------------------------
(***************************************************************************)
(* The reliable channel of enet is the FIFO the other modules take a       *)
(* connection for, for every number and size of windows, list of packets   *)
(* and number of faults.  What a sequence number stands for is decided by  *)
(* arithmetic modulo Space, so the proof first shows where that is the     *)
(* same as comparing places in the stream.                                 *)
(***************************************************************************)
EXTENDS Enet, FiniteSetTheorems, WellFoundedInduction, TLAPS

-----------------------------------------------------------------------------
(***************************************************************************)
(* Numbers.                                                                *)
(***************************************************************************)
LEMMA LeastElement ==
    ASSUME NEW S \in SUBSET Nat, S # {}
    PROVE  \E m \in S : \A n \in S : m <= n
<1>1. PICK m \in S : \A n \in S : <<n, m>> \notin OpToRel(<, Nat)
  BY NatLessThanWellFounded, WFMin, Zenon
<1>2. \A n \in S : ~(n < m)
  BY <1>1 DEF OpToRel
<1> QED
  BY <1>2

LEMMA SetInduction ==
    ASSUME NEW S, 0 \in S, \A n \in Nat : n \in S => n + 1 \in S
    PROVE  \A n \in Nat : n \in S
<1>1. SUFFICES ASSUME Nat \ S # {} PROVE FALSE
  OBVIOUS
<1>2. PICK m \in Nat \ S : \A n \in Nat \ S : m <= n
  BY <1>1, LeastElement
<1>3. m # 0 /\ m - 1 \in Nat
  BY <1>2
<1> QED
  BY <1>2, <1>3

LEMMA GreatestElement ==
    ASSUME NEW S \in SUBSET Nat, S # {}, NEW b \in Nat, \A n \in S : n <= b
    PROVE  \E m \in S : \A n \in S : m >= n
<1> DEFINE bounds == {c \in Nat : \A n \in S : n <= c}
<1>1. PICK c \in bounds : \A d \in bounds : c <= d
  <2>1. bounds \in SUBSET Nat /\ bounds # {}
    OBVIOUS
  <2> HIDE DEF bounds
  <2> QED
    BY <2>1, LeastElement
<1>2. c \in S
  <2>1. SUFFICES ASSUME c \notin S PROVE FALSE
    OBVIOUS
  <2>2. \A n \in S : n < c
    BY <1>1, <2>1
  <2>3. c # 0 /\ c \in Nat
    <3>1. PICK e \in S : TRUE
      OBVIOUS
    <3> QED
      BY <2>2, <3>1
  <2>4. c - 1 \in Nat /\ \A n \in S : n <= c - 1
    BY <2>2, <2>3
  <2> QED
    BY <1>1, <2>4
<1> QED
  BY <1>1, <1>2

\* Min and Max of FiniteSetsExt pick an element of the set.
LEMMA MinFacts ==
    ASSUME NEW S \in SUBSET Nat, S # {}
    PROVE  Min(S) \in S /\ \A n \in S : Min(S) <= n
  BY LeastElement DEF Min

LEMMA MaxFacts ==
    ASSUME NEW S \in SUBSET Nat, S # {}, NEW b \in Nat, \A n \in S : n <= b
    PROVE  Max(S) \in S /\ \A n \in S : Max(S) >= n
  BY GreatestElement DEF Max

LEMMA TimesLess ==
    ASSUME NEW b \in Nat \ {0}, NEW x \in Int, NEW y \in Int, b * x < b * y
    PROVE  x < y
  OBVIOUS

\* Two numbers of which the first is not the larger, in rounds of b.
LEMMA RoundsOrder ==
    ASSUME NEW b \in Nat \ {0}, NEW x \in Int, NEW y \in Int,
           NEW r \in 0 .. b - 1, NEW s \in 0 .. b - 1, b * x + r <= b * y + s
    PROVE  x <= y /\ (r > s => x < y)
<1>1. b * (y + 1) = b * y + b
  OBVIOUS
<1>2. b * x < b * (y + 1)
  BY <1>1
<1>3. x < y + 1
  BY <1>2, TimesLess
<1>4. r > s => b * x < b * y
  OBVIOUS
<1>5. r > s => x < y
  BY <1>4, TimesLess
<1> QED
  BY <1>3, <1>5

LEMMA RoundsNear ==
    ASSUME NEW b \in Nat \ {0}, NEW x \in Int, NEW y \in Int,
           NEW r \in 0 .. b - 1, NEW s \in 0 .. b - 1, b * x + r < (b * y + s) + b
    PROVE  x <= y + 1 /\ (r >= s => x <= y)
<1>1. b * (y + 1) = b * y + b
  OBVIOUS
<1>2. b * x + r <= b * (y + 1) + s
  BY <1>1
<1>3. x <= y + 1
  BY <1>2, RoundsOrder
<1>4. r >= s => b * x < b * (y + 1)
  BY <1>1
<1>5. r >= s => x < y + 1
  BY <1>4, TimesLess
<1> QED
  BY <1>3, <1>5

LEMMA Division ==
    ASSUME NEW a \in Nat, NEW b \in Nat \ {0}
    PROVE  /\ a \div b \in Nat /\ a % b \in 0 .. b - 1
           /\ a = (b * (a \div b)) + (a % b)
  OBVIOUS

LEMMA DivisionUnique ==
    ASSUME NEW a \in Nat, NEW b \in Nat \ {0}, NEW q \in Nat, NEW r \in 0 .. b - 1,
           a = b * q + r
    PROVE  a \div b = q /\ a % b = r
<1> DEFINE d == a \div b
           m == a % b
<1>1. d \in Nat /\ m \in 0 .. b - 1 /\ a = b * d + m
  BY Division
<1> HIDE DEF d, m
<1>2. d = q /\ m = r
  BY <1>1
<1> QED
  BY <1>2 DEF d, m

-----------------------------------------------------------------------------
(***************************************************************************)
(* Windows.  W(i) is the window of a command, counted without a wrap.      *)
(***************************************************************************)
W(i) == i \div WindowSize

LEMMA Sizes ==
    /\ WindowSize \in Nat \ {0} /\ WindowSize >= 2
    /\ Windows \in Nat \ {0} /\ FreeWindows \in Nat /\ FreeWindows >= 3
    /\ Windows > FreeWindows + 2
    /\ Space \in Nat \ {0} /\ Space = WindowSize * Windows
    /\ Lifetime \in Nat /\ Lifetime = WindowSize * (Windows - FreeWindows)
    /\ WindowSize * FreeWindows \in Nat
    /\ Space = Lifetime + WindowSize * FreeWindows
    /\ WindowSize * FreeWindows >= 3 * WindowSize
  BY EnetAssumption DEF Space, Lifetime

LEMMA WindowBounds ==
    ASSUME NEW i \in Nat
    PROVE  W(i) \in Nat /\ WindowSize * W(i) <= i /\ i < WindowSize * W(i) + WindowSize
<1> DEFINE m == i % WindowSize
<1>1. W(i) \in Nat /\ m \in 0 .. WindowSize - 1 /\ i = WindowSize * W(i) + m
  BY Sizes, Division DEF W
<1> HIDE DEF m
<1> QED
  BY <1>1, Sizes

LEMMA WindowMonotone ==
    ASSUME NEW i \in Nat, NEW j \in Nat, i <= j
    PROVE  W(i) <= W(j)
<1>1. WindowSize * W(i) < WindowSize * (W(j) + 1)
  BY WindowBounds, Sizes
<1> QED
  BY <1>1, WindowBounds, Sizes

LEMMA WindowShift ==
    ASSUME NEW i \in Nat, NEW k \in Nat
    PROVE  W(i + WindowSize * k) = W(i) + k
<1> DEFINE m == i % WindowSize
           j == i + WindowSize * k
<1>1. W(i) \in Nat /\ m \in 0 .. WindowSize - 1 /\ i = WindowSize * W(i) + m
  BY Sizes, Division DEF W
<1>2. j \in Nat /\ j = WindowSize * (W(i) + k) + m
  BY <1>1, Sizes
<1> HIDE DEF m, j
<1>3. j \div WindowSize = W(i) + k
  <2> DEFINE q == W(i) + k
  <2>1. WindowSize \in Nat \ {0}
    BY Sizes
  <2>2. /\ q \in Nat /\ j \in Nat /\ m \in 0 .. WindowSize - 1
        /\ j = WindowSize * q + m
    BY <1>1, <1>2
  <2> HIDE DEF q
  <2>3. j \div WindowSize = q
    BY <2>1, <2>2, DivisionUnique
  <2> QED
    BY <2>3 DEF q
<1>4. W(i + WindowSize * k) = j \div WindowSize
  BY DEF W, j
<1> QED
  BY <1>3, <1>4

LEMMA WindowNext ==
    ASSUME NEW i \in Nat
    PROVE  W(i + 1) = W(i) + (IF (i + 1) % WindowSize = 0 THEN 1 ELSE 0)
<1> DEFINE m == (i + 1) % WindowSize
           d == (i + 1) \div WindowSize
<1>1. d \in Nat /\ m \in 0 .. WindowSize - 1 /\ i + 1 = (WindowSize * d) + m
  <2>1. i + 1 \in Nat
    OBVIOUS
  <2> QED
    BY <2>1, Sizes, Division
<1>2. W(i + 1) = d
  BY DEF W
<1> HIDE DEF d, m
<1>3. CASE m = 0
  <2>1. d - 1 \in Nat /\ i = WindowSize * (d - 1) + (WindowSize - 1)
    BY <1>1, <1>3, Sizes
  <2>2. i \div WindowSize = d - 1
    BY <2>1, Sizes, DivisionUnique
  <2> QED
    BY <1>1, <1>2, <1>3, <2>2 DEF W, m
<1>4. CASE m # 0
  <2>1. m - 1 \in 0 .. WindowSize - 1 /\ i = WindowSize * d + (m - 1)
    BY <1>1, <1>4, Sizes
  <2>2. i \div WindowSize = d
    BY <1>1, <2>1, Sizes, DivisionUnique
  <2> QED
    BY <1>1, <1>2, <1>4, <2>2 DEF W, m
<1> QED
  BY <1>3, <1>4

-----------------------------------------------------------------------------
(***************************************************************************)
(* Sequence numbers.                                                       *)
(***************************************************************************)

\* How often the sequence numbers went around before command i.
Round(i) == i \div Space

LEMMA Rounds ==
    ASSUME NEW i \in Nat
    PROVE  /\ Round(i) \in Nat /\ SeqNumber(i) \in 0 .. Space - 1
           /\ i = Space * Round(i) + SeqNumber(i)
  BY Sizes, Division DEF Round, SeqNumber

LEMMA RoundIs ==
    ASSUME NEW i \in Nat, NEW a \in Nat, NEW s \in 0 .. Space - 1,
           i = Space * a + s
    PROVE  Round(i) = a /\ SeqNumber(i) = s
  BY Sizes, DivisionUnique DEF Round, SeqNumber

\* Two commands less than Space apart have different numbers.
LEMMA SeqUnique ==
    ASSUME NEW i \in Nat, NEW j \in Nat, i < j + Space, j < i + Space,
           SeqNumber(i) = SeqNumber(j)
    PROVE  i = j
<1>1. /\ Round(i) \in Nat /\ Round(j) \in Nat /\ SeqNumber(i) \in 0 .. Space - 1
      /\ i = Space * Round(i) + SeqNumber(i) /\ j = Space * Round(j) + SeqNumber(i)
      /\ Space \in Nat \ {0}
  BY Rounds, Sizes
<1>2. Round(i) <= Round(j) /\ Round(j) <= Round(i)
  BY <1>1, RoundsNear
<1>3. Round(i) = Round(j)
  BY <1>1, <1>2
<1> QED
  BY <1>1, <1>3

LEMMA SeqAdd ==
    ASSUME NEW i \in Nat, NEW c \in Nat
    PROVE  SeqNumber(i + c) = (SeqNumber(i) + c) % Space
<1> DEFINE d == (SeqNumber(i) + c) \div Space
           m == (SeqNumber(i) + c) % Space
<1>1. d \in Nat /\ m \in 0 .. Space - 1 /\ SeqNumber(i) + c = (Space * d) + m
  <2>1. SeqNumber(i) + c \in Nat
    BY Rounds
  <2> QED
    BY <2>1, Sizes, Division
<1> HIDE DEF d, m
<1>2. i + c = Space * (Round(i) + d) + m /\ Round(i) + d \in Nat /\ i + c \in Nat
  <2>1. Round(i) \in Nat /\ i = Space * Round(i) + SeqNumber(i) /\ Space \in Nat
    BY Rounds, Sizes
  <2>2. Space * (Round(i) + d) = Space * Round(i) + Space * d
    BY <1>1, <2>1
  <2>3. SeqNumber(i) \in Int /\ Space * Round(i) \in Int /\ Space * d \in Int
    BY <1>1, <2>1, Rounds
  <2>4. i + c = (Space * Round(i) + Space * d) + m
    <3> DEFINE x == Space * Round(i)
               y == Space * d
    <3>1. i = x + SeqNumber(i) /\ SeqNumber(i) + c = y + m
      BY <1>1, <2>1
    <3>2. x \in Int /\ y \in Int /\ m \in Int
      BY <1>1, <2>3
    <3> HIDE DEF x, y
    <3>3. i + c = (x + y) + m
      BY <2>3, <3>1, <3>2
    <3> QED
      BY <3>3 DEF x, y
  <2> QED
    BY <1>1, <2>1, <2>2, <2>4
<1>3. SeqNumber(i + c) = m
  BY <1>1, <1>2, RoundIs
<1> QED
  BY <1>3 DEF m

\* The window of a sequence number, and its place in that window.
LEMMA SeqWindow ==
    ASSUME NEW i \in Nat
    PROVE  /\ Window(SeqNumber(i)) \in 0 .. Windows - 1
           /\ W(i) = Windows * Round(i) + Window(SeqNumber(i))
           /\ SeqNumber(i) % WindowSize = i % WindowSize
<1> DEFINE s == SeqNumber(i)
           d == s \div WindowSize
           m == s % WindowSize
           q == Windows * Round(i) + d
<1>1. d \in Nat /\ m \in 0 .. WindowSize - 1 /\ s = (WindowSize * d) + m
  <2>1. s \in Nat
    BY Rounds
  <2> QED
    BY <2>1, Sizes, Division
<1>2. Window(SeqNumber(i)) = d
  BY DEF Window
<1>3. s \in 0 .. Space - 1 /\ i = Space * Round(i) + s /\ Round(i) \in Nat
  BY Rounds
<1> HIDE DEF s, d, m
<1>4. d \in 0 .. Windows - 1
  <2>1. WindowSize * d < WindowSize * Windows
    BY <1>1, <1>3, Sizes
  <2> QED
    BY <2>1, <1>1, Sizes
<1>5. Space * Round(i) = WindowSize * (Windows * Round(i))
  BY <1>3, Sizes
<1>6. q \in Nat /\ i = WindowSize * q + m
  <2>1. Windows * Round(i) \in Nat
    BY <1>3, Sizes
  <2>2. WindowSize * q = WindowSize * (Windows * Round(i)) + WindowSize * d
    BY <2>1, <1>1, Sizes
  <2> QED
    BY <2>1, <2>2, <1>1, <1>3, <1>5, Sizes
<1> HIDE DEF q
<1>7. i \div WindowSize = q /\ i % WindowSize = m
  BY <1>1, <1>6, Sizes, DivisionUnique
<1> QED
  BY <1>2, <1>4, <1>7 DEF W, q, m, s

LEMMA WindowMod ==
    ASSUME NEW i \in Nat
    PROVE  Window(SeqNumber(i)) = W(i) % Windows
<1>1. Window(SeqNumber(i)) \in 0 .. Windows - 1 /\ Round(i) \in Nat
      /\ W(i) = Windows * Round(i) + Window(SeqNumber(i)) /\ W(i) \in Nat
  BY SeqWindow, Rounds, WindowBounds
<1> QED
  BY <1>1, Sizes, DivisionUnique

\* A number taken for a command from r on is counted from the window of r.
LEMMA RelativeAhead ==
    ASSUME NEW r \in Nat, NEW k \in Nat, r <= k, k < r + Space
    PROVE  RelativeWindow(SeqNumber(k), SeqNumber(r)) = W(k) - W(r)
<1>1. /\ Window(SeqNumber(k)) \in Int /\ Window(SeqNumber(r)) \in Int
      /\ W(k) = Windows * Round(k) + Window(SeqNumber(k))
      /\ W(r) = Windows * Round(r) + Window(SeqNumber(r))
  BY SeqWindow
<1>2. /\ Round(k) \in Nat /\ Round(r) \in Nat
      /\ SeqNumber(k) \in 0 .. Space - 1 /\ SeqNumber(r) \in 0 .. Space - 1
      /\ k = Space * Round(k) + SeqNumber(k) /\ r = Space * Round(r) + SeqNumber(r)
  BY Rounds
<1>3. Space \in Nat \ {0} /\ Windows \in Nat
  BY Sizes
<1>4. CASE SeqNumber(k) >= SeqNumber(r)
  <2>1. Round(r) <= Round(k) /\ Round(k) <= Round(r)
    BY <1>2, <1>3, <1>4, RoundsOrder, RoundsNear
  <2>2. Round(k) = Round(r)
    BY <2>1, <1>2
  <2> QED
    BY <1>1, <1>2, <1>3, <1>4, <2>2 DEF RelativeWindow
<1>5. CASE SeqNumber(k) < SeqNumber(r)
  <2>1. Round(r) < Round(k) /\ Round(k) <= Round(r) + 1
    BY <1>2, <1>3, <1>5, RoundsOrder, RoundsNear
  <2>2. Round(k) = Round(r) + 1
    BY <2>1, <1>2
  <2>3. Windows * Round(k) = Windows * Round(r) + Windows
    BY <2>2, <1>2, <1>3
  <2> QED
    BY <1>1, <1>2, <1>3, <1>5, <2>3 DEF RelativeWindow
<1> QED
  BY <1>2, <1>4, <1>5

\* An older number is taken for the command one wrap later.
LEMMA RelativeBehind ==
    ASSUME NEW r \in Nat, NEW k \in Nat, k < r, r <= k + Space
    PROVE  RelativeWindow(SeqNumber(k), SeqNumber(r)) = W(k) + Windows - W(r)
<1>1. Round(k) \in Nat /\ k = Space * Round(k) + SeqNumber(k) /\ Space \in Nat \ {0}
      /\ SeqNumber(k) \in 0 .. Space - 1
  BY Rounds, Sizes
<1>2. Space * (Round(k) + 1) = Space * Round(k) + Space
  BY <1>1
<1>3. k + Space = Space * (Round(k) + 1) + SeqNumber(k)
  <2> DEFINE x == Space * Round(k)
  <2>1. x \in Int
    BY <1>1
  <2>2. k = x + SeqNumber(k) /\ Space * (Round(k) + 1) = x + Space
    BY <1>1, <1>2
  <2> HIDE DEF x
  <2> QED
    BY <1>1, <2>1, <2>2
<1>4. SeqNumber(k + Space) = SeqNumber(k)
  <2>1. k + Space \in Nat /\ Round(k) + 1 \in Nat
    BY <1>1
  <2> QED
    BY <1>1, <1>3, <2>1, RoundIs
<1>5. W(k + Space) = W(k) + Windows
  <2>1. W(k + WindowSize * Windows) = W(k) + Windows
    BY WindowShift, Sizes
  <2> QED
    BY <2>1, Sizes
<1>6. RelativeWindow(SeqNumber(k + Space), SeqNumber(r)) = W(k + Space) - W(r)
  <2>1. k + Space \in Nat /\ k + Space < r + Space
    BY <1>1
  <2> QED
    BY <2>1, RelativeAhead
<1>7. W(k) \in Int /\ W(r) \in Int /\ Windows \in Int
  BY WindowBounds, Sizes
<1> QED
  BY <1>4, <1>5, <1>6, <1>7

-----------------------------------------------------------------------------
(***************************************************************************)
(* How far apart commands are whose windows are known, and the reverse.    *)
(***************************************************************************)

\* What keeps two live commands of the sender apart: see WindowFits.
LEMMA NearNewest ==
    ASSUME NEW N \in Nat, NEW j \in Nat, W(j) >= W(N) - Windows + FreeWindows + 2
    PROVE  j > N - Lifetime
<1> DEFINE gap == Windows - FreeWindows
           x == WindowSize * W(N)
<1>1. W(N) \in Nat /\ W(j) \in Nat /\ WindowSize * W(j) <= j /\ N < x + WindowSize
  BY WindowBounds
<1>2. WindowSize \in Nat /\ gap \in Nat /\ Lifetime = WindowSize * gap /\ x \in Nat
      /\ WindowSize * W(j) \in Nat /\ Lifetime \in Nat /\ Windows \in Nat /\ FreeWindows \in Nat
  BY <1>1, Sizes
<1>3. W(j) >= (W(N) - gap) + 2
  BY <1>1, <1>2
<1> HIDE DEF gap
<1>4. WindowSize * W(j) >= WindowSize * ((W(N) - gap) + 2)
  BY <1>1, <1>2, <1>3
<1>5. WindowSize * ((W(N) - gap) + 2) = (x - Lifetime) + 2 * WindowSize
  BY <1>1, <1>2
<1> HIDE DEF x
<1> QED
  BY <1>1, <1>2, <1>4, <1>5

LEMMA NearReceived ==
    ASSUME NEW N \in Nat, NEW r \in Nat, W(N) <= W(r) + FreeWindows - 1
    PROVE  N < r + Space - Lifetime /\ N < r + Space
<1> DEFINE x == WindowSize * W(N)
           y == WindowSize * W(r)
<1>1. W(N) \in Nat /\ W(r) \in Nat /\ y <= r /\ N < x + WindowSize
  BY WindowBounds
<1>2. WindowSize \in Nat \ {0} /\ FreeWindows \in Nat /\ x \in Nat /\ y \in Nat
      /\ WindowSize * FreeWindows \in Nat /\ Space \in Nat /\ Lifetime \in Nat
      /\ Space = Lifetime + WindowSize * FreeWindows
  BY <1>1, Sizes
<1>3. W(N) + 1 <= W(r) + FreeWindows
  BY <1>1, <1>2
<1>4. WindowSize * (W(N) + 1) <= WindowSize * (W(r) + FreeWindows)
  BY <1>1, <1>2, <1>3
<1>5. WindowSize * (W(N) + 1) = x + WindowSize
      /\ WindowSize * (W(r) + FreeWindows) = y + WindowSize * FreeWindows
  BY <1>1, <1>2
<1> HIDE DEF x, y
<1> QED
  BY <1>1, <1>2, <1>4, <1>5

\* What is in the network is not older than the windows that are not kept free.
LEMMA WindowAlive ==
    ASSUME NEW i \in Nat, NEW r \in Nat, i > r - Lifetime
    PROVE  W(i) + (Windows - FreeWindows) >= W(r)
<1>1. Windows - FreeWindows \in Nat /\ Lifetime = WindowSize * (Windows - FreeWindows)
      /\ Lifetime \in Nat
  BY Sizes
<1>2. W(i + Lifetime) = W(i) + (Windows - FreeWindows)
  BY <1>1, WindowShift
<1>3. i + Lifetime \in Nat /\ r <= i + Lifetime
  BY <1>1
<1>4. W(r) <= W(i + Lifetime) /\ W(r) \in Int /\ W(i + Lifetime) \in Int
  BY <1>3, WindowMonotone, WindowBounds
<1> QED
  BY <1>2, <1>4

\* A packet lies in two windows at most.
LEMMA WindowOfStart ==
    ASSUME NEW s \in Nat, NEW i \in Nat, i <= s + WindowSize
    PROVE  W(i) <= W(s) + 1
<1>1. W(s + WindowSize * 1) = W(s) + 1
  BY WindowShift
<1>2. s + WindowSize * 1 = s + WindowSize /\ s + WindowSize \in Nat
  BY Sizes
<1>3. W(i) <= W(s + WindowSize)
  BY <1>2, WindowMonotone
<1> QED
  BY <1>1, <1>2, <1>3

-----------------------------------------------------------------------------
(***************************************************************************)
(* The stream of commands.                                                 *)
(***************************************************************************)
FirstUpTo(n, f) ==
    f = [p \in 1 .. n |-> IF p = 1 THEN 1 ELSE f[p - 1] + Lengths[p - 1]]

LEMMA LengthsType ==
    /\ Len(Lengths) \in Nat /\ Packets = 1 .. Len(Lengths)
    /\ \A p \in Packets : Lengths[p] \in 1 .. WindowSize + 1 /\ Lengths[p] \in Nat \ {0}
  BY EnetAssumption DEF Packets

LEMMA FirstStep ==
    ASSUME NEW n \in Nat, n + 1 <= Len(Lengths),
           NEW f \in [1 .. n -> Nat], FirstUpTo(n, f)
    PROVE  \E g \in [1 .. n + 1 -> Nat] : FirstUpTo(n + 1, g)
<1> DEFINE last == IF n = 0 THEN 1 ELSE f[n] + Lengths[n]
           g == [p \in 1 .. n + 1 |-> IF p = n + 1 THEN last ELSE f[p]]
<1>1. last \in Nat
  BY LengthsType
<1>2. g \in [1 .. n + 1 -> Nat]
  <2> HIDE DEF last
  <2> QED
    BY <1>1
<1>3. ASSUME NEW p \in 1 .. n + 1
      PROVE  g[p] = IF p = 1 THEN 1 ELSE g[p - 1] + Lengths[p - 1]
  <2>1. CASE p = n + 1
    BY <2>1
  <2>2. CASE p # n + 1
    <3>1. p \in 1 .. n /\ g[p] = f[p] /\ (p # 1 => g[p - 1] = f[p - 1])
      BY <2>2
    <3>2. f[p] = IF p = 1 THEN 1 ELSE f[p - 1] + Lengths[p - 1]
      BY <3>1 DEF FirstUpTo
    <3> QED
      BY <3>1, <3>2
  <2> QED
    BY <2>1, <2>2
<1>4. FirstUpTo(n + 1, g)
  <2>1. g = [p \in 1 .. n + 1 |-> g[p]]
    OBVIOUS
  <2> HIDE DEF g
  <2>2. [p \in 1 .. n + 1 |-> g[p]]
          = [p \in 1 .. n + 1 |-> IF p = 1 THEN 1 ELSE g[p - 1] + Lengths[p - 1]]
    BY <1>3
  <2> QED
    BY <2>1, <2>2 DEF FirstUpTo
<1> HIDE DEF g
<1> QED
  BY <1>2, <1>4

LEMMA FirstExists ==
    \E f \in [1 .. Len(Lengths) -> Nat] : FirstUpTo(Len(Lengths), f)
<1> DEFINE Some(n) == \E f \in [1 .. n -> Nat] : FirstUpTo(n, f)
           Good == {n \in Nat : n <= Len(Lengths) => Some(n)}
<1>1. 0 \in Good
  <2> DEFINE none == [p \in 1 .. 0 |-> 0]
  <2>1. none \in [1 .. 0 -> Nat]
    OBVIOUS
  <2>2. FirstUpTo(0, none)
    BY DEF FirstUpTo
  <2>3. Some(0)
    BY <2>1, <2>2
  <2> QED
    BY <2>3
<1>2. ASSUME NEW n \in Nat, n \in Good PROVE n + 1 \in Good
  <2>1. CASE n + 1 <= Len(Lengths)
    <3>1. n <= Len(Lengths)
      BY <2>1, LengthsType
    <3>2. PICK f \in [1 .. n -> Nat] : FirstUpTo(n, f)
      BY <1>2, <3>1
    <3>3. Some(n + 1)
      BY <2>1, <3>2, FirstStep
    <3> QED
      BY <3>3
  <2> QED
    BY <2>1
<1>3. \A n \in Nat : n \in Good
  <2> HIDE DEF Good
  <2> QED
    BY <1>1, <1>2, SetInduction
<1> QED
  BY <1>3, LengthsType

IsFirst(f) == f = [p \in Packets |-> IF p = 1 THEN 1 ELSE f[p - 1] + Lengths[p - 1]]

LEMMA FirstValue ==
    \A p \in Packets : First[p] = IF p = 1 THEN 1 ELSE First[p - 1] + Lengths[p - 1]
<1>1. \E f : IsFirst(f)
  BY FirstExists, LengthsType DEF IsFirst, FirstUpTo
<1>2. IsFirst(CHOOSE f : IsFirst(f))
  BY <1>1
<1>3. First = CHOOSE f : IsFirst(f)
  BY DEF First, IsFirst
<1>4. IsFirst(First)
  BY <1>2, <1>3
<1> QED
  BY <1>4 DEF IsFirst

LEMMA FirstType == \A p \in Packets : First[p] \in Nat \ {0}
<1> DEFINE Fine == {n \in Nat : n + 1 <= Len(Lengths) => First[n + 1] \in Nat \ {0}}
<1>1. 0 \in Fine
  <2>1. 1 <= Len(Lengths) => 1 \in Packets
    BY LengthsType
  <2>2. 1 <= Len(Lengths) => First[1] = 1
    BY <2>1, FirstValue
  <2> QED
    BY <2>2
<1>2. ASSUME NEW n \in Nat, n \in Fine PROVE n + 1 \in Fine
  <2> SUFFICES ASSUME n + 2 <= Len(Lengths) PROVE First[n + 2] \in Nat \ {0}
    OBVIOUS
  <2>1. n + 1 \in Packets /\ n + 2 \in Packets /\ n + 2 # 1 /\ (n + 2) - 1 = n + 1
    BY LengthsType
  <2>2. First[n + 2] = First[n + 1] + Lengths[n + 1]
    BY <2>1, FirstValue
  <2>3. First[n + 1] \in Nat \ {0} /\ Lengths[n + 1] \in Nat \ {0}
    BY <1>2, <2>1, LengthsType
  <2> QED
    BY <2>2, <2>3
<1>3. \A n \in Nat : n \in Fine
  <2> HIDE DEF Fine
  <2> QED
    BY <1>1, <1>2, SetInduction
<1>4. ASSUME NEW p \in Packets PROVE First[p] \in Nat \ {0}
  <2>1. p - 1 \in Nat /\ (p - 1) + 1 = p /\ p <= Len(Lengths)
    BY LengthsType
  <2>2. p - 1 \in Fine
    BY <1>3, <2>1
  <2> QED
    BY <2>1, <2>2
<1> QED
  BY <1>4

\* The last command of packet p.
Last(p) == IF p = 0 THEN 0 ELSE First[p] + Lengths[p] - 1

LEMMA LastStep ==
    ASSUME NEW p \in Packets
    PROVE  /\ Last(p) \in Nat /\ Last(p - 1) \in Nat
           /\ First[p] = Last(p - 1) + 1 /\ Last(p) = Last(p - 1) + Lengths[p]
           /\ Lengths[p] \in 1 .. WindowSize + 1
<1>1. p \in Nat /\ p # 0 /\ First[p] \in Nat \ {0}
      /\ Lengths[p] \in 1 .. WindowSize + 1 /\ Lengths[p] \in Nat \ {0}
  BY LengthsType, FirstType
<1>2. Last(p) = First[p] + Lengths[p] - 1
  BY <1>1 DEF Last
<1>3. CASE p = 1
  <2>1. First[p] = 1 /\ Last(p - 1) = 0
    BY <1>3, FirstValue DEF Last
  <2> QED
    BY <1>1, <1>2, <2>1
<1>4. CASE p # 1
  <2>1. p - 1 \in Packets /\ p - 1 # 0
    BY <1>1, <1>4, LengthsType
  <2>2. First[p - 1] \in Nat \ {0} /\ Lengths[p - 1] \in Nat \ {0}
    BY <2>1, FirstType, LengthsType
  <2>3. First[p] = First[p - 1] + Lengths[p - 1]
    BY <1>4, FirstValue
  <2>4. Last(p - 1) = First[p - 1] + Lengths[p - 1] - 1
    BY <2>1 DEF Last
  <2> QED
    BY <1>1, <1>2, <2>2, <2>3, <2>4
<1> QED
  BY <1>3, <1>4

LEMMA LastType == \A p \in 0 .. Len(Lengths) : Last(p) \in Nat
<1>1. ASSUME NEW p \in 0 .. Len(Lengths) PROVE Last(p) \in Nat
  <2>1. p = 0 \/ p \in Packets
    BY LengthsType
  <2> QED
    BY <2>1, LastStep DEF Last
<1> QED
  BY <1>1

LEMMA LastMonotone ==
    ASSUME NEW p \in 0 .. Len(Lengths), NEW q \in 0 .. Len(Lengths), p <= q
    PROVE  Last(p) <= Last(q)
<1> DEFINE Fine == {n \in Nat : p + n <= Len(Lengths) => Last(p) <= Last(p + n)}
<1>0. p \in Nat /\ q \in Nat /\ Len(Lengths) \in Nat
  BY LengthsType
<1>1. 0 \in Fine
  <2>1. p + 0 = p
    BY <1>0
  <2> QED
    BY <2>1, LastType
<1>2. ASSUME NEW n \in Nat, n \in Fine PROVE n + 1 \in Fine
  <2> SUFFICES ASSUME p + (n + 1) <= Len(Lengths) PROVE Last(p) <= Last(p + (n + 1))
    OBVIOUS
  <2>1. p + (n + 1) \in Packets /\ (p + (n + 1)) - 1 = p + n /\ p + n <= Len(Lengths)
    BY <1>0, LengthsType
  <2>2. /\ Last(p + (n + 1)) = Last(p + n) + Lengths[p + (n + 1)] /\ Last(p + n) \in Nat
        /\ Lengths[p + (n + 1)] \in 1 .. WindowSize + 1
    BY <2>1, LastStep
  <2>3. Last(p) <= Last(p + n) /\ Last(p) \in Nat
    BY <1>2, <2>1, LastType
  <2> QED
    BY <2>2, <2>3, Sizes
<1>3. \A n \in Nat : n \in Fine
  <2> HIDE DEF Fine
  <2> QED
    BY <1>1, <1>2, SetInduction
<1>4. q - p \in Nat /\ p + (q - p) = q /\ q <= Len(Lengths)
  BY <1>0
<1>5. q - p \in Fine
  BY <1>3, <1>4
<1> QED
  BY <1>4, <1>5

LEMMA CommandsOfIs ==
    ASSUME NEW p \in Packets
    PROVE  CommandsOf(p) = Last(p - 1) + 1 .. Last(p)
<1>1. /\ Last(p) \in Nat /\ Last(p - 1) \in Nat /\ First[p] = Last(p - 1) + 1
      /\ Last(p) = Last(p - 1) + Lengths[p] /\ Lengths[p] \in Int
  BY LastStep
<1>2. First[p] + Lengths[p] - 1 = Last(p)
  BY <1>1
<1> QED
  BY <1>1, <1>2 DEF CommandsOf

LEMMA PacketUnique ==
    ASSUME NEW p \in Packets, NEW q \in Packets, NEW i,
           i \in CommandsOf(p), i \in CommandsOf(q)
    PROVE  p = q
<1>1. ASSUME NEW a \in Packets, NEW b \in Packets, a < b, i \in CommandsOf(a),
             i \in CommandsOf(b)
      PROVE  FALSE
  <2>1. a \in 0 .. Len(Lengths) /\ b - 1 \in 0 .. Len(Lengths) /\ a <= b - 1
    BY <1>1, LengthsType
  <2>2. Last(a) <= Last(b - 1) /\ Last(a) \in Nat /\ Last(b - 1) \in Nat
    BY <2>1, LastMonotone, LastType
  <2>3. i \in Int /\ i <= Last(a) /\ i > Last(b - 1)
    BY <1>1, <2>2, CommandsOfIs, LastStep
  <2> QED
    BY <2>2, <2>3
<1>2. p \in Nat /\ q \in Nat
  BY LengthsType
<1> QED
  BY <1>1, <1>2

LEMMA PacketOfIs ==
    ASSUME NEW p \in Packets, NEW i, i \in CommandsOf(p)
    PROVE  PacketOf(i) = p
  BY PacketUnique DEF PacketOf

\* Every command up to the end of packet P is in one of the packets up to P.
LEMMA PacketExists ==
    ASSUME NEW P \in 0 .. Len(Lengths), NEW i \in 1 .. Last(P)
    PROVE  \E p \in 1 .. P : i \in CommandsOf(p)
<1> DEFINE ends == {p \in Nat : p <= Len(Lengths) /\ i <= Last(p)}
<1>1. PICK p \in ends : \A q \in ends : p <= q
  <2>1. P \in ends /\ ends \in SUBSET Nat
    BY LengthsType, LastType
  <2>2. ends # {}
    BY <2>1
  <2> HIDE DEF ends
  <2> QED
    BY <2>1, <2>2, LeastElement
<1>2. p \in Nat /\ p <= Len(Lengths) /\ i <= Last(p) /\ p <= P
  BY <1>1, LengthsType, LastType
<1>3. p # 0
  BY <1>2, LastType DEF Last
<1>4. p \in Packets /\ p - 1 \in Nat /\ p - 1 <= Len(Lengths)
  BY <1>2, <1>3, LengthsType
<1>5. i > Last(p - 1)
  <2>1. p - 1 \notin ends
    BY <1>1, <1>2
  <2>2. Last(p - 1) \in Nat /\ i \in Int
    BY <1>4, LastStep, LastType
  <2> QED
    BY <1>4, <2>1, <2>2
<1>6. i \in CommandsOf(p)
  BY <1>2, <1>4, <1>5, CommandsOfIs, LastStep, LastType
<1> QED
  BY <1>2, <1>3, <1>6

LEMMA CommandsAre == Commands = 1 .. Last(Len(Lengths))
<1>1. Len(Lengths) \in 0 .. Len(Lengths) /\ Last(Len(Lengths)) \in Nat
  BY LengthsType, LastType
<1>2. ASSUME NEW i \in 1 .. Last(Len(Lengths)) PROVE i \in Commands
  <2>1. \E p \in 1 .. Len(Lengths) : i \in CommandsOf(p)
    BY <1>1, PacketExists
  <2> QED
    BY <2>1, LengthsType DEF Commands
<1>3. ASSUME NEW p \in Packets, NEW i \in CommandsOf(p) PROVE i \in 1 .. Last(Len(Lengths))
  <2>1. p \in 0 .. Len(Lengths) /\ p <= Len(Lengths)
    BY LengthsType
  <2>2. Last(p) <= Last(Len(Lengths))
    BY <1>1, <2>1, LastMonotone
  <2>3. i \in Last(p - 1) + 1 .. Last(p) /\ Last(p - 1) \in Nat /\ Last(p) \in Nat
    BY CommandsOfIs, LastStep
  <2> QED
    BY <1>1, <2>2, <2>3
<1> QED
  BY <1>2, <1>3 DEF Commands

LEMMA LastInjective ==
    ASSUME NEW p \in 0 .. Len(Lengths), NEW q \in 0 .. Len(Lengths), Last(p) = Last(q)
    PROVE  p = q
<1>1. ASSUME NEW a \in 0 .. Len(Lengths), NEW b \in 0 .. Len(Lengths), a < b
      PROVE  Last(a) < Last(b)
  <2>1. b \in Packets /\ b - 1 \in 0 .. Len(Lengths) /\ a <= b - 1
    BY <1>1, LengthsType
  <2>2. Last(a) <= Last(b - 1) /\ Last(a) \in Nat
    BY <2>1, LastMonotone, LastType
  <2>3. Last(b) = Last(b - 1) + Lengths[b] /\ Last(b - 1) \in Nat
        /\ Lengths[b] \in 1 .. WindowSize + 1
    BY <2>1, LastStep
  <2> QED
    BY <2>2, <2>3, Sizes
<1>2. p \in Int /\ q \in Int /\ Last(p) \in Int /\ Last(q) \in Int
  BY LengthsType, LastType
<1>3. ~(p < q) /\ ~(q < p)
  BY <1>1, <1>2
<1> QED
  BY <1>2, <1>3

-----------------------------------------------------------------------------
(***************************************************************************)
(* What the receiver keeps of the packets it waits for.  An entry belongs  *)
(* to packet q and holds commands up to N.                                 *)
(***************************************************************************)
EntryOf(e, q, N) ==
    /\ e.seq = SeqNumber(First[q])
    /\ e.fragmentCount = (IF Lengths[q] = 1 THEN 0 ELSE Lengths[q])
    /\ e.got # {} /\ e.got \subseteq CommandsOf(q) /\ \A i \in e.got : i <= N

ListFits(list, L, P, N) ==
    /\ list \in Seq(Entry)
    /\ \A k \in 1 .. Len(list) : \E q \in L + 1 .. P : EntryOf(list[k], q, N)
    /\ \A k, l \in 1 .. Len(list) : list[k].seq = list[l].seq => k = l

LEMMA SizeOf ==
    ASSUME NEW q \in Packets, NEW N, NEW e, EntryOf(e, q, N)
    PROVE  Size(e) = Lengths[q]
<1>1. Lengths[q] \in Nat \ {0}
  BY LengthsType
<1>2. \A n \in {1, e.fragmentCount} : n <= Lengths[q]
  BY <1>1 DEF EntryOf
<1>3. {1, e.fragmentCount} \in SUBSET Nat
  BY <1>1 DEF EntryOf
<1>4. {1, e.fragmentCount} # {}
  OBVIOUS
<1>5. /\ Max({1, e.fragmentCount}) \in {1, e.fragmentCount}
      /\ \A n \in {1, e.fragmentCount} : Max({1, e.fragmentCount}) >= n
  BY <1>1, <1>2, <1>3, <1>4, MaxFacts
<1>6. Max({1, e.fragmentCount}) = Lengths[q]
  BY <1>1, <1>3, <1>5 DEF EntryOf
<1> QED
  BY <1>6 DEF Size

LEMMA WholePacket ==
    ASSUME NEW q \in Packets, NEW got, got \subseteq CommandsOf(q),
           Cardinality(got) = Lengths[q]
    PROVE  got = CommandsOf(q)
<1>1. /\ Last(q) \in Int /\ Last(q - 1) \in Int /\ Last(q) = Last(q - 1) + Lengths[q]
      /\ Lengths[q] \in Nat /\ CommandsOf(q) = Last(q - 1) + 1 .. Last(q)
  BY LastStep, CommandsOfIs, LengthsType
<1>2. IsFiniteSet(CommandsOf(q)) /\ Cardinality(CommandsOf(q)) = Lengths[q]
  <2> DEFINE a == Last(q - 1) + 1
             b == Last(q)
  <2>1. a \in Int /\ b \in Int /\ a <= b + 1 /\ (b - a) + 1 = Lengths[q]
    BY <1>1
  <2>2. IsFiniteSet(a .. b) /\ Cardinality(a .. b) = IF a > b THEN 0 ELSE b - a + 1
    <3> HIDE DEF a, b
    <3> QED
      BY <2>1, FS_Interval
  <2>3. Cardinality(a .. b) = Lengths[q]
    <3> HIDE DEF a, b
    <3> QED
      BY <1>1, <2>1, <2>2
  <2> QED
    BY <1>1, <2>2, <2>3
<1> QED
  BY <1>2, FS_Subset

\* The first command of a packet that is kept, seen from the last received.
LEMMA KeptFirst ==
    ASSUME NEW P \in 0 .. Len(Lengths), NEW L \in 0 .. P, NEW N \in Nat,
           Last(L) <= N, W(N) <= W(Last(L)) + FreeWindows - 1,
           NEW e, NEW q \in L + 1 .. P, EntryOf(e, q, N)
    PROVE  /\ First[q] \in Nat /\ First[q] > Last(L) /\ First[q] <= N
           /\ N < Last(L) + Space /\ Last(L) \in Nat /\ q \in Packets
<1>1. L \in 0 .. Len(Lengths) /\ q \in Packets /\ q - 1 \in 0 .. Len(Lengths) /\ L <= q - 1
  BY LengthsType
<1>2. Last(L) \in Nat /\ Last(L) <= Last(q - 1) /\ Last(q - 1) \in Nat
  BY <1>1, LastType, LastMonotone
<1>3. First[q] = Last(q - 1) + 1
  BY <1>1, LastStep
<1>4. PICK i \in e.got : i \in CommandsOf(q) /\ i <= N
  BY DEF EntryOf
<1>5. i \in Int /\ First[q] <= i
  BY <1>1, <1>2, <1>3, <1>4, CommandsOfIs, LastStep
<1>6. N < Last(L) + Space
  BY <1>2, NearReceived
<1> QED
  BY <1>1, <1>2, <1>3, <1>4, <1>5, <1>6

-----------------------------------------------------------------------------
(***************************************************************************)
(* Dispatch.                                                               *)
(***************************************************************************)
IsReached(list, n, f) ==
    f = [k \in 0 .. n |->
            IF k = 0 THEN incoming ELSE (f[k - 1] + Size(list[k])) % Space]

LEMMA ReachedStep ==
    ASSUME NEW list, NEW n \in Nat, NEW f, IsReached(list, n, f)
    PROVE  \E g : IsReached(list, n + 1, g)
<1> DEFINE g == [k \in 0 .. n + 1 |->
                    IF k = n + 1 THEN (f[n] + Size(list[n + 1])) % Space ELSE f[k]]
<1>1. ASSUME NEW k \in 0 .. n + 1
      PROVE  g[k] = IF k = 0 THEN incoming ELSE (g[k - 1] + Size(list[k])) % Space
  <2>1. CASE k = n + 1
    <3>1. k # 0 /\ k - 1 = n /\ g[n] = f[n]
      BY <2>1
    <3> QED
      BY <2>1, <3>1
  <2>2. CASE k # n + 1
    <3>1. k \in 0 .. n /\ g[k] = f[k] /\ (k # 0 => g[k - 1] = f[k - 1])
      BY <2>2
    <3>2. f[k] = IF k = 0 THEN incoming ELSE (f[k - 1] + Size(list[k])) % Space
      BY <3>1 DEF IsReached
    <3> QED
      BY <3>1, <3>2
  <2> QED
    BY <2>1, <2>2
<1>2. IsReached(list, n + 1, g)
  <2>1. g = [k \in 0 .. n + 1 |-> g[k]]
    OBVIOUS
  <2> HIDE DEF g
  <2>2. [k \in 0 .. n + 1 |-> g[k]] = [k \in 0 .. n + 1 |->
            IF k = 0 THEN incoming ELSE (g[k - 1] + Size(list[k])) % Space]
    BY <1>1
  <2> QED
    BY <2>1, <2>2 DEF IsReached
<1> HIDE DEF g
<1> QED
  BY <1>2

LEMMA ReachedExists ==
    ASSUME NEW list, Len(list) \in Nat
    PROVE  \E f : IsReached(list, Len(list), f)
<1> DEFINE Good == {n \in Nat : \E f : IsReached(list, n, f)}
<1>1. 0 \in Good
  <2> DEFINE f == [k \in 0 .. 0 |-> incoming]
  <2>1. f = [k \in 0 .. 0 |->
               IF k = 0 THEN incoming ELSE (f[k - 1] + Size(list[k])) % Space]
    OBVIOUS
  <2>2. IsReached(list, 0, f)
    BY <2>1 DEF IsReached
  <2> QED
    BY <2>2
<1>2. \A n \in Nat : n \in Good => n + 1 \in Good
  BY ReachedStep
<1>3. \A n \in Nat : n \in Good
  <2> HIDE DEF Good
  <2> QED
    BY <1>1, <1>2, SetInduction
<1> QED
  BY <1>3

LEMMA ReachedValue ==
    ASSUME NEW list, Len(list) \in Nat
    PROVE  /\ Reached(list)[0] = incoming
           /\ \A k \in 1 .. Len(list) :
                 Reached(list)[k] = (Reached(list)[k - 1] + Size(list[k])) % Space
<1>1. IsReached(list, Len(list), CHOOSE f : IsReached(list, Len(list), f))
  BY ReachedExists
<1>2. Reached(list) = CHOOSE f : IsReached(list, Len(list), f)
  BY DEF Reached, IsReached
<1>3. IsReached(list, Len(list), Reached(list))
  BY <1>1, <1>2
<1> DEFINE r == Reached(list)
<1>4. \A k \in 0 .. Len(list) :
         r[k] = IF k = 0 THEN incoming ELSE (r[k - 1] + Size(list[k])) % Space
  <2> HIDE DEF r
  <2>1. IsReached(list, Len(list), r)
    BY <1>3 DEF r
  <2> QED
    BY <2>1 DEF IsReached
<1> QED
  BY <1>4

IsReady(list, k) ==
    /\ Cardinality(list[k].got) = Size(list[k])
    /\ list[k].seq = (Reached(list)[k - 1] + 1) % Space

Dispatched(list, n) ==
    /\ \A m \in 1 .. n : IsReady(list, m)
    /\ incoming' = Reached(list)[n]
    /\ waiting' = SubSeq(list, n + 1, Len(list))
    /\ received' = received \o [k \in 1 .. n |-> list[k].got]

LEMMA DispatchIs ==
    ASSUME NEW list \in Seq(Entry), Dispatch(list)
    PROVE  \E n \in 0 .. Len(list) : Dispatched(list, n)
<1> DEFINE prefixes == {k \in 0 .. Len(list) : \A m \in 1 .. k : IsReady(list, m)}
           n == Max(prefixes)
<1>1. Len(list) \in Nat
  OBVIOUS
<1>2. n \in prefixes
  <2>1. 0 \in prefixes
    BY <1>1
  <2>2. prefixes \in SUBSET Nat /\ \A k \in prefixes : k <= Len(list)
    BY <1>1
  <2>3. prefixes # {}
    BY <2>1
  <2> HIDE DEF prefixes
  <2> QED
    BY <1>1, <2>2, <2>3, MaxFacts
<1>3. /\ incoming' = Reached(list)[n]
      /\ waiting' = SubSeq(list, n + 1, Len(list))
      /\ received' = received \o [k \in 1 .. n |-> list[k].got]
  BY DEF Dispatch, IsReady
<1> HIDE DEF n
<1>4. n \in 0 .. Len(list) /\ \A m \in 1 .. n : IsReady(list, m)
  BY <1>2
<1> QED
  BY <1>3, <1>4 DEF Dispatched

\* The state of one entry that is dispatched.
Taken(list, L, P, N, k) ==
    /\ L + k <= P /\ Last(L + k) <= N
    /\ Reached(list)[k] = SeqNumber(Last(L + k))
    /\ k # 0 => EntryOf(list[k], L + k, N) /\ list[k].got = CommandsOf(L + k)

LEMMA ReadyStep ==
    ASSUME NEW P \in 0 .. Len(Lengths), NEW L \in 0 .. P, NEW N \in Nat,
           Last(L) <= N, W(N) <= W(Last(L)) + FreeWindows - 1,
           NEW list, ListFits(list, L, P, N),
           NEW k \in Nat, k + 1 <= Len(list),
           Taken(list, L, P, N, k), IsReady(list, k + 1)
    PROVE  Taken(list, L, P, N, k + 1)
<1> DEFINE e == list[k + 1]
           b == Last(L + k)
<1>1. /\ Len(list) \in Nat /\ k + 1 \in 1 .. Len(list) /\ (k + 1) - 1 = k
      /\ L + k \in 0 .. Len(Lengths) /\ L \in 0 .. Len(Lengths) /\ L <= L + k
      /\ k + 1 # 0 /\ L + (k + 1) = (L + k) + 1
  BY LengthsType DEF ListFits, Taken
<1>2. PICK q \in L + 1 .. P : EntryOf(e, q, N)
  BY <1>1 DEF ListFits
<1>3. /\ First[q] \in Nat /\ First[q] > Last(L) /\ First[q] <= N
      /\ N < Last(L) + Space /\ Last(L) \in Nat /\ q \in Packets
  BY <1>2, KeptFirst
<1>4. b \in Nat /\ b >= Last(L) /\ b <= N
  <2>1. b \in Nat
    BY <1>1, LastType
  <2>2. Last(L) <= b
    BY <1>1, LastMonotone
  <2>3. b <= N
    BY DEF Taken
  <2>4. Last(L) \in Nat
    BY <1>3
  <2> HIDE DEF b
  <2> QED
    BY <2>1, <2>2, <2>3, <2>4
<1>5. SeqNumber(First[q]) = SeqNumber(b + 1)
  <2>1. e.seq = (SeqNumber(b) + 1) % Space
    BY <1>1 DEF IsReady, Taken
  <2>2. SeqNumber(b + 1) = (SeqNumber(b) + 1) % Space
    BY <1>4, SeqAdd
  <2>3. e.seq = SeqNumber(First[q])
    BY <1>2 DEF EntryOf
  <2> QED
    BY <2>1, <2>2, <2>3
<1>6. First[q] = b + 1
  <2>0. Space \in Nat
    BY Sizes
  <2> HIDE DEF b
  <2> DEFINE x == First[q]
             y == b + 1
             z == Last(L)
  <2>1. /\ x \in Nat /\ x > z /\ x <= N /\ N < z + Space /\ z \in Nat
        /\ y \in Nat /\ y > z /\ y <= N + 1 /\ SeqNumber(x) = SeqNumber(y)
    BY <1>3, <1>4, <1>5
  <2> HIDE DEF x, y, z
  <2>2. x < y + Space /\ y < x + Space
    BY <2>0, <2>1
  <2>3. x = y
    BY <2>1, <2>2, SeqUnique
  <2> QED
    BY <2>3 DEF x, y
<1>7. q = L + (k + 1)
  <2>1. First[q] = Last(q - 1) + 1 /\ Last(q - 1) \in Nat
    BY <1>3, LastStep
  <2>2. Last(q - 1) = b
    BY <1>4, <1>6, <2>1
  <2>3. q - 1 \in 0 .. Len(Lengths)
    BY <1>3, LengthsType
  <2>4. q - 1 = L + k
    BY <1>1, <2>2, <2>3, LastInjective
  <2> QED
    BY <1>1, <1>3, <2>4, LengthsType
<1>8. Size(e) = Lengths[q]
  BY <1>2, <1>3, SizeOf
<1>9. e.got = CommandsOf(q)
  <2>1. e.got \subseteq CommandsOf(q)
    BY <1>2 DEF EntryOf
  <2>2. Cardinality(e.got) = Lengths[q]
    BY <1>8 DEF IsReady
  <2> QED
    BY <1>3, <2>1, <2>2, WholePacket
<1>10. Last(q) = b + Lengths[q] /\ Last(q) \in Nat /\ Lengths[q] \in Nat \ {0}
  <2>1. q - 1 = L + k
    BY <1>1, <1>7
  <2> QED
    BY <1>3, <2>1, LastStep, LengthsType
<1>11. Last(q) <= N
  <2>1. Last(q) \in CommandsOf(q)
    <3>1. CommandsOf(q) = Last(q - 1) + 1 .. Last(q)
      BY <1>3, CommandsOfIs
    <3>2. /\ Last(q - 1) \in Nat /\ Last(q) = Last(q - 1) + Lengths[q]
          /\ Lengths[q] \in Nat \ {0} /\ Last(q) \in Nat
      BY <1>3, <1>10, LastStep
    <3>3. Last(q) \in Last(q - 1) + 1 .. Last(q)
      BY <3>2
    <3> QED
      BY <3>1, <3>3
  <2>2. Last(q) \in e.got
    BY <1>9, <2>1
  <2> QED
    BY <1>2, <2>2 DEF EntryOf
<1>12. Reached(list)[k + 1] = SeqNumber(Last(q))
  <2>1. Reached(list)[k + 1] = (Reached(list)[k] + Size(e)) % Space
    BY <1>1, ReachedValue
  <2>2. Reached(list)[k] = SeqNumber(b)
    BY DEF Taken
  <2>3. SeqNumber(b + Lengths[q]) = (SeqNumber(b) + Lengths[q]) % Space
    BY <1>4, <1>10, SeqAdd
  <2> QED
    BY <1>8, <1>10, <2>1, <2>2, <2>3
<1>13. q <= P
  BY <1>2
<1> QED
  BY <1>2, <1>7, <1>9, <1>11, <1>12, <1>13 DEF Taken

LEMMA ReadyTaken ==
    ASSUME NEW P \in 0 .. Len(Lengths), NEW L \in 0 .. P, NEW N \in Nat,
           Last(L) <= N, W(N) <= W(Last(L)) + FreeWindows - 1,
           incoming = SeqNumber(Last(L)),
           NEW list, ListFits(list, L, P, N),
           NEW n \in 0 .. Len(list), \A m \in 1 .. n : IsReady(list, m)
    PROVE  \A k \in 0 .. n : Taken(list, L, P, N, k)
<1> DEFINE Good == {k \in Nat : k <= n => Taken(list, L, P, N, k)}
<1>0. Len(list) \in Nat
  BY DEF ListFits
<1>1. 0 \in Good
  <2>1. L + 0 = L /\ L <= P
    BY LengthsType
  <2>2. Reached(list)[0] = incoming
    BY <1>0, ReachedValue
  <2>3. Taken(list, L, P, N, 0)
    BY <2>1, <2>2 DEF Taken
  <2> QED
    BY <2>3
<1>2. ASSUME NEW k \in Nat, k \in Good PROVE k + 1 \in Good
  <2> SUFFICES ASSUME k + 1 <= n PROVE Taken(list, L, P, N, k + 1)
    OBVIOUS
  <2>1. k <= n /\ k + 1 \in 1 .. n /\ k + 1 <= Len(list)
    BY <1>0
  <2>2. Taken(list, L, P, N, k) /\ IsReady(list, k + 1)
    BY <1>2, <2>1
  <2> QED
    BY <2>1, <2>2, ReadyStep
<1>3. \A k \in Nat : k \in Good
  <2> HIDE DEF Good
  <2> QED
    BY <1>1, <1>2, SetInduction
<1> QED
  BY <1>0, <1>3

LEMMA ConcatFacts ==
    ASSUME NEW S, NEW s \in Seq(S), NEW t \in Seq(S)
    PROVE  /\ s \o t \in Seq(S) /\ Len(s \o t) = Len(s) + Len(t)
           /\ Len(s) \in Nat /\ Len(t) \in Nat
           /\ \A k \in 1 .. Len(s) + Len(t) :
                 (s \o t)[k] = IF k <= Len(s) THEN s[k] ELSE t[k - Len(s)]
  OBVIOUS

LEMMA SubSeqFacts ==
    ASSUME NEW S, NEW s \in Seq(S), NEW m \in 1 .. Len(s) + 1, NEW n \in m - 1 .. Len(s)
    PROVE  /\ SubSeq(s, m, n) \in Seq(S) /\ Len(SubSeq(s, m, n)) = (n - m) + 1
           /\ \A k \in 1 .. (n - m) + 1 : SubSeq(s, m, n)[k] = s[(m + k) - 1]
  OBVIOUS

LEMMA TupleFacts ==
    ASSUME NEW S, NEW n \in Nat, NEW f(_), \A k \in 1 .. n : f(k) \in S
    PROVE  /\ [k \in 1 .. n |-> f(k)] \in Seq(S) /\ Len([k \in 1 .. n |-> f(k)]) = n
  OBVIOUS

-----------------------------------------------------------------------------
(***************************************************************************)
(* The receiver.                                                           *)
(***************************************************************************)

\* The last command handed to the receiver.
R == Last(Len(received))

\* What was handed over is the first packets, whole.
ReceivedFits(N) ==
    /\ received \in Seq(SUBSET Commands)
    /\ Len(received) <= packets
    /\ \A p \in 1 .. Len(received) : received[p] = CommandsOf(p)
    /\ incoming = SeqNumber(R)
    /\ R <= N

\* What waits belongs to later packets, each of them once.
WaitingFits(N) == ListFits(waiting, Len(received), packets, N)

\* The sender is never FreeWindows windows ahead of what was handed over.
Ahead(N) == W(N) <= W(R) + FreeWindows - 1

Receiver(N) == ReceivedFits(N) /\ WaitingFits(N) /\ Ahead(N)

Holds(list, i) == \E k \in 1 .. Len(list) : i \in list[k].got

LEMMA ArrivedIs ==
    ASSUME NEW N, packets \in 0 .. Len(Lengths), ReceivedFits(N), WaitingFits(N), NEW i
    PROVE  i \in Arrived <=> i \in 1 .. R \/ Holds(waiting, i)
<1>1. /\ Len(received) \in 0 .. Len(Lengths) /\ DOMAIN received = 1 .. Len(received)
      /\ DOMAIN waiting = 1 .. Len(waiting) /\ R \in Nat
  BY LengthsType, LastType DEF ReceivedFits, WaitingFits, ListFits, R
<1>2. i \in Arrived <=> \/ \E p \in 1 .. Len(received) : i \in received[p]
                        \/ Holds(waiting, i)
  BY <1>1 DEF Arrived, Holds
<1>3. ASSUME NEW p \in 1 .. Len(received), i \in received[p] PROVE i \in 1 .. R
  <2>1. p \in Packets /\ p \in 0 .. Len(Lengths) /\ p <= Len(received)
    BY <1>1, LengthsType
  <2>2. i \in CommandsOf(p)
    BY <1>3 DEF ReceivedFits
  <2>3. i \in Last(p - 1) + 1 .. Last(p) /\ Last(p - 1) \in Nat /\ Last(p) \in Nat
    BY <2>1, <2>2, CommandsOfIs, LastStep
  <2>4. Last(p) <= R
    BY <1>1, <2>1, LastMonotone DEF R
  <2> QED
    BY <1>1, <2>3, <2>4
<1>4. ASSUME i \in 1 .. R PROVE \E p \in 1 .. Len(received) : i \in received[p]
  <2>1. \E p \in 1 .. Len(received) : i \in CommandsOf(p)
    BY <1>1, <1>4, PacketExists DEF R
  <2> QED
    BY <2>1 DEF ReceivedFits
<1> QED
  BY <1>2, <1>3, <1>4

\* Dispatch keeps what was there.
LEMMA DispatchSound ==
    ASSUME packets \in 0 .. Len(Lengths), packets' = packets, NEW N \in Nat,
           ReceivedFits(N), Ahead(N),
           NEW list, ListFits(list, Len(received), packets, N), Dispatch(list)
    PROVE  /\ Receiver(N)' /\ R \in Nat /\ R' \in Nat /\ R <= R'
           /\ \A i : i \in 1 .. R \/ Holds(list, i) => i \in 1 .. R' \/ Holds(waiting', i)
<1> DEFINE L == Len(received)
           P == packets
<1>1. /\ list \in Seq(Entry) /\ Len(list) \in Nat /\ L \in Nat /\ L \in 0 .. P
      /\ L \in 0 .. Len(Lengths) /\ P \in Nat /\ received \in Seq(SUBSET Commands)
  BY LengthsType DEF ListFits, ReceivedFits
<1>2. PICK n \in 0 .. Len(list) : Dispatched(list, n)
  BY <1>1, DispatchIs
<1>3. n \in Nat /\ n <= Len(list)
  BY <1>1
<1>4. \A k \in 0 .. n : Taken(list, L, P, N, k)
  <2>1. Last(L) <= N /\ W(N) <= W(Last(L)) + FreeWindows - 1 /\ incoming = SeqNumber(Last(L))
    BY DEF ReceivedFits, Ahead, R
  <2>2. \A m \in 1 .. n : IsReady(list, m)
    BY <1>2 DEF Dispatched
  <2> HIDE DEF L, P
  <2>3. ListFits(list, L, P, N) /\ P \in 0 .. Len(Lengths)
    BY DEF L, P
  <2> QED
    BY <1>1, <2>1, <2>2, <2>3, ReadyTaken
<1> DEFINE gots == [k \in 1 .. n |-> list[k].got]
<1>5. gots \in Seq(SUBSET Commands) /\ Len(gots) = n /\ \A k \in 1 .. n : gots[k] = list[k].got
  <2>1. \A k \in 1 .. n : list[k].got \in SUBSET Commands
    <3>1. \A k \in 1 .. n : list[k] \in Entry
      BY <1>1, <1>3
    <3> QED
      BY <3>1 DEF Entry
  <2> QED
    BY <1>3, <2>1, TupleFacts
<1>6. /\ received' \in Seq(SUBSET Commands) /\ Len(received') = L + n
      /\ \A p \in 1 .. L + n :
            received'[p] = IF p <= L THEN received[p] ELSE list[p - L].got
  <2>1. received' = received \o gots
    BY <1>2 DEF Dispatched
  <2> HIDE DEF gots
  <2>2. /\ received \o gots \in Seq(SUBSET Commands) /\ Len(received \o gots) = L + n
        /\ \A p \in 1 .. L + n :
              (received \o gots)[p] = IF p <= L THEN received[p] ELSE gots[p - L]
    BY <1>1, <1>5, ConcatFacts
  <2>3. \A p \in 1 .. L + n : ~(p <= L) => p - L \in 1 .. n
    BY <1>1, <1>3
  <2>4. ASSUME NEW p \in 1 .. L + n
        PROVE  received'[p] = IF p <= L THEN received[p] ELSE list[p - L].got
    <3>1. CASE p <= L
      BY <2>1, <2>2, <3>1
    <3>2. CASE ~(p <= L)
      <4>1. p - L \in 1 .. n
        BY <2>3, <3>2
      <4>2. gots[p - L] = list[p - L].got
        BY <1>5, <4>1
      <4> QED
        BY <2>1, <2>2, <3>2, <4>2
    <3> QED
      BY <3>1, <3>2
  <2> QED
    BY <2>1, <2>2, <2>4
<1>7. /\ waiting' \in Seq(Entry) /\ Len(waiting') = Len(list) - n
      /\ \A m \in 1 .. Len(list) - n : waiting'[m] = list[n + m]
  <2>1. waiting' = SubSeq(list, n + 1, Len(list))
    BY <1>2 DEF Dispatched
  <2>2. n + 1 \in 1 .. Len(list) + 1 /\ Len(list) \in (n + 1) - 1 .. Len(list)
        /\ (Len(list) - (n + 1)) + 1 = Len(list) - n
        /\ \A m \in 1 .. Len(list) - n : ((n + 1) + m) - 1 = n + m
    BY <1>1, <1>3
  <2> DEFINE rest == SubSeq(list, n + 1, Len(list))
  <2>3. /\ rest \in Seq(Entry) /\ Len(rest) = (Len(list) - (n + 1)) + 1
        /\ \A m \in 1 .. (Len(list) - (n + 1)) + 1 : rest[m] = list[((n + 1) + m) - 1]
    <3>1. list \in Seq(Entry)
      BY <1>1
    <3>2. n + 1 \in 1 .. Len(list) + 1 /\ Len(list) \in (n + 1) - 1 .. Len(list)
      BY <2>2
    <3> QED
      BY <3>1, <3>2, SubSeqFacts
  <2> HIDE DEF rest
  <2>4. Len(rest) = Len(list) - n /\ \A m \in 1 .. Len(list) - n : rest[m] = list[n + m]
    BY <2>2, <2>3
  <2> QED
    BY <2>1, <2>3, <2>4 DEF rest
<1>8. Taken(list, L, P, N, n) /\ n \in 0 .. n
  BY <1>3, <1>4
<1>9. R' = Last(L + n) /\ L + n \in 0 .. Len(Lengths) /\ L + n <= P
  BY <1>1, <1>3, <1>6, <1>8, LengthsType DEF R, Taken
<1>10. R \in Nat /\ R' \in Nat /\ R <= R'
  BY <1>1, <1>3, <1>9, LastType, LastMonotone DEF R
<1>11. ReceivedFits(N)'
  <2>1. ASSUME NEW p \in 1 .. L + n PROVE received'[p] = CommandsOf(p)
    <3>1. CASE p <= L
      BY <1>1, <1>6, <3>1 DEF ReceivedFits
    <3>2. CASE ~(p <= L)
      <4>1. p - L \in 0 .. n /\ p - L # 0 /\ L + (p - L) = p
        BY <1>1, <1>3, <3>2
      <4>2. list[p - L].got = CommandsOf(p)
        BY <1>4, <4>1 DEF Taken
      <4> QED
        BY <1>6, <3>2, <4>2
    <3> QED
      BY <3>1, <3>2
  <2>2. incoming' = SeqNumber(R') /\ R' <= N
    BY <1>2, <1>8, <1>9 DEF Dispatched, Taken
  <2> QED
    BY <1>6, <1>9, <2>1, <2>2 DEF ReceivedFits
<1>12. WaitingFits(N)'
  <2>1. ASSUME NEW m \in 1 .. Len(list) - n
        PROVE  \E q \in (L + n) + 1 .. P : EntryOf(waiting'[m], q, N)
    <3>0. n + m \in 1 .. Len(list) /\ m # 0
      BY <1>1, <1>3
    <3>1. n + m \in 1 .. Len(list) /\ waiting'[m] = list[n + m] /\ m # 0
      BY <3>0, <1>7
    <3>2. PICK q \in L + 1 .. P : EntryOf(list[n + m], q, N)
      BY <3>1 DEF ListFits
    <3>3. q > L + n
      <4>1. SUFFICES ASSUME ~(q > L + n) PROVE FALSE
        OBVIOUS
      <4>2. q - L \in 0 .. n /\ q - L # 0 /\ L + (q - L) = q /\ q - L \in 1 .. Len(list)
        BY <1>1, <1>3, <4>1
      <4>3. list[q - L].seq = SeqNumber(First[q])
        BY <1>4, <4>2 DEF Taken, EntryOf
      <4>4. list[q - L].seq = list[n + m].seq
        BY <3>2, <4>3 DEF EntryOf
      <4>5. q - L = n + m
        BY <3>1, <4>2, <4>4 DEF ListFits
      <4> QED
        BY <1>3, <3>1, <4>2, <4>5
    <3> QED
      BY <1>1, <1>3, <3>1, <3>2, <3>3
  <2>2. ASSUME NEW k \in 1 .. Len(list) - n, NEW l \in 1 .. Len(list) - n,
               waiting'[k].seq = waiting'[l].seq
        PROVE  k = l
    <3>1. n + k \in 1 .. Len(list) /\ n + l \in 1 .. Len(list)
      BY <1>1, <1>3
    <3>2. n + k = n + l
      BY <1>7, <2>2, <3>1 DEF ListFits
    <3> QED
      BY <1>3, <3>2
  <2> HIDE DEF L, P
  <2>3. packets' = P
    BY DEF P
  <2>4. ListFits(waiting', L + n, P, N)
    <3>1. 1 .. Len(waiting') = 1 .. Len(list) - n
      BY <1>7
    <3>2. \A k \in 1 .. Len(waiting') :
             \E q \in (L + n) + 1 .. P : EntryOf(waiting'[k], q, N)
      BY <2>1, <3>1
    <3>3. \A k, l \in 1 .. Len(waiting') : waiting'[k].seq = waiting'[l].seq => k = l
      BY <2>2, <3>1
    <3> QED
      BY <1>7, <3>2, <3>3 DEF ListFits
  <2>5. Len(received') = L + n
    BY <1>6
  <2> QED
    BY <2>3, <2>4, <2>5 DEF WaitingFits
<1>13. Ahead(N)'
  <2>0. W(R) <= W(R')
    BY <1>10, WindowMonotone
  <2>1. W(R) \in Int /\ W(R') \in Int /\ W(N) \in Int
    BY <1>10, WindowBounds
  <2>2. W(N) <= W(R') + FreeWindows - 1
    BY <2>0, <2>1, Sizes DEF Ahead
  <2> QED
    BY <2>2 DEF Ahead, W
<1>14. ASSUME NEW i, i \in 1 .. R \/ Holds(list, i)
       PROVE  i \in 1 .. R' \/ Holds(waiting', i)
  <2>1. CASE i \in 1 .. R
    BY <1>10, <2>1
  <2>2. CASE Holds(list, i)
    <3>1. PICK k \in 1 .. Len(list) : i \in list[k].got
      BY <2>2 DEF Holds
    <3>2. CASE k <= n
      <4>1. k \in 0 .. n /\ k # 0 /\ L + k \in Packets /\ L + k \in 0 .. Len(Lengths)
            /\ L + k <= L + n
        BY <1>1, <1>3, <1>9, <3>2, LengthsType
      <4>2. i \in CommandsOf(L + k)
        BY <1>4, <3>1, <4>1 DEF Taken
      <4>3. i \in Last(L + k - 1) + 1 .. Last(L + k) /\ Last(L + k - 1) \in Nat
            /\ Last(L + k) \in Nat
        BY <4>1, <4>2, CommandsOfIs, LastStep
      <4>4. Last(L + k) <= R'
        BY <1>9, <4>1, LastMonotone
      <4> QED
        BY <1>10, <4>3, <4>4
    <3>3. CASE ~(k <= n)
      <4>1. k - n \in 1 .. Len(list) - n /\ n + (k - n) = k
        BY <1>1, <1>3, <3>3
      <4>2. waiting'[k - n] = list[k]
        BY <1>7, <4>1
      <4>3. k - n \in 1 .. Len(waiting')
        BY <1>7, <4>1
      <4> QED
        BY <3>1, <4>2, <4>3 DEF Holds
    <3> QED
      BY <3>2, <3>3
  <2> QED
    BY <1>14, <2>1, <2>2
<1> QED
  BY <1>10, <1>11, <1>12, <1>13, <1>14 DEF Receiver

-----------------------------------------------------------------------------
(***************************************************************************)
(* What a datagram's sequence number says to the receiver.                 *)
(***************************************************************************)

\* Of a packet handed over before, r being the last command handed over, it is
\* out of the windows accepted: a packet spans two windows at most.
LEMMA OldRefused ==
    ASSUME NEW r \in Nat, NEW i \in Nat, i > r - Lifetime,
           NEW s \in Nat, s < r, i <= s + WindowSize
    PROVE  ~(RelativeWindow(SeqNumber(s), SeqNumber(r)) \in 0 .. FreeWindows - 2)
<1>1. r <= s + Space
  BY Sizes
<1>2. RelativeWindow(SeqNumber(s), SeqNumber(r)) = W(s) + Windows - W(r)
  BY <1>1, RelativeBehind
<1>3. W(i) <= W(s) + 1 /\ W(i) + (Windows - FreeWindows) >= W(r)
  BY WindowOfStart, WindowAlive
<1>4. W(i) \in Int /\ W(s) \in Int /\ W(r) \in Int /\ Windows \in Int /\ FreeWindows \in Int
  BY WindowBounds, Sizes
<1> QED
  BY <1>2, <1>3, <1>4

\* Of a packet still to come it is out of them only when it is too far ahead.
LEMMA NewRefused ==
    ASSUME NEW N \in Nat, NEW r \in Nat, W(N) <= W(r) + FreeWindows - 1,
           NEW s \in Nat, NEW i \in Nat, r < s, s <= i, i <= N,
           ~(RelativeWindow(SeqNumber(s), SeqNumber(r)) \in 0 .. FreeWindows - 2)
    PROVE  W(i) >= W(r) + FreeWindows - 1
<1>1. s < r + Space
  <2>1. N < r + Space /\ Space \in Nat
    BY NearReceived, Sizes
  <2> QED
    BY <2>1
<1>2. RelativeWindow(SeqNumber(s), SeqNumber(r)) = W(s) - W(r)
  BY <1>1, RelativeAhead
<1>3. W(r) <= W(s) /\ W(s) <= W(i)
  BY WindowMonotone
<1>4. W(i) \in Int /\ W(s) \in Int /\ W(r) \in Int /\ FreeWindows \in Int
  BY WindowBounds, Sizes
<1> QED
  BY <1>2, <1>3, <1>4

\* What is acknowledged is in the windows accepted, or was handed over.
LEMMA AcknowledgedNear ==
    ASSUME NEW N \in Nat, NEW r \in Nat, W(N) <= W(r) + FreeWindows - 1,
           NEW i \in 1 .. N, Acknowledges(SeqNumber(i), SeqNumber(r))
    PROVE  W(i) <= W(r) + FreeWindows - 2
<1>1. W(i) \in Int /\ W(N) \in Int /\ W(r) \in Int /\ FreeWindows \in Int /\ FreeWindows >= 3
      /\ i \in Nat /\ i <= N /\ Space \in Nat
  BY WindowBounds, Sizes
<1>2. CASE i <= r
  <2>1. W(i) <= W(r)
    BY <1>1, <1>2, WindowMonotone
  <2> QED
    BY <1>1, <2>1
<1>3. CASE r < i
  <2>1. i < r + Space
    <3>1. N < r + Space
      BY NearReceived
    <3> QED
      BY <1>1, <3>1
  <2>2. RelativeWindow(SeqNumber(i), SeqNumber(r)) = W(i) - W(r)
    BY <1>1, <1>3, <2>1, RelativeAhead
  <2>3. W(i) <= W(N)
    BY <1>1, WindowMonotone
  <2> QED
    BY <1>1, <2>2, <2>3 DEF Acknowledges
<1> QED
  BY <1>1, <1>2, <1>3

\* An entry with the number of a packet to come is that packet's.
LEMMA EntryOfPacket ==
    ASSUME NEW N \in Nat, packets \in 0 .. Len(Lengths), Receiver(N),
           NEW p \in Len(received) + 1 .. packets, First[p] <= N,
           NEW k \in 1 .. Len(waiting), waiting[k].seq = SeqNumber(First[p])
    PROVE  EntryOf(waiting[k], p, N)
<1>1. Len(received) \in 0 .. packets /\ Last(Len(received)) <= N
      /\ W(N) <= W(Last(Len(received))) + FreeWindows - 1
  BY DEF Receiver, ReceivedFits, Ahead, R
<1>2. PICK q \in Len(received) + 1 .. packets : EntryOf(waiting[k], q, N)
  BY DEF Receiver, WaitingFits, ListFits
<1>3. /\ First[q] \in Nat /\ First[q] > Last(Len(received)) /\ First[q] <= N
      /\ N < Last(Len(received)) + Space /\ Last(Len(received)) \in Nat /\ q \in Packets
  BY <1>1, <1>2, KeptFirst
<1>4. p \in Packets /\ p - 1 \in 0 .. Len(Lengths) /\ q - 1 \in 0 .. Len(Lengths)
      /\ Len(received) \in 0 .. Len(Lengths) /\ Len(received) <= p - 1
  BY <1>1, <1>3, LengthsType
<1>5. First[p] = Last(p - 1) + 1 /\ Last(p - 1) \in Nat /\ Last(Len(received)) <= Last(p - 1)
      /\ First[q] = Last(q - 1) + 1 /\ Last(q - 1) \in Nat
  <2>1. First[p] = Last(p - 1) + 1 /\ Last(p - 1) \in Nat
    BY <1>4, LastStep
  <2>2. First[q] = Last(q - 1) + 1 /\ Last(q - 1) \in Nat
    BY <1>3, LastStep
  <2>3. Last(Len(received)) <= Last(p - 1)
    BY <1>4, LastMonotone
  <2> QED
    BY <2>1, <2>2, <2>3
<1>6. SeqNumber(First[q]) = SeqNumber(First[p])
  BY <1>2 DEF EntryOf
<1>7. First[q] = First[p]
  <2>1. Space \in Nat
    BY Sizes
  <2>2. First[p] \in Nat /\ First[q] < First[p] + Space /\ First[p] < First[q] + Space
    <3> DEFINE r == Last(Len(received))
               a == First[p]
               b == First[q]
    <3>1. r \in Nat /\ b \in Nat /\ b > r /\ b <= N /\ N < r + Space /\ a <= N
      BY <1>3
    <3>2. a \in Nat /\ a > r
      <4> DEFINE l == Last(p - 1)
      <4>1. a = l + 1 /\ l \in Nat /\ r <= l
        BY <1>5
      <4> HIDE DEF l, a, r
      <4> QED
        BY <3>1, <4>1
    <3> HIDE DEF r, a, b
    <3>3. a \in Nat /\ b < a + Space /\ a < b + Space
      BY <2>1, <3>1, <3>2
    <3> QED
      BY <3>3 DEF a, b
  <2>3. First[q] \in Nat
    BY <1>3
  <2> QED
    BY <1>6, <2>2, <2>3, SeqUnique
<1>8. p - 1 = q - 1
  <2> DEFINE a == Last(p - 1)
             b == Last(q - 1)
  <2>1. a \in Nat /\ b \in Nat /\ a + 1 = b + 1
    BY <1>5, <1>7
  <2> HIDE DEF a, b
  <2>2. a = b
    BY <2>1
  <2> QED
    BY <1>4, <2>2, LastInjective DEF a, b
<1>9. p = q
  BY <1>3, <1>4, <1>8, LengthsType
<1> QED
  BY <1>2, <1>9

-----------------------------------------------------------------------------
(***************************************************************************)
(* The lists a datagram makes of those that wait.                          *)
(***************************************************************************)
LEMMA InsertedIs ==
    ASSUME waiting \in Seq(Entry), NEW e \in Entry
    PROVE  \E n \in 0 .. Len(waiting) :
              /\ Inserted(e) \in Seq(Entry) /\ Len(Inserted(e)) = Len(waiting) + 1
              /\ \A k \in 1 .. Len(waiting) + 1 :
                    Inserted(e)[k] = IF k <= n THEN waiting[k]
                                     ELSE IF k = n + 1 THEN e ELSE waiting[k - 1]
<1> DEFINE before == {0} \cup {k \in DOMAIN waiting : Order(waiting[k].seq) < Order(e.seq)}
           n == Max(before)
           head == SubSeq(waiting, 1, n)
           tail == SubSeq(waiting, n + 1, Len(waiting))
           new == <<e>>
<1>1. Len(waiting) \in Nat /\ DOMAIN waiting = 1 .. Len(waiting)
  OBVIOUS
<1>2. n \in 0 .. Len(waiting)
  <2>1. before \in SUBSET Nat /\ before # {} /\ \A k \in before : k <= Len(waiting)
    BY <1>1
  <2> HIDE DEF before
  <2>2. n \in before /\ n \in Nat
    BY <1>1, <2>1, MaxFacts
  <2> QED
    BY <1>1, <2>1, <2>2
<1>3. Inserted(e) = head \o new \o tail
  BY DEF Inserted
<1> HIDE DEF n
<1>4. /\ head \in Seq(Entry) /\ Len(head) = n
      /\ \A k \in 1 .. n : head[k] = waiting[k]
  <2>1. 1 \in 1 .. Len(waiting) + 1 /\ n \in 1 - 1 .. Len(waiting) /\ (n - 1) + 1 = n
        /\ \A k \in 1 .. n : (1 + k) - 1 = k
    BY <1>1, <1>2
  <2>2. /\ head \in Seq(Entry) /\ Len(head) = (n - 1) + 1
        /\ \A k \in 1 .. (n - 1) + 1 : head[k] = waiting[(1 + k) - 1]
    BY <2>1, SubSeqFacts
  <2> HIDE DEF head
  <2> QED
    BY <2>1, <2>2
<1>5. /\ tail \in Seq(Entry) /\ Len(tail) = Len(waiting) - n
      /\ \A k \in 1 .. Len(waiting) - n : tail[k] = waiting[n + k]
  <2>1. n + 1 \in 1 .. Len(waiting) + 1 /\ Len(waiting) \in (n + 1) - 1 .. Len(waiting)
        /\ (Len(waiting) - (n + 1)) + 1 = Len(waiting) - n
        /\ \A k \in 1 .. Len(waiting) - n : ((n + 1) + k) - 1 = n + k
    BY <1>1, <1>2
  <2>2. /\ tail \in Seq(Entry) /\ Len(tail) = (Len(waiting) - (n + 1)) + 1
        /\ \A k \in 1 .. (Len(waiting) - (n + 1)) + 1 : tail[k] = waiting[((n + 1) + k) - 1]
    BY <2>1, SubSeqFacts
  <2> HIDE DEF tail
  <2> QED
    BY <2>1, <2>2
<1>6. new \in Seq(Entry) /\ Len(new) = 1 /\ new[1] = e
  OBVIOUS
<1> HIDE DEF head, tail, new
<1>7. /\ head \o new \in Seq(Entry) /\ Len(head \o new) = n + 1
      /\ \A k \in 1 .. n + 1 : (head \o new)[k] = IF k <= n THEN waiting[k] ELSE e
  <2>1. /\ head \o new \in Seq(Entry) /\ Len(head \o new) = n + 1
        /\ \A k \in 1 .. n + 1 : (head \o new)[k] = IF k <= n THEN head[k] ELSE new[k - n]
    <3>1. /\ head \o new \in Seq(Entry) /\ Len(head \o new) = Len(head) + Len(new)
          /\ \A k \in 1 .. Len(head) + Len(new) :
                (head \o new)[k] = IF k <= Len(head) THEN head[k] ELSE new[k - Len(head)]
      BY <1>4, <1>6, ConcatFacts
    <3> QED
      BY <1>4, <1>6, <3>1
  <2>2. \A k \in 1 .. n + 1 : k <= n => k \in 1 .. n
    BY <1>1, <1>2
  <2>3. \A k \in 1 .. n + 1 : ~(k <= n) => k - n = 1
    BY <1>1, <1>2
  <2> QED
    BY <1>4, <1>6, <2>1, <2>2, <2>3
<1> DEFINE front == head \o new
<1>8. /\ front \o tail \in Seq(Entry) /\ Len(front \o tail) = Len(waiting) + 1
      /\ \A k \in 1 .. Len(waiting) + 1 :
            (front \o tail)[k] = IF k <= n + 1 THEN front[k] ELSE tail[k - (n + 1)]
  <2>1. /\ front \in Seq(Entry) /\ Len(front) = n + 1
    BY <1>7
  <2> HIDE DEF front
  <2>2. (n + 1) + (Len(waiting) - n) = Len(waiting) + 1
    BY <1>1, <1>2
  <2> QED
    BY <1>5, <2>1, <2>2, ConcatFacts
<1>9. ASSUME NEW k \in 1 .. Len(waiting) + 1
      PROVE  (front \o tail)[k] = IF k <= n THEN waiting[k]
                                  ELSE IF k = n + 1 THEN e ELSE waiting[k - 1]
  <2>1. CASE k <= n + 1
    <3>1. k \in 1 .. n + 1 /\ (~(k <= n) => k = n + 1)
      BY <1>1, <1>2, <2>1
    <3>2. (front \o tail)[k] = front[k]
      BY <1>8, <2>1
    <3> QED
      BY <1>7, <3>1, <3>2
  <2>2. CASE ~(k <= n + 1)
    <3>1. k - (n + 1) \in 1 .. Len(waiting) - n /\ n + (k - (n + 1)) = k - 1
          /\ ~(k <= n) /\ k # n + 1
      BY <1>1, <1>2, <2>2
    <3>2. (front \o tail)[k] = tail[k - (n + 1)]
      BY <1>8, <2>2
    <3>3. tail[k - (n + 1)] = waiting[k - 1]
      BY <1>5, <3>1
    <3> QED
      BY <3>1, <3>2, <3>3
  <2> QED
    BY <2>1, <2>2
<1>10. front \o tail \in Seq(Entry) /\ Len(front \o tail) = Len(waiting) + 1
  BY <1>8
<1>11. Inserted(e) = front \o tail
  BY <1>3
<1> HIDE DEF front
<1> QED
  BY <1>2, <1>9, <1>10, <1>11

\* A new entry for a packet that has none.
LEMMA InsertFits ==
    ASSUME NEW L, NEW P, NEW N, ListFits(waiting, L, P, N),
           NEW e \in Entry, NEW q \in L + 1 .. P, EntryOf(e, q, N),
           \A k \in 1 .. Len(waiting) : waiting[k].seq # e.seq
    PROVE  /\ ListFits(Inserted(e), L, P, N)
           /\ \A i : Holds(waiting, i) \/ i \in e.got => Holds(Inserted(e), i)
<1> DEFINE list == Inserted(e)
           len == Len(waiting)
<1>1. waiting \in Seq(Entry) /\ len \in Nat
  BY DEF ListFits
<1>2. PICK n \in 0 .. len :
         /\ list \in Seq(Entry) /\ Len(list) = len + 1
         /\ \A k \in 1 .. len + 1 :
               list[k] = IF k <= n THEN waiting[k]
                         ELSE IF k = n + 1 THEN e ELSE waiting[k - 1]
  BY <1>1, InsertedIs
<1> HIDE DEF list, len
<1> DEFINE from(k) == IF k <= n THEN k ELSE k - 1
<1>3. ASSUME NEW k \in 1 .. len + 1, k # n + 1
      PROVE  from(k) \in 1 .. len /\ list[k] = waiting[from(k)]
  <2>1. CASE k <= n
    BY <1>1, <1>2, <2>1
  <2>2. CASE ~(k <= n)
    BY <1>1, <1>2, <1>3, <2>2
  <2> QED
    BY <2>1, <2>2
<1>4. n + 1 \in 1 .. len + 1 /\ list[n + 1] = e
  BY <1>1, <1>2
<1>5. ASSUME NEW k \in 1 .. len + 1 PROVE \E p \in L + 1 .. P : EntryOf(list[k], p, N)
  <2>1. CASE k = n + 1
    BY <1>4, <2>1
  <2>2. CASE k # n + 1
    BY <1>3, <2>2 DEF ListFits, len
  <2> QED
    BY <2>1, <2>2
<1>6. ASSUME NEW k \in 1 .. len + 1, NEW l \in 1 .. len + 1, list[k].seq = list[l].seq
      PROVE  k = l
  <2>1. CASE k = n + 1 /\ l = n + 1
    BY <2>1
  <2>2. CASE k = n + 1 /\ l # n + 1
    BY <1>3, <1>4, <1>6, <2>2 DEF len
  <2>3. CASE k # n + 1 /\ l = n + 1
    BY <1>3, <1>4, <1>6, <2>3 DEF len
  <2>4. CASE k # n + 1 /\ l # n + 1
    <3>1. /\ from(k) \in 1 .. len /\ from(l) \in 1 .. len
          /\ waiting[from(k)].seq = waiting[from(l)].seq
      BY <1>3, <1>6, <2>4
    <3> HIDE DEF from
    <3>2. from(k) = from(l)
      BY <3>1 DEF ListFits, len
    <3> USE DEF from
    <3> QED
      BY <1>1, <2>4, <3>2
  <2> QED
    BY <2>1, <2>2, <2>3, <2>4
<1>7. ListFits(list, L, P, N)
  <2>1. 1 .. Len(list) = 1 .. len + 1
    BY <1>2
  <2>2. \A k \in 1 .. Len(list) : \E p \in L + 1 .. P : EntryOf(list[k], p, N)
    BY <1>5, <2>1
  <2>3. \A k, l \in 1 .. Len(list) : list[k].seq = list[l].seq => k = l
    BY <1>6, <2>1
  <2> QED
    BY <1>2, <2>2, <2>3 DEF ListFits
<1>8. ASSUME NEW i, Holds(waiting, i) \/ i \in e.got PROVE Holds(list, i)
  <2>1. CASE i \in e.got
    BY <1>2, <1>4, <2>1 DEF Holds
  <2>2. CASE Holds(waiting, i)
    <3>1. PICK k \in 1 .. len : i \in waiting[k].got
      BY <2>2 DEF Holds, len
    <3>2. CASE k <= n
      <4>1. k \in 1 .. len + 1 /\ list[k] = waiting[k]
        BY <1>1, <1>2, <3>2
      <4> QED
        BY <1>2, <3>1, <4>1 DEF Holds
    <3>3. CASE ~(k <= n)
      <4>1. k + 1 \in 1 .. len + 1 /\ ~(k + 1 <= n) /\ k + 1 # n + 1 /\ (k + 1) - 1 = k
        BY <1>1, <1>2, <3>3
      <4>2. list[k + 1] = waiting[k]
        BY <1>2, <4>1
      <4> QED
        BY <1>2, <3>1, <4>1, <4>2 DEF Holds
    <3> QED
      BY <3>2, <3>3
  <2> QED
    BY <1>8, <2>1, <2>2
<1> QED
  BY <1>7, <1>8 DEF list

\* A fragment more in an entry.
Filled(list, k, got) == list = [waiting EXCEPT ![k].got = got]

LEMMA FillFits ==
    ASSUME NEW L, NEW P, NEW N, ListFits(waiting, L, P, N),
           NEW q \in L + 1 .. P, NEW k \in 1 .. Len(waiting), EntryOf(waiting[k], q, N),
           NEW got \in SUBSET Commands, waiting[k].got \subseteq got,
           got \subseteq CommandsOf(q), \A i \in got : i <= N,
           NEW list, Filled(list, k, got)
    PROVE  /\ ListFits(list, L, P, N)
           /\ \A i : Holds(waiting, i) \/ i \in got => Holds(list, i)
<1>1. waiting \in Seq(Entry) /\ Len(waiting) \in Nat /\ waiting[k] \in Entry
      /\ DOMAIN waiting = 1 .. Len(waiting)
  BY DEF ListFits
<1> DEFINE e == [waiting[k] EXCEPT !.got = got]
<1>2. /\ e \in Entry /\ e.seq = waiting[k].seq /\ e.got = got
      /\ e.fragmentCount = waiting[k].fragmentCount
  BY <1>1 DEF Entry
<1>3. list = [waiting EXCEPT ![k] = e]
  BY <1>1 DEF Filled
<1> HIDE DEF e
<1>4. /\ list \in Seq(Entry) /\ Len(list) = Len(waiting)
      /\ \A l \in 1 .. Len(waiting) : list[l] = IF l = k THEN e ELSE waiting[l]
  BY <1>1, <1>2, <1>3
<1>5. EntryOf(e, q, N)
  <2>1. got # {}
    BY DEF EntryOf
  <2> QED
    BY <1>2, <2>1 DEF EntryOf
<1>6. \A l \in 1 .. Len(list) : \E p \in L + 1 .. P : EntryOf(list[l], p, N)
  BY <1>4, <1>5 DEF ListFits
<1>7. \A l \in 1 .. Len(waiting) : list[l].seq = waiting[l].seq
  BY <1>2, <1>4
<1>8. \A l, m \in 1 .. Len(list) : list[l].seq = list[m].seq => l = m
  BY <1>4, <1>7 DEF ListFits
<1>9. ListFits(list, L, P, N)
  BY <1>4, <1>6, <1>8 DEF ListFits
<1>10. ASSUME NEW i, Holds(waiting, i) \/ i \in got PROVE Holds(list, i)
  <2>1. CASE i \in got
    BY <1>2, <1>4, <2>1 DEF Holds
  <2>2. CASE Holds(waiting, i)
    BY <1>2, <1>4, <2>2 DEF Holds
  <2> QED
    BY <1>10, <2>1, <2>2
<1> QED
  BY <1>9, <1>10

-----------------------------------------------------------------------------
(***************************************************************************)
(* What the receiver does with a datagram.                                 *)
(***************************************************************************)
Have(i) == i \in 1 .. R \/ Holds(waiting, i)
TooFar(i) == W(i) >= W(R) + FreeWindows - 1

Discards(i) ==
    /\ UNCHANGED receiverVars
    /\ UNCHANGED acks \/ (Acknowledge(i) /\ (Have(i) \/ TooFar(i)))
Adds(i, N) ==
    \E list :
       /\ ListFits(list, Len(received), packets, N)
       /\ \A j : Holds(waiting, j) \/ j = i => Holds(list, j)
       /\ Dispatch(list) /\ Acknowledge(i)

\* Command i of packet p, as the receiver may find it.
Located(i, p, N) ==
    /\ p \in Packets /\ p \in 1 .. packets /\ PacketOf(i) = p
    /\ i \in CommandsOf(p) /\ i \in 1 .. N /\ N \in Nat
    /\ First[p] \in Nat \ {0} /\ First[p] <= i /\ i <= First[p] + WindowSize
    /\ i <= Last(p) /\ Last(p) = First[p] + Lengths[p] - 1
    /\ Lengths[p] \in Nat \ {0} /\ Last(p) \in Nat

LEMMA Locate ==
    ASSUME packets \in 0 .. Len(Lengths), NEW N \in Nat, N <= Last(packets),
           NEW i \in 1 .. N
    PROVE  \E p : Located(i, p, N)
<1>1. i \in 1 .. Last(packets)
  BY LastType
<1>2. PICK p \in 1 .. packets : i \in CommandsOf(p)
  BY <1>1, PacketExists
<1>3. p \in Packets
  BY LengthsType
<1>4. PacketOf(i) = p
  BY <1>2, <1>3, PacketOfIs
<1>5. /\ Last(p) \in Nat /\ Last(p - 1) \in Nat /\ First[p] = Last(p - 1) + 1
      /\ Last(p) = Last(p - 1) + Lengths[p] /\ Lengths[p] \in 1 .. WindowSize + 1
      /\ i \in Last(p - 1) + 1 .. Last(p) /\ Lengths[p] \in Nat \ {0} /\ WindowSize \in Nat
  <2>1. /\ Last(p) \in Nat /\ Last(p - 1) \in Nat /\ First[p] = Last(p - 1) + 1
        /\ Last(p) = Last(p - 1) + Lengths[p] /\ Lengths[p] \in 1 .. WindowSize + 1
    BY <1>3, LastStep
  <2>2. i \in Last(p - 1) + 1 .. Last(p)
    BY <1>2, <1>3, CommandsOfIs
  <2>3. Lengths[p] \in Nat \ {0} /\ WindowSize \in Nat
    BY <1>3, LengthsType, Sizes
  <2> QED
    BY <2>1, <2>2, <2>3
<1>6. /\ First[p] \in Nat \ {0} /\ First[p] <= i /\ i <= First[p] + WindowSize
      /\ i <= Last(p) /\ Last(p) = First[p] + Lengths[p] - 1
  <2> DEFINE f == First[p]
             l == Last(p)
             b == Last(p - 1)
             n == Lengths[p]
             w == WindowSize
  <2>1. /\ b \in Nat /\ f = b + 1 /\ l = b + n /\ n \in 1 .. w + 1 /\ w \in Nat
        /\ i \in b + 1 .. l
    BY <1>5
  <2> HIDE DEF f, l, b, n, w
  <2>2. f \in Nat \ {0} /\ f <= i /\ i <= f + w /\ i <= l /\ l = f + n - 1
    BY <2>1
  <2> QED
    BY <2>2 DEF f, l, n, w
<1>7. i \in 1 .. N /\ p \in 1 .. packets /\ i \in CommandsOf(p)
  BY <1>2
<1>8. Lengths[p] \in Nat \ {0} /\ Last(p) \in Nat
  BY <1>5
<1> QED
  BY <1>3, <1>4, <1>6, <1>7, <1>8 DEF Located

\* A packet handed over before.
LEMMA OldPacket ==
    ASSUME packets \in 0 .. Len(Lengths), NEW N, Receiver(N), NEW p, NEW i,
           Located(i, p, N), p <= Len(received), i > N - Lifetime
    PROVE  /\ Have(i) /\ Last(p) <= R /\ R \in Nat
           /\ First[p] < R => ~Accepts(SeqNumber(First[p]))
<1>1. Len(received) \in 0 .. packets /\ R = Last(Len(received)) /\ incoming = SeqNumber(R)
      /\ R <= N /\ N \in Nat /\ Len(received) \in 0 .. Len(Lengths)
      /\ p \in 0 .. Len(Lengths)
  BY LengthsType DEF Receiver, ReceivedFits, R, Located
<1>2. R \in Nat /\ Last(p) <= R
  BY <1>1, LastType, LastMonotone
<1>3. Have(i)
  BY <1>2 DEF Have, Located
<1>4. ASSUME First[p] < R PROVE ~Accepts(SeqNumber(First[p]))
  <2>1. i \in Nat /\ i > R - Lifetime /\ First[p] \in Nat /\ i <= First[p] + WindowSize
    BY <1>1, <1>2, Sizes DEF Located
  <2>2. ~(RelativeWindow(SeqNumber(First[p]), SeqNumber(R)) \in 0 .. FreeWindows - 2)
    BY <1>2, <1>4, <2>1, OldRefused
  <2> QED
    BY <1>1, <2>2 DEF Accepts
<1> QED
  BY <1>2, <1>3, <1>4

\* Two commands less than Space apart, whichever comes first.
LEMMA Nearby ==
    ASSUME NEW a \in Nat, NEW r \in Nat, NEW n \in Nat, NEW s \in Nat,
           r < a, a <= n, n < r + s
    PROVE  a < r + s /\ r < a + s
  OBVIOUS

\* A packet still to come.
LEMMA NewPacket ==
    ASSUME packets \in 0 .. Len(Lengths), NEW N, Receiver(N), NEW p, NEW i,
           Located(i, p, N), p > Len(received)
    PROVE  /\ p \in Len(received) + 1 .. packets /\ First[p] <= N
           /\ SeqNumber(First[p]) # incoming
           /\ ~Accepts(SeqNumber(First[p])) => TooFar(i)
<1>1. Len(received) \in 0 .. packets /\ R = Last(Len(received)) /\ incoming = SeqNumber(R)
      /\ R <= N /\ N \in Nat /\ Len(received) \in 0 .. Len(Lengths)
      /\ p - 1 \in 0 .. Len(Lengths) /\ Len(received) <= p - 1
  <2>1. /\ received \in Seq(SUBSET Commands) /\ Len(received) <= packets
        /\ incoming = SeqNumber(R) /\ R <= N
    BY DEF Receiver, ReceivedFits
  <2>2. p \in 1 .. packets /\ N \in Nat
    BY DEF Located
  <2>3. Len(received) \in Nat /\ packets \in Nat /\ Len(Lengths) \in Nat
        /\ packets <= Len(Lengths)
    BY <2>1, LengthsType
  <2>4. Len(received) \in 0 .. packets /\ Len(received) \in 0 .. Len(Lengths)
        /\ p - 1 \in 0 .. Len(Lengths) /\ Len(received) <= p - 1
    BY <2>1, <2>2, <2>3
  <2> QED
    BY <2>1, <2>2, <2>4 DEF R
<1>2. R \in Nat /\ R <= Last(p - 1) /\ First[p] = Last(p - 1) + 1 /\ Last(p - 1) \in Nat
  <2>1. R \in Nat
    BY <1>1, LastType
  <2>2. R <= Last(p - 1)
    BY <1>1, LastMonotone
  <2>3. First[p] = Last(p - 1) + 1 /\ Last(p - 1) \in Nat
    BY LastStep DEF Located
  <2> QED
    BY <2>1, <2>2, <2>3
<1>3. W(N) <= W(R) + FreeWindows - 1
  BY DEF Receiver, Ahead
<1>4. p \in Len(received) + 1 .. packets /\ First[p] <= N /\ R < First[p]
      /\ First[p] \in Nat /\ First[p] <= i /\ i <= N /\ i \in Nat
  <2>1. p \in 1 .. packets /\ First[p] \in Nat /\ First[p] <= i /\ i \in 1 .. N
    BY DEF Located
  <2>2. p \in Len(received) + 1 .. packets
    BY <1>1, <2>1
  <2> QED
    BY <1>1, <1>2, <2>1, <2>2
<1>5. N < R + Space /\ Space \in Nat
  <2>1. N < R + Space
    BY <1>1, <1>2, <1>3, NearReceived
  <2> QED
    BY <2>1, Sizes
<1>6. SeqNumber(First[p]) # incoming
  <2>4. N \in Nat /\ R \in Nat
    BY <1>1, <1>2
  <2>1. First[p] < R + Space /\ R < First[p] + Space
    BY <1>4, <1>5, <2>4, Nearby
  <2>2. SeqNumber(First[p]) = SeqNumber(R) => First[p] = R
    BY <1>2, <1>4, <2>1, SeqUnique
  <2>3. First[p] # R
    BY <1>2, <1>4
  <2> QED
    BY <1>1, <2>2, <2>3
<1>7. ASSUME ~Accepts(SeqNumber(First[p])) PROVE TooFar(i)
  <2>1. ~(RelativeWindow(SeqNumber(First[p]), SeqNumber(R)) \in 0 .. FreeWindows - 2)
    BY <1>1, <1>7 DEF Accepts
  <2> QED
    BY <1>1, <1>2, <1>3, <1>4, <2>1, NewRefused DEF TooFar
<1> QED
  BY <1>4, <1>6, <1>7

LEMMA ReliableOutcome ==
    ASSUME packets \in 0 .. Len(Lengths), NEW N, Receiver(N), NEW p, NEW i,
           Located(i, p, N), i > N - Lifetime, ReceiveReliable(i)
    PROVE  Discards(i) \/ Adds(i, N)
<1> DEFINE s == SeqNumber(i)
           e == [seq |-> s, fragmentCount |-> 0, got |-> {i}]
           known == \/ ~Accepts(s) \/ s = incoming
                    \/ \E k \in DOMAIN waiting : waiting[k].seq = s
<1>1. /\ First[p] = i /\ Lengths[p] = 1 /\ Last(p) = i /\ i \in Nat
      /\ CommandsOf(p) = {i}
  <2>1. Lengths[p] = 1
    BY DEF ReceiveReliable, Located
  <2>2. First[p] = i /\ Last(p) = i /\ i \in Nat
    BY <2>1 DEF Located
  <2> QED
    BY <2>1, <2>2 DEF CommandsOf
<1>2. /\ known => Ignored
      /\ ~known => Dispatch(Inserted(e))
      /\ Acknowledge(i)
  BY DEF ReceiveReliable
<1>3. ListFits(waiting, Len(received), packets, N) /\ DOMAIN waiting = 1 .. Len(waiting)
  BY DEF Receiver, WaitingFits, ListFits
<1>4. Len(received) \in Nat /\ p \in Nat
  BY LengthsType DEF Receiver, ReceivedFits, Located
<1>5. CASE known
  <2>1. Have(i) \/ TooFar(i)
    <3>1. CASE p <= Len(received)
      BY <3>1, OldPacket
    <3>2. CASE p > Len(received)
      <4>1. p \in Len(received) + 1 .. packets /\ First[p] <= N /\ s # incoming
            /\ (~Accepts(s) => TooFar(i))
        BY <1>1, <3>2, NewPacket
      <4>2. CASE ~Accepts(s)
        BY <4>1, <4>2
      <4>3. CASE Accepts(s)
        <5>1. PICK k \in 1 .. Len(waiting) : waiting[k].seq = SeqNumber(First[p])
          BY <1>1, <1>3, <1>5, <4>1, <4>3
        <5>2. EntryOf(waiting[k], p, N)
          BY <4>1, <5>1, EntryOfPacket DEF Located
        <5>3. i \in waiting[k].got
          BY <1>1, <5>2 DEF EntryOf
        <5> QED
          BY <5>3 DEF Have, Holds
      <4> QED
        BY <4>2, <4>3
    <3> QED
      BY <1>4, <3>1, <3>2
  <2> QED
    BY <1>2, <1>5, <2>1 DEF Discards, Ignored
<1>6. CASE ~known
  <2>1. p > Len(received)
    <3>1. SUFFICES ASSUME p <= Len(received) PROVE FALSE
      BY <1>4
    <3>2. i <= R /\ R \in Nat /\ (i < R => ~Accepts(s))
      BY <1>1, <3>1, OldPacket
    <3>3. i # R
      BY <1>6 DEF Receiver, ReceivedFits
    <3> QED
      BY <1>1, <1>6, <3>2, <3>3
  <2>2. p \in Len(received) + 1 .. packets
    BY <2>1, NewPacket
  <2>3. e \in Entry
    <3>1. i \in Commands
      BY DEF Located, Commands
    <3>2. s \in 0 .. Space - 1
      BY <1>1, Rounds
    <3> QED
      BY <3>1, <3>2 DEF Entry
  <2>4. EntryOf(e, p, N)
    BY <1>1 DEF EntryOf, Located
  <2>5. \A k \in 1 .. Len(waiting) : waiting[k].seq # e.seq
    BY <1>3, <1>6
  <2>6. i \in e.got /\ Dispatch(Inserted(e))
    BY <1>2, <1>6
  <2> HIDE DEF e
  <2>7. /\ ListFits(Inserted(e), Len(received), packets, N)
        /\ \A j : Holds(waiting, j) \/ j \in e.got => Holds(Inserted(e), j)
    BY <1>3, <2>2, <2>3, <2>4, <2>5, InsertFits
  <2> QED
    BY <1>2, <2>6, <2>7 DEF Adds
<1> QED
  BY <1>5, <1>6

LEMMA FragmentOutcome ==
    ASSUME packets \in 0 .. Len(Lengths), NEW N, Receiver(N), NEW p, NEW i,
           Located(i, p, N), i > N - Lifetime, ReceiveFragment(i)
    PROVE  Discards(i) \/ Adds(i, N)
<1> DEFINE start == SeqNumber(First[p])
           count == Lengths[p]
           same == {k \in DOMAIN waiting : waiting[k].seq = start}
           number(j) == j - First[PacketOf(j)]
           k == Min(same)
           got == waiting[k].got
           e == [seq |-> start, fragmentCount |-> count, got |-> {i}]
           more == IF \E j \in got : number(j) = number(i) THEN got ELSE got \cup {i}
           list == [waiting EXCEPT ![k].got = more]
<1>1. /\ PacketOf(i) = p /\ p \in Packets /\ p \in Nat /\ Lengths[p] > 1
      /\ Lengths[p] \in Nat /\ First[p] \in Nat /\ i \in CommandsOf(p) /\ i <= N
      /\ CommandsOf(p) \subseteq Commands
  BY LengthsType DEF ReceiveFragment, Located, Commands
<1>2. ListFits(waiting, Len(received), packets, N) /\ DOMAIN waiting = 1 .. Len(waiting)
      /\ Len(waiting) \in Nat
  BY DEF Receiver, WaitingFits, ListFits
<1>3. Len(received) \in Nat /\ Len(received) <= packets
  BY DEF Receiver, ReceivedFits
<1>4. \/ ~Accepts(start) /\ Ignored /\ Acknowledge(i)
      \/ /\ Accepts(start) /\ same = {} /\ start # incoming
         /\ Dispatch(Inserted(e)) /\ Acknowledge(i)
      \/ Ignored /\ UNCHANGED acks
      \/ /\ Accepts(start) /\ ~(same = {} /\ start # incoming)
         /\ ~(same = {} /\ start = incoming)
         /\ Dispatch(list) /\ Acknowledge(i)
  BY <1>1 DEF ReceiveFragment
<1>5. p <= Len(received) => Have(i) /\ ~Accepts(start)
  <2> SUFFICES ASSUME p <= Len(received) PROVE Have(i) /\ ~Accepts(start)
    OBVIOUS
  <2>1. Have(i) /\ Last(p) <= R /\ R \in Nat /\ (First[p] < R => ~Accepts(start))
    BY OldPacket
  <2>2. First[p] < R
    BY <1>1, <2>1 DEF Located
  <2> QED
    BY <2>1, <2>2
<1>6. p > Len(received) => /\ p \in Len(received) + 1 .. packets /\ First[p] <= N
                           /\ start # incoming /\ (~Accepts(start) => TooFar(i))
  BY NewPacket
<1>7. CASE ~Accepts(start) /\ Ignored /\ Acknowledge(i)
  <2>1. Have(i) \/ TooFar(i)
    BY <1>1, <1>3, <1>5, <1>6, <1>7
  <2> QED
    BY <1>7, <2>1 DEF Discards, Ignored
<1>8. CASE Ignored /\ UNCHANGED acks
  BY <1>8 DEF Discards, Ignored
<1>9. CASE /\ Accepts(start) /\ same = {} /\ start # incoming
           /\ Dispatch(Inserted(e)) /\ Acknowledge(i)
  <2>1. p \in Len(received) + 1 .. packets
    BY <1>1, <1>3, <1>5, <1>6, <1>9
  <2>2. e \in Entry
    <3>1. start \in 0 .. Space - 1
      BY <1>1, Rounds
    <3> QED
      BY <1>1, <3>1 DEF Entry
  <2>3. EntryOf(e, p, N)
    BY <1>1 DEF EntryOf
  <2>4. \A l \in 1 .. Len(waiting) : waiting[l].seq # e.seq
    BY <1>2, <1>9
  <2>5. i \in e.got
    OBVIOUS
  <2> HIDE DEF e
  <2>6. /\ ListFits(Inserted(e), Len(received), packets, N)
        /\ \A j : Holds(waiting, j) \/ j \in e.got => Holds(Inserted(e), j)
    BY <1>2, <2>1, <2>2, <2>3, <2>4, InsertFits
  <2> QED
    BY <1>9, <2>5, <2>6 DEF Adds
<1>10. CASE /\ Accepts(start) /\ ~(same = {} /\ start # incoming)
            /\ ~(same = {} /\ start = incoming)
            /\ Dispatch(list) /\ Acknowledge(i)
  <2>1. p \in Len(received) + 1 .. packets /\ First[p] <= N
    BY <1>1, <1>3, <1>5, <1>6, <1>10
  <2>2. k \in 1 .. Len(waiting) /\ waiting[k].seq = start
    <3>3. same \in SUBSET Nat
      BY <1>2
    <3> HIDE DEF same
    <3>1. same # {} /\ same \in SUBSET Nat
      BY <1>10, <3>3
    <3>2. k \in same
      BY <3>1, MinFacts
    <3> HIDE DEF k
    <3> QED
      BY <1>2, <3>2 DEF same
  <2> HIDE DEF k
  <2>3. EntryOf(waiting[k], p, N)
    BY <1>1, <2>1, <2>2, EntryOfPacket DEF Located
  <2>4. got \subseteq CommandsOf(p) /\ \A j \in got : j <= N
    BY <2>3 DEF EntryOf
  <2>5. more = got \cup {i}
    <3>1. ASSUME NEW j \in got, number(j) = number(i) PROVE j = i
      <4>1. j \in CommandsOf(p)
        BY <2>4
      <4>2. PacketOf(j) = p
        BY <1>1, <4>1, PacketOfIs
      <4>3. j \in Int /\ i \in Int
        <5>1. /\ CommandsOf(p) = Last(p - 1) + 1 .. Last(p)
              /\ Last(p) \in Nat /\ Last(p - 1) \in Nat
          BY <1>1, CommandsOfIs, LastStep
        <5>2. j \in CommandsOf(p) /\ i \in CommandsOf(p)
          BY <1>1, <4>1
        <5> HIDE DEF got
        <5> QED
          BY <5>1, <5>2
      <4> QED
        BY <1>1, <3>1, <4>2, <4>3
    <3> HIDE DEF number, got
    <3> QED
      BY <3>1
  <2>6. more \in SUBSET Commands /\ more \subseteq CommandsOf(p) /\ \A j \in more : j <= N
    BY <1>1, <2>4, <2>5
  <2>7. i \in more /\ waiting[k].got \subseteq more
    BY <2>5
  <2> HIDE DEF more
  <2>8. Filled(list, k, more)
    BY DEF Filled
  <2> HIDE DEF list
  <2>9. /\ ListFits(list, Len(received), packets, N)
        /\ \A j : Holds(waiting, j) \/ j \in more => Holds(list, j)
    <3> HIDE DEF start, count, same, number, got, e
    <3>1. ListFits(waiting, Len(received), packets, N)
      BY <1>2
    <3>2. p \in Len(received) + 1 .. packets /\ k \in 1 .. Len(waiting)
      BY <2>1, <2>2
    <3>3. waiting[k].got \subseteq more
      BY <2>7
    <3> QED
      BY <2>3, <2>6, <2>8, <3>1, <3>2, <3>3, FillFits
  <2> QED
    BY <1>10, <2>7, <2>9 DEF Adds
<1> HIDE DEF start, count, same, number, k, got, e, more, list
<1> QED
  BY <1>4, <1>7, <1>8, <1>9, <1>10

\* A datagram taken leaves the receiver as it should be, and is acknowledged
\* only when its command is there and not too far ahead.
Settled(i) == Have(i) /\ W(i) <= W(R) + FreeWindows - 2

LEMMA DataSound ==
    ASSUME packets \in 0 .. Len(Lengths), packets' = packets, NEW N \in Nat,
           N <= Last(packets), Receiver(N), NEW i \in 1 .. N, i > N - Lifetime,
           ReceiveReliable(i) \/ ReceiveFragment(i)
    PROVE  /\ Receiver(N)' /\ R \in Nat /\ R' \in Nat /\ R <= R'
           /\ \A j : Have(j) => Have(j)'
           /\ UNCHANGED acks \/ (acks' = acks \cup {i} /\ Settled(i)')
<1>1. PICK p : Located(i, p, N)
  BY Locate
<1>2. Discards(i) \/ Adds(i, N)
  BY <1>1, ReliableOutcome, FragmentOutcome
<1>3. i \in Nat /\ W(i) \in Int /\ FreeWindows \in Int
  BY WindowBounds, Sizes
<1>4. ASSUME Acknowledge(i), acks' # acks, Receiver(N)', R' \in Nat
      PROVE  acks' = acks \cup {i} /\ W(i) <= W(R') + FreeWindows - 2
  <2>1. acks' = acks \cup {i} /\ Acknowledges(SeqNumber(i), incoming')
    BY <1>4 DEF Acknowledge
  <2>2. incoming' = SeqNumber(R') /\ W(N) <= W(R') + FreeWindows - 1
    BY <1>4 DEF Receiver, ReceivedFits, Ahead, W
  <2> QED
    BY <1>4, <2>1, <2>2, AcknowledgedNear
<1>5. CASE Discards(i)
  <2>1. UNCHANGED receiverVars
    BY <1>5 DEF Discards
  <2>2. Receiver(N)' /\ R' = R
    BY <2>1 DEF receiverVars, Receiver, ReceivedFits, WaitingFits, Ahead, R, W
  <2>3. \A j : Have(j) => Have(j)'
    BY <2>1 DEF receiverVars, Have, R
  <2>4. R \in Nat
    <3>1. Len(received) \in 0 .. Len(Lengths)
      BY LengthsType DEF Receiver, ReceivedFits
    <3> QED
      BY <3>1, LastType DEF R
  <2>5. CASE UNCHANGED acks
    BY <2>2, <2>3, <2>4, <2>5
  <2>6. CASE acks' # acks
    <3>1. acks' = acks \cup {i} /\ W(i) <= W(R) + FreeWindows - 2
      BY <1>4, <1>5, <2>2, <2>4, <2>6 DEF Discards
    <3>2. Have(i)
      <4>1. W(R) \in Int
        BY <2>4, WindowBounds
      <4> QED
        BY <1>3, <1>5, <2>6, <3>1, <4>1 DEF Discards, TooFar
    <3>3. Settled(i)'
      BY <2>2, <2>3, <3>1, <3>2 DEF Settled, W
    <3> QED
      BY <2>2, <2>3, <2>4, <3>1, <3>3
  <2> QED
    BY <2>5, <2>6
<1>6. CASE Adds(i, N)
  <2>1. PICK list :
          /\ ListFits(list, Len(received), packets, N)
          /\ \A j : Holds(waiting, j) \/ j = i => Holds(list, j)
          /\ Dispatch(list) /\ Acknowledge(i)
    BY <1>6 DEF Adds
  <2>2. /\ Receiver(N)' /\ R \in Nat /\ R' \in Nat /\ R <= R'
        /\ \A j : j \in 1 .. R \/ Holds(list, j) => j \in 1 .. R' \/ Holds(waiting', j)
    BY <2>1, DispatchSound DEF Receiver
  <2>3. \A j : Have(j) \/ j = i => j \in 1 .. R' \/ Holds(waiting', j)
    BY <2>1, <2>2 DEF Have
  <2>4. \A j : Have(j) \/ j = i => Have(j)'
    BY <2>3 DEF Have, Holds
  <2>5. CASE UNCHANGED acks
    BY <2>2, <2>4, <2>5
  <2>6. CASE acks' # acks
    <3>1. acks' = acks \cup {i} /\ W(i) <= W(R') + FreeWindows - 2
      BY <1>4, <2>1, <2>2, <2>6
    <3>2. Settled(i)'
      BY <2>4, <3>1 DEF Settled, W
    <3> QED
      BY <2>2, <2>4, <3>1, <3>2
  <2> QED
    BY <2>5, <2>6
<1> QED
  BY <1>2, <1>5, <1>6

-----------------------------------------------------------------------------
(***************************************************************************)
(* The sender's lists.                                                     *)
(***************************************************************************)

\* The queue starts with m commands to be sent again; the commands after N
\* follow, in order.
Queue(out, att, N, P, m) ==
    /\ N = Last(P) - (Len(out) - m)
    /\ \A n \in 1 .. Len(out) : n <= m => out[n] \in att
    /\ \A n \in 1 .. Len(out) : n > m => out[n] = N + (n - m)

Distinct(q) == \A k, l \in 1 .. Len(q) : q[k] = q[l] => k = l

\* With N the newest command sent: what was sent and not acknowledged is in one
\* of the lists, once.
ListsFit(out, snt, att, N, P) ==
    /\ out \in Seq(Commands) /\ snt \in Seq(Commands)
    /\ \E m \in 0 .. Len(out) : Queue(out, att, N, P, m)
    /\ \A n \in 1 .. Len(snt) : snt[n] \in att
    /\ att \subseteq 1 .. N
    /\ \A j \in att : \/ \E n \in 1 .. Len(out) : out[n] = j
                      \/ \E n \in 1 .. Len(snt) : snt[n] = j
    /\ Distinct(out) /\ Distinct(snt)
    /\ \A k \in 1 .. Len(out), l \in 1 .. Len(snt) : out[k] # snt[l]

LEMMA ListsTypes ==
    ASSUME NEW out, NEW snt, NEW att, NEW N, NEW P, ListsFit(out, snt, att, N, P)
    PROVE  /\ Len(out) \in Nat /\ Len(snt) \in Nat
           /\ DOMAIN out = 1 .. Len(out) /\ DOMAIN snt = 1 .. Len(snt)
           /\ \A n \in 1 .. Len(out) : out[n] \in Commands
           /\ \A n \in 1 .. Len(snt) : snt[n] \in Commands
  BY DEF ListsFit

\* enet_peer_send puts the c commands after b at the end of the queue.
Appended(new, out, b, c) ==
    /\ new \in Seq(Commands) /\ Len(new) = Len(out) + c
    /\ \A k \in 1 .. Len(out) : new[k] = out[k]
    /\ \A k \in Len(out) + 1 .. Len(out) + c : new[k] = b + (k - Len(out))

LEMMA AppendIs ==
    ASSUME NEW out \in Seq(Commands), NEW b \in Nat, NEW c \in Nat, NEW tail \in Seq(Commands),
           Len(tail) = c, \A n \in 1 .. c : tail[n] = b + n
    PROVE  Appended(out \o tail, out, b, c)
<1>1. /\ out \o tail \in Seq(Commands) /\ Len(out \o tail) = Len(out) + c
      /\ Len(out) \in Nat
      /\ \A k \in 1 .. Len(out) + c :
            (out \o tail)[k] = IF k <= Len(out) THEN out[k] ELSE tail[k - Len(out)]
  BY ConcatFacts
<1> QED
  BY <1>1 DEF Appended

LEMMA AppendFits ==
    ASSUME NEW P, NEW N \in Nat, N <= Last(P), NEW out, NEW snt, NEW att,
           ListsFit(out, snt, att, N, P), NEW Q, NEW b \in Nat, NEW c \in Nat,
           Last(P) = b, Last(Q) = b + c, NEW new, Appended(new, out, b, c)
    PROVE  ListsFit(new, snt, att, N, Q)
<1>1. N <= b
  OBVIOUS
<1>4. /\ Len(out) \in Nat /\ Len(snt) \in Nat
      /\ out \in Seq(Commands) /\ snt \in Seq(Commands)
      /\ att \subseteq 1 .. N
  BY ListsTypes DEF ListsFit
<1>6. /\ new \in Seq(Commands) /\ Len(new) = Len(out) + c
      /\ \A k \in 1 .. Len(out) : new[k] = out[k]
      /\ \A k \in Len(out) + 1 .. Len(out) + c : new[k] = b + (k - Len(out))
  BY DEF Appended
<1>7. PICK m \in 0 .. Len(out) : Queue(out, att, N, P, m)
  BY DEF ListsFit
<1>8. /\ N = b - (Len(out) - m)
      /\ \A n \in 1 .. Len(out) : n <= m => out[n] \in att
      /\ \A n \in 1 .. Len(out) : n > m => out[n] = N + (n - m)
  BY <1>7 DEF Queue
<1>9. \A k \in 1 .. Len(new) : k > m => new[k] = N + (k - m)
  <2> TAKE k \in 1 .. Len(new)
  <2> HAVE k > m
  <2>1. CASE k <= Len(out)
    <3>1. k \in 1 .. Len(out)
      BY <1>4, <2>1
    <3> QED
      BY <1>6, <1>8, <3>1
  <2>2. CASE k > Len(out)
    <3>1. k \in Len(out) + 1 .. Len(out) + c
      BY <1>4, <1>6, <2>2
    <3>2. new[k] = b + (k - Len(out))
      BY <1>6, <3>1
    <3>3. N = b - (Len(out) - m) /\ m \in Int
      BY <1>8
    <3> QED
      BY <1>4, <3>2, <3>3
  <2> QED
    BY <1>4, <2>1, <2>2
<1>10. Queue(new, att, N, Q, m) /\ m \in 0 .. Len(new)
  <2>1. N = (b + c) - (Len(new) - m) /\ m \in 0 .. Len(new)
    BY <1>1, <1>4, <1>6, <1>8
  <2>2. \A n \in 1 .. Len(new) : n <= m => new[n] \in att
    <3> TAKE n \in 1 .. Len(new)
    <3> HAVE n <= m
    <3>1. n \in 1 .. Len(out)
      BY <1>4
    <3> QED
      BY <1>6, <1>8, <3>1
  <2> QED
    BY <1>1, <1>9, <2>1, <2>2 DEF Queue
<1>11. \A k \in 1 .. Len(out) : out[k] \in Nat /\ out[k] <= b
  <2> TAKE k \in 1 .. Len(out)
  <2>1. CASE k <= m
    <3>1. out[k] \in 1 .. N
      BY <1>4, <1>8, <2>1
    <3> QED
      BY <1>1, <3>1
  <2>2. CASE k > m
    BY <1>1, <1>4, <1>8, <2>2
  <2> QED
    BY <1>4, <2>1, <2>2
<1>12. Distinct(new)
  <2> SUFFICES ASSUME NEW k \in 1 .. Len(new), NEW l \in 1 .. Len(new), new[k] = new[l], k < l
               PROVE  FALSE
    BY <1>1, <1>4, <1>6 DEF Distinct
  <2>1. CASE l <= Len(out)
    <3>1. k \in 1 .. Len(out) /\ l \in 1 .. Len(out) /\ out[k] = out[l]
      BY <1>1, <1>4, <1>6, <2>1
    <3> QED
      BY <3>1 DEF ListsFit, Distinct
  <2>2. CASE l > Len(out)
    <3>1. new[l] = b + (l - Len(out))
      <4>1. l \in Len(out) + 1 .. Len(out) + c
        BY <1>4, <1>6, <2>2
      <4> QED
        BY <1>6, <4>1
    <3>2. CASE k <= Len(out)
      <4>1. k \in 1 .. Len(out)
        BY <1>4, <3>2
      <4>2. new[k] = out[k] /\ out[k] \in Nat /\ out[k] <= b
        BY <1>6, <1>11, <4>1
      <4> QED
        BY <1>4, <2>2, <3>1, <4>2
    <3>3. CASE k > Len(out)
      <4>1. new[k] = b + (k - Len(out))
        <5>1. k \in Len(out) + 1 .. Len(out) + c
          BY <1>4, <1>6, <3>3
        <5> QED
          BY <1>6, <5>1
      <4>2. b + (k - Len(out)) = b + (l - Len(out))
        BY <3>1, <4>1
      <4>3. k \in Int /\ l \in Int /\ Len(out) \in Int /\ b \in Int
        BY <1>1, <1>4
      <4>4. k = l
        BY <4>2, <4>3
      <4> QED
        BY <4>3, <4>4
    <3> QED
      BY <1>4, <3>2, <3>3
  <2> QED
    BY <1>4, <2>1, <2>2
<1>13. \A k \in 1 .. Len(new), l \in 1 .. Len(snt) : new[k] # snt[l]
  <2> SUFFICES ASSUME NEW k \in 1 .. Len(new), NEW l \in 1 .. Len(snt), new[k] = snt[l]
               PROVE  FALSE
    OBVIOUS
  <2>1. snt[l] \in 1 .. N
    BY <1>4 DEF ListsFit
  <2>2. CASE k <= Len(out)
    <3>1. k \in 1 .. Len(out) /\ out[k] = snt[l]
      BY <1>1, <1>4, <1>6, <2>2
    <3> QED
      BY <3>1 DEF ListsFit
  <2>3. CASE k > Len(out)
    <3>1. k \in Len(out) + 1 .. Len(out) + c
      BY <1>4, <1>6, <2>3
    <3>2. new[k] = b + (k - Len(out))
      BY <1>6, <3>1
    <3> QED
      BY <1>1, <1>4, <2>1, <2>3, <3>2
  <2> QED
    BY <1>4, <2>2, <2>3
<1>14. \A j \in att : \/ \E n \in 1 .. Len(new) : new[n] = j
                      \/ \E n \in 1 .. Len(snt) : snt[n] = j
  <2> TAKE j \in att
  <2>1. CASE \E n \in 1 .. Len(out) : out[n] = j
    BY <1>1, <1>4, <1>6, <2>1
  <2> QED
    BY <2>1 DEF ListsFit
<1>15. \A n \in 1 .. Len(snt) : snt[n] \in att
  BY DEF ListsFit
<1>16. Distinct(snt)
  BY DEF ListsFit
<1> QED
  BY <1>4, <1>6, <1>10, <1>12, <1>13, <1>14, <1>15, <1>16 DEF ListsFit

LEMMA SendFits ==
    ASSUME NEW P \in Nat, P + 1 <= Len(Lengths), NEW N \in Nat, N <= Last(P),
           NEW out, NEW snt, NEW att, ListsFit(out, snt, att, N, P)
    PROVE  ListsFit(out \o [n \in 1 .. Lengths[P + 1] |-> First[P + 1] + n - 1],
                    snt, att, N, P + 1)
<1> DEFINE c == Lengths[P + 1]
           b == Last(P)
           tail == [n \in 1 .. c |-> First[P + 1] + n - 1]
<1>1. /\ P + 1 \in Packets /\ c \in Nat \ {0} /\ b \in Nat /\ Last(P + 1) = b + c
      /\ First[P + 1] = b + 1 /\ N <= b
  <2>1. P + 1 \in Packets /\ c \in Nat \ {0}
    BY LengthsType
  <2>2. (P + 1) - 1 = P
    OBVIOUS
  <2> QED
    BY <2>1, <2>2, LastStep
<1>2. Commands = 1 .. Last(Len(Lengths)) /\ Last(Len(Lengths)) \in Nat
      /\ b + c <= Last(Len(Lengths))
  <2>1. P + 1 \in 0 .. Len(Lengths) /\ Len(Lengths) \in 0 .. Len(Lengths)
    BY LengthsType
  <2> QED
    BY <1>1, <2>1, CommandsAre, LastMonotone, LastType
<1>3. tail \in Seq(Commands) /\ Len(tail) = c /\ \A n \in 1 .. c : tail[n] = b + n
  <2> HIDE DEF b, c
  <2> QED
    BY <1>1, <1>2
<1>4. Appended(out \o tail, out, b, c)
  <2>1. out \in Seq(Commands)
    BY DEF ListsFit
  <2> HIDE DEF b, c, tail
  <2> QED
    BY <1>1, <1>3, <2>1, AppendIs
<1>5. ListsFit(out \o tail, snt, att, N, P + 1)
  <2>1. Last(P) = b
    OBVIOUS
  <2> HIDE DEF b, c, tail
  <2> QED
    BY <1>1, <1>4, <2>1, AppendFits
<1> QED
  BY <1>5

\* The head of the queue is a command sent before, or the one after the newest.
LEMMA HeadIs ==
    ASSUME NEW P \in 0 .. Len(Lengths), NEW N \in Nat, N <= Last(P),
           NEW out, NEW snt, NEW att, ListsFit(out, snt, att, N, P), out # <<>>
    PROVE  /\ Head(out) \in Nat \ {0} /\ Head(out) <= Last(P)
           /\ Head(out) \notin att => Head(out) = N + 1
<1>1. /\ Len(out) \in Nat \ {0} /\ out[1] \in Commands /\ Head(out) = out[1]
      /\ att \subseteq 1 .. N
  BY DEF ListsFit
<1>2. PICK m \in 0 .. Len(out) : Queue(out, att, N, P, m)
  BY DEF ListsFit
<1>3. /\ N = Last(P) - (Len(out) - m) /\ (1 <= m => out[1] \in att)
      /\ (1 > m => out[1] = N + (1 - m)) /\ Last(P) \in Nat
  BY <1>1, <1>2, LastType DEF Queue
<1>4. CASE m = 0
  BY <1>1, <1>3, <1>4
<1>5. CASE m # 0
  <2>1. m \in Nat /\ 1 <= m
    BY <1>1, <1>5
  <2>2. out[1] \in att /\ out[1] \in 1 .. N
    BY <1>1, <1>3, <2>1
  <2> QED
    BY <1>1, <1>3, <2>2
<1> QED
  BY <1>4, <1>5

\* enet_protocol_check_outgoing_commands takes the head of the queue.
Moved(out, snt, out2, snt2) ==
    /\ out2 \in Seq(Commands) /\ Len(out2) = Len(out) - 1
    /\ \A k \in 1 .. Len(out2) : out2[k] = out[k + 1]
    /\ snt2 \in Seq(Commands) /\ Len(snt2) = Len(snt) + 1
    /\ \A k \in 1 .. Len(snt) : snt2[k] = snt[k]
    /\ snt2[Len(snt2)] = out[1]

LEMMA MoveIs ==
    ASSUME NEW out \in Seq(Commands), NEW snt \in Seq(Commands), out # <<>>
    PROVE  Moved(out, snt, Tail(out), Append(snt, Head(out)))
<1>1. Len(out) \in Nat \ {0} /\ Len(snt) \in Nat /\ Head(out) = out[1] /\ out[1] \in Commands
  OBVIOUS
<1>2. /\ Tail(out) \in Seq(Commands) /\ Len(Tail(out)) = Len(out) - 1
      /\ \A k \in 1 .. Len(Tail(out)) : Tail(out)[k] = out[k + 1]
  BY <1>1
<1>3. /\ Append(snt, Head(out)) \in Seq(Commands)
      /\ Len(Append(snt, Head(out))) = Len(snt) + 1
      /\ \A k \in 1 .. Len(snt) : Append(snt, Head(out))[k] = snt[k]
      /\ Append(snt, Head(out))[Len(snt) + 1] = out[1]
  BY <1>1
<1> QED
  BY <1>1, <1>2, <1>3 DEF Moved

LEMMA MoveKeepsApart ==
    ASSUME NEW out, NEW snt, NEW att, NEW N, NEW P, ListsFit(out, snt, att, N, P),
           Len(out) > 0, NEW out2, NEW snt2, Moved(out, snt, out2, snt2)
    PROVE  /\ Distinct(out2) /\ Distinct(snt2)
           /\ \A k \in 1 .. Len(out2), l \in 1 .. Len(snt2) : out2[k] # snt2[l]
<1>1. /\ Len(out) \in Nat /\ Len(snt) \in Nat /\ Len(out2) = Len(out) - 1
      /\ Len(snt2) = Len(snt) + 1
      /\ \A k \in 1 .. Len(out2) : out2[k] = out[k + 1]
      /\ \A k \in 1 .. Len(snt) : snt2[k] = snt[k]
      /\ snt2[Len(snt) + 1] = out[1]
  BY ListsTypes DEF Moved
<1>2. /\ \A k, l \in 1 .. Len(out) : out[k] = out[l] => k = l
      /\ \A k, l \in 1 .. Len(snt) : snt[k] = snt[l] => k = l
      /\ \A k \in 1 .. Len(out), l \in 1 .. Len(snt) : out[k] # snt[l]
  BY DEF ListsFit, Distinct
<1>3. Distinct(out2)
  <2> SUFFICES ASSUME NEW k \in 1 .. Len(out2), NEW l \in 1 .. Len(out2), out2[k] = out2[l]
               PROVE  k = l
    BY <1>1 DEF Distinct
  <2>1. k + 1 \in 1 .. Len(out) /\ l + 1 \in 1 .. Len(out) /\ k \in Int /\ l \in Int
    BY <1>1
  <2>2. out[k + 1] = out[l + 1]
    BY <1>1
  <2>3. k + 1 = l + 1
    BY <1>2, <2>1, <2>2
  <2> QED
    BY <2>1, <2>3
<1>4. Distinct(snt2)
  <2> SUFFICES ASSUME NEW k \in 1 .. Len(snt2), NEW l \in 1 .. Len(snt2), snt2[k] = snt2[l], k < l
               PROVE  FALSE
    BY <1>1 DEF Distinct
  <2>1. CASE l <= Len(snt)
    BY <1>1, <1>2, <2>1
  <2>2. CASE l = Len(snt) + 1
    BY <1>1, <1>2, <2>2
  <2> QED
    BY <1>1, <2>1, <2>2
<1>5. ASSUME NEW k \in 1 .. Len(out2), NEW l \in 1 .. Len(snt2) PROVE out2[k] # snt2[l]
  <2>1. CASE l <= Len(snt)
    BY <1>1, <1>2, <2>1
  <2>2. CASE l = Len(snt) + 1
    BY <1>1, <1>2, <2>2
  <2> QED
    BY <1>1, <2>1, <2>2
<1> QED
  BY <1>3, <1>4, <1>5

LEMMA MoveFits ==
    ASSUME NEW P \in 0 .. Len(Lengths), NEW N \in Nat, N <= Last(P),
           NEW out, NEW snt, NEW att, ListsFit(out, snt, att, N, P), Len(out) > 0,
           NEW out2, NEW snt2, Moved(out, snt, out2, snt2),
           NEW M, M = IF out[1] \in att THEN N ELSE N + 1
    PROVE  /\ ListsFit(out2, snt2, att \cup {out[1]}, M, P)
           /\ M \in Nat /\ M <= Last(P)
<1>1. /\ Len(out) \in Nat /\ Len(snt) \in Nat /\ Len(out2) = Len(out) - 1
      /\ Len(snt2) = Len(snt) + 1 /\ out2 \in Seq(Commands) /\ snt2 \in Seq(Commands)
      /\ \A k \in 1 .. Len(out2) : out2[k] = out[k + 1]
      /\ \A k \in 1 .. Len(snt) : snt2[k] = snt[k]
      /\ snt2[Len(snt) + 1] = out[1]
      /\ att \subseteq 1 .. N /\ Last(P) \in Nat
  BY ListsTypes, LastType DEF Moved, ListsFit
<1>2. PICK m \in 0 .. Len(out) : Queue(out, att, N, P, m)
  BY DEF ListsFit
<1>3. /\ N = Last(P) - (Len(out) - m) /\ m \in Nat /\ m <= Len(out)
      /\ \A n \in 1 .. Len(out) : n <= m => out[n] \in att
      /\ \A n \in 1 .. Len(out) : n > m => out[n] = N + (n - m)
  BY <1>1, <1>2 DEF Queue
<1> DEFINE m2 == IF m = 0 THEN 0 ELSE m - 1
           att2 == att \cup {out[1]}
<1>4. /\ m = 0 => out[1] = N + 1 /\ out[1] \notin att
      /\ m # 0 => out[1] \in att
  <2>1. 1 \in 1 .. Len(out)
    BY <1>1
  <2>2. CASE m = 0
    <3>1. out[1] = N + (1 - m)
      BY <1>3, <2>1, <2>2
    <3>2. out[1] = N + 1
      BY <2>2, <3>1
    <3>3. N + 1 \notin 1 .. N
      OBVIOUS
    <3> QED
      BY <1>1, <2>2, <3>2, <3>3
  <2>3. CASE m # 0
    <3>1. 1 <= m
      BY <1>3, <2>3
    <3> QED
      BY <1>3, <2>1, <2>3, <3>1
  <2> QED
    BY <2>2, <2>3
<1>5. M \in Nat /\ M <= Last(P) /\ M = Last(P) - (Len(out2) - m2) /\ m2 \in 0 .. Len(out2)
  <2>1. CASE m = 0
    <3>1. M = N + 1 /\ m2 = 0
      BY <1>4, <2>1
    <3>2. N = Last(P) - Len(out)
      BY <1>1, <1>3, <2>1
    <3> DEFINE l == Last(P)
               a == Len(out)
               b == Len(out2)
    <3>3. a \in Nat /\ b = a - 1 /\ b \in Nat /\ l \in Nat /\ N = l - a /\ a > 0
      <4>1. Len(out2) \in Nat
        BY <1>1
      <4> QED
        BY <1>1, <3>2, <4>1
    <3> HIDE DEF m2, l, a, b
    <3>4. M \in Nat /\ M <= l /\ M = l - (b - m2) /\ m2 \in 0 .. b
      BY <3>1, <3>3
    <3> QED
      BY <3>4 DEF l, b
  <2>2. CASE m # 0
    <3>1. M = N /\ m2 = m - 1
      BY <1>4, <2>2
    <3> QED
      BY <1>1, <1>3, <2>2, <3>1
  <2> QED
    BY <2>1, <2>2
<1>6. Queue(out2, att2, M, P, m2)
  <2>1. ASSUME NEW n \in 1 .. Len(out2)
        PROVE  /\ n <= m2 => out2[n] \in att2
               /\ n > m2 => out2[n] = M + (n - m2)
    <3>1. n + 1 \in 1 .. Len(out) /\ out2[n] = out[n + 1] /\ n \in Nat
      BY <1>1
    <3>2. /\ n + 1 <= m => out[n + 1] \in att
          /\ n + 1 > m => out[n + 1] = N + ((n + 1) - m)
      BY <1>3, <3>1
    <3>3. CASE m = 0
      <4>1. m2 = 0 /\ M = N + 1
        BY <1>4, <3>3
      <4> QED
        BY <3>1, <3>2, <3>3, <4>1
    <3>4. CASE m # 0
      <4>1. m2 = m - 1 /\ M = N
        BY <1>4, <3>4
      <4> QED
        BY <1>3, <3>1, <3>2, <4>1
    <3> QED
      BY <3>3, <3>4
  <2> QED
    BY <1>5, <2>1 DEF Queue
<1>7. att2 \subseteq 1 .. M
  <2>1. CASE m = 0
    <3>1. M = N + 1 /\ out[1] = N + 1
      BY <1>4, <2>1
    <3>2. \A j \in att : j \in 1 .. M
      BY <1>1, <3>1
    <3>3. out[1] \in 1 .. M
      BY <3>1
    <3> QED
      BY <3>2, <3>3
  <2>2. CASE m # 0
    BY <1>1, <1>4, <2>2
  <2> QED
    BY <2>1, <2>2
<1>8. \A n \in 1 .. Len(snt2) : snt2[n] \in att2
  <2> TAKE n \in 1 .. Len(snt2)
  <2>1. CASE n <= Len(snt)
    <3>1. n \in 1 .. Len(snt) /\ snt2[n] = snt[n]
      BY <1>1, <2>1
    <3>2. snt[n] \in att
      BY <3>1 DEF ListsFit
    <3> QED
      BY <3>1, <3>2
  <2>2. CASE n = Len(snt) + 1
    BY <1>1, <2>2
  <2> QED
    BY <1>1, <2>1, <2>2
<1>9. \A j \in att2 : \/ \E n \in 1 .. Len(out2) : out2[n] = j
                      \/ \E n \in 1 .. Len(snt2) : snt2[n] = j
  <2> TAKE j \in att2
  <2>1. CASE j = out[1]
    BY <1>1, <2>1
  <2>2. CASE j # out[1] /\ \E n \in 1 .. Len(out) : out[n] = j
    <3>1. PICK n \in 1 .. Len(out) : out[n] = j
      BY <2>2
    <3>2. n - 1 \in 1 .. Len(out2) /\ (n - 1) + 1 = n
      BY <1>1, <2>2, <3>1
    <3> QED
      BY <1>1, <3>1, <3>2
  <2>3. CASE \E n \in 1 .. Len(snt) : snt[n] = j
    BY <1>1, <2>3
  <2>4. j # out[1] => j \in att
    OBVIOUS
  <2> QED
    BY <2>1, <2>2, <2>3, <2>4 DEF ListsFit
<1>10. /\ Distinct(out2) /\ Distinct(snt2)
       /\ \A k \in 1 .. Len(out2), l \in 1 .. Len(snt2) : out2[k] # snt2[l]
  BY MoveKeepsApart
<1> HIDE DEF m2, att2
<1>11. ListsFit(out2, snt2, att2, M, P)
  BY <1>1, <1>5, <1>6, <1>7, <1>8, <1>9, <1>10 DEF ListsFit
<1> QED
  BY <1>5, <1>11 DEF att2

\* enet_protocol_remove_sent_reliable_command takes one command out of a list.
Removed(q, n, q2) ==
    /\ q2 \in Seq(Commands) /\ Len(q2) = Len(q) - 1
    /\ \A k \in 1 .. Len(q2) : q2[k] = IF k < n THEN q[k] ELSE q[k + 1]

LEMMA RemoveIs ==
    ASSUME NEW q \in Seq(Commands), NEW n \in 1 .. Len(q)
    PROVE  Removed(q, n, Without(q, n))
<1> DEFINE a == SubSeq(q, 1, n - 1)
           b == SubSeq(q, n + 1, Len(q))
<1>1. Len(q) \in Nat /\ n \in Nat
  OBVIOUS
<1>2. /\ a \in Seq(Commands) /\ Len(a) = n - 1
      /\ \A k \in 1 .. n - 1 : a[k] = q[k]
  <2>1. 1 \in 1 .. Len(q) + 1 /\ n - 1 \in 1 - 1 .. Len(q)
    BY <1>1
  <2>2. /\ a \in Seq(Commands) /\ Len(a) = ((n - 1) - 1) + 1
        /\ \A k \in 1 .. ((n - 1) - 1) + 1 : a[k] = q[(1 + k) - 1]
    BY <2>1, SubSeqFacts
  <2> HIDE DEF a
  <2> QED
    BY <1>1, <2>2
<1>3. /\ b \in Seq(Commands) /\ Len(b) = Len(q) - n
      /\ \A k \in 1 .. Len(q) - n : b[k] = q[n + k]
  <2>1. n + 1 \in 1 .. Len(q) + 1 /\ Len(q) \in (n + 1) - 1 .. Len(q)
    BY <1>1
  <2>2. /\ b \in Seq(Commands) /\ Len(b) = (Len(q) - (n + 1)) + 1
        /\ \A k \in 1 .. (Len(q) - (n + 1)) + 1 : b[k] = q[((n + 1) + k) - 1]
    BY <2>1, SubSeqFacts
  <2> HIDE DEF b
  <2>3. (Len(q) - (n + 1)) + 1 = Len(q) - n
    BY <1>1
  <2>4. \A k \in 1 .. Len(q) - n : ((n + 1) + k) - 1 = n + k
    BY <1>1
  <2> QED
    BY <2>2, <2>3, <2>4
<1>4. Without(q, n) = a \o b
  BY DEF Without
<1> HIDE DEF a, b
<1>5. /\ a \o b \in Seq(Commands) /\ Len(a \o b) = Len(q) - 1
      /\ \A k \in 1 .. Len(q) - 1 :
            (a \o b)[k] = IF k < n THEN q[k] ELSE q[k + 1]
  <2>1. /\ a \o b \in Seq(Commands) /\ Len(a \o b) = Len(a) + Len(b)
        /\ \A k \in 1 .. Len(a) + Len(b) :
              (a \o b)[k] = IF k <= Len(a) THEN a[k] ELSE b[k - Len(a)]
    BY <1>2, <1>3, ConcatFacts
  <2>2. Len(a) + Len(b) = Len(q) - 1
    BY <1>1, <1>2, <1>3
  <2>3. ASSUME NEW k \in 1 .. Len(q) - 1
        PROVE  (a \o b)[k] = IF k < n THEN q[k] ELSE q[k + 1]
    <3>1. CASE k < n
      BY <1>1, <1>2, <2>1, <2>2, <3>1
    <3>2. CASE k >= n
      <4>1. k - (n - 1) \in 1 .. Len(q) - n /\ n + (k - (n - 1)) = k + 1
        BY <1>1, <3>2
      <4>2. b[k - (n - 1)] = q[k + 1]
        BY <1>3, <4>1
      <4> QED
        BY <1>1, <1>2, <2>1, <2>2, <3>2, <4>2
    <3>3. k < n \/ k >= n
      BY <1>1
    <3> QED
      BY <3>1, <3>2, <3>3
  <2> QED
    BY <2>1, <2>2, <2>3
<1> QED
  BY <1>4, <1>5 DEF Removed

\* The rest of a list without repetitions.
LEMMA RestOf ==
    ASSUME NEW q, Len(q) \in Nat, Distinct(q), NEW n \in 1 .. Len(q), NEW q2, Removed(q, n, q2)
    PROVE  /\ Distinct(q2)
           /\ \A k \in 1 .. Len(q2) : \E l \in 1 .. Len(q) : l # n /\ q2[k] = q[l]
           /\ \A l \in 1 .. Len(q) : l # n => \E k \in 1 .. Len(q2) : q2[k] = q[l]
           /\ \A k \in 1 .. Len(q2) : q2[k] # q[n]
<1>1. /\ Len(q2) = Len(q) - 1 /\ n \in Nat
      /\ \A k \in 1 .. Len(q2) : q2[k] = IF k < n THEN q[k] ELSE q[k + 1]
      /\ \A k, l \in 1 .. Len(q) : q[k] = q[l] => k = l
  BY DEF Removed, Distinct
<1>2. ASSUME NEW k \in 1 .. Len(q2), NEW l \in 1 .. Len(q2), q2[k] = q2[l] PROVE k = l
  <2> DEFINE x(j) == IF j < n THEN j ELSE j + 1
  <2>1. x(k) \in 1 .. Len(q) /\ x(l) \in 1 .. Len(q) /\ q2[k] = q[x(k)] /\ q2[l] = q[x(l)]
    BY <1>1
  <2>2. x(k) = x(l)
    <3> HIDE DEF x
    <3> QED
      BY <1>1, <1>2, <2>1
  <2> QED
    BY <1>1, <2>2
<1>3. \A k \in 1 .. Len(q2) : \E l \in 1 .. Len(q) : l # n /\ q2[k] = q[l]
  <2> TAKE k \in 1 .. Len(q2)
  <2>1. CASE k < n
    <3>1. k \in 1 .. Len(q) /\ k # n /\ q2[k] = q[k]
      BY <1>1, <2>1
    <3> QED
      BY <3>1
  <2>2. CASE k >= n
    <3>1. k + 1 \in 1 .. Len(q) /\ k + 1 # n /\ q2[k] = q[k + 1]
      BY <1>1, <2>2
    <3> QED
      BY <3>1
  <2>3. k < n \/ k >= n
    BY <1>1
  <2> QED
    BY <2>1, <2>2, <2>3
<1>4. \A l \in 1 .. Len(q) : l # n => \E k \in 1 .. Len(q2) : q2[k] = q[l]
  <2> TAKE l \in 1 .. Len(q)
  <2> HAVE l # n
  <2>1. CASE l < n
    BY <1>1, <2>1
  <2>2. CASE l > n
    <3>1. l - 1 \in 1 .. Len(q2) /\ ~(l - 1 < n) /\ (l - 1) + 1 = l
      BY <1>1, <2>2
    <3>2. q2[l - 1] = q[l]
      BY <1>1, <3>1
    <3> QED
      BY <3>1, <3>2
  <2> QED
    BY <1>1, <2>1, <2>2
<1>5. \A k \in 1 .. Len(q2) : q2[k] # q[n]
  BY <1>1, <1>3
<1> QED
  BY <1>2, <1>3, <1>4, <1>5 DEF Distinct

LEMMA RemoveSentFits ==
    ASSUME NEW N, NEW P, NEW out, NEW snt, NEW att, ListsFit(out, snt, att, N, P),
           NEW n \in 1 .. Len(snt), NEW snt2, Removed(snt, n, snt2)
    PROVE  ListsFit(out, snt2, att \ {snt[n]}, N, P)
<1>1. Len(snt) \in Nat /\ Len(out) \in Nat /\ Distinct(snt)
  BY ListsTypes DEF ListsFit
<1>2. /\ Distinct(snt2)
      /\ \A k \in 1 .. Len(snt2) : \E l \in 1 .. Len(snt) : l # n /\ snt2[k] = snt[l]
      /\ \A l \in 1 .. Len(snt) : l # n => \E k \in 1 .. Len(snt2) : snt2[k] = snt[l]
      /\ \A k \in 1 .. Len(snt2) : snt2[k] # snt[n]
  BY <1>1, RestOf
<1>3. snt2 \in Seq(Commands)
  BY DEF Removed
<1> DEFINE att2 == att \ {snt[n]}
<1>4. \E m \in 0 .. Len(out) : Queue(out, att2, N, P, m)
  <2>1. PICK m \in 0 .. Len(out) : Queue(out, att, N, P, m)
    BY DEF ListsFit
  <2>2. \A k \in 1 .. Len(out) : out[k] # snt[n]
    BY DEF ListsFit
  <2>3. Queue(out, att2, N, P, m)
    BY <2>1, <2>2 DEF Queue
  <2> QED
    BY <2>3
<1>5. \A k \in 1 .. Len(snt2) : snt2[k] \in att2
  <2>1. \A k \in 1 .. Len(snt) : snt[k] \in att
    BY DEF ListsFit
  <2> QED
    BY <1>2, <2>1
<1>6. \A j \in att2 : \/ \E k \in 1 .. Len(out) : out[k] = j
                      \/ \E k \in 1 .. Len(snt2) : snt2[k] = j
  <2> TAKE j \in att2
  <2>1. CASE \E l \in 1 .. Len(snt) : snt[l] = j
    BY <1>2, <2>1
  <2>2. j \in att
    OBVIOUS
  <2> QED
    BY <2>1, <2>2 DEF ListsFit
<1>7. \A k \in 1 .. Len(out), l \in 1 .. Len(snt2) : out[k] # snt2[l]
  <2>1. \A k \in 1 .. Len(out), l \in 1 .. Len(snt) : out[k] # snt[l]
    BY DEF ListsFit
  <2> QED
    BY <1>2, <2>1
<1>8. out \in Seq(Commands) /\ Distinct(out) /\ att2 \subseteq 1 .. N
  BY DEF ListsFit
<1> HIDE DEF att2
<1>9. ListsFit(out, snt2, att2, N, P)
  BY <1>2, <1>3, <1>4, <1>5, <1>6, <1>7, <1>8 DEF ListsFit
<1> QED
  BY <1>9 DEF att2

LEMMA RemoveQueuedFits ==
    ASSUME NEW N \in Nat, NEW P, NEW out, NEW snt, NEW att, ListsFit(out, snt, att, N, P),
           NEW n \in 1 .. Len(out), out[n] \in att, NEW out2, Removed(out, n, out2)
    PROVE  ListsFit(out2, snt, att \ {out[n]}, N, P)
<1> DEFINE att2 == att \ {out[n]}
<1>1. /\ Len(snt) \in Nat /\ Len(out) \in Nat /\ Distinct(out) /\ n \in Nat
      /\ att \subseteq 1 .. N /\ Len(out2) = Len(out) - 1
      /\ \A k \in 1 .. Len(out2) : out2[k] = IF k < n THEN out[k] ELSE out[k + 1]
  BY ListsTypes DEF ListsFit, Removed
<1>2. /\ Distinct(out2)
      /\ \A k \in 1 .. Len(out2) : \E l \in 1 .. Len(out) : l # n /\ out2[k] = out[l]
      /\ \A l \in 1 .. Len(out) : l # n => \E k \in 1 .. Len(out2) : out2[k] = out[l]
      /\ \A k \in 1 .. Len(out2) : out2[k] # out[n]
  BY <1>1, RestOf
<1>3. out2 \in Seq(Commands)
  BY DEF Removed
<1>4. \E m \in 0 .. Len(out2) : Queue(out2, att2, N, P, m)
  <2>1. PICK m \in 0 .. Len(out) : Queue(out, att, N, P, m)
    BY DEF ListsFit
  <2>2. /\ N = Last(P) - (Len(out) - m) /\ m \in Nat /\ m <= Len(out)
        /\ \A k \in 1 .. Len(out) : k <= m => out[k] \in att
        /\ \A k \in 1 .. Len(out) : k > m => out[k] = N + (k - m)
    BY <1>1, <2>1 DEF Queue
  <2>3. n <= m
    <3>1. out[n] \in 1 .. N
      BY <1>1
    <3> SUFFICES ASSUME n > m PROVE FALSE
      BY <1>1, <2>2
    <3>2. out[n] = N + (n - m)
      BY <2>2
    <3> QED
      BY <1>1, <2>2, <3>1, <3>2
  <2>4. m - 1 \in 0 .. Len(out2) /\ Len(out2) - (m - 1) = Len(out) - m
    BY <1>1, <2>2, <2>3
  <2>5. ASSUME NEW k \in 1 .. Len(out2), k <= m - 1 PROVE out2[k] \in att2
    <3>1. out2[k] # out[n]
      BY <1>2
    <3>2. out2[k] \in att
      <4>1. CASE k < n
        BY <1>1, <2>2, <2>3, <2>5, <4>1
      <4>2. CASE k >= n
        <5>1. k + 1 \in 1 .. Len(out) /\ k + 1 <= m /\ out2[k] = out[k + 1]
          BY <1>1, <2>2, <2>5, <4>2
        <5> QED
          BY <2>2, <5>1
      <4> QED
        BY <1>1, <4>1, <4>2
    <3> QED
      BY <3>1, <3>2
  <2>6. ASSUME NEW k \in 1 .. Len(out2), k > m - 1 PROVE out2[k] = N + (k - (m - 1))
    <3>1. k + 1 \in 1 .. Len(out) /\ k + 1 > m /\ out2[k] = out[k + 1] /\ k \in Nat
      <4>1. k \in Nat /\ k + 1 \in 1 .. Len(out) /\ k + 1 > m
        BY <1>1, <2>2, <2>6
      <4>2. k >= n
        BY <2>2, <2>3, <2>6, <1>1, <4>1
      <4> QED
        BY <1>1, <4>1, <4>2
    <3>2. out[k + 1] = N + ((k + 1) - m)
      BY <2>2, <3>1
    <3> QED
      BY <2>2, <3>1, <3>2
  <2> HIDE DEF att2
  <2>7. Queue(out2, att2, N, P, m - 1)
    BY <2>2, <2>4, <2>5, <2>6 DEF Queue
  <2> QED
    BY <2>4, <2>7
<1>5. \A k \in 1 .. Len(snt) : snt[k] \in att2
  <2>1. /\ \A k \in 1 .. Len(snt) : snt[k] \in att
        /\ \A k \in 1 .. Len(out), l \in 1 .. Len(snt) : out[k] # snt[l]
    BY DEF ListsFit
  <2> QED
    BY <2>1
<1>6. \A j \in att2 : \/ \E k \in 1 .. Len(out2) : out2[k] = j
                      \/ \E k \in 1 .. Len(snt) : snt[k] = j
  <2> TAKE j \in att2
  <2>1. CASE \E l \in 1 .. Len(out) : out[l] = j
    BY <1>2, <2>1
  <2>2. j \in att
    OBVIOUS
  <2> QED
    BY <2>1, <2>2 DEF ListsFit
<1>7. \A k \in 1 .. Len(out2), l \in 1 .. Len(snt) : out2[k] # snt[l]
  <2>1. \A k \in 1 .. Len(out), l \in 1 .. Len(snt) : out[k] # snt[l]
    BY DEF ListsFit
  <2> QED
    BY <1>2, <2>1
<1>8. snt \in Seq(Commands) /\ Distinct(snt) /\ att2 \subseteq 1 .. N
  BY DEF ListsFit
<1> HIDE DEF att2
<1>9. ListsFit(out2, snt, att2, N, P)
  BY <1>2, <1>3, <1>4, <1>5, <1>6, <1>7, <1>8 DEF ListsFit
<1> QED
  BY <1>9 DEF att2

\* enet_protocol_check_timeouts puts the c commands from the n-th on before
\* the queue.
Requeued(out, snt, n, c, out2, snt2) ==
    /\ out2 \in Seq(Commands) /\ Len(out2) = Len(out) + c
    /\ \A k \in 1 .. Len(out2) :
          out2[k] = IF k <= c THEN snt[(n - 1) + k] ELSE out[k - c]
    /\ snt2 \in Seq(Commands) /\ Len(snt2) = Len(snt) - c
    /\ \A k \in 1 .. Len(snt2) : snt2[k] = IF k < n THEN snt[k] ELSE snt[k + c]

LEMMA RequeueIs ==
    ASSUME NEW out \in Seq(Commands), NEW snt \in Seq(Commands),
           NEW n \in 1 .. Len(snt), NEW m \in 1 .. Len(snt), n <= m
    PROVE  Requeued(out, snt, n, (m - n) + 1, SubSeq(snt, n, m) \o out,
                    SubSeq(snt, 1, n - 1) \o SubSeq(snt, m + 1, Len(snt)))
<1> DEFINE a == SubSeq(snt, 1, n - 1)
           b == SubSeq(snt, m + 1, Len(snt))
           d == SubSeq(snt, n, m)
           c == (m - n) + 1
<1>1. Len(snt) \in Nat /\ Len(out) \in Nat /\ n \in Nat /\ m \in Nat
  OBVIOUS
<1>2. /\ a \in Seq(Commands) /\ Len(a) = n - 1
      /\ \A k \in 1 .. n - 1 : a[k] = snt[k]
  <2>1. 1 \in 1 .. Len(snt) + 1 /\ n - 1 \in 1 - 1 .. Len(snt)
    BY <1>1
  <2>2. /\ a \in Seq(Commands) /\ Len(a) = ((n - 1) - 1) + 1
        /\ \A k \in 1 .. ((n - 1) - 1) + 1 : a[k] = snt[(1 + k) - 1]
    BY <2>1, SubSeqFacts
  <2> HIDE DEF a
  <2> QED
    BY <1>1, <2>2
<1>3. /\ b \in Seq(Commands) /\ Len(b) = Len(snt) - m
      /\ \A k \in 1 .. Len(snt) - m : b[k] = snt[m + k]
  <2>1. m + 1 \in 1 .. Len(snt) + 1 /\ Len(snt) \in (m + 1) - 1 .. Len(snt)
    BY <1>1
  <2>2. /\ b \in Seq(Commands) /\ Len(b) = (Len(snt) - (m + 1)) + 1
        /\ \A k \in 1 .. (Len(snt) - (m + 1)) + 1 : b[k] = snt[((m + 1) + k) - 1]
    BY <2>1, SubSeqFacts
  <2> HIDE DEF b
  <2>3. (Len(snt) - (m + 1)) + 1 = Len(snt) - m
    BY <1>1
  <2>4. \A k \in 1 .. Len(snt) - m : ((m + 1) + k) - 1 = m + k
    BY <1>1
  <2> QED
    BY <2>2, <2>3, <2>4
<1>4. /\ d \in Seq(Commands) /\ Len(d) = c
      /\ \A k \in 1 .. c : d[k] = snt[(n - 1) + k]
  <2>1. n \in 1 .. Len(snt) + 1 /\ m \in n - 1 .. Len(snt)
    BY <1>1
  <2>2. /\ d \in Seq(Commands) /\ Len(d) = (m - n) + 1
        /\ \A k \in 1 .. (m - n) + 1 : d[k] = snt[(n + k) - 1]
    BY <2>1, SubSeqFacts
  <2>3. \A k \in 1 .. (m - n) + 1 : (n + k) - 1 = (n - 1) + k
    BY <1>1
  <2> HIDE DEF d
  <2> QED
    BY <2>2, <2>3
<1>5. c \in Nat /\ c >= 1 /\ m = (n - 1) + c
  BY <1>1
<1> HIDE DEF a, b, c, d
<1>6. /\ d \o out \in Seq(Commands) /\ Len(d \o out) = Len(out) + c
      /\ \A k \in 1 .. Len(d \o out) :
            (d \o out)[k] = IF k <= c THEN snt[(n - 1) + k] ELSE out[k - c]
  <2>1. /\ d \o out \in Seq(Commands) /\ Len(d \o out) = Len(d) + Len(out)
        /\ \A k \in 1 .. Len(d) + Len(out) :
              (d \o out)[k] = IF k <= Len(d) THEN d[k] ELSE out[k - Len(d)]
    BY <1>4, ConcatFacts
  <2> QED
    BY <1>1, <1>4, <1>5, <2>1
<1>7. /\ a \o b \in Seq(Commands) /\ Len(a \o b) = Len(snt) - c
      /\ \A k \in 1 .. Len(snt) - c :
            (a \o b)[k] = IF k < n THEN snt[k] ELSE snt[k + c]
  <2>1. /\ a \o b \in Seq(Commands) /\ Len(a \o b) = Len(a) + Len(b)
        /\ \A k \in 1 .. Len(a) + Len(b) :
              (a \o b)[k] = IF k <= Len(a) THEN a[k] ELSE b[k - Len(a)]
    BY <1>2, <1>3, ConcatFacts
  <2>2. Len(a) + Len(b) = Len(snt) - c
    BY <1>1, <1>2, <1>3, <1>5
  <2>3. ASSUME NEW k \in 1 .. Len(snt) - c
        PROVE  (a \o b)[k] = IF k < n THEN snt[k] ELSE snt[k + c]
    <3>1. CASE k < n
      BY <1>1, <1>2, <2>1, <2>2, <3>1
    <3>2. CASE k >= n
      <4>1. k - (n - 1) \in 1 .. Len(snt) - m /\ m + (k - (n - 1)) = k + c
        BY <1>1, <1>5, <3>2
      <4>2. b[k - (n - 1)] = snt[k + c]
        BY <1>3, <4>1
      <4>3. Len(a) = n - 1 /\ k \in 1 .. Len(a) + Len(b) /\ ~(k <= n - 1)
        BY <1>1, <1>2, <2>2, <3>2
      <4>4. (a \o b)[k] = b[k - (n - 1)]
        BY <2>1, <4>3
      <4> QED
        BY <1>1, <3>2, <4>2, <4>4
    <3>3. k < n \/ k >= n
      BY <1>1
    <3> QED
      BY <3>1, <3>2, <3>3
  <2> QED
    BY <2>1, <2>2, <2>3
<1>8. Requeued(out, snt, n, c, d \o out, a \o b)
  BY <1>6, <1>7 DEF Requeued
<1> QED
  BY <1>8 DEF a, b, c, d

LEMMA RequeueFits ==
    ASSUME NEW N \in Nat, NEW P, NEW out, NEW snt, NEW att, ListsFit(out, snt, att, N, P),
           NEW n \in Nat \ {0}, NEW c \in Nat, (n - 1) + c <= Len(snt),
           NEW out2, NEW snt2, Requeued(out, snt, n, c, out2, snt2)
    PROVE  ListsFit(out2, snt2, att, N, P)
<1>1. /\ Len(out) \in Nat /\ Len(snt) \in Nat
      /\ Len(out2) = Len(out) + c /\ Len(snt2) = Len(snt) - c
      /\ \A k \in 1 .. Len(out2) :
            out2[k] = IF k <= c THEN snt[(n - 1) + k] ELSE out[k - c]
      /\ \A k \in 1 .. Len(snt2) : snt2[k] = IF k < n THEN snt[k] ELSE snt[k + c]
  BY ListsTypes DEF Requeued
\* Where an element of the new lists was.
<1> DEFINE x(k) == IF k < n THEN k ELSE k + c
<1>2. /\ \A k \in 1 .. c : (n - 1) + k \in 1 .. Len(snt) /\ out2[k] = snt[(n - 1) + k]
      /\ \A k \in 1 .. Len(out2) : k > c => k - c \in 1 .. Len(out) /\ out2[k] = out[k - c]
      /\ \A k \in 1 .. Len(snt2) : x(k) \in 1 .. Len(snt) /\ snt2[k] = snt[x(k)]
      /\ \A k \in 1 .. Len(snt2), l \in 1 .. c : x(k) # (n - 1) + l
      /\ \A k, l \in 1 .. Len(snt2) : x(k) = x(l) => k = l
  <2>1. \A k \in 1 .. c : (n - 1) + k \in 1 .. Len(snt) /\ out2[k] = snt[(n - 1) + k]
    BY <1>1
  <2>2. \A k \in 1 .. Len(out2) : k > c => k - c \in 1 .. Len(out) /\ out2[k] = out[k - c]
    BY <1>1
  <2>3. \A k \in 1 .. Len(snt2) : x(k) \in 1 .. Len(snt) /\ snt2[k] = snt[x(k)]
    BY <1>1
  <2>4. \A k \in 1 .. Len(snt2), l \in 1 .. c : x(k) # (n - 1) + l
    BY <1>1
  <2>5. \A k, l \in 1 .. Len(snt2) : x(k) = x(l) => k = l
    BY <1>1
  <2> QED
    BY <2>1, <2>2, <2>3, <2>4, <2>5
\* Every element is still in one of the lists.
<1>3. \A l \in 1 .. Len(out) : l + c \in 1 .. Len(out2) /\ out2[l + c] = out[l]
  BY <1>1
<1>4. \A l \in 1 .. Len(snt) : \/ \E k \in 1 .. Len(out2) : out2[k] = snt[l]
                               \/ \E k \in 1 .. Len(snt2) : snt2[k] = snt[l]
  <2> TAKE l \in 1 .. Len(snt)
  <2>1. CASE l < n
    <3>1. l \in 1 .. Len(snt2) /\ snt2[l] = snt[l]
      BY <1>1, <2>1
    <3> QED
      BY <3>1
  <2>2. CASE l >= n /\ l <= (n - 1) + c
    <3>1. l - (n - 1) \in 1 .. c /\ (n - 1) + (l - (n - 1)) = l
      BY <1>1, <2>2
    <3>2. out2[l - (n - 1)] = snt[l] /\ l - (n - 1) \in 1 .. Len(out2)
      BY <1>1, <1>2, <3>1
    <3> QED
      BY <3>2
  <2>3. CASE l > (n - 1) + c
    <3>1. l - c \in 1 .. Len(snt2) /\ ~(l - c < n) /\ (l - c) + c = l
      BY <1>1, <2>3
    <3>2. snt2[l - c] = snt[l]
      BY <1>1, <3>1
    <3> QED
      BY <3>1, <3>2
  <2> QED
    BY <1>1, <2>1, <2>2, <2>3
<1> HIDE DEF x
<1>5. /\ \A k, l \in 1 .. Len(out) : out[k] = out[l] => k = l
      /\ \A k, l \in 1 .. Len(snt) : snt[k] = snt[l] => k = l
      /\ \A k \in 1 .. Len(out), l \in 1 .. Len(snt) : out[k] # snt[l]
      /\ \A k \in 1 .. Len(snt) : snt[k] \in att
  BY DEF ListsFit, Distinct
<1>6. Distinct(snt2)
  <2> SUFFICES ASSUME NEW k \in 1 .. Len(snt2), NEW l \in 1 .. Len(snt2), snt2[k] = snt2[l]
               PROVE  k = l
    BY DEF Distinct
  <2>1. /\ x(k) \in 1 .. Len(snt) /\ snt2[k] = snt[x(k)]
        /\ x(l) \in 1 .. Len(snt) /\ snt2[l] = snt[x(l)]
    BY <1>2
  <2>2. x(k) = x(l)
    BY <1>5, <2>1
  <2> QED
    BY <1>2, <2>2
<1>7. Distinct(out2)
  <2> SUFFICES ASSUME NEW k \in 1 .. Len(out2), NEW l \in 1 .. Len(out2), out2[k] = out2[l], k < l
               PROVE  FALSE
    BY <1>1 DEF Distinct
  <2>0. out2[k] = out2[l]
    OBVIOUS
  <2>1. CASE l <= c
    <3>1. k \in 1 .. c /\ l \in 1 .. c
      BY <1>1, <2>1
    <3> DEFINE y == (n - 1) + k
               z == (n - 1) + l
    <3>2. y \in 1 .. Len(snt) /\ z \in 1 .. Len(snt) /\ snt[y] = snt[z]
      BY <1>2, <2>0, <3>1
    <3>3. y = z
      <4> HIDE DEF y, z
      <4> QED
        BY <1>5, <3>2
    <3> QED
      BY <1>1, <3>3
  <2>2. CASE k <= c /\ l > c
    <3> DEFINE y == (n - 1) + k
               z == l - c
    <3>1. k \in 1 .. c
      BY <1>1, <2>2
    <3>2. y \in 1 .. Len(snt) /\ z \in 1 .. Len(out) /\ out[z] = snt[y]
      BY <1>2, <2>0, <2>2, <3>1
    <3> HIDE DEF y, z
    <3> QED
      BY <1>5, <3>2
  <2>3. CASE k > c
    <3>1. l > c
      BY <1>1, <2>3
    <3> DEFINE y == k - c
               z == l - c
    <3>2. y \in 1 .. Len(out) /\ z \in 1 .. Len(out) /\ out[y] = out[z]
      BY <1>2, <2>0, <2>3, <3>1
    <3>3. y = z
      <4> HIDE DEF y, z
      <4> QED
        BY <1>5, <3>2
    <3> QED
      BY <1>1, <3>3
  <2> QED
    BY <1>1, <2>1, <2>2, <2>3
<1>8. \A k \in 1 .. Len(out2), l \in 1 .. Len(snt2) : out2[k] # snt2[l]
  <2> SUFFICES ASSUME NEW k \in 1 .. Len(out2), NEW l \in 1 .. Len(snt2), out2[k] = snt2[l]
               PROVE  FALSE
    OBVIOUS
  <2>0. out2[k] = snt2[l] /\ x(l) \in 1 .. Len(snt) /\ snt2[l] = snt[x(l)]
    BY <1>2
  <2>1. CASE k <= c
    <3> DEFINE y == (n - 1) + k
    <3>1. k \in 1 .. c
      BY <1>1, <2>1
    <3>2. y \in 1 .. Len(snt) /\ out2[k] = snt[y] /\ x(l) # y
      BY <1>2, <3>1
    <3> HIDE DEF y
    <3> QED
      BY <1>5, <2>0, <3>2
  <2>2. CASE k > c
    <3> DEFINE y == k - c
    <3>1. y \in 1 .. Len(out) /\ out2[k] = out[y]
      BY <1>2, <2>2
    <3> HIDE DEF y
    <3> QED
      BY <1>5, <2>0, <3>1
  <2> QED
    BY <1>1, <2>1, <2>2
<1>9. \E m \in 0 .. Len(out2) : Queue(out2, att, N, P, m)
  <2>1. PICK m \in 0 .. Len(out) : Queue(out, att, N, P, m)
    BY DEF ListsFit
  <2>2. /\ N = Last(P) - (Len(out) - m) /\ m \in Nat /\ m <= Len(out)
        /\ \A k \in 1 .. Len(out) : k <= m => out[k] \in att
        /\ \A k \in 1 .. Len(out) : k > m => out[k] = N + (k - m)
    <3>1. m \in Nat /\ m <= Len(out)
      BY <1>1
    <3> QED
      BY <2>1, <3>1 DEF Queue
  <2>3. m + c \in 0 .. Len(out2) /\ Len(out2) - (m + c) = Len(out) - m
    BY <1>1, <2>2
  <2>4. ASSUME NEW k \in 1 .. Len(out2), k <= m + c PROVE out2[k] \in att
    <3>1. CASE k <= c
      <4>1. k \in 1 .. c
        BY <1>1, <3>1
      <4> QED
        BY <1>2, <1>5, <4>1
    <3>2. CASE k > c
      <4>1. k - c \in 1 .. Len(out) /\ out2[k] = out[k - c] /\ k - c <= m
        BY <1>2, <2>2, <2>4, <3>2
      <4> QED
        BY <2>2, <4>1
    <3> QED
      BY <1>1, <3>1, <3>2
  <2>5. ASSUME NEW k \in 1 .. Len(out2), k > m + c PROVE out2[k] = N + (k - (m + c))
    <3>1. k - c \in 1 .. Len(out) /\ out2[k] = out[k - c] /\ k - c > m
      BY <1>2, <2>2, <2>5
    <3>2. out[k - c] = N + ((k - c) - m)
      BY <2>2, <3>1
    <3> QED
      BY <2>2, <3>1, <3>2
  <2>6. Queue(out2, att, N, P, m + c)
    BY <2>2, <2>3, <2>4, <2>5 DEF Queue
  <2> QED
    BY <2>3, <2>6
<1>10. \A k \in 1 .. Len(snt2) : snt2[k] \in att
  BY <1>2, <1>5
<1>11. \A j \in att : \/ \E k \in 1 .. Len(out2) : out2[k] = j
                      \/ \E k \in 1 .. Len(snt2) : snt2[k] = j
  <2> TAKE j \in att
  <2>1. CASE \E l \in 1 .. Len(out) : out[l] = j
    BY <1>3, <2>1
  <2>2. CASE \E l \in 1 .. Len(snt) : snt[l] = j
    BY <1>4, <2>2
  <2> QED
    BY <2>1, <2>2 DEF ListsFit
<1>12. out2 \in Seq(Commands) /\ snt2 \in Seq(Commands) /\ att \subseteq 1 .. N
  BY DEF Requeued, ListsFit
<1> QED
  BY <1>6, <1>7, <1>8, <1>9, <1>10, <1>11, <1>12 DEF ListsFit

\* What is queued is counted once.
LEMMA QueuedCount ==
    ASSUME NEW out, NEW snt, NEW att, NEW N, NEW P, ListsFit(out, snt, att, N, P)
    PROVE  Cardinality({out[n] : n \in DOMAIN out} \cup {snt[n] : n \in DOMAIN snt})
             = Len(out) + Len(snt)
<1> DEFINE a == Len(out)
           b == Len(snt)
           S == {out[n] : n \in DOMAIN out} \cup {snt[n] : n \in DOMAIN snt}
           f == [n \in 1 .. a + b |-> IF n <= a THEN out[n] ELSE snt[n - a]]
<1>1. a \in Nat /\ b \in Nat /\ DOMAIN out = 1 .. a /\ DOMAIN snt = 1 .. b
  BY ListsTypes
<1>2. /\ \A k, l \in 1 .. a : out[k] = out[l] => k = l
      /\ \A k, l \in 1 .. b : snt[k] = snt[l] => k = l
      /\ \A k \in 1 .. a, l \in 1 .. b : out[k] # snt[l]
  BY DEF ListsFit, Distinct
<1> HIDE DEF a, b
<1>3. S = {out[n] : n \in 1 .. a} \cup {snt[n] : n \in 1 .. b}
  BY <1>1
<1> HIDE DEF S
<1>4. \A n \in 1 .. a + b : \/ n \in 1 .. a /\ f[n] = out[n]
                            \/ n - a \in 1 .. b /\ n > a /\ f[n] = snt[n - a]
  BY <1>1
<1>5. f \in [1 .. a + b -> S]
  <2>1. \A n \in 1 .. a + b : f[n] \in S
    BY <1>3, <1>4
  <2> QED
    BY <2>1
<1>6. \A k \in 1 .. a : k \in 1 .. a + b /\ f[k] = out[k]
  BY <1>1
<1>7. \A k \in 1 .. b : k + a \in 1 .. a + b /\ f[k + a] = snt[k]
  BY <1>1
<1> HIDE DEF f
<1>8. \A s \in S : \E n \in 1 .. a + b : f[n] = s
  BY <1>3, <1>6, <1>7
<1>9. \A k, l \in 1 .. a + b : f[k] = f[l] => k = l
  <2> SUFFICES ASSUME NEW k \in 1 .. a + b, NEW l \in 1 .. a + b, f[k] = f[l] PROVE k = l
    OBVIOUS
  <2>1. CASE k \in 1 .. a /\ f[k] = out[k]
    BY <1>2, <1>4, <2>1
  <2>2. CASE k - a \in 1 .. b /\ k > a /\ f[k] = snt[k - a]
    <3>1. ~(l \in 1 .. a /\ f[l] = out[l])
      BY <1>2, <2>2
    <3>2. l - a \in 1 .. b /\ f[l] = snt[l - a]
      BY <1>4, <3>1
    <3>3. k - a = l - a
      BY <1>2, <2>2, <3>2
    <3> QED
      BY <1>1, <3>3
  <2> QED
    BY <1>4, <2>1, <2>2
<1>10. f \in Bijection(1 .. a + b, S)
  BY <1>5, <1>8, <1>9 DEF Bijection, Injection, Surjection, IsInjective
<1>11. Cardinality(S) = a + b
  <2>1. IsFiniteSet(1 .. a + b) /\ Cardinality(1 .. a + b) = a + b
    BY <1>1, FS_Interval
  <2>2. ExistsBijection(1 .. a + b, S)
    BY <1>10 DEF ExistsBijection
  <2> QED
    BY <2>1, <2>2, FS_Bijection
<1> QED
  BY <1>11 DEF S, a, b

-----------------------------------------------------------------------------
(***************************************************************************)
(* The sender's windows.                                                   *)
(***************************************************************************)
InWindows(att, N) == \A j \in att : W(j) >= W(N) - Windows + FreeWindows + 2

LEMMA UnacknowledgedIs ==
    ASSUME NEW N \in Nat, attempted \subseteq 1 .. N, NEW w
    PROVE  /\ Unacknowledged(w) \in Nat
           /\ \A j \in attempted : Window(SeqNumber(j)) = w => Unacknowledged(w) > 0
           /\ \A T : T \subseteq attempted /\ (\A j \in T : Window(SeqNumber(j)) = w)
                        => Cardinality(T) <= Unacknowledged(w)
<1> DEFINE S == {i \in attempted : Window(SeqNumber(i)) = w}
<1>1. IsFiniteSet(S)
  <2>1. IsFiniteSet(1 .. N)
    BY FS_Interval
  <2>2. S \in SUBSET (1 .. N)
    OBVIOUS
  <2> QED
    BY <2>1, <2>2, FS_Subset
<1>2. Cardinality(S) \in Nat
  BY <1>1, FS_CardinalityType
<1>3. Cardinality(S) = 0 => S = {}
  BY <1>1, FS_EmptySet
<1>4. \A T : T \subseteq S => Cardinality(T) <= Cardinality(S)
  BY <1>1, FS_Subset
<1>5. Unacknowledged(w) = Cardinality(S)
  BY DEF Unacknowledged
<1>6. ASSUME NEW j \in attempted, Window(SeqNumber(j)) = w PROVE Unacknowledged(w) > 0
  <2>1. j \in S
    BY <1>6
  <2> HIDE DEF S
  <2> QED
    BY <1>2, <1>3, <1>5, <2>1
<1>7. ASSUME NEW T, T \subseteq attempted, \A j \in T : Window(SeqNumber(j)) = w
      PROVE  Cardinality(T) <= Unacknowledged(w)
  <2>1. T \subseteq S
    BY <1>7
  <2> HIDE DEF S
  <2> QED
    BY <1>4, <1>5, <2>1
<1> QED
  BY <1>2, <1>5, <1>6, <1>7

\* Windows are counted modulo Windows.
LEMMA ModAdd ==
    ASSUME NEW a \in Nat, NEW b \in Nat \ {0}, NEW k \in Nat
    PROVE  ((a % b) + k) % b = (a + k) % b
<1> DEFINE q == a \div b
           m == a % b
           q2 == (m + k) \div b
           s == (m + k) % b
<1>1. q \in Nat /\ m \in 0 .. b - 1 /\ a = (b * q) + m
  BY Division
<1>2. m + k \in Nat
  BY <1>1
<1>3. q2 \in Nat /\ s \in 0 .. b - 1 /\ m + k = (b * q2) + s
  <2> HIDE DEF m
  <2> QED
    BY <1>2, Division
<1> HIDE DEF q, m, q2, s
<1>4. b * (q + q2) = (b * q) + (b * q2) /\ b * q \in Nat /\ b * q2 \in Nat
  BY <1>1, <1>3
<1>5. a + k = (b * (q + q2)) + s
  <2> DEFINE x == b * q
             y == b * q2
  <2>1. /\ a = x + m /\ m + k = y + s /\ b * (q + q2) = x + y
        /\ x \in Nat /\ y \in Nat /\ m \in Nat /\ s \in Nat
    BY <1>1, <1>3, <1>4
  <2> HIDE DEF x, y
  <2> QED
    BY <2>1
<1>6. (a + k) % b = s
  <2> DEFINE e == a + k
             c == q + q2
  <2>1. e \in Nat /\ c \in Nat /\ s \in 0 .. b - 1 /\ e = b * c + s
    BY <1>1, <1>3, <1>5
  <2> HIDE DEF e, c
  <2>2. e % b = s
    BY <2>1, DivisionUnique
  <2> QED
    BY <2>2 DEF e
<1> QED
  BY <1>6 DEF s, m

LEMMA ModWhole ==
    ASSUME NEW a \in Nat, NEW b \in Nat \ {0}
    PROVE  (a + b) % b = a % b
<1> DEFINE q == a \div b
           m == a % b
<1>1. q \in Nat /\ m \in 0 .. b - 1 /\ a = (b * q) + m
  BY Division
<1> HIDE DEF q, m
<1>2. b * (q + 1) = (b * q) + b /\ b * q \in Nat
  BY <1>1
<1>3. a + b = (b * (q + 1)) + m
  BY <1>1, <1>2
<1>4. (a + b) % b = m
  BY <1>1, <1>3, DivisionUnique
<1> QED
  BY <1>4 DEF m

\* A new command is sent only when the windows allow it: the receiver is not
\* too far behind, and no command of a window that will be used again is
\* unacknowledged.
LEMMA WindowOpens ==
    ASSUME NEW N \in Nat, NEW r \in Nat, W(N) <= W(r) + FreeWindows - 1,
           attempted \subseteq 1 .. N, InWindows(attempted, N),
           \A j \in 1 .. N : j \notin attempted => W(j) <= W(r) + FreeWindows - 2,
           ~WindowWraps(N + 1)
    PROVE  W(N + 1) <= W(r) + FreeWindows - 1 /\ InWindows(attempted \cup {N + 1}, N + 1)
<1> DEFINE i == N + 1
           w == Window(SeqNumber(i))
<1>1. /\ i \in Nat /\ W(N) \in Nat /\ W(r) \in Nat /\ W(i) \in Nat
      /\ \A j \in attempted : j \in Nat /\ W(j) \in Nat
      /\ i \notin attempted
  BY WindowBounds
<1>2. /\ WindowSize \in Nat \ {0} /\ WindowSize >= 2
      /\ Windows \in Nat \ {0} /\ FreeWindows \in Nat /\ FreeWindows >= 3
      /\ Windows > FreeWindows + 2
  BY Sizes
<1>3. W(i) = W(N) + (IF i % WindowSize = 0 THEN 1 ELSE 0)
  BY WindowNext
<1>4. CASE i % WindowSize # 0
  <2>1. W(i) = W(N)
    BY <1>1, <1>3, <1>4
  <2> HIDE DEF i
  <2>2. InWindows(attempted \cup {i}, i)
    BY <1>1, <1>2, <2>1 DEF InWindows
  <2> QED
    BY <1>1, <2>1, <2>2 DEF i
<1>5. CASE i % WindowSize = 0
  <2>1. W(i) = W(N) + 1
    BY <1>1, <1>3, <1>5
  <2>2. SeqNumber(i) % WindowSize = 0
    BY <1>1, <1>5, SeqWindow
  <2>3. w = W(i) % Windows
    BY <1>1, WindowMod
  <2>4. /\ ~(Unacknowledged((w + Windows - 1) % Windows) >= WindowSize)
        /\ \A k \in 0 .. FreeWindows + 1 : ~(Unacknowledged((w + k) % Windows) > 0)
    BY <1>1, <2>2 DEF WindowWraps
  <2> HIDE DEF i, w
  <2>5. InWindows(attempted \cup {i}, i)
    <3>1. ASSUME NEW j \in attempted PROVE W(j) >= W(i) - Windows + FreeWindows + 2
      <4>1. W(j) >= W(N) - Windows + FreeWindows + 2
        BY DEF InWindows
      <4>2. ASSUME W(j) + Windows = W(i) + (FreeWindows + 1) PROVE FALSE
        <5>1. Window(SeqNumber(j)) = W(j) % Windows
          BY <1>1, WindowMod
        <5>2. W(j) % Windows = (W(i) + (FreeWindows + 1)) % Windows
          BY <1>1, <1>2, <4>2, ModWhole
        <5>3. (W(i) + (FreeWindows + 1)) % Windows = (w + (FreeWindows + 1)) % Windows
          <6> DEFINE f == FreeWindows + 1
          <6>1. f \in Nat /\ Windows \in Nat \ {0} /\ W(i) \in Nat
            BY <1>1, <1>2
          <6> HIDE DEF f
          <6>2. ((W(i) % Windows) + f) % Windows = (W(i) + f) % Windows
            BY <6>1, ModAdd
          <6> QED
            BY <2>3, <6>2 DEF f
        <5>4. Window(SeqNumber(j)) = (w + (FreeWindows + 1)) % Windows
          BY <5>1, <5>2, <5>3
        <5>5. Unacknowledged((w + (FreeWindows + 1)) % Windows) > 0
          BY <5>4, UnacknowledgedIs
        <5>6. FreeWindows + 1 \in 0 .. FreeWindows + 1
          BY <1>2
        <5> QED
          BY <2>4, <5>5, <5>6
      <4>3. W(j) \in Int /\ W(i) \in Int /\ W(N) \in Int
        BY <1>1
      <4> QED
        BY <1>2, <2>1, <4>1, <4>2, <4>3
    <3>2. W(i) >= W(i) - Windows + FreeWindows + 2
      BY <1>1, <1>2
    <3> QED
      BY <3>1, <3>2 DEF InWindows
  <2>6. W(i) <= W(r) + FreeWindows - 1
    <3>1. CASE W(N) = 0
      BY <1>1, <1>2, <2>1, <3>1
    <3>2. CASE W(N) # 0
      <4> DEFINE a == WindowSize * W(N)
                 T == a .. N
      <4>1. /\ a \in Nat /\ a >= 1 /\ a <= N /\ N < a + WindowSize
        <5>1. a \in Nat /\ a <= N /\ N < a + WindowSize
          BY <1>1, <1>2, WindowBounds
        <5>2. WindowSize * W(N) >= WindowSize * 1
          BY <1>1, <1>2, <3>2
        <5> QED
          BY <1>2, <5>1, <5>2
      <4>2. N = (a + WindowSize) - 1
        <5>1. WindowSize * W(i) <= i
          BY <1>1, WindowBounds
        <5>2. WindowSize * W(i) = a + WindowSize
          BY <1>1, <1>2, <2>1
        <5> HIDE DEF a
        <5> QED
          BY <1>1, <1>2, <4>1, <5>1, <5>2 DEF i
      <4>3. \A j \in T : j \in Nat /\ j \in 1 .. N /\ W(j) = W(N)
        <5> TAKE j \in T
        <5>1. j \in Nat /\ j \in 1 .. N /\ a <= j
          BY <4>1
        <5>2. W(j) <= W(N)
          BY <5>1, WindowMonotone
        <5>3. W(j) >= W(N)
          <6>1. W(a) = W(N)
            <7>1. a = WindowSize * W(N) + 0 /\ 0 \in 0 .. WindowSize - 1
              BY <1>1, <1>2
            <7> HIDE DEF a
            <7> QED
              BY <1>1, <1>2, <4>1, <7>1, DivisionUnique DEF W
          <6>2. W(a) <= W(j)
            BY <4>1, <5>1, WindowMonotone
          <6> QED
            BY <6>1, <6>2
        <5>4. W(j) \in Nat
          BY <5>1, WindowBounds
        <5> QED
          BY <1>1, <5>1, <5>2, <5>3, <5>4
      <4>4. (w + Windows - 1) % Windows = W(N) % Windows
        <5>1. w + Windows - 1 = w + (Windows - 1) /\ Windows - 1 \in Nat
          <6>1. w \in Int
            BY <1>1, SeqWindow DEF w
          <6> QED
            BY <1>2, <6>1
        <5>2. (w + (Windows - 1)) % Windows = (W(i) + (Windows - 1)) % Windows
          <6> DEFINE f == Windows - 1
          <6>1. f \in Nat /\ Windows \in Nat \ {0} /\ W(i) \in Nat
            BY <1>1, <1>2, <5>1
          <6> HIDE DEF f
          <6>2. ((W(i) % Windows) + f) % Windows = (W(i) + f) % Windows
            BY <6>1, ModAdd
          <6> QED
            BY <2>3, <6>2 DEF f
        <5>3. W(i) + (Windows - 1) = W(N) + Windows
          BY <1>1, <1>2, <2>1
        <5> QED
          BY <1>1, <1>2, <5>1, <5>2, <5>3, ModWhole
      <4> HIDE DEF a
      <4>5. ~(T \subseteq attempted)
        <5> SUFFICES ASSUME T \subseteq attempted PROVE FALSE
          OBVIOUS
        <5>1. \A j \in T : Window(SeqNumber(j)) = (w + Windows - 1) % Windows
          BY <4>3, <4>4, WindowMod
        <5>2. Cardinality(T) <= Unacknowledged((w + Windows - 1) % Windows)
              /\ Unacknowledged((w + Windows - 1) % Windows) \in Nat
          <6> HIDE DEF T
          <6> QED
            BY <5>1, UnacknowledgedIs
        <5>3. Cardinality(T) = WindowSize
          <6>1. Cardinality(a .. N) = IF a > N THEN 0 ELSE N - a + 1
            BY <4>1, FS_Interval
          <6> QED
            BY <1>2, <4>1, <4>2, <6>1
        <5> QED
          BY <1>2, <2>4, <5>2, <5>3
      <4>6. PICK j \in T : j \notin attempted
        BY <4>5
      <4>7. j \in 1 .. N /\ W(j) = W(N)
        BY <4>3
      <4>8. W(N) <= W(r) + FreeWindows - 2
        BY <4>6, <4>7
      <4> QED
        BY <1>1, <1>2, <2>1, <4>8
    <3> QED
      BY <3>1, <3>2
  <2> QED
    BY <2>5, <2>6 DEF i
<1> QED
  BY <1>4, <1>5

-----------------------------------------------------------------------------
(***************************************************************************)
(* The invariant.  N is the newest command that was sent.                  *)
(***************************************************************************)
SenderFits(N) ==
    /\ connected \in BOOLEAN /\ packets \in 0 .. Len(Lengths) /\ faults \in 0 .. MaxFaults
    /\ ~connected => outgoing = <<>> /\ sent = <<>> /\ attempted = {}
    /\ connected => ListsFit(outgoing, sent, attempted, N, packets)

\* What is in the network is not older than Lifetime commands.
NetworkFits(N) == \A i \in data \cup acks : i \in 1 .. N /\ i > N - Lifetime

\* What the sender has forgotten, or is about to, has arrived.
SettledFits(N) ==
    \A j \in 1 .. N : (connected /\ j \notin attempted) \/ j \in acks => Settled(j)

Fits(N) ==
    /\ N \in Nat /\ N <= Last(packets)
    /\ SenderFits(N)
    /\ Receiver(N)
    /\ InWindows(attempted, N)
    /\ NetworkFits(N)
    /\ SettledFits(N)

IInv == \E N \in Nat : Fits(N)

LEMMA FitsTypes ==
    ASSUME NEW N, Fits(N)
    PROVE  /\ N \in Nat /\ Last(packets) \in Nat /\ N <= Last(packets)
           /\ packets \in Nat /\ packets <= Len(Lengths) /\ packets \in 0 .. Len(Lengths)
           /\ Len(Lengths) \in Nat
           /\ R \in Nat /\ R <= N /\ Len(received) \in 0 .. packets
           /\ W(N) <= W(R) + FreeWindows - 1
           /\ attempted \subseteq 1 .. N
<1>1. /\ N \in Nat /\ N <= Last(packets) /\ packets \in 0 .. Len(Lengths)
      /\ Len(Lengths) \in Nat
  BY LengthsType DEF Fits, SenderFits
<1>2. Last(packets) \in Nat
  BY <1>1, LastType
<1>3. received \in Seq(SUBSET Commands) /\ Len(received) <= packets /\ R <= N
  BY DEF Fits, Receiver, ReceivedFits
<1>4. Len(received) \in 0 .. packets /\ Len(received) \in 0 .. Len(Lengths)
  BY <1>1, <1>3
<1>5. R \in Nat
  BY <1>4, LastType DEF R
<1>6. W(N) <= W(R) + FreeWindows - 1
  BY DEF Fits, Receiver, Ahead
<1>7. attempted \subseteq 1 .. N
  <2>1. CASE connected
    BY <2>1 DEF Fits, SenderFits, ListsFit
  <2>2. CASE ~connected
    BY <2>2 DEF Fits, SenderFits
  <2> QED
    BY <2>1, <2>2
<1> QED
  BY <1>1, <1>2, <1>3, <1>4, <1>5, <1>6, <1>7

\* A step of the sender leaves the receiver as it was.
LEMMA ReceiverKeeps ==
    ASSUME NEW N \in Nat, NEW M \in Nat, N <= M, Receiver(N), UNCHANGED receiverVars,
           packets \in Nat, packets' \in Nat, packets <= packets', R \in Nat,
           W(M) <= W(R) + FreeWindows - 1
    PROVE  Receiver(M)' /\ \A j : Settled(j) => Settled(j)'
<1>1. incoming' = incoming /\ waiting' = waiting /\ received' = received /\ R' = R
  BY DEF receiverVars, R
<1>2. ReceivedFits(M)'
  <2>1. /\ received \in Seq(SUBSET Commands) /\ Len(received) <= packets
        /\ \A p \in 1 .. Len(received) : received[p] = CommandsOf(p)
        /\ incoming = SeqNumber(R) /\ R <= N
    BY DEF Receiver, ReceivedFits
  <2>2. Len(received) <= packets' /\ R <= M
    BY <2>1
  <2> QED
    BY <1>1, <2>1, <2>2 DEF ReceivedFits
<1>3. WaitingFits(M)'
  <2> DEFINE L == Len(received)
  <2>1. /\ waiting \in Seq(Entry)
        /\ \A k \in 1 .. Len(waiting) : \E q \in L + 1 .. packets : EntryOf(waiting[k], q, N)
        /\ \A k, l \in 1 .. Len(waiting) : waiting[k].seq = waiting[l].seq => k = l
        /\ L \in Nat
    BY DEF Receiver, WaitingFits, ListFits, ReceivedFits
  <2>2. \A e, q : EntryOf(e, q, N) => EntryOf(e, q, M)
    <3> SUFFICES ASSUME NEW e, NEW q, EntryOf(e, q, N), NEW j \in e.got PROVE j <= M
      BY DEF EntryOf
    <3>1. \A i \in e.got : i <= N /\ i \in CommandsOf(q)
      BY DEF EntryOf
    <3>2. j <= N /\ j \in Int
      BY <3>1 DEF CommandsOf
    <3> QED
      BY <3>2
  <2> HIDE DEF L
  <2>3. \A q \in L + 1 .. packets : q \in L + 1 .. packets'
    BY <2>1
  <2>4. \A k \in 1 .. Len(waiting) : \E q \in L + 1 .. packets' : EntryOf(waiting[k], q, M)
    BY <2>1, <2>2, <2>3
  <2>5. ListFits(waiting, L, packets', M)
    BY <2>1, <2>4 DEF ListFits
  <2> QED
    BY <1>1, <2>5 DEF WaitingFits, L
<1>4. Ahead(M)'
  BY <1>1 DEF Ahead, W
<1>5. \A j : Settled(j) => Settled(j)'
  BY <1>1 DEF Settled, Have, Holds, W
<1> QED
  BY <1>2, <1>3, <1>4, <1>5 DEF Receiver

LEMMA InitFits == Init => Fits(0)
<1> SUFFICES ASSUME Init PROVE Fits(0)
  OBVIOUS
<1>1. /\ connected = TRUE /\ packets = 0 /\ outgoing = <<>> /\ sent = <<>>
      /\ attempted = {} /\ data = {} /\ acks = {} /\ incoming = 0
      /\ waiting = <<>> /\ received = <<>> /\ faults = 0
  BY DEF Init
<1>2. R = 0 /\ Last(packets) = 0
  BY <1>1 DEF R, Last
<1>3. ListsFit(<<>>, <<>>, {}, 0, 0)
  <2>1. Last(0) = 0 /\ Len(<<>>) = 0
    BY DEF Last
  <2>2. Queue(<<>>, {}, 0, 0, 0)
    BY <2>1 DEF Queue
  <2>3. <<>> \in Seq(Commands) /\ 0 \in 0 .. Len(<<>>) /\ 1 .. Len(<<>>) = {}
    BY <2>1
  <2> QED
    BY <2>2, <2>3 DEF ListsFit, Distinct
<1>4. SenderFits(0)
  BY <1>1, <1>3, LengthsType, EnetAssumption DEF SenderFits
<1>5. W(0) \in Nat /\ FreeWindows \in Nat /\ FreeWindows >= 3
  BY WindowBounds, Sizes
<1>6. Receiver(0)
  <2>1. SeqNumber(0) = 0
    <3>1. 0 = Space * 0 + 0 /\ 0 \in 0 .. Space - 1
      BY Sizes
    <3> QED
      BY <3>1, RoundIs
  <2>2. ReceivedFits(0)
    BY <1>1, <1>2, <2>1 DEF ReceivedFits
  <2>3. WaitingFits(0)
    BY <1>1 DEF WaitingFits, ListFits
  <2>4. Ahead(0)
    BY <1>2, <1>5 DEF Ahead
  <2> QED
    BY <2>2, <2>3, <2>4 DEF Receiver
<1> QED
  BY <1>1, <1>2, <1>4, <1>6 DEF Fits, InWindows, NetworkFits, SettledFits

\* enet_peer_send.
LEMMA PeerSendFits ==
    ASSUME NEW N, Fits(N), PeerSend
    PROVE  Fits(N)'
<1>1. /\ connected /\ packets < Len(Lengths) /\ packets' = packets + 1
      /\ outgoing' = outgoing \o [n \in 1 .. Lengths[packets + 1] |->
                                     First[packets + 1] + n - 1]
      /\ UNCHANGED <<connected, sent, attempted, data, acks, receiverVars, faults>>
  BY DEF PeerSend
<1>2. /\ N \in Nat /\ Last(packets) \in Nat /\ N <= Last(packets) /\ packets \in Nat
      /\ packets + 1 \in 0 .. Len(Lengths) /\ Len(Lengths) \in Nat /\ R \in Nat
      /\ W(N) <= W(R) + FreeWindows - 1
  BY <1>1, FitsTypes
<1>3. Receiver(N)' /\ \A j : Settled(j) => Settled(j)'
  <2>1. UNCHANGED receiverVars /\ packets' \in Nat /\ packets <= packets' /\ Receiver(N)
    BY <1>1, <1>2 DEF Fits
  <2> QED
    BY <1>2, <2>1, ReceiverKeeps
<1>4. ListsFit(outgoing', sent, attempted, N, packets + 1)
  <2>1. ListsFit(outgoing, sent, attempted, N, packets)
    BY <1>1 DEF Fits, SenderFits
  <2>2. packets + 1 <= Len(Lengths)
    BY <1>2
  <2> QED
    BY <1>1, <1>2, <2>1, <2>2, SendFits
<1>5. SenderFits(N)'
  <2>1. connected' = connected /\ faults' = faults /\ sent' = sent /\ attempted' = attempted
    BY <1>1
  <2>2. connected \in BOOLEAN /\ faults \in 0 .. MaxFaults
    BY DEF Fits, SenderFits
  <2> QED
    BY <1>1, <1>2, <1>4, <2>1, <2>2 DEF SenderFits
<1>6. N <= Last(packets)'
  <2>1. packets \in 0 .. Len(Lengths)
    BY <1>2
  <2>2. Last(packets) <= Last(packets + 1) /\ Last(packets + 1) \in Nat
    BY <1>2, <2>1, LastMonotone, LastType
  <2>3. N <= Last(packets + 1)
    BY <1>2, <2>2
  <2> QED
    BY <1>1, <2>3 DEF Last
<1>7. InWindows(attempted, N)'
  BY <1>1 DEF Fits, InWindows, W
<1>8. NetworkFits(N)' /\ SettledFits(N)'
  BY <1>1, <1>3 DEF Fits, NetworkFits, SettledFits
<1> QED
  BY <1>2, <1>3, <1>5, <1>6, <1>7, <1>8 DEF Fits

\* A step that only takes from the network.
LEMMA LessFits ==
    ASSUME NEW N, Fits(N), data' \subseteq data, acks' \subseteq acks,
           faults' \in 0 .. MaxFaults, UNCHANGED <<senderVars, receiverVars>>
    PROVE  Fits(N)'
<1>1. /\ connected' = connected /\ packets' = packets /\ outgoing' = outgoing
      /\ sent' = sent /\ attempted' = attempted
  BY DEF senderVars
<1>2. /\ N \in Nat /\ Last(packets) \in Nat /\ N <= Last(packets) /\ packets \in Nat
      /\ R \in Nat /\ W(N) <= W(R) + FreeWindows - 1
  BY FitsTypes
<1>3. Receiver(N)' /\ \A j : Settled(j) => Settled(j)'
  <2>1. UNCHANGED receiverVars /\ packets' \in Nat /\ packets <= packets' /\ Receiver(N)
    BY <1>1, <1>2 DEF Fits
  <2> QED
    BY <1>2, <2>1, ReceiverKeeps
<1>4. SenderFits(N)'
  BY <1>1 DEF Fits, SenderFits
<1>5. InWindows(attempted, N)'
  BY <1>1 DEF Fits, InWindows, W
<1>6. NetworkFits(N)' /\ SettledFits(N)'
  BY <1>1, <1>3 DEF Fits, NetworkFits, SettledFits
<1>7. N <= Last(packets)'
  BY <1>1, <1>2
<1> QED
  BY <1>2, <1>3, <1>4, <1>5, <1>6, <1>7 DEF Fits

\* One command of enet_protocol_check_outgoing_commands.
LEMMA TransmitFits ==
    ASSUME NEW N, Fits(N), Transmit
    PROVE  \E M \in Nat : Fits(M)'
<1> DEFINE i == Head(outgoing)
           att == attempted \cup {i}
<1>0. PICK M : M = IF i \in attempted THEN N ELSE N + 1
  OBVIOUS
<1>1. /\ connected /\ outgoing # <<>> /\ ~WindowWraps(i)
      /\ sent' = Append(sent, i) /\ attempted' = att
      /\ data' = Alive(data, i) \cup {i} /\ acks' = Alive(acks, i)
      /\ outgoing' = Tail(outgoing)
      /\ UNCHANGED <<connected, packets, receiverVars, faults>>
  BY DEF Transmit
<1>2. /\ N \in Nat /\ Last(packets) \in Nat /\ N <= Last(packets) /\ packets \in Nat
      /\ packets \in 0 .. Len(Lengths) /\ R \in Nat
      /\ W(N) <= W(R) + FreeWindows - 1 /\ attempted \subseteq 1 .. N
  BY FitsTypes
<1>3. ListsFit(outgoing, sent, attempted, N, packets)
  BY <1>1 DEF Fits, SenderFits
<1>4. /\ i \in Nat \ {0} /\ i <= Last(packets)
      /\ (i \notin attempted => i = N + 1)
  BY <1>1, <1>2, <1>3, HeadIs
<1>5. outgoing \in Seq(Commands) /\ sent \in Seq(Commands)
      /\ Len(outgoing) > 0 /\ i = outgoing[1]
  <2>1. outgoing \in Seq(Commands) /\ sent \in Seq(Commands)
    BY <1>3 DEF ListsFit
  <2> QED
    BY <1>1, <2>1
<1>6. ListsFit(outgoing', sent', att, M, packets) /\ M \in Nat /\ M <= Last(packets)
  <2>1. Moved(outgoing, sent, outgoing', sent')
    BY <1>1, <1>5, MoveIs
  <2>2. M = IF outgoing[1] \in attempted THEN N ELSE N + 1
    BY <1>0, <1>5
  <2>3. att = attempted \cup {outgoing[1]}
    BY <1>5
  <2> HIDE DEF i, att
  <2> QED
    BY <1>2, <1>3, <1>5, <2>1, <2>2, <2>3, MoveFits
<1>7. /\ W(M) <= W(R) + FreeWindows - 1 /\ InWindows(att, M) /\ N <= M
      /\ i \in 1 .. M /\ i > M - Lifetime
      /\ \A j \in Nat : j > N - Lifetime /\ j > i - Lifetime => j > M - Lifetime
  <2>1. InWindows(attempted, N) /\ Lifetime \in Nat /\ Lifetime > 0
    <3>1. Windows - FreeWindows \in Nat \ {0} /\ WindowSize \in Nat \ {0}
      BY Sizes
    <3>2. Lifetime = WindowSize * (Windows - FreeWindows) /\ Lifetime \in Nat
      BY Sizes
    <3> DEFINE gap == Windows - FreeWindows
    <3>3. gap \in Nat \ {0} /\ Lifetime = WindowSize * gap
      BY <3>1, <3>2
    <3> HIDE DEF gap
    <3>4. WindowSize * 0 = 0 /\ WindowSize * gap # 0
      BY <3>1, <3>3
    <3> QED
      BY <3>2, <3>3, <3>4 DEF Fits
  <2>2. CASE i \in attempted
    <3>1. M = N /\ att = attempted /\ i \in 1 .. N
      BY <1>0, <1>2, <2>2
    <3>2. i > N - Lifetime
      <4>1. W(i) >= W(N) - Windows + FreeWindows + 2
        BY <2>1, <2>2 DEF InWindows
      <4> HIDE DEF i
      <4> QED
        BY <1>2, <1>4, <4>1, NearNewest
    <3> HIDE DEF i, att
    <3> QED
      BY <1>2, <2>1, <3>1, <3>2
  <2>3. CASE i \notin attempted
    <3>1. M = N + 1 /\ i = N + 1
      BY <1>0, <1>4, <2>3
    <3>2. \A j \in 1 .. N : j \notin attempted => W(j) <= W(R) + FreeWindows - 2
      BY <1>1 DEF Fits, SettledFits, Settled
    <3>3. ~WindowWraps(N + 1)
      BY <1>1, <3>1
    <3>4. W(N + 1) <= W(R) + FreeWindows - 1
          /\ InWindows(attempted \cup {N + 1}, N + 1)
      BY <1>2, <2>1, <3>2, <3>3, WindowOpens
    <3>5. att = attempted \cup {N + 1}
      BY <3>1
    <3> HIDE DEF i, att
    <3> QED
      BY <1>2, <2>1, <3>1, <3>4, <3>5
  <2> QED
    BY <2>2, <2>3
<1> HIDE DEF i, att
<1>8. Receiver(M)' /\ \A j : Settled(j) => Settled(j)'
  <2>1. UNCHANGED receiverVars /\ packets' \in Nat /\ packets <= packets' /\ Receiver(N)
    BY <1>1, <1>2 DEF Fits
  <2> QED
    BY <1>2, <1>6, <1>7, <2>1, ReceiverKeeps
<1>9. SenderFits(M)'
  <2>1. connected' = connected /\ faults' = faults /\ packets' = packets
    BY <1>1
  <2>2. connected \in BOOLEAN /\ faults \in 0 .. MaxFaults /\ packets \in 0 .. Len(Lengths)
    BY DEF Fits, SenderFits
  <2> QED
    BY <1>1, <1>6, <2>1, <2>2 DEF SenderFits
<1>10. M <= Last(packets)'
  BY <1>1, <1>6
<1>11. InWindows(attempted, M)'
  BY <1>1, <1>7 DEF InWindows, W
<1>12. NetworkFits(M)'
  <2>1. ASSUME NEW j \in data' \cup acks' PROVE j \in 1 .. M /\ j > M - Lifetime
    <3>1. CASE j = i
      BY <1>7, <3>1
    <3>2. CASE j # i
      <4>1. j \in data \cup acks /\ j > i - Lifetime
        BY <1>1, <2>1, <3>2 DEF Alive
      <4>2. j \in 1 .. N /\ j > N - Lifetime
        BY <4>1 DEF Fits, NetworkFits
      <4>3. j \in Nat /\ j \in 1 .. M
        BY <1>2, <1>6, <1>7, <4>2
      <4> QED
        BY <1>7, <4>1, <4>2, <4>3
    <3> QED
      BY <3>1, <3>2
  <2> QED
    BY <2>1 DEF NetworkFits
<1>13. SettledFits(M)'
  <2> SUFFICES ASSUME NEW j \in 1 .. M, (connected' /\ j \notin attempted') \/ j \in acks'
               PROVE  Settled(j)'
    BY DEF SettledFits
  <2>1. (connected /\ j \notin attempted /\ j # i) \/ j \in acks
    BY <1>1 DEF Alive, att
  <2>2. j \in 1 .. N
    <3>1. CASE j \in acks
      BY <3>1 DEF Fits, NetworkFits
    <3>2. CASE j \notin attempted /\ j # i
      <4>1. M = N \/ (M = N + 1 /\ i = N + 1)
        BY <1>0, <1>4
      <4> QED
        BY <1>2, <1>6, <3>2, <4>1
    <3> QED
      BY <2>1, <3>1, <3>2
  <2>3. Settled(j)
    BY <2>1, <2>2 DEF Fits, SettledFits
  <2> QED
    BY <1>8, <2>3
<1>14. Fits(M)'
  BY <1>6, <1>8, <1>9, <1>10, <1>11, <1>12, <1>13 DEF Fits
<1> QED
  BY <1>6, <1>14

\* enet_protocol_check_timeouts.
LEMMA ResendFits ==
    ASSUME NEW N, Fits(N), NEW n \in DOMAIN sent, NEW m \in DOMAIN sent, n <= m,
           Resend(n, m), faults' \in 0 .. MaxFaults
    PROVE  Fits(N)'
<1>1. /\ connected /\ outgoing' = SubSeq(sent, n, m) \o outgoing
      /\ sent' = SubSeq(sent, 1, n - 1) \o SubSeq(sent, m + 1, Len(sent))
      /\ UNCHANGED <<connected, packets, attempted, data, acks, receiverVars>>
  BY DEF Resend
<1>2. /\ N \in Nat /\ Last(packets) \in Nat /\ N <= Last(packets) /\ packets \in Nat
      /\ R \in Nat /\ W(N) <= W(R) + FreeWindows - 1
  BY FitsTypes
<1>3. Receiver(N)' /\ \A j : Settled(j) => Settled(j)'
  <2>1. UNCHANGED receiverVars /\ packets' \in Nat /\ packets <= packets' /\ Receiver(N)
    BY <1>1, <1>2 DEF Fits
  <2> QED
    BY <1>2, <2>1, ReceiverKeeps
<1>4. ListsFit(outgoing', sent', attempted, N, packets)
  <2>1. ListsFit(outgoing, sent, attempted, N, packets)
    BY <1>1 DEF Fits, SenderFits
  <2>2. /\ outgoing \in Seq(Commands) /\ sent \in Seq(Commands) /\ Len(sent) \in Nat
        /\ n \in 1 .. Len(sent) /\ m \in 1 .. Len(sent)
    BY <2>1 DEF ListsFit
  <2> DEFINE c == (m - n) + 1
  <2>3. Requeued(outgoing, sent, n, c, outgoing', sent')
    BY <1>1, <2>2, RequeueIs
  <2>4. n \in Nat \ {0} /\ c \in Nat /\ (n - 1) + c <= Len(sent)
    BY <2>2
  <2> HIDE DEF c
  <2> QED
    BY <1>2, <2>1, <2>3, <2>4, RequeueFits
<1>5. SenderFits(N)'
  <2>1. connected \in BOOLEAN /\ packets \in 0 .. Len(Lengths)
    BY DEF Fits, SenderFits
  <2> QED
    BY <1>1, <1>4, <2>1 DEF SenderFits
<1>6. InWindows(attempted, N)'
  BY <1>1 DEF Fits, InWindows, W
<1>7. NetworkFits(N)' /\ SettledFits(N)'
  BY <1>1, <1>3 DEF Fits, NetworkFits, SettledFits
<1>8. N <= Last(packets)'
  BY <1>1, <1>2
<1> QED
  BY <1>2, <1>3, <1>5, <1>6, <1>7, <1>8 DEF Fits

\* enet_protocol_notify_disconnect.
LEMMA DisconnectFits ==
    ASSUME NEW N, Fits(N), NotifyDisconnect
    PROVE  Fits(N)'
<1>1. /\ faults < MaxFaults /\ faults' = faults + 1
      /\ connected' = FALSE /\ outgoing' = <<>> /\ sent' = <<>> /\ attempted' = {}
      /\ UNCHANGED <<packets, data, acks, receiverVars>>
  BY DEF NotifyDisconnect
<1>2. /\ N \in Nat /\ Last(packets) \in Nat /\ N <= Last(packets) /\ packets \in Nat
      /\ R \in Nat /\ W(N) <= W(R) + FreeWindows - 1
  BY FitsTypes
<1>3. Receiver(N)' /\ \A j : Settled(j) => Settled(j)'
  <2>1. UNCHANGED receiverVars /\ packets' \in Nat /\ packets <= packets' /\ Receiver(N)
    BY <1>1, <1>2 DEF Fits
  <2> QED
    BY <1>2, <2>1, ReceiverKeeps
<1>4. SenderFits(N)'
  <2>1. packets \in 0 .. Len(Lengths) /\ faults \in 0 .. MaxFaults /\ MaxFaults \in Nat
    BY EnetAssumption DEF Fits, SenderFits
  <2>2. faults' \in 0 .. MaxFaults
    BY <1>1, <2>1
  <2> QED
    BY <1>1, <2>1, <2>2 DEF SenderFits
<1>5. InWindows(attempted, N)'
  BY <1>1 DEF InWindows
<1>6. NetworkFits(N)' /\ SettledFits(N)'
  BY <1>1, <1>3 DEF Fits, NetworkFits, SettledFits
<1>7. N <= Last(packets)'
  BY <1>1, <1>2
<1> QED
  BY <1>2, <1>3, <1>4, <1>5, <1>6, <1>7 DEF Fits

\* An acknowledgement is taken for that of the command it was sent for.
LEMMA AcknowledgedIs ==
    ASSUME NEW N, Fits(N), NEW i \in acks, NEW j \in attempted, SeqNumber(j) = SeqNumber(i)
    PROVE  j = i
<1>1. N \in Nat /\ j \in Nat /\ j \in 1 .. N
  BY FitsTypes
<1>2. i \in 1 .. N /\ i > N - Lifetime
  BY DEF Fits, NetworkFits
<1>3. j > N - Lifetime
  <2>1. W(j) >= W(N) - Windows + FreeWindows + 2
    BY DEF Fits, InWindows
  <2> QED
    BY <1>1, <2>1, NearNewest
<1>4. Space \in Nat /\ Lifetime \in Nat /\ Lifetime <= Space
  <2>1. Space = Lifetime + WindowSize * FreeWindows /\ WindowSize * FreeWindows \in Nat
        /\ Lifetime \in Nat
    BY Sizes
  <2> QED
    BY <2>1
<1>5. i \in Nat /\ i < j + Space /\ j < i + Space
  BY <1>1, <1>2, <1>3, <1>4
<1> QED
  BY <1>1, <1>5, SeqUnique

\* enet_protocol_remove_sent_reliable_command.
LEMMA AcknowledgedFits ==
    ASSUME NEW N, Fits(N), connected, NEW i \in acks, Acknowledged(SeqNumber(i))
    PROVE  /\ ListsFit(outgoing', sent', attempted', N, packets)
           /\ attempted' \subseteq attempted /\ attempted \subseteq attempted' \cup {i}
<1> DEFINE s == SeqNumber(i)
<1>1. ListsFit(outgoing, sent, attempted, N, packets) /\ N \in Nat
  BY DEF Fits, SenderFits
<1>2. /\ outgoing \in Seq(Commands) /\ sent \in Seq(Commands)
      /\ Len(outgoing) \in Nat /\ Len(sent) \in Nat
      /\ DOMAIN outgoing = 1 .. Len(outgoing) /\ DOMAIN sent = 1 .. Len(sent)
  BY <1>1, ListsTypes DEF ListsFit
<1> HIDE DEF s
<1>3. CASE At(sent, s) # {}
  <2> DEFINE n == Min(At(sent, s))
  <2>1. sent' = Without(sent, n) /\ attempted' = attempted \ {sent[n]} /\ outgoing' = outgoing
    BY <1>3 DEF Acknowledged, s
  <2>2. n \in At(sent, s)
    <3>1. At(sent, s) \in SUBSET Nat
      BY <1>2 DEF At
    <3> QED
      BY <1>3, <3>1, MinFacts
  <2>3. n \in 1 .. Len(sent) /\ SeqNumber(sent[n]) = s
    BY <1>2, <2>2 DEF At
  <2> HIDE DEF n
  <2>4. sent[n] \in attempted
    BY <1>1, <2>3 DEF ListsFit
  <2>5. sent[n] = i
    BY <2>3, <2>4, AcknowledgedIs DEF s
  <2>6. Removed(sent, n, sent')
    BY <1>2, <2>1, <2>3, RemoveIs
  <2>7. ListsFit(outgoing, sent', attempted \ {sent[n]}, N, packets)
    BY <1>1, <2>3, <2>6, RemoveSentFits
  <2> QED
    BY <2>1, <2>5, <2>7
<1>4. CASE At(sent, s) = {} /\ FindSent(outgoing, s) # {}
  <2> DEFINE n == Min(FindSent(outgoing, s))
  <2>1. /\ outgoing' = Without(outgoing, n) /\ attempted' = attempted \ {outgoing[n]}
        /\ sent' = sent
    BY <1>4 DEF Acknowledged, s
  <2>2. n \in FindSent(outgoing, s)
    <3>1. FindSent(outgoing, s) \in SUBSET Nat
      BY <1>2 DEF FindSent, At
    <3> QED
      BY <1>4, <3>1, MinFacts
  <2>3. n \in 1 .. Len(outgoing) /\ SeqNumber(outgoing[n]) = s /\ outgoing[n] \in attempted
    BY <1>2, <2>2 DEF FindSent, At
  <2> HIDE DEF n
  <2>4. outgoing[n] = i
    BY <2>3, AcknowledgedIs DEF s
  <2>5. Removed(outgoing, n, outgoing')
    BY <1>2, <2>1, <2>3, RemoveIs
  <2>6. ListsFit(outgoing', sent, attempted \ {outgoing[n]}, N, packets)
    BY <1>1, <2>3, <2>5, RemoveQueuedFits
  <2> QED
    BY <2>1, <2>4, <2>6
<1>5. CASE At(sent, s) = {} /\ FindSent(outgoing, s) = {}
  <2>1. UNCHANGED <<sent, outgoing, attempted>>
    BY <1>5 DEF Acknowledged, s
  <2> QED
    BY <1>1, <2>1
<1> QED
  BY <1>3, <1>4, <1>5

LEMMA AckFits ==
    ASSUME NEW N, Fits(N), NEW i \in acks, ReceiveAck(i)
    PROVE  Fits(N)'
<1>1. /\ connected /\ connected' = connected /\ packets' = packets /\ data' = data
      /\ UNCHANGED receiverVars /\ Take(acks, i) /\ Acknowledged(SeqNumber(i))
  BY DEF ReceiveAck
<1>2. acks' \subseteq acks /\ faults' \in 0 .. MaxFaults
  <2>1. faults \in 0 .. MaxFaults /\ MaxFaults \in Nat
    BY EnetAssumption DEF Fits, SenderFits
  <2> QED
    BY <1>1, <2>1 DEF Take
<1>3. /\ N \in Nat /\ Last(packets) \in Nat /\ N <= Last(packets) /\ packets \in Nat
      /\ R \in Nat /\ W(N) <= W(R) + FreeWindows - 1
  BY FitsTypes
<1>4. Receiver(N)' /\ \A j : Settled(j) => Settled(j)'
  <2>1. packets' \in Nat /\ packets <= packets' /\ Receiver(N)
    BY <1>1, <1>3 DEF Fits
  <2> QED
    BY <1>1, <1>3, <2>1, ReceiverKeeps
<1>5. /\ ListsFit(outgoing', sent', attempted', N, packets)
      /\ attempted' \subseteq attempted /\ attempted \subseteq attempted' \cup {i}
  BY <1>1, AcknowledgedFits
<1>6. SenderFits(N)'
  <2>1. connected \in BOOLEAN /\ packets \in 0 .. Len(Lengths)
    BY DEF Fits, SenderFits
  <2> QED
    BY <1>1, <1>2, <1>5, <2>1 DEF SenderFits
<1>7. InWindows(attempted, N)'
  BY <1>5 DEF Fits, InWindows, W
<1>8. NetworkFits(N)'
  BY <1>1, <1>2 DEF Fits, NetworkFits
<1>9. SettledFits(N)'
  <2> SUFFICES ASSUME NEW j \in 1 .. N, (connected' /\ j \notin attempted') \/ j \in acks'
               PROVE  Settled(j)'
    BY DEF SettledFits
  <2>1. (connected /\ j \notin attempted) \/ j \in acks
    BY <1>1, <1>2, <1>5
  <2>2. Settled(j)
    BY <2>1 DEF Fits, SettledFits
  <2> QED
    BY <1>4, <2>2
<1>10. N <= Last(packets)'
  BY <1>1, <1>3
<1> QED
  BY <1>3, <1>4, <1>6, <1>7, <1>8, <1>9, <1>10 DEF Fits

\* enet_protocol_handle_send_reliable and enet_protocol_handle_send_fragment.
LEMMA DataFits ==
    ASSUME NEW N, Fits(N), NEW i \in data, ReceiveData(i)
    PROVE  Fits(N)' /\ R <= R' /\ R' \in Nat
<1>1. /\ connected' = connected /\ packets' = packets /\ outgoing' = outgoing
      /\ sent' = sent /\ attempted' = attempted
      /\ Take(data, i) /\ (ReceiveReliable(i) \/ ReceiveFragment(i))
  BY DEF ReceiveData, senderVars
<1>2. data' \subseteq data /\ faults' \in 0 .. MaxFaults
  <2>1. faults \in 0 .. MaxFaults /\ MaxFaults \in Nat
    BY EnetAssumption DEF Fits, SenderFits
  <2> QED
    BY <1>1, <2>1 DEF Take
<1>3. /\ N \in Nat /\ N <= Last(packets) /\ packets \in 0 .. Len(Lengths)
  BY FitsTypes
<1>4. i \in 1 .. N /\ i > N - Lifetime
  BY DEF Fits, NetworkFits
<1>5. /\ Receiver(N)' /\ R \in Nat /\ R' \in Nat /\ R <= R'
      /\ \A j : Have(j) => Have(j)'
      /\ UNCHANGED acks \/ (acks' = acks \cup {i} /\ Settled(i)')
  <2>1. Receiver(N)
    BY DEF Fits
  <2> QED
    BY <1>1, <1>3, <1>4, <2>1, DataSound
<1>6. \A j \in 1 .. N : Settled(j) => Settled(j)'
  <2> SUFFICES ASSUME NEW j \in 1 .. N, Settled(j) PROVE Settled(j)'
    OBVIOUS
  <2>1. Have(j)' /\ W(j) <= W(R) + FreeWindows - 2
    BY <1>5 DEF Settled
  <2>2. W(R) <= W(R') /\ W(R) \in Int /\ W(R') \in Int /\ W(j) \in Int /\ FreeWindows \in Int
    <3>1. W(R) <= W(R')
      BY <1>5, WindowMonotone
    <3>2. W(R) \in Nat /\ W(R') \in Nat
      BY <1>5, WindowBounds
    <3>3. W(j) \in Nat
      BY <1>3, WindowBounds
    <3>4. FreeWindows \in Nat
      BY Sizes
    <3> QED
      BY <3>1, <3>2, <3>3, <3>4
  <2>3. W(j) <= W(R') + FreeWindows - 2
    BY <2>1, <2>2
  <2> QED
    BY <2>1, <2>3 DEF Settled, W
<1>7. SenderFits(N)'
  BY <1>1, <1>2 DEF Fits, SenderFits
<1>8. InWindows(attempted, N)'
  BY <1>1 DEF Fits, InWindows, W
<1>9. NetworkFits(N)'
  BY <1>2, <1>4, <1>5 DEF Fits, NetworkFits
<1>10. SettledFits(N)'
  <2> SUFFICES ASSUME NEW j \in 1 .. N, (connected' /\ j \notin attempted') \/ j \in acks'
               PROVE  Settled(j)'
    BY DEF SettledFits
  <2>1. CASE j \in acks' /\ j \notin acks
    BY <1>5, <2>1
  <2>2. CASE (connected /\ j \notin attempted) \/ j \in acks
    BY <1>6, <2>2 DEF Fits, SettledFits
  <2> QED
    BY <1>1, <2>1, <2>2
<1>11. N <= Last(packets)'
  BY <1>1, <1>3
<1> QED
  BY <1>3, <1>5, <1>7, <1>8, <1>9, <1>10, <1>11 DEF Fits

LEMMA StepFits == IInv /\ [Next]_vars => IInv'
<1> SUFFICES ASSUME NEW N \in Nat, Fits(N), [Next]_vars PROVE \E M \in Nat : Fits(M)'
  BY DEF IInv
<1>1. CASE PeerSend
  BY <1>1, PeerSendFits
<1>2. CASE Transmit
  BY <1>2, TransmitFits
<1>3. ASSUME NEW i \in acks, ReceiveAck(i) PROVE Fits(N)'
  BY <1>3, AckFits
<1>4. ASSUME NEW i \in data, ReceiveData(i) PROVE Fits(N)'
  BY <1>4, DataFits
<1>5. CASE Timeout
  <2>1. faults \in 0 .. MaxFaults /\ MaxFaults \in Nat
    BY EnetAssumption DEF Fits, SenderFits
  <2>2. ASSUME faults < MaxFaults, faults' = faults + 1,
               NEW n \in DOMAIN sent, NEW m \in DOMAIN sent, n <= m, Resend(n, m)
        PROVE  Fits(N)'
    <3>1. faults' \in 0 .. MaxFaults
      BY <2>1, <2>2
    <3> QED
      BY <2>2, <3>1, ResendFits
  <2>3. ASSUME sent # <<>>, UNCHANGED faults, Resend(1, Len(sent)) PROVE Fits(N)'
    <3>1. sent \in Seq(Commands)
      BY <2>3 DEF Fits, SenderFits, ListsFit
    <3>2. 1 \in DOMAIN sent /\ Len(sent) \in DOMAIN sent /\ 1 <= Len(sent)
      BY <2>3, <3>1
    <3>3. faults' \in 0 .. MaxFaults
      BY <2>1, <2>3
    <3> QED
      BY <2>3, <3>2, <3>3, ResendFits
  <2> QED
    BY <1>5, <2>2, <2>3 DEF Timeout
<1>6. CASE NotifyDisconnect
  BY <1>6, DisconnectFits
<1>7. CASE Drop
  <2>1. faults \in 0 .. MaxFaults /\ MaxFaults \in Nat
    BY EnetAssumption DEF Fits, SenderFits
  <2>2. /\ data' \subseteq data /\ acks' \subseteq acks /\ faults' \in 0 .. MaxFaults
        /\ UNCHANGED <<senderVars, receiverVars>>
    BY <1>7, <2>1 DEF Drop
  <2> QED
    BY <2>2, LessFits
<1>8. CASE UNCHANGED vars
  <2>1. /\ data' \subseteq data /\ acks' \subseteq acks /\ faults' \in 0 .. MaxFaults
        /\ UNCHANGED <<senderVars, receiverVars>>
    BY <1>8 DEF vars, Fits, SenderFits
  <2> QED
    BY <2>1, LessFits
<1> QED
  BY <1>1, <1>2, <1>3, <1>4, <1>5, <1>6, <1>7, <1>8 DEF Next, Service

LEMMA InvariantHolds == Spec => []IInv
<1>1. Init => IInv
  BY InitFits DEF IInv
<1> QED
  BY <1>1, StepFits, PTL DEF Spec

-----------------------------------------------------------------------------
(***************************************************************************)
(* What follows from it.                                                   *)
(***************************************************************************)

\* Every variable keeps its type, a command is in one of the sender's lists at
\* most, and a window counts only commands that are in one.
THEOREM TypesHold == Spec => []TypeOK
<1>1. IInv => TypeOK
  <2> SUFFICES ASSUME NEW N \in Nat, Fits(N) PROVE TypeOK
    BY DEF IInv
  <2>1. /\ N <= Last(packets) /\ packets \in 0 .. Len(Lengths) /\ Len(Lengths) \in Nat
        /\ R \in Nat
    BY FitsTypes
  <2>2. 1 .. N \subseteq Commands
    <3>1. Len(Lengths) \in 0 .. Len(Lengths) /\ packets <= Len(Lengths)
      BY <2>1
    <3>2. Last(packets) <= Last(Len(Lengths)) /\ Last(packets) \in Nat
          /\ Last(Len(Lengths)) \in Nat
      BY <2>1, <3>1, LastMonotone, LastType
    <3>3. N <= Last(Len(Lengths))
      BY <2>1, <3>2
    <3> QED
      BY <3>2, <3>3, CommandsAre
  <2>3. connected \in BOOLEAN /\ packets \in 0 .. Len(Lengths) /\ faults \in 0 .. MaxFaults
    BY DEF Fits, SenderFits
  <2>4. data \subseteq Commands /\ acks \subseteq Commands
    BY <2>2 DEF Fits, NetworkFits
  <2>5. incoming \in 0 .. Space - 1 /\ received \in Seq(SUBSET Commands)
    BY <2>1, Rounds DEF Fits, Receiver, ReceivedFits
  <2>6. waiting \in Seq(Entry)
    BY DEF Fits, Receiver, WaitingFits, ListFits
  <2>7. /\ outgoing \in Seq(Commands) /\ sent \in Seq(Commands)
        /\ Cardinality(Queued) = Len(outgoing) + Len(sent)
        /\ attempted \subseteq Queued
    <3>1. CASE connected
      <4>1. ListsFit(outgoing, sent, attempted, N, packets)
        BY <3>1 DEF Fits, SenderFits
      <4>2. /\ outgoing \in Seq(Commands) /\ sent \in Seq(Commands)
            /\ \A j \in attempted : \/ \E n \in 1 .. Len(outgoing) : outgoing[n] = j
                                    \/ \E n \in 1 .. Len(sent) : sent[n] = j
        BY <4>1 DEF ListsFit
      <4>3. DOMAIN outgoing = 1 .. Len(outgoing) /\ DOMAIN sent = 1 .. Len(sent)
        BY <4>2
      <4>4. Cardinality(Queued) = Len(outgoing) + Len(sent)
        BY <4>1, QueuedCount DEF Queued
      <4> QED
        BY <4>2, <4>3, <4>4 DEF Queued
    <3>2. CASE ~connected
      <4>1. outgoing = <<>> /\ sent = <<>> /\ attempted = {}
        BY <3>2 DEF Fits, SenderFits
      <4>2. Queued = {}
        BY <4>1 DEF Queued
      <4>3. Len(outgoing) = 0 /\ Len(sent) = 0
        BY <4>1
      <4>4. outgoing \in Seq(Commands) /\ sent \in Seq(Commands)
        BY <4>1
      <4> QED
        BY <4>1, <4>2, <4>3, <4>4, FS_EmptySet
    <3> QED
      BY <3>1, <3>2
  <2> QED
    BY <2>3, <2>4, <2>5, <2>6, <2>7 DEF TypeOK
<1> QED
  BY <1>1, InvariantHolds, PTL

\* A command above N has its place in the queue, counted from its end.
LEMMA PlaceInQueue ==
    ASSUME NEW i \in Int, NEW N \in Int, NEW m \in Nat, NEW b \in Int, NEW l \in Int,
           i <= l, i > N, N = l - (b - m)
    PROVE  \E k \in 1 .. b : k > m /\ N + (k - m) = i
<1> DEFINE k == m + (i - N)
<1>1. k \in 1 .. b /\ k > m /\ N + (k - m) = i
  OBVIOUS
<1> QED
  BY <1>1

\* The sender forgets a command only when the receiver has it: what the receiver
\* discards is not acknowledged, or is there, and no acknowledgement is taken
\* for that of a command one wrap later.
THEOREM ForgottenHolds == Spec => []ForgottenHasArrived
<1>1. IInv => ForgottenHasArrived
  <2> SUFFICES ASSUME NEW N \in Nat, Fits(N), connected,
                      NEW p \in 1 .. packets, NEW i \in CommandsOf(p)
               PROVE  i \in Queued \/ i \in Arrived
    BY DEF IInv, ForgottenHasArrived
  <2>1. /\ N <= Last(packets) /\ packets \in 0 .. Len(Lengths) /\ packets \in Nat
        /\ Len(Lengths) \in Nat /\ Last(packets) \in Nat /\ packets <= Len(Lengths)
    BY FitsTypes
  <2>2. i \in 1 .. Last(packets)
    <3>1. p \in Packets /\ p \in 0 .. Len(Lengths) /\ p <= packets
      BY <2>1, LengthsType
    <3>2. CommandsOf(p) = Last(p - 1) + 1 .. Last(p) /\ Last(p - 1) \in Nat /\ Last(p) \in Nat
      BY <3>1, CommandsOfIs, LastStep
    <3>3. Last(p) <= Last(packets)
      BY <2>1, <3>1, LastMonotone
    <3> QED
      BY <2>1, <3>2, <3>3
  <2>3. ListsFit(outgoing, sent, attempted, N, packets)
    BY DEF Fits, SenderFits
  <2>4. /\ Len(outgoing) \in Nat /\ DOMAIN outgoing = 1 .. Len(outgoing)
        /\ DOMAIN sent = 1 .. Len(sent)
    BY <2>3, ListsTypes
  <2>5. CASE i > N
    <3>1. PICK m \in 0 .. Len(outgoing) : Queue(outgoing, attempted, N, packets, m)
      BY <2>3 DEF ListsFit
    <3>2. /\ N = Last(packets) - (Len(outgoing) - m) /\ m \in Nat
          /\ \A n \in 1 .. Len(outgoing) : n > m => outgoing[n] = N + (n - m)
      BY <2>4, <3>1 DEF Queue
    <3>3. PICK k \in 1 .. Len(outgoing) : k > m /\ N + (k - m) = i
      <4>1. /\ i \in Int /\ i <= Last(packets) /\ N = Last(packets) - (Len(outgoing) - m)
            /\ m \in Nat /\ Len(outgoing) \in Int /\ Last(packets) \in Int
        <5>1. i \in Int /\ i <= Last(packets)
          BY <2>1, <2>2
        <5>2. m \in Nat /\ N = Last(packets) - (Len(outgoing) - m)
          BY <3>2
        <5> QED
          BY <2>1, <2>4, <5>1, <5>2
      <4>2. i > N /\ N \in Int
        BY <2>5
      <4> DEFINE l == Last(packets)
                 b == Len(outgoing)
      <4>3. /\ i \in Int /\ N \in Int /\ m \in Nat /\ b \in Int /\ l \in Int
            /\ i <= l /\ i > N /\ N = l - (b - m)
        BY <4>1, <4>2
      <4> HIDE DEF l, b
      <4>4. \E k \in 1 .. b : k > m /\ N + (k - m) = i
        BY <4>3, PlaceInQueue
      <4> QED
        BY <4>4 DEF b
    <3>4. outgoing[k] = i
      BY <3>2, <3>3
    <3> QED
      BY <2>4, <3>3, <3>4 DEF Queued
  <2>6. CASE i <= N /\ i \in attempted
    <3>1. \/ \E n \in 1 .. Len(outgoing) : outgoing[n] = i
          \/ \E n \in 1 .. Len(sent) : sent[n] = i
      BY <2>3, <2>6 DEF ListsFit
    <3> QED
      BY <2>4, <3>1 DEF Queued
  <2>7. CASE i <= N /\ i \notin attempted
    <3>1. i \in 1 .. N
      BY <2>2, <2>7
    <3>2. Have(i)
      BY <2>7, <3>1 DEF Fits, SettledFits, Settled
    <3>3. ReceivedFits(N) /\ WaitingFits(N)
      BY DEF Fits, Receiver
    <3>4. i \in Arrived
      BY <2>1, <3>2, <3>3, ArrivedIs DEF Have
    <3> QED
      BY <3>4
  <2> QED
    BY <2>2, <2>5, <2>6, <2>7
<1> QED
  BY <1>1, InvariantHolds, PTL

\* What is handed over is the packets that were sent, in their order.
LEMMA DeliveredIs ==
    ASSUME NEW N, Fits(N)
    PROVE  received = [p \in 1 .. Len(received) |-> CommandsOf(p)]
<1>1. /\ received \in Seq(SUBSET Commands)
      /\ \A p \in 1 .. Len(received) : received[p] = CommandsOf(p)
  BY DEF Fits, Receiver, ReceivedFits
<1> QED
  BY <1>1

\* No packet that was handed over is taken back.
LEMMA DeliveredGrows ==
    ASSUME NEW N, Fits(N), NEW i \in data, ReceiveData(i)
    PROVE  Len(received) <= Len(received)'
<1>1. Fits(N)' /\ R <= R' /\ R' \in Nat
  BY DataFits
<1>2. Len(received) \in 0 .. packets /\ packets \in 0 .. Len(Lengths) /\ Len(Lengths) \in Nat
  BY FitsTypes
<1>3. received' \in Seq(SUBSET Commands) /\ Len(received') <= packets' /\ packets' = packets
  BY <1>1 DEF Fits, Receiver, ReceivedFits, ReceiveData, senderVars
<1>4. Len(received) \in 0 .. Len(Lengths) /\ Len(received') \in 0 .. Len(Lengths)
  BY <1>2, <1>3
<1>5. Last(Len(received)) <= Last(Len(received'))
  BY <1>1 DEF R, Last
<1>6. ASSUME Len(received') < Len(received) PROVE FALSE
  <2>1. Last(Len(received')) <= Last(Len(received))
    BY <1>4, <1>6, LastMonotone
  <2>2. Last(Len(received')) = Last(Len(received))
    BY <1>4, <1>5, <2>1, LastType
  <2> QED
    BY <1>4, <1>6, <2>2, LastInjective
<1> QED
  BY <1>4, <1>6

\* The channel is the FIFO the other modules take it for: a packet is handed
\* over once, whole and in the order of enet_peer_send, whatever the network
\* loses, repeats, delays or reorders, and until the sender gives up nothing
\* that was sent is skipped.
THEOREM LinkHolds == Spec => ImplementsLink
<1>1. Init => Fifo!Init
  <2> SUFFICES ASSUME Init PROVE Fifo!Init
    OBVIOUS
  <2>1. packets = 0 /\ received = <<>> /\ connected = TRUE
    BY DEF Init
  <2>2. received = [p \in 1 .. Len(received) |-> CommandsOf(p)] /\ Len(received) = 0
    BY <2>1
  <2> QED
    BY <2>1, <2>2 DEF Fifo!Init
<1>2. IInv /\ IInv' /\ [Next]_vars => [Fifo!Next]_(Fifo!linkVars)
  <2> SUFFICES ASSUME NEW N \in Nat, Fits(N), NEW M \in Nat, Fits(M)', [Next]_vars
               PROVE  [Fifo!Next]_(Fifo!linkVars)
    BY DEF IInv
  <2> DEFINE whole == received = [p \in 1 .. Len(received) |-> CommandsOf(p)]
  <2>1. whole
    BY DeliveredIs
  <2>2. whole'
    <3>1. /\ received' \in Seq(SUBSET Commands)
          /\ \A p \in 1 .. Len(received') : received'[p] = CommandsOf(p)
      BY DEF Fits, Receiver, ReceivedFits
    <3> QED
      BY <3>1
  <2>3. /\ Len(received) \in Nat /\ packets \in Nat /\ Len(received') \in Nat
        /\ Len(received') <= packets'
    <3>1. Len(received) \in Nat /\ packets \in Nat
      BY FitsTypes
    <3>2. received' \in Seq(SUBSET Commands) /\ Len(received') <= packets'
      BY DEF Fits, Receiver, ReceivedFits
    <3> QED
      BY <3>1, <3>2
  <2> DEFINE arrived == IF whole THEN Len(received) ELSE -1
  <2>4. arrived = Len(received) /\ arrived' = Len(received')
    BY <2>1, <2>2
  <2>6. CASE PeerSend
    <3>1. connected /\ packets' = packets + 1 /\ connected' = connected /\ received' = received
      BY <2>6 DEF PeerSend, receiverVars
    <3>2. arrived' = arrived
      BY <2>4, <3>1
    <3>3. Fifo!Send
      BY <3>1, <3>2 DEF Fifo!Send
    <3> QED
      BY <3>3 DEF Fifo!Next
  <2>7. CASE NotifyDisconnect
    <3>1. connected /\ packets' = packets /\ connected' = FALSE /\ received' = received
      BY <2>7 DEF NotifyDisconnect, receiverVars
    <3>2. arrived' = arrived
      BY <2>4, <3>1
    <3>3. Fifo!GiveUp
      BY <3>1, <3>2 DEF Fifo!GiveUp
    <3> QED
      BY <3>3 DEF Fifo!Next
  <2>8. ASSUME NEW i \in data, ReceiveData(i)
        PROVE  [Fifo!Next]_(Fifo!linkVars)
    <3>1. packets' = packets /\ connected' = connected
      BY <2>8 DEF ReceiveData, senderVars
    <3>2. Len(received) <= Len(received')
      BY <2>8, DeliveredGrows
    <3>3. CASE Len(received') = Len(received)
      <4>1. arrived' = arrived
        BY <2>4, <3>3
      <4>2. UNCHANGED Fifo!linkVars
        BY <3>1, <4>1 DEF Fifo!linkVars
      <4> QED
        BY <4>2
    <3>4. CASE Len(received') # Len(received)
      <4>1. arrived' \in arrived + 1 .. packets
        BY <2>3, <2>4, <3>1, <3>2, <3>4
      <4>2. Fifo!Arrive
        BY <3>1, <4>1 DEF Fifo!Arrive
      <4> QED
        BY <4>2 DEF Fifo!Next
    <3> QED
      BY <3>3, <3>4
  <2>9. ASSUME packets' = packets, connected' = connected, received' = received
        PROVE  UNCHANGED Fifo!linkVars
    <3>1. arrived' = arrived
      BY <2>4, <2>9
    <3> QED
      BY <2>9, <3>1 DEF Fifo!linkVars
  <2>10. CASE Transmit
    BY <2>9, <2>10 DEF Transmit, receiverVars
  <2>11. ASSUME NEW i \in acks, ReceiveAck(i) PROVE UNCHANGED Fifo!linkVars
    BY <2>9, <2>11 DEF ReceiveAck, receiverVars
  <2>12. CASE Timeout
    BY <2>9, <2>12 DEF Timeout, Resend, receiverVars
  <2>13. CASE Drop
    BY <2>9, <2>13 DEF Drop, senderVars, receiverVars
  <2>14. CASE UNCHANGED vars
    BY <2>9, <2>14 DEF vars, senderVars, receiverVars
  <2> QED
    BY <2>6, <2>7, <2>8, <2>10, <2>11, <2>12, <2>13, <2>14 DEF Next, Service
<1> QED
  BY <1>1, <1>2, InvariantHolds, PTL DEF Spec, ImplementsLink, Fifo!Spec

=============================================================================
