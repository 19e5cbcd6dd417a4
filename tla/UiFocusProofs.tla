---------------------------- MODULE UiFocusProofs ----------------------------
(***************************************************************************)
(* Proofs about UiFocus: the focus of the controller UI, whatever windows  *)
(* are shown, with any number of rolls and buttons.                        *)
(*                                                                         *)
(* The list of elements is made by a loop.  What the loop makes is shown   *)
(* by its first failure: LeastNatural gives the first position at which a  *)
(* claim about the list so far fails, and the position before refutes it   *)
(* (LoopExists, PickedFacts).  All else the proofs need of the list is in  *)
(* ElementsFacts: which elements it has, and that no choice of a roll      *)
(* comes before its icon.                                                  *)
(***************************************************************************)
EXTENDS UiFocus, FiniteSetTheorems, TLAPS

-----------------------------------------------------------------------------
(* Least and greatest members; a property that fails has a first failure. *)

LEMMA LeastNatural ==
    ASSUME NEW T, T \subseteq Nat, T # {}
    PROVE  \E x \in T : \A y \in T : x <= y
  <1>1. PICK x \in T : \A y \in T : ~ (<<y, x>> \in OpToRel(<, Nat))
    BY NatLessThanWellFounded, WFMin
  <1>2. ASSUME NEW y \in T PROVE x <= y
    <2>1. x \in Nat /\ y \in Nat
      OBVIOUS
    <2>2. ~ (y < x)
      BY <1>1, <2>1 DEF OpToRel
    <2> QED BY <2>1, <2>2
  <1> QED BY <1>2

LEMMA MinIsLeast ==
    ASSUME NEW T, T \subseteq Nat, T # {}
    PROVE  Min(T) \in T /\ \A y \in T : Min(T) <= y
  BY LeastNatural DEF Min

\* The greatest member is the least distance from a bound.
LEMMA MaxIsGreatest ==
    ASSUME NEW T, T \subseteq Nat, T # {}, NEW n \in Nat, \A y \in T : y <= n
    PROVE  Max(T) \in T /\ \A y \in T : Max(T) >= y
  <1> DEFINE D == {n - y : y \in T}
  <1>1. D \subseteq Nat /\ D # {}
    <2>1. \A y \in T : n - y \in Nat
      OBVIOUS
    <2>2. D \subseteq Nat
      BY <2>1
    <2>3. D # {}
      OBVIOUS
    <2> QED BY <2>2, <2>3
  <1>2. PICK d \in D : \A e \in D : d <= e
    <2> HIDE DEF D
    <2> QED BY <1>1, LeastNatural
  <1>3. PICK x \in T : d = n - x
    OBVIOUS
  <1>4. ASSUME NEW y \in T PROVE x >= y
    <2>1. n - x <= n - y
      BY <1>2, <1>3
    <2>2. x \in Nat /\ y \in Nat
      OBVIOUS
    <2> QED BY <2>1, <2>2
  <1> QED BY <1>4 DEF Max

-----------------------------------------------------------------------------
(* Find *)

LEMMA FindFacts ==
    ASSUME NEW E, NEW s \in Seq(E), NEW S
    PROVE  /\ Find(s, S) \in 0..Len(s)
           /\ Find(s, S) # 0 => /\ Find(s, S) \in 1..Len(s)
                                /\ s[Find(s, S)] \in S
                                /\ \A i \in 1..Len(s) : s[i] \in S => Find(s, S) <= i
           /\ Find(s, S) = 0 => \A i \in 1..Len(s) : s[i] \notin S
  <1> DEFINE at == {i \in 1..Len(s) : s[i] \in S}
  <1>1. at \subseteq Nat /\ Find(s, S) = IF at = {} THEN 0 ELSE Min(at)
    BY DEF Find
  <1>2. CASE at = {}
    BY <1>1, <1>2
  <1>3. CASE at # {}
    <2>1. Min(at) \in at /\ \A y \in at : Min(at) <= y
      BY <1>1, <1>3, MinIsLeast
    <2> HIDE DEF at
    <2>2. Find(s, S) = Min(at)
      BY <1>1, <1>3
    <2> USE DEF at
    <2> QED BY <2>1, <2>2
  <1> QED BY <1>2, <1>3

-----------------------------------------------------------------------------
(* Picked *)

\* g holds the list that Picked makes, one for each prefix of s up to n.
Loop(s, I, g, n) ==
    g = [i \in 0..n |->
            IF i = 0 THEN << >>
            ELSE IF i \in I THEN Append(g[i - 1], s[i]) ELSE g[i - 1]]

LEMMA LoopExists ==
    ASSUME NEW E, NEW s \in Seq(E), NEW I, NEW n \in Nat
    PROVE  \E g : Loop(s, I, g, n)
  <1> DEFINE T == {m \in Nat : ~ \E g : Loop(s, I, g, m)}
  <1>1. SUFFICES ASSUME T # {} PROVE FALSE
    OBVIOUS
  <1>2. PICK m \in T : \A y \in T : m <= y
    <2>1. T \subseteq Nat
      OBVIOUS
    <2> HIDE DEF T
    <2> QED BY <1>1, <2>1, LeastNatural
  <1>3. CASE m = 0
    <2> DEFINE g == [i \in 0..0 |-> << >>]
    <2>1. Loop(s, I, g, 0)
      BY DEF Loop
    <2> QED BY <2>1, <1>3
  <1>4. CASE m # 0
    <2>1. m \in Nat /\ m - 1 \in Nat /\ m - 1 \notin T
      BY <1>2, <1>4
    <2>2. PICK g : Loop(s, I, g, m - 1)
      BY <2>1
    <2> DEFINE Body(f, i) == IF i = 0 THEN << >>
                             ELSE IF i \in I THEN Append(f[i - 1], s[i]) ELSE f[i - 1]
               h == [i \in 0..m |-> IF i = m THEN Body(g, m) ELSE g[i]]
    <2>3. ASSUME NEW i \in 0..m PROVE h[i] = Body(h, i)
      <3>1. CASE i = m
        BY <3>1, <2>1, <1>4
      <3>2. CASE i # m
        <4>1. i \in 0..m - 1 /\ (i # 0 => i - 1 \in 0..m - 1)
          BY <3>2, <2>1
        <4>2. h[i] = g[i] /\ g[i] = Body(g, i)
          BY <4>1, <3>2, <2>2, <2>1 DEF Loop
        <4>3. i # 0 => h[i - 1] = g[i - 1]
          BY <4>1, <2>1
        <4> HIDE DEF h
        <4> QED BY <4>1, <4>2, <4>3
      <3> QED BY <3>1, <3>2
    <2>4. h = [i \in 0..m |-> h[i]]
      OBVIOUS
    <2>5. Loop(s, I, h, m)
      <3> HIDE DEF h
      <3> QED BY <2>3, <2>4 DEF Loop
    <2> QED BY <2>1, <2>5
  <1> QED BY <1>3, <1>4

\* p is s at the positions of I up to n, in their order; m tells which.
Selects(p, m, s, I, n) ==
    /\ m \in [1..Len(p) -> I \cap (1..n)]
    /\ \A i \in 1..Len(p) : p[i] = s[m[i]]
    /\ \A i, j \in 1..Len(p) : i < j => m[i] < m[j]
    /\ \A x \in I \cap (1..n) : \E i \in 1..Len(p) : m[i] = x

\* One more position of I is one more element, at the end.
LEMMA SelectsNext ==
    ASSUME NEW E, NEW s \in Seq(E), NEW I, NEW n \in 1..Len(s),
           NEW p \in Seq(E), NEW m, Selects(p, m, s, I, n - 1)
    PROVE  /\ n \in I => /\ Append(p, s[n]) \in Seq(E)
                         /\ \E k : Selects(Append(p, s[n]), k, s, I, n)
           /\ n \notin I => Selects(p, m, s, I, n)
  <1>0. n \in Nat /\ Len(p) \in Nat /\ s[n] \in E
    OBVIOUS
  <1>1. ASSUME n \in I
        PROVE  /\ Append(p, s[n]) \in Seq(E)
               /\ \E k : Selects(Append(p, s[n]), k, s, I, n)
    <2> DEFINE q == Append(p, s[n])
               k == [i \in 1..Len(p) + 1 |-> IF i = Len(p) + 1 THEN n ELSE m[i]]
    <2>1. /\ q \in Seq(E) /\ Len(q) = Len(p) + 1 /\ q[Len(p) + 1] = s[n]
          /\ \A i \in 1..Len(p) : q[i] = p[i]
      BY <1>0
    <2>2. /\ k[Len(p) + 1] = n
          /\ \A i \in 1..Len(p) : k[i] = m[i]
      BY <1>0
    <2>3. \A i \in 1..Len(p) : m[i] \in I \cap (1..n - 1)
      BY DEF Selects
    <2>4. \A i \in 1..Len(q) : i = Len(p) + 1 \/ i \in 1..Len(p)
      BY <2>1, <1>0
    <2>5. k \in [1..Len(q) -> I \cap (1..n)]
      <3>1. \A i \in 1..Len(p) + 1 : k[i] \in I \cap (1..n)
        BY <1>0, <1>1, <2>1, <2>2, <2>3, <2>4
      <3> QED BY <3>1, <2>1
    <2> HIDE DEF q, k
    <2>6. \A i \in 1..Len(q) : q[i] = s[k[i]]
      BY <2>1, <2>2, <2>4 DEF Selects
    <2>7. \A i, j \in 1..Len(q) : i < j => k[i] < k[j]
      <3> SUFFICES ASSUME NEW i \in 1..Len(q), NEW j \in 1..Len(q), i < j
                   PROVE  k[i] < k[j]
        OBVIOUS
      <3>1. i \in 1..Len(p)
        BY <2>1, <1>0
      <3>2. CASE j \in 1..Len(p)
        BY <3>1, <3>2, <2>2 DEF Selects
      <3>3. CASE j = Len(p) + 1
        BY <3>1, <3>3, <2>2, <2>3, <1>0
      <3> QED BY <3>2, <3>3, <2>4
    <2>8. \A x \in I \cap (1..n) : \E i \in 1..Len(q) : k[i] = x
      <3> SUFFICES ASSUME NEW x \in I \cap (1..n) PROVE \E i \in 1..Len(q) : k[i] = x
        OBVIOUS
      <3>1. CASE x = n
        BY <3>1, <2>1, <2>2, <1>0
      <3>2. CASE x # n
        <4>1. x \in I \cap (1..n - 1)
          BY <3>2, <1>0
        <4>2. PICK i \in 1..Len(p) : m[i] = x
          BY <4>1 DEF Selects
        <4> QED BY <4>2, <2>1, <2>2, <1>0
      <3> QED BY <3>1, <3>2
    <2>9. Selects(q, k, s, I, n)
      BY <2>5, <2>6, <2>7, <2>8 DEF Selects
    <2> QED BY <2>1, <2>9 DEF q
  <1>2. ASSUME n \notin I PROVE Selects(p, m, s, I, n)
    <2>1. I \cap (1..n) = I \cap (1..n - 1)
      BY <1>0, <1>2
    <2> QED BY <2>1 DEF Selects
  <1> QED BY <1>1, <1>2

\* Picked(s, I) is s at the positions in I, in their order.
LEMMA PickedFacts ==
    ASSUME NEW E, NEW s \in Seq(E), NEW I
    PROVE  /\ Picked(s, I) \in Seq(E)
           /\ \E m : Selects(Picked(s, I), m, s, I, Len(s))
  <1>1. PICK g : Loop(s, I, g, Len(s)) /\ Picked(s, I) = g[Len(s)]
    <2>0. Len(s) \in Nat
      OBVIOUS
    <2>1. \E g : Loop(s, I, g, Len(s))
      BY <2>0, LoopExists
    <2> QED BY <2>1 DEF Picked, Loop
  <1> DEFINE Good(n) == g[n] \in Seq(E) /\ \E m : Selects(g[n], m, s, I, n)
             T == {n \in 0..Len(s) : ~Good(n)}
  <1>2. SUFFICES ASSUME T # {} PROVE FALSE
    BY <1>1
  <1>3. PICK n \in T : \A y \in T : n <= y
    <2>1. T \subseteq Nat
      OBVIOUS
    <2> HIDE DEF T
    <2> QED BY <1>2, <2>1, LeastNatural
  <1>4. /\ n \in 0..Len(s) /\ n \in Nat
        /\ g[n] = IF n = 0 THEN << >>
                  ELSE IF n \in I THEN Append(g[n - 1], s[n]) ELSE g[n - 1]
    <2>1. n \in 0..Len(s) /\ n \in Nat
      OBVIOUS
    <2> HIDE DEF T
    <2> QED BY <1>1, <2>1 DEF Loop
  <1>5. CASE n = 0
    <2>1. g[n] \in Seq(E) /\ Len(g[n]) = 0
      BY <1>4, <1>5
    <2> DEFINE m == [i \in {} |-> 0]
    <2>2. Selects(g[n], m, s, I, 0)
      BY <2>1 DEF Selects
    <2> QED BY <2>1, <2>2, <1>5
  <1>6. CASE n # 0
    <2>1. n \in 1..Len(s) /\ n - 1 \in 0..Len(s) /\ n - 1 \notin T
      BY <1>3, <1>4, <1>6
    <2>2. Good(n - 1)
      BY <2>1
    <2>3. PICK m : Selects(g[n - 1], m, s, I, n - 1)
      BY <2>2
    <2>4. g[n - 1] \in Seq(E)
      BY <2>2
    <2>5. Good(n)
      BY <2>1, <2>3, <2>4, <1>4, <1>6, SelectsNext
    <2> QED BY <2>5
  <1> QED BY <1>5, <1>6

-----------------------------------------------------------------------------
(* The elements of a context *)

\* The elements context k may have.
Listed(k) == ToSet(AllElements[k])

\* What the list of a context's elements is, with rolls r and windows w: those of
\* Listed(k) that are usable, in their order.
ElementsOK(s, k, r, w) ==
    /\ s \in Seq(Listed(k))
    /\ \A i \in 1..Len(s) : Usable(s[i], r, w)
    /\ \A e \in Listed(k) : Usable(e, r, w) => \E i \in 1..Len(s) : s[i] = e

\* No choice of a roll comes before its icon.
IconFirst(s) ==
    \A i, j \in 1..Len(s) :
        i <= j /\ s[i].at = s[j].at /\ s[j].choice = "icon" => s[i].choice = "icon"

LEMMA Division ==
    ASSUME NEW R \in Nat, NEW i \in 1..4 * R
    PROVE  /\ (i - 1) \div 4 \in 0..R - 1
           /\ (i - 1) % 4 \in 0..3
           /\ i - 1 = 4 * ((i - 1) \div 4) + ((i - 1) % 4)
  OBVIOUS

LEMMA ChoiceFacts ==
    /\ RollChoices \in Seq({"icon", "need", "greed", "pass"})
    /\ Len(RollChoices) = 4
    /\ ToSet(RollChoices) = {"icon", "need", "greed", "pass"}
    /\ \A c \in 1..4 : RollChoices[c] \in ToSet(RollChoices)
    /\ \A c \in 1..4 : RollChoices[c] = "icon" => c = 1
    /\ RollChoices[1] = "icon"
  <1>1. /\ RollChoices \in Seq({"icon", "need", "greed", "pass"})
        /\ Len(RollChoices) = 4
        /\ \A c \in 1..4 : RollChoices[c] \in {"icon", "need", "greed", "pass"}
    BY DEF RollChoices
  <1>2. /\ RollChoices[1] = "icon" /\ RollChoices[2] = "need"
        /\ RollChoices[3] = "greed" /\ RollChoices[4] = "pass"
    BY DEF RollChoices
  <1>3. ToSet(RollChoices) = {RollChoices[c] : c \in 1..4}
    BY <1>1 DEF ToSet
  <1>4. ToSet(RollChoices) = {"icon", "need", "greed", "pass"}
    BY <1>2, <1>3
  <1>5. \A c \in 1..4 : c = 1 \/ c = 2 \/ c = 3 \/ c = 4
    OBVIOUS
  <1> QED BY <1>1, <1>2, <1>3, <1>4, <1>5

\* The list of the rolls: frame by frame, the icon first.
LEMMA RollElements ==
    /\ AllElements["lootroll"] \in Seq(Element)
    /\ Len(AllElements["lootroll"]) = 4 * RollFrames
    /\ \A i \in 1..4 * RollFrames :
          LET e == AllElements["lootroll"][i]
          IN  /\ e \in Element
              /\ e.context = "lootroll"
              /\ e.choice \in ToSet(RollChoices)
              /\ e.at \in 1..RollFrames
              /\ i \in 4 * (e.at - 1) + 1..4 * e.at
              /\ e.choice = "icon" <=> i = 4 * (e.at - 1) + 1
  <1> DEFINE E(i) == [context |-> "lootroll", at |-> ((i - 1) \div 4) + 1,
                      choice |-> RollChoices[((i - 1) % 4) + 1]]
  <1>1. AllElements["lootroll"] = [i \in 1..4 * RollFrames |-> E(i)]
    BY DEF AllElements, Contexts
  <1>2. ASSUME NEW i \in 1..4 * RollFrames
        PROVE  /\ E(i) \in Element
               /\ E(i).context = "lootroll"
               /\ E(i).choice \in ToSet(RollChoices)
               /\ E(i).at \in 1..RollFrames
               /\ i \in 4 * (E(i).at - 1) + 1..4 * E(i).at
               /\ E(i).choice = "icon" <=> i = 4 * (E(i).at - 1) + 1
    <2> DEFINE q == (i - 1) \div 4
               c == (i - 1) % 4
    <2>1. q \in 0..RollFrames - 1 /\ c \in 0..3 /\ i - 1 = 4 * q + c
      BY FrameAssumption, Division
    <2>2. /\ E(i).context = "lootroll" /\ E(i).at = q + 1
          /\ E(i).choice = RollChoices[c + 1]
      OBVIOUS
    <2>3. E(i) = [context |-> "lootroll", at |-> q + 1, choice |-> RollChoices[c + 1]]
      OBVIOUS
    <2> HIDE DEF q, c, E
    <2>4. q + 1 \in 1..RollFrames /\ q + 1 \in Nat /\ c + 1 \in 1..4
      BY <2>1, FrameAssumption
    <2>5. RollChoices[c + 1] \in ToSet(RollChoices)
      BY <2>4, ChoiceFacts
    <2>6. RollChoices[c + 1] = "icon" <=> c = 0
      BY <2>1, <2>4, ChoiceFacts
    <2>7. E(i) \in Element
      BY <2>3, <2>4, <2>5 DEF Element, Contexts
    <2>8. i \in 4 * q + 1..4 * (q + 1) /\ (c = 0 <=> i = 4 * q + 1)
      BY <2>1, FrameAssumption
    <2>9. (q + 1) - 1 = q
      BY <2>1
    <2> QED BY <2>2, <2>4, <2>5, <2>6, <2>7, <2>8, <2>9
  <1>3. 4 * RollFrames \in Nat
    BY FrameAssumption
  <1> HIDE DEF E
  <1>4. [i \in 1..4 * RollFrames |-> E(i)] \in Seq(Element)
    BY <1>2, <1>3
  <1> QED BY <1>1, <1>2, <1>3, <1>4

\* Every frame has an icon.
LEMMA IconListed ==
    ASSUME NEW f \in 1..RollFrames
    PROVE  \E e \in Listed("lootroll") : e.at = f /\ e.choice = "icon" /\ e.context = "lootroll"
  <1> DEFINE all == AllElements["lootroll"]
             i == 4 * (f - 1) + 1
             e == all[i]
  <1>1. i \in 1..4 * RollFrames /\ f \in Nat /\ RollFrames \in Nat
    BY FrameAssumption
  <1>2. /\ all \in Seq(Element) /\ Len(all) = 4 * RollFrames
        /\ e.context = "lootroll" /\ e.at \in 1..RollFrames
        /\ i \in 4 * (e.at - 1) + 1..4 * e.at
        /\ e.choice = "icon" <=> i = 4 * (e.at - 1) + 1
    BY <1>1, RollElements
  <1>3. e \in Listed("lootroll")
    <2> HIDE DEF i
    <2> QED BY <1>1, <1>2 DEF Listed, ToSet
  <1>4. e.at = f
    <2> DEFINE at == e.at
    <2>1. at \in Nat /\ 4 * (f - 1) + 1 \in 4 * (at - 1) + 1..4 * at
      BY <1>1, <1>2
    <2> HIDE DEF at
    <2>2. at = f
      BY <2>1, <1>1
    <2> QED BY <2>2 DEF at
  <1> HIDE DEF e
  <1> QED BY <1>2, <1>3, <1>4

LEMMA WindowElements ==
    ASSUME NEW k \in {"popup", "loot", "bags"}
    PROVE  /\ AllElements[k] \in Seq(Element)
           /\ Len(AllElements[k]) = Buttons
           /\ \A i \in 1..Buttons : /\ AllElements[k][i] \in Element
                                    /\ AllElements[k][i].context = k
  <1> DEFINE E(i) == [context |-> k, at |-> i, choice |-> None]
  <1>1. AllElements[k] = [i \in 1..Buttons |-> E(i)]
    BY DEF AllElements, Contexts
  <1>2. \A i \in 1..Buttons : E(i) \in Element /\ E(i).context = k
    BY FrameAssumption DEF Element, Contexts
  <1>3. Buttons \in Nat
    BY FrameAssumption
  <1> HIDE DEF E
  <1> QED BY <1>1, <1>2, <1>3

LEMMA ListedFacts ==
    ASSUME NEW k \in Contexts
    PROVE  /\ AllElements[k] \in Seq(Listed(k))
           /\ Listed(k) = {AllElements[k][i] : i \in 1..Len(AllElements[k])}
           /\ \A e \in Listed(k) : e \in Element /\ e.context = k
           /\ k = "lootroll" => \A e \in Listed(k) : e.at \in 1..RollFrames
  <1>1. AllElements[k] \in Seq(Element)
    BY RollElements, WindowElements DEF Contexts
  <1>2. Listed(k) = {AllElements[k][i] : i \in 1..Len(AllElements[k])}
    BY <1>1 DEF Listed, ToSet
  <1>3. AllElements[k] \in Seq(Listed(k))
    <2> DEFINE s == AllElements[k]
    <2>1. s \in Seq(Element)
      BY <1>1
    <2> HIDE DEF s
    <2>2. s \in Seq({s[i] : i \in 1..Len(s)})
      BY <2>1
    <2> QED BY <2>2, <1>2 DEF s
  <1>4. \A i \in 1..Len(AllElements[k]) :
           AllElements[k][i] \in Element /\ AllElements[k][i].context = k
    <2>1. CASE k = "lootroll"
      BY <2>1, RollElements
    <2>2. CASE k # "lootroll"
      BY <2>2, WindowElements DEF Contexts
    <2> QED BY <2>1, <2>2
  <1>5. k = "lootroll" => \A i \in 1..Len(AllElements[k]) : AllElements[k][i].at \in 1..RollFrames
    BY RollElements
  <1> QED BY <1>2, <1>3, <1>4, <1>5

\* BuildElements lists the usable elements of the context, each frame's icon first.
LEMMA ElementsFacts ==
    ASSUME NEW k \in Contexts, NEW r, NEW w
    PROVE  /\ ElementsOK(Elements(k, r, w), k, r, w)
           /\ k = "lootroll" => IconFirst(Elements(k, r, w))
  <1> DEFINE all == AllElements[k]
             I == {i \in 1..Len(all) : Usable(all[i], r, w)}
             s == Picked(all, I)
  <1>1. Elements(k, r, w) = s
    BY DEF Elements
  <1>2. all \in Seq(Listed(k)) /\ Listed(k) = {all[i] : i \in 1..Len(all)}
    BY ListedFacts
  <1>3. k = "lootroll" => Len(all) = 4 * RollFrames /\ RollFrames \in Nat
    BY RollElements, FrameAssumption
  <1>4. k = "lootroll" =>
          \A i \in 1..4 * RollFrames :
             /\ all[i].at \in 1..RollFrames
             /\ i \in 4 * (all[i].at - 1) + 1..4 * all[i].at
             /\ all[i].choice = "icon" <=> i = 4 * (all[i].at - 1) + 1
    BY RollElements
  <1> HIDE DEF all
  <1>5. s \in Seq(Listed(k)) /\ \E m : Selects(s, m, all, I, Len(all))
    <2> HIDE DEF I
    <2> QED BY <1>2, PickedFacts
  <1> HIDE DEF s
  <1>6. PICK m : Selects(s, m, all, I, Len(all))
    BY <1>5
  <1>7. /\ \A i \in 1..Len(s) : m[i] \in I /\ m[i] \in 1..Len(all) /\ s[i] = all[m[i]]
        /\ \A i, j \in 1..Len(s) : i < j => m[i] < m[j]
        /\ \A x \in I : \E i \in 1..Len(s) : m[i] = x
    BY <1>6 DEF Selects
  <1>8. \A i \in 1..Len(s) : Usable(s[i], r, w)
    BY <1>7
  <1>9. ASSUME NEW e \in Listed(k), Usable(e, r, w) PROVE \E i \in 1..Len(s) : s[i] = e
    <2>1. PICK x \in 1..Len(all) : all[x] = e
      BY <1>2
    <2>2. x \in I
      BY <2>1, <1>9
    <2>3. PICK i \in 1..Len(s) : m[i] = x
      BY <2>2, <1>7
    <2>4. s[i] = e
      BY <2>3, <2>1, <1>7
    <2> QED BY <2>4
  <1>10. ASSUME k = "lootroll" PROVE IconFirst(s)
    <2> SUFFICES ASSUME NEW i \in 1..Len(s), NEW j \in 1..Len(s),
                        i <= j, s[i].at = s[j].at, s[j].choice = "icon"
                 PROVE  s[i].choice = "icon"
      BY DEF IconFirst
    <2> HIDE DEF I
    <2>1. m[i] <= m[j]
      <3>1. m[i] \in Nat /\ m[j] \in Nat /\ i \in Nat /\ j \in Nat
        BY <1>7
      <3>2. i < j => m[i] < m[j]
        BY <1>7
      <3> QED BY <3>1, <3>2
    <2>2. m[i] \in 1..4 * RollFrames /\ m[j] \in 1..4 * RollFrames
      BY <1>7, <1>3, <1>10
    <2>3. all[m[i]].at = all[m[j]].at /\ all[m[j]].choice = "icon"
      BY <1>7
    <2> DEFINE at == all[m[i]].at
    <2>4. at \in 1..RollFrames /\ m[i] >= 4 * (at - 1) + 1 /\ m[j] = 4 * (at - 1) + 1
      BY <2>2, <2>3, <1>4, <1>10
    <2>5. m[i] = 4 * (at - 1) + 1
      <3> HIDE DEF at
      <3> QED BY <2>1, <2>2, <2>4, <1>3, <1>10
    <2>6. all[m[i]].choice = "icon"
      BY <2>2, <2>5, <1>4, <1>10
    <2> QED BY <2>6, <1>7
  <1> QED BY <1>1, <1>5, <1>8, <1>9, <1>10 DEF ElementsOK

LEMMA ContextFacts ==
    ASSUME NEW r, NEW w
    PROVE  BuildContext(r, w) \in Contexts \cup {None}
  <1> DEFINE S == {k \in Contexts : Visible(k, r, w)}
             i == Find(Priority, S)
  <1>1. Priority \in Seq(Contexts) /\ Len(Priority) = 4
    BY DEF Priority, Contexts
  <1>2. i \in 0..Len(Priority) /\ (i # 0 => Priority[i] \in S)
    <2> HIDE DEF S
    <2> QED BY <1>1, FindFacts
  <1>3. BuildContext(r, w) = IF i = 0 THEN None ELSE Priority[i]
    BY DEF BuildContext
  <1> HIDE DEF i
  <1> QED BY <1>2, <1>3

-----------------------------------------------------------------------------
(* The inductive invariant *)

\* The UI state: what TypeOK and FocusOnElement say of it; its elements and the
\* suspended one are elements that their contexts may have.
UiOK(u) ==
    /\ u \in Type
    /\ u.active => /\ u.context # None
                   /\ u.elements # << >>
                   /\ u.index \in 1..Len(u.elements)
    /\ ~u.active => u.context = None /\ u.elements = << >>
    /\ \A i \in 1..Len(u.elements) : u.elements[i] \in Listed(u.context)
    /\ u.suspended # None => /\ u.context = "lootroll"
                             /\ u.suspended.context \in Contexts \ {"lootroll"}
                             /\ u.suspended.element \in Listed(u.suspended.context)

\* A roll that is shown has its icon.
RollsOK ==
    /\ rolls \in [1..RollFrames -> SUBSET ToSet(RollChoices)]
    /\ \A f \in 1..RollFrames : rolls[f] # {} => "icon" \in rolls[f]

WindowsOK ==
    /\ windows \in [{"popup", "loot", "bags"} -> {None} \cup SUBSET (1..Buttons)]
    /\ scene \in Scenes

IInv == UiOK(ui) /\ enabled \in BOOLEAN /\ RollsOK /\ WindowsOK

-----------------------------------------------------------------------------
(* RefreshElements *)

LEMMA ClipFacts ==
    ASSUME NEW E, NEW s \in Seq(E), s # << >>, NEW i \in Nat \ {0}
    PROVE  Clip(i, s) \in 1..Len(s)
  <1>1. Len(s) \in Nat /\ Len(s) # 0
    OBVIOUS
  <1> QED BY <1>1 DEF Clip

LEMMA FirstRollFocusFacts ==
    ASSUME NEW E, NEW s \in Seq(E), s # << >>
    PROVE  /\ FirstRollFocus(s) \in 1..Len(s)
           /\ (\E i \in 1..Len(s) : s[i].choice = "icon") =>
                 s[FirstRollFocus(s)].choice = "icon"
  <1> DEFINE First(c) == Find(s, With(s, c))
  <1>1. ASSUME NEW c
        PROVE  /\ First(c) # 0 => First(c) \in 1..Len(s) /\ s[First(c)].choice = c
               /\ First(c) = 0 => \A i \in 1..Len(s) : s[i].choice # c
    <2>1. \A i \in 1..Len(s) : s[i] \in With(s, c) <=> s[i].choice = c
      BY DEF With, ToSet
    <2> QED BY <2>1, FindFacts
  <1>2. Len(s) \in Nat /\ Len(s) # 0
    OBVIOUS
  <1>3. FirstRollFocus(s) = IF First("icon") # 0 THEN First("icon")
                            ELSE IF First("need") # 0 THEN First("need")
                            ELSE IF First("greed") # 0 THEN First("greed")
                            ELSE IF First("pass") # 0 THEN First("pass") ELSE 1
    BY DEF FirstRollFocus
  <1> HIDE DEF First
  <1> QED BY <1>1, <1>2, <1>3

\* Among the rolls, the focus stays, or goes to the same choice of a frame, or to the
\* first choice of a frame, which is its icon if that is listed.
LEMMA RollFocusFacts ==
    ASSUME NEW s \in Seq(Listed("lootroll")), s # << >>, NEW old
    PROVE  /\ RollFocus(old, s) \in 1..Len(s)
           /\ \/ s[RollFocus(old, s)].choice = old.choice
              \/ \A i \in 1..Len(s) : s[i].at = s[RollFocus(old, s)].at =>
                    RollFocus(old, s) <= i
  <1> DEFINE same == Find(s, {old})
             frames == {e.at : e \in ToSet(s)}
             later == {f \in frames : f > old.at}
             next == Min(IF later # {} THEN later ELSE frames)
             choice == Find(s, Of(s, next) \cap With(s, old.choice))
             first == Find(s, Of(s, next))
  <1>1. \A i \in 1..Len(s) : s[i].at \in 1..RollFrames
    <2>1. "lootroll" \in Contexts
      BY DEF Contexts
    <2> QED BY <2>1, ListedFacts
  <1>2. frames = {s[i].at : i \in 1..Len(s)}
    BY DEF ToSet
  <1>3. frames \subseteq Nat /\ frames # {}
    <2>1. 1 \in 1..Len(s)
      OBVIOUS
    <2>2. \A i \in 1..Len(s) : s[i].at \in Nat
      BY <1>1, FrameAssumption
    <2> HIDE DEF frames
    <2> QED BY <1>2, <2>1, <2>2
  <1>4. next \in frames
    <2> HIDE DEF frames
    <2>1. later \subseteq Nat /\ later \subseteq frames
      BY <1>3
    <2> DEFINE T == IF later # {} THEN later ELSE frames
    <2>2. T \subseteq Nat /\ T # {} /\ T \subseteq frames
      BY <2>1, <1>3
    <2> HIDE DEF T
    <2>3. Min(T) \in frames
      BY <2>2, MinIsLeast
    <2> QED BY <2>3 DEF T
  <1>5. RollFocus(old, s) = IF same # 0 THEN same ELSE IF choice # 0 THEN choice ELSE first
    BY DEF RollFocus
  <1>6. \E i \in 1..Len(s) : s[i].at = next
    BY <1>2, <1>4
  <1> HIDE DEF next
  <1>7. same # 0 => same \in 1..Len(s) /\ s[same] = old
    BY FindFacts
  <1>8. choice # 0 => choice \in 1..Len(s) /\ s[choice].choice = old.choice
    BY FindFacts DEF With
  <1>9. \A i \in 1..Len(s) : s[i] \in Of(s, next) <=> s[i].at = next
    BY DEF Of, ToSet
  <1>10. /\ first \in 1..Len(s) /\ s[first].at = next
         /\ \A i \in 1..Len(s) : s[i].at = next => first <= i
    BY <1>6, <1>9, FindFacts
  <1> HIDE DEF same, choice, first
  <1> QED BY <1>5, <1>7, <1>8, <1>10

LEMMA ResumedFocusFacts ==
    ASSUME NEW E, NEW s \in Seq(E), s # << >>, NEW focus, focus.index \in Nat \ {0}
    PROVE  /\ ResumedFocus(focus, s) \in 1..Len(s)
           /\ \/ s[ResumedFocus(focus, s)] = focus.element
              \/ \A i \in 1..Len(s) : s[i] # focus.element
  <1> DEFINE same == Find(s, {focus.element})
  <1>1. ResumedFocus(focus, s) = IF same # 0 THEN same ELSE Clip(focus.index, s)
    BY DEF ResumedFocus
  <1>2. /\ same # 0 => same \in 1..Len(s) /\ s[same] = focus.element
        /\ same = 0 => \A i \in 1..Len(s) : s[i] # focus.element
    BY FindFacts
  <1>3. Clip(focus.index, s) \in 1..Len(s)
    BY ClipFacts
  <1> HIDE DEF same
  <1> QED BY <1>1, <1>2, <1>3

\* What a scan makes of the focus, wherever it was.
LEMMA NewIndexFacts ==
    ASSUME NEW u, UiOK(u), NEW k \in Contexts, NEW s \in Seq(Listed(k)), s # << >>
    PROVE  NewIndex(u, k, s) \in 1..Len(s)
  <1> DEFINE same == Find(s, {Focus(u)})
  <1>1. Len(s) \in Nat /\ Len(s) # 0
    OBVIOUS
  <1>2. FirstRollFocus(s) \in 1..Len(s)
    BY FirstRollFocusFacts
  <1>3. k = "lootroll" => RollFocus(Focus(u), s) \in 1..Len(s)
    BY RollFocusFacts
  <1>4. u.suspended # None => ResumedFocus(u.suspended, s) \in 1..Len(s)
    <2>1. u.suspended # None => u.suspended.index \in Nat \ {0}
      BY DEF UiOK, Type
    <2> QED BY <2>1, ResumedFocusFacts
  <1>5. same # 0 => same \in 1..Len(s)
    BY FindFacts
  <1>6. u.pendingLoot # None => Clip(u.pendingLoot, s) \in 1..Len(s)
    <2>1. u.pendingLoot # None => u.pendingLoot \in Nat \ {0}
      BY DEF UiOK, Type
    <2> QED BY <2>1, ClipFacts
  <1>7. Clip(u.index, s) \in 1..Len(s)
    <2>1. u.index \in Nat \ {0}
      BY DEF UiOK, Type
    <2> QED BY <2>1, ClipFacts
  <1> HIDE DEF same
  <1> QED BY <1>1, <1>2, <1>3, <1>4, <1>5, <1>6, <1>7 DEF NewIndex, same

\* The focus that waits while rolls are shown.
LEMMA SuspendedFacts ==
    ASSUME NEW u, UiOK(u), NEW k \in Contexts
    PROVE  /\ Suspended(u, k) \in [context : Contexts, element : Element, index : Nat \ {0}]
                                    \cup {None}
           /\ Suspended(u, k) # None =>
                 /\ k = "lootroll"
                 /\ Suspended(u, k).context \in Contexts \ {"lootroll"}
                 /\ Suspended(u, k).element \in Listed(Suspended(u, k).context)
  <1>1. u.suspended \in [context : Contexts, element : Element, index : Nat \ {0}] \cup {None}
    BY DEF UiOK, Type
  <1>2. CASE k = "lootroll" /\ u.context # "lootroll" /\ u.active
    <2> DEFINE e == u.elements[u.index]
    <2>1. Focus(u) = e /\ e \in Listed(u.context) /\ u.index \in Nat \ {0}
      BY <1>2 DEF Focus, UiOK, Type
    <2>2. u.context \in Contexts \ {"lootroll"}
      BY <1>2 DEF UiOK, Type
    <2>3. e \in Element
      BY <2>1, <2>2, ListedFacts
    <2>4. Suspended(u, k) = [context |-> u.context, element |-> e, index |-> u.index]
      BY <1>2, <2>1 DEF Suspended
    <2> HIDE DEF e
    <2> QED BY <1>2, <2>1, <2>2, <2>3, <2>4
  <1>3. CASE ~ (k = "lootroll" /\ u.context # "lootroll" /\ u.active)
    BY <1>1, <1>3 DEF Suspended, UiOK
  <1> QED BY <1>2, <1>3

LEMMA LeftFacts ==
    ASSUME NEW u, UiOK(u)
    PROVE  UiOK(Left(u))
  <1>1. Left(u) \in Type
    <2>1. u \in Type /\ << >> \in Seq(Element) /\ 1 \in Nat \ {0}
      BY DEF UiOK
    <2> QED BY <2>1 DEF Left, Type
  <1>2. /\ Left(u).active = FALSE /\ Left(u).context = None
        /\ Left(u).elements = << >> /\ Left(u).suspended = None
    BY DEF UiOK, Type, Left
  <1> QED BY <1>1, <1>2 DEF UiOK

\* A scan that finds a context: its usable elements are listed, and the focus is on one.
LEMMA ScanFacts ==
    ASSUME NEW u, UiOK(u), NEW r, NEW w, Refreshed(u, r, w) # Left(u)
    PROVE  LET k == BuildContext(r, w)
               s == Elements(k, r, w)
           IN  /\ k \in Contexts
               /\ ElementsOK(s, k, r, w)
               /\ s # << >>
               /\ k = "lootroll" => IconFirst(s)
               /\ Refreshed(u, r, w) =
                     [active |-> TRUE, context |-> k, elements |-> s,
                      index |-> NewIndex(u, k, s), suspended |-> Suspended(u, k),
                      pendingLoot |-> IF UsesPendingLoot(u, k, s) THEN None ELSE u.pendingLoot]
  <1> DEFINE k == BuildContext(r, w)
             s == Elements(k, r, w)
  <1>1. /\ k # None /\ s # << >>
        /\ Refreshed(u, r, w) =
              [active |-> TRUE, context |-> k, elements |-> s,
               index |-> NewIndex(u, k, s), suspended |-> Suspended(u, k),
               pendingLoot |-> IF UsesPendingLoot(u, k, s) THEN None ELSE u.pendingLoot]
    BY DEF Refreshed
  <1>2. k \in Contexts
    BY <1>1, ContextFacts
  <1> HIDE DEF k
  <1>3. ElementsOK(s, k, r, w) /\ (k = "lootroll" => IconFirst(s))
    BY <1>2, ElementsFacts
  <1> QED BY <1>1, <1>2, <1>3 DEF k

LEMMA RefreshedFacts ==
    ASSUME NEW u, UiOK(u), NEW r, NEW w
    PROVE  UiOK(Refreshed(u, r, w))
  <1>1. CASE Refreshed(u, r, w) = Left(u)
    BY <1>1, LeftFacts
  <1>2. CASE Refreshed(u, r, w) # Left(u)
    <2> DEFINE k == BuildContext(r, w)
               s == Elements(k, r, w)
               i == NewIndex(u, k, s)
               p == IF UsesPendingLoot(u, k, s) THEN None ELSE u.pendingLoot
               v == [active |-> TRUE, context |-> k, elements |-> s, index |-> i,
                     suspended |-> Suspended(u, k), pendingLoot |-> p]
    <2>1. /\ k \in Contexts /\ ElementsOK(s, k, r, w) /\ s # << >>
          /\ Refreshed(u, r, w) = v
      BY <1>2, ScanFacts
    <2>2. s \in Seq(Listed(k))
      BY <2>1 DEF ElementsOK
    <2>3. s \in Seq(Element)
      <3> HIDE DEF k, s
      <3>1. \A e \in Listed(k) : e \in Element
        BY <2>1, ListedFacts
      <3> QED BY <2>2, <3>1
    <2>4. i \in 1..Len(s) /\ i \in Nat \ {0}
      <3> HIDE DEF k, s
      <3> QED BY <2>1, <2>2, NewIndexFacts
    <2>5. p \in (Nat \ {0}) \cup {None}
      BY DEF UiOK, Type
    <2> HIDE DEF k, s, i, p
    <2>6. v \in Type
      BY <2>1, <2>3, <2>4, <2>5, SuspendedFacts DEF Type
    <2>7. k # None
      BY <2>1, NilAssumption DEF Contexts
    <2>8. UiOK(v)
      BY <2>1, <2>2, <2>4, <2>6, <2>7, SuspendedFacts DEF UiOK
    <2> QED BY <2>1, <2>8
  <1> QED BY <1>1, <1>2

-----------------------------------------------------------------------------
(* The player's keys *)

LEMMA NextOfFacts ==
    ASSUME NEW n \in Nat, NEW T, T \subseteq 0..n, NEW i \in T
    PROVE  (IF i < Max(T) THEN Min({j \in T : j > i}) ELSE Min(T)) \in T
  <1>1. T \subseteq Nat /\ T # {} /\ \A y \in T : y <= n
    OBVIOUS
  <1>2. Max(T) \in T /\ Min(T) \in T
    BY <1>1, MaxIsGreatest, MinIsLeast
  <1>3. CASE i < Max(T)
    <2> DEFINE L == {j \in T : j > i}
    <2>1. L \subseteq Nat /\ L # {} /\ L \subseteq T
      BY <1>1, <1>2, <1>3
    <2> HIDE DEF L
    <2>2. Min(L) \in T
      BY <2>1, MinIsLeast
    <2> QED BY <2>2, <1>3 DEF L
  <1> QED BY <1>2, <1>3

LEMMA PreviousOfFacts ==
    ASSUME NEW n \in Nat, NEW T, T \subseteq 0..n, NEW i \in T
    PROVE  (IF i > Min(T) THEN Max({j \in T : j < i}) ELSE Max(T)) \in T
  <1>1. T \subseteq Nat /\ T # {} /\ \A y \in T : y <= n
    OBVIOUS
  <1>2. Max(T) \in T /\ Min(T) \in T
    BY <1>1, MaxIsGreatest, MinIsLeast
  <1>3. CASE i > Min(T)
    <2> DEFINE L == {j \in T : j < i}
    <2>1. L \subseteq Nat /\ L # {} /\ L \subseteq T /\ \A y \in L : y <= n
      BY <1>1, <1>2, <1>3
    <2> HIDE DEF L
    <2>2. Max(L) \in T
      BY <2>1, MaxIsGreatest
    <2> QED BY <2>2, <1>3 DEF L
  <1> QED BY <1>2, <1>3

\* Among the rolls a direction key leads to a listed element, or nowhere.
LEMMA MoveGroupLootRollFacts ==
    ASSUME NEW u, UiOK(u), u.context = "lootroll", NEW dir
    PROVE  MoveGroupLootRoll(u, dir) \subseteq 1..Len(u.elements)
  <1> DEFINE s == u.elements
             at == Focus(u).at
             frames == {e.at : e \in ToSet(s)}
             row == {i \in 1..Len(s) : s[i].at = at}
             Following(T, i) == IF i < Max(T) THEN Min({j \in T : j > i}) ELSE Min(T)
             Preceding(T, i) == IF i > Min(T) THEN Max({j \in T : j < i}) ELSE Max(T)
             frame == IF dir = "UP" THEN Following(frames, at) ELSE Preceding(frames, at)
             choice == Find(s, Of(s, frame) \cap With(s, Focus(u).choice))
             first == Find(s, Of(s, frame))
  <1>1. /\ s \in Seq(Element)
        /\ \A i \in 1..Len(s) : s[i] \in Listed("lootroll")
    BY DEF UiOK, Type
  <1>2. u.active /\ u.index \in 1..Len(s) /\ Focus(u) = s[u.index]
    <2>1. u.active
      BY NilAssumption DEF UiOK
    <2> QED BY <2>1 DEF UiOK, Focus
  <1>3. \A i \in 1..Len(s) : s[i].at \in 1..RollFrames
    <2>1. "lootroll" \in Contexts
      BY DEF Contexts
    <2> QED BY <1>1, <2>1, ListedFacts
  <1>4. frames = {s[i].at : i \in 1..Len(s)}
    BY <1>1 DEF ToSet
  <1>5. frames \subseteq 0..RollFrames /\ RollFrames \in Nat
    <2> HIDE DEF frames
    <2> QED BY <1>3, <1>4, FrameAssumption
  <1>6. at \in frames
    <2> HIDE DEF frames
    <2> QED BY <1>2, <1>4
  <1>7. row \subseteq 0..Len(s) /\ Len(s) \in Nat /\ u.index \in row /\ row \subseteq 1..Len(s)
    BY <1>1, <1>2
  <1>8. Following(row, u.index) \in row /\ Preceding(row, u.index) \in row
    <2> HIDE DEF row, s
    <2> QED BY <1>7, NextOfFacts, PreviousOfFacts
  <1>9. frame \in frames
    <2> HIDE DEF frames, at
    <2>1. Following(frames, at) \in frames /\ Preceding(frames, at) \in frames
      BY <1>5, <1>6, NextOfFacts, PreviousOfFacts
    <2> QED BY <2>1
  <1>10. \E i \in 1..Len(s) : s[i].at = frame
    <2> HIDE DEF frame, frames
    <2> QED BY <1>4, <1>9
  <1>11. MoveGroupLootRoll(u, dir) =
           CASE dir = "LEFT" /\ \E i \in row : i # u.index -> {Preceding(row, u.index)}
             [] dir = "RIGHT" /\ \E i \in row : i # u.index -> {Following(row, u.index)}
             [] dir \in {"UP", "DOWN"} /\ \E f \in frames : f # at ->
                   {IF choice # 0 THEN choice ELSE first}
             [] OTHER -> {}
    BY DEF MoveGroupLootRoll
  <1> HIDE DEF frame, frames
  <1>12. choice # 0 => choice \in 1..Len(s)
    <2> HIDE DEF s
    <2> QED BY <1>1, FindFacts
  <1>13. first \in 1..Len(s)
    <2>1. \A i \in 1..Len(s) : s[i].at = frame => s[i] \in Of(s, frame)
      BY <1>1 DEF Of, ToSet
    <2> HIDE DEF s
    <2> QED BY <1>1, <1>10, <2>1, FindFacts
  <1> DEFINE left == Preceding(row, u.index)
             right == Following(row, u.index)
  <1>14. left \in 1..Len(s) /\ right \in 1..Len(s)
    <2> HIDE DEF left, right, row
    <2>1. left \in row /\ right \in row
      BY <1>8 DEF left, right
    <2> QED BY <1>7, <2>1
  <1>15. MoveGroupLootRoll(u, dir) \subseteq
           {left} \cup {right} \cup {IF choice # 0 THEN choice ELSE first}
    <2> HIDE DEF choice, first, row, at
    <2> QED BY <1>11
  <1> HIDE DEF left, right, choice, first
  <1> QED BY <1>12, <1>13, <1>14, <1>15

LEMMA MoveSpatialFacts ==
    ASSUME NEW u, UiOK(u), u.elements # << >>, NEW w
    PROVE  MoveSpatial(u, w) \subseteq 1..Len(u.elements)
  BY DEF MoveSpatial, UiOK

LEMMA IndexFacts ==
    ASSUME NEW u, UiOK(u), NEW i \in 1..Len(u.elements)
    PROVE  UiOK([u EXCEPT !.index = i])
  <1> DEFINE v == [u EXCEPT !.index = i]
  <1>1. u \in Type /\ i \in Nat \ {0}
    BY DEF UiOK, Type
  <1>2. v \in Type
    BY <1>1 DEF Type
  <1>3. /\ v.active = u.active /\ v.context = u.context /\ v.elements = u.elements
        /\ v.suspended = u.suspended /\ v.index = i
    BY <1>1 DEF Type
  <1> HIDE DEF v
  <1>4. UiOK(v)
    BY <1>2, <1>3 DEF UiOK
  <1> QED BY <1>4 DEF v

LEMMA PendingFacts ==
    ASSUME NEW u, UiOK(u)
    PROVE  UiOK([u EXCEPT !.pendingLoot = u.index])
  <1> DEFINE v == [u EXCEPT !.pendingLoot = u.index]
  <1>1. u \in Type
    BY DEF UiOK
  <1>2. v \in Type
    BY <1>1 DEF Type
  <1>3. /\ v.active = u.active /\ v.context = u.context /\ v.elements = u.elements
        /\ v.suspended = u.suspended /\ v.index = u.index
    BY <1>1 DEF Type
  <1> HIDE DEF v
  <1>4. UiOK(v)
    BY <1>2, <1>3 DEF UiOK
  <1> QED BY <1>4 DEF v

\* A scan before a direction key.
LEMMA ScannedFacts ==
    ASSUME UiOK(ui)
    PROVE  UiOK(Scanned(ui))
  BY RefreshedFacts DEF Scanned

LEMMA Remainder ==
    ASSUME NEW n \in Nat \ {0}, NEW i \in 1..n, NEW delta \in {-1, 1}
    PROVE  ((i - 1 + delta) % n) + 1 \in 1..n
  <1>1. (i - 1 + delta) % n \in 0..n - 1
    OBVIOUS
  <1> QED BY <1>1

-----------------------------------------------------------------------------
(* Steps *)

LEMMA ScanClosesLootFacts ==
    ASSUME WindowsOK, ScanClosesLoot, UNCHANGED scene
    PROVE  WindowsOK'
  BY DEF WindowsOK, ScanClosesLoot

LEMMA MoveDirStep ==
    ASSUME IInv, NEW dir, UIMoveDir(dir)
    PROVE  IInv'
  <1> DEFINE u == Scanned(ui)
             to == IF u.context = "lootroll" THEN MoveGroupLootRoll(u, dir) ELSE {}
  <1>1. UiOK(u)
    BY ScannedFacts DEF IInv
  <1>2. UiOK(ui')
    <2>1. PICK i \in IF to # {} THEN to ELSE MoveSpatial(u, windows) :
             ui' = IF u.elements = << >> THEN u ELSE [u EXCEPT !.index = i]
      BY DEF UIMoveDir
    <2> HIDE DEF u
    <2>2. u.elements # << >> => i \in 1..Len(u.elements)
      BY <1>1, <2>1, MoveGroupLootRollFacts, MoveSpatialFacts
    <2> QED BY <1>1, <2>1, <2>2, IndexFacts
  <1>3. WindowsOK'
    BY ScanClosesLootFacts DEF IInv, UIMoveDir, WindowsOK
  <1> QED BY <1>2, <1>3 DEF IInv, RollsOK, UIMoveDir

LEMMA MoveStep ==
    ASSUME IInv, NEW delta \in {-1, 1}, UIMove(delta)
    PROVE  IInv'
  <1> DEFINE u == Refreshed(ui, rolls, windows)
             n == Len(u.elements)
             i == ((u.index - 1 + delta) % n) + 1
  <1>1. UiOK(u)
    BY RefreshedFacts DEF IInv
  <1>2. UiOK(ui')
    <2>1. ui' = IF ~u.active THEN u ELSE [u EXCEPT !.index = i]
      BY DEF UIMove
    <2> HIDE DEF u
    <2>2. u.active => i \in 1..Len(u.elements)
      <3>1. u.active => n \in Nat \ {0} /\ u.index \in 1..n
        BY <1>1 DEF UiOK, Type
      <3> HIDE DEF n
      <3>2. u.active => i \in 1..n
        BY <3>1, Remainder
      <3> QED BY <3>2 DEF n
    <2> HIDE DEF i
    <2> QED BY <1>1, <2>1, <2>2, IndexFacts
  <1> QED BY <1>2, ScanClosesLootFacts DEF IInv, RollsOK, UIMove

LEMMA ActivateLootStep ==
    ASSUME IInv, ActivateLoot
    PROVE  IInv'
  <1> DEFINE u == IF ui.elements = << >> THEN Refreshed(ui, rolls, windows) ELSE ui
  <1>1. UiOK(u)
    BY RefreshedFacts DEF IInv
  <1>2. ui' = [u EXCEPT !.pendingLoot = u.index]
    BY DEF ActivateLoot
  <1> HIDE DEF u
  <1>3. UiOK(ui')
    BY <1>1, <1>2, PendingFacts
  <1> QED BY <1>3 DEF IInv, RollsOK, WindowsOK, ActivateLoot, clientVars

LEMMA ActivateElementStep ==
    ASSUME IInv, ActivateElement
    PROVE  IInv'
  <1> DEFINE u == Refreshed(ui, rolls, windows)
             e == Focus(u)
             w == IF e # None /\ e.context = "popup" THEN [windows EXCEPT !["popup"] = None]
                  ELSE windows
  <1>1. UiOK(u)
    BY RefreshedFacts DEF IInv
  <1>2. rolls' = rolls \/ rolls' = [rolls EXCEPT ![e.at] = {}]
    BY DEF ActivateElement
  <1>3. UiOK(ui')
    <2>1. ui' = u \/ \E after : ui' = Refreshed(u, after, w)
      BY DEF ActivateElement
    <2> HIDE DEF u, w
    <2> QED BY <1>1, <2>1, RefreshedFacts
  <1>4. RollsOK'
    <2> HIDE DEF e
    <2> QED BY <1>2 DEF IInv, RollsOK
  <1>5. WindowsOK'
    <2>1. w \in [{"popup", "loot", "bags"} -> {None} \cup SUBSET (1..Buttons)]
      BY DEF IInv, WindowsOK
    <2>2. (windows' = w \/ windows' = [w EXCEPT !["loot"] = None]) /\ scene' = scene
      BY DEF ActivateElement
    <2> HIDE DEF w
    <2> QED BY <2>1, <2>2 DEF IInv, WindowsOK
  <1> QED BY <1>3, <1>4, <1>5 DEF IInv, ActivateElement

LEMMA ClientStep ==
    ASSUME IInv, UICancel \/ RollStarts \/ RollEnds \/ WindowChanges
    PROVE  IInv'
  <1>1. CASE UICancel
    BY <1>1 DEF IInv, RollsOK, WindowsOK, UICancel
  <1>2. CASE RollStarts
    <2>1. PICK f \in 1..RollFrames, c \in SUBSET {"need", "greed"} :
             rolls' = [rolls EXCEPT ![f] = {"icon", "pass"} \cup c]
      <3>1. 1..scene.frames \subseteq 1..RollFrames
        BY FrameAssumption, SceneAssumption DEF IInv, WindowsOK
      <3> QED BY <1>2, <3>1 DEF RollStarts
    <2>2. {"icon", "pass"} \cup c \in SUBSET ToSet(RollChoices)
      BY ChoiceFacts
    <2>3. RollsOK'
      BY <2>1, <2>2 DEF IInv, RollsOK
    <2> QED BY <2>3, <1>2 DEF IInv, WindowsOK, RollStarts
  <1>3. CASE RollEnds
    BY <1>3 DEF IInv, RollsOK, WindowsOK, RollEnds
  <1>4. CASE WindowChanges
    <2>1. PICK k \in {"popup", "loot", "bags"}, b \in {None} \cup SUBSET (1..Buttons) :
             windows' = [windows EXCEPT ![k] = b]
      BY <1>4, SceneAssumption DEF WindowChanges, IInv, WindowsOK
    <2>2. WindowsOK'
      BY <2>1, <1>4 DEF IInv, WindowsOK, WindowChanges
    <2> QED BY <2>2, <1>4 DEF IInv, RollsOK, WindowChanges
  <1> QED BY <1>1, <1>2, <1>3, <1>4

LEMMA InitIInv == Init => IInv
  <1> SUFFICES ASSUME Init PROVE IInv
    OBVIOUS
  <1>1. ui \in Type
    BY DEF Init, Type
  <1>2. UiOK(ui)
    BY <1>1 DEF Init, UiOK
  <1>3. RollsOK /\ WindowsOK
    BY DEF Init, RollsOK, WindowsOK
  <1> QED BY <1>2, <1>3 DEF Init, IInv

LEMMA NextIInv == IInv /\ [Next]_vars => IInv'
  <1> SUFFICES ASSUME IInv, [Next]_vars PROVE IInv'
    OBVIOUS
  <1>1. CASE RefreshElements
    BY <1>1, RefreshedFacts, ScanClosesLootFacts DEF IInv, RollsOK, RefreshElements
  <1>2. ASSUME NEW dir \in {"UP", "DOWN", "LEFT", "RIGHT"}, UIMoveDir(dir) PROVE IInv'
    BY <1>2, MoveDirStep
  <1>3. ASSUME NEW delta \in {-1, 1}, UIMove(delta) PROVE IInv'
    BY <1>3, MoveStep
  <1>4. CASE ActivateLoot
    BY <1>4, ActivateLootStep
  <1>5. CASE ActivateElement
    BY <1>5, ActivateElementStep
  <1>6. CASE UICancel \/ RollStarts \/ RollEnds \/ WindowChanges
    BY <1>6, ClientStep
  <1>7. CASE SetUIEnabled
    BY <1>7, LeftFacts DEF IInv, RollsOK, WindowsOK, SetUIEnabled, clientVars
  <1>8. CASE UNCHANGED vars
    BY <1>8 DEF IInv, RollsOK, WindowsOK, vars, clientVars, UiOK
  <1> QED BY <1>1, <1>2, <1>3, <1>4, <1>5, <1>6, <1>7, <1>8 DEF Next

LEMMA Invariant == Spec => []IInv
  BY InitIInv, NextIInv, PTL DEF Spec

-----------------------------------------------------------------------------
(* Theorems *)

\* The UI state is what its type says: UI mode is active exactly while a context has
\* elements, and a focus is suspended only while rolls are shown.
THEOREM TypeCorrect == Spec => []TypeOK
  <1>1. IInv => TypeOK
    <2> SUFFICES ASSUME IInv PROVE TypeOK
      OBVIOUS
    <2>1. \A i \in 1..Len(ui.elements) : ui.elements[i].context = ui.context
      <3>1. ui.active => ui.context \in Contexts
        BY DEF IInv, UiOK, Type
      <3>2. ~ui.active => Len(ui.elements) = 0
        BY DEF IInv, UiOK
      <3> QED BY <3>1, <3>2, ListedFacts DEF IInv, UiOK
    <2> QED BY <2>1 DEF TypeOK, IInv, UiOK, RollsOK, WindowsOK
  <1> QED BY <1>1, Invariant, PTL

\* While UI mode is active the focus is on a listed element, however the lists shrink
\* while a focus is suspended, pending or waiting for the next scan.
THEOREM FocusAlwaysOnElement == Spec => []FocusOnElement
  <1>1. IInv => FocusOnElement
    BY DEF IInv, UiOK, FocusOnElement
  <1> QED BY <1>1, Invariant, PTL

-----------------------------------------------------------------------------

\* A scan that shows rolls lists those that are shown.
LEMMA RollScanFacts ==
    ASSUME NEW u, UiOK(u), NEW r, NEW w, Refreshed(u, r, w).context = "lootroll"
    PROVE  LET s == Refreshed(u, r, w).elements
           IN  /\ ElementsOK(s, "lootroll", r, w)
               /\ s # << >>
               /\ IconFirst(s)
               /\ Refreshed(u, r, w).index = NewIndex(u, "lootroll", s)
               /\ Refreshed(u, r, w).suspended = Suspended(u, "lootroll")
  <1>1. Refreshed(u, r, w) # Left(u)
    BY NilAssumption DEF Left, UiOK, Type
  <1> QED BY <1>1, ScanFacts

LEMMA DirectionKey ==
    ASSUME IInv, NEW dir, UIMoveDir(dir), ui'.context = "lootroll"
    PROVE  Usable(Focus(ui'), rolls, windows)
  <1> DEFINE u == Scanned(ui)
             v == IF ~ui.active THEN Refreshed(ui, rolls, windows) ELSE ui
             to == IF u.context = "lootroll" THEN MoveGroupLootRoll(u, dir) ELSE {}
  <1>1. UiOK(v) /\ UiOK(u)
    BY RefreshedFacts, ScannedFacts DEF IInv
  <1>2. u = IF v.context = "lootroll" THEN Refreshed(v, rolls, windows) ELSE v
    BY DEF Scanned
  <1>3. PICK i \in IF to # {} THEN to ELSE MoveSpatial(u, windows) :
           ui' = IF u.elements = << >> THEN u ELSE [u EXCEPT !.index = i]
    BY DEF UIMoveDir
  <1> HIDE DEF u, v
  <1>4. u.context = "lootroll"
    BY <1>1, <1>3 DEF UiOK, Type
  <1>5. u = Refreshed(v, rolls, windows)
    BY <1>2, <1>4
  <1>6. ElementsOK(u.elements, "lootroll", rolls, windows) /\ u.elements # << >>
    BY <1>1, <1>4, <1>5, RollScanFacts
  <1>7. i \in 1..Len(u.elements)
    BY <1>1, <1>3, <1>6, MoveGroupLootRollFacts, MoveSpatialFacts
  <1>8. ui'.index = i /\ ui'.elements = u.elements
    BY <1>1, <1>3, <1>6 DEF UiOK, Type
  <1>9. Focus(ui') = u.elements[i]
    BY <1>7, <1>8 DEF Focus
  <1> QED BY <1>6, <1>7, <1>9 DEF ElementsOK

\* After a direction key, the focus among rolls is on a roll that is still shown.
THEOREM MovesLandOnLiveRolls == Spec => MoveLandsOnLiveRoll
  <1> DEFINE A == ui'.context = "lootroll" /\ ~Usable(Focus(ui'), rolls, windows) =>
                     ~ \E dir \in {"UP", "DOWN", "LEFT", "RIGHT"} : UIMoveDir(dir)
  <1>1. IInv => A
    BY DirectionKey
  <1>2. Spec => [][A]_vars
    <2> HIDE DEF A
    <2> QED BY <1>1, Invariant, PTL DEF Spec
  <1> QED BY <1>2 DEF MoveLandsOnLiveRoll

-----------------------------------------------------------------------------

\* The first choice of a frame is its icon: a roll that is shown has one.
LEMMA IconOfFrame ==
    ASSUME RollsOK, NEW s, NEW w, ElementsOK(s, "lootroll", rolls, w), NEW i \in 1..Len(s)
    PROVE  \E j \in 1..Len(s) : s[j].at = s[i].at /\ s[j].choice = "icon"
  <1>1. s[i] \in Listed("lootroll") /\ Usable(s[i], rolls, w)
    BY DEF ElementsOK
  <1>2. s[i].context = "lootroll" /\ s[i].at \in 1..RollFrames
    <2>1. "lootroll" \in Contexts
      BY DEF Contexts
    <2> QED BY <1>1, <2>1, ListedFacts
  <1>3. "icon" \in rolls[s[i].at]
    BY <1>1, <1>2 DEF Usable, RollsOK
  <1>4. PICK e \in Listed("lootroll") : e.at = s[i].at /\ e.choice = "icon" /\ e.context = "lootroll"
    BY <1>2, IconListed
  <1>5. Usable(e, rolls, w)
    BY <1>3, <1>4 DEF Usable
  <1>6. \E j \in 1..Len(s) : s[j] = e
    BY <1>5 DEF ElementsOK
  <1> QED BY <1>4, <1>6

LEMMA Confirm ==
    ASSUME IInv, ActivateElement, command' # None, command'.context = "lootroll",
           command'.choice # "icon"
    PROVE  ui.context = "lootroll" /\ Focus(ui).choice = command'.choice
  <1> DEFINE u == Refreshed(ui, rolls, windows)
             s == u.elements
             i == u.index
  <1>1. UiOK(u) /\ UiOK(ui) /\ RollsOK
    BY RefreshedFacts DEF IInv
  <1>2. command' = Focus(u)
    BY DEF ActivateElement
  <1>3. i \in 1..Len(s) /\ command' = s[i]
    <2> HIDE DEF u
    <2> QED BY <1>2 DEF Focus
  <1>4. u.context = "lootroll"
    <2> HIDE DEF u
    <2>1. u.active
      BY <1>1, <1>3 DEF UiOK
    <2>2. u.context \in Contexts /\ s[i] \in Listed(u.context)
      BY <1>1, <1>3, <2>1 DEF UiOK, Type
    <2>3. s[i].context = u.context
      BY <2>2, ListedFacts
    <2> QED BY <1>3, <2>3
  <1>5. /\ ElementsOK(s, "lootroll", rolls, windows) /\ s # << >> /\ IconFirst(s)
        /\ i = NewIndex(ui, "lootroll", s)
    BY <1>1, <1>4, RollScanFacts
  <1> HIDE DEF u, s, i
  <1>6. s \in Seq(Listed("lootroll"))
    BY <1>5 DEF ElementsOK
  <1>7. PICK j \in 1..Len(s) : s[j].at = s[i].at /\ s[j].choice = "icon"
    BY <1>1, <1>3, <1>5, IconOfFrame
  <1>8. ui.context = "lootroll"
    <2> SUFFICES ASSUME ui.context # "lootroll" PROVE FALSE
      OBVIOUS
    <2>1. i = FirstRollFocus(s)
      BY <1>5 DEF NewIndex
    <2>2. s[i].choice = "icon"
      BY <2>1, <1>5, <1>6, <1>7, FirstRollFocusFacts
    <2> QED BY <2>2, <1>3
  <1>9. i = RollFocus(Focus(ui), s)
    BY <1>5, <1>8 DEF NewIndex
  <1>10. s[i].choice = Focus(ui).choice \/ i <= j
    BY <1>5, <1>6, <1>7, <1>9, RollFocusFacts
  <1>11. ~ (i <= j)
    BY <1>3, <1>5, <1>7 DEF IconFirst
  <1> QED BY <1>3, <1>8, <1>10, <1>11

\* However rolls come and go between the highlight and Confirm, the choice sent for a
\* roll is the choice that was highlighted.
THEOREM ConfirmSendsTheChoice == Spec => ConfirmKeepsChoice
  <1> DEFINE A == command' # None /\ command'.context = "lootroll" /\ command'.choice # "icon" =>
                     /\ ui.context = "lootroll"
                     /\ Focus(ui).choice = command'.choice
  <1>1. IInv /\ [Next]_vars => [A]_vars
    <2>1. ASSUME IInv, Next, command' # None, command'.context = "lootroll"
          PROVE  ActivateElement
      <3>1. ~ActivateLoot
        BY <2>1 DEF ActivateLoot
      <3> QED BY <2>1, <3>1 DEF Next, RefreshElements, UIMoveDir, UIMove, UICancel,
                                SetUIEnabled, RollStarts, RollEnds, WindowChanges
    <2> QED BY <2>1, Confirm
  <1>2. Spec => [][A]_vars
    <2> HIDE DEF A
    <2> QED BY <1>1, Invariant, PTL DEF Spec
  <1> QED BY <1>2 DEF ConfirmKeepsChoice

-----------------------------------------------------------------------------

\* Scans that go on showing rolls keep the suspended focus.
LEMMA ScanKeepsSuspended ==
    ASSUME NEW u, UiOK(u), NEW r, NEW w, u.context = "lootroll",
           Refreshed(u, r, w).context = "lootroll"
    PROVE  Refreshed(u, r, w).suspended = u.suspended
  BY RollScanFacts DEF Suspended

LEMMA StepKeepsSuspended ==
    ASSUME IInv, Next, ui.context = "lootroll", ui'.context = "lootroll"
    PROVE  ui'.suspended = ui.suspended
  <1>0. UiOK(ui) /\ ui.active
    BY NilAssumption DEF IInv, UiOK
  <1> DEFINE u == Refreshed(ui, rolls, windows)
  <1>1. UiOK(u)
    BY <1>0, RefreshedFacts
  <1>2. u.context = "lootroll" => u.suspended = ui.suspended
    BY <1>0, ScanKeepsSuspended
  <1>3. CASE RefreshElements
    BY <1>3, <1>2 DEF RefreshElements
  <1>4. ASSUME NEW dir, UIMoveDir(dir) PROVE ui'.suspended = ui.suspended
    <2>1. Scanned(ui) = u
      BY <1>0 DEF Scanned
    <2>2. \E i : ui' = u \/ ui' = [u EXCEPT !.index = i]
      BY <1>4, <2>1 DEF UIMoveDir
    <2> HIDE DEF u
    <2> QED BY <2>2, <1>1, <1>2 DEF UiOK, Type
  <1>5. ASSUME NEW delta, UIMove(delta) PROVE ui'.suspended = ui.suspended
    <2>1. \E i : ui' = u \/ ui' = [u EXCEPT !.index = i]
      BY <1>5 DEF UIMove
    <2> HIDE DEF u
    <2> QED BY <2>1, <1>1, <1>2 DEF UiOK, Type
  <1>6. CASE ActivateLoot
    <2>1. ui' = [ui EXCEPT !.pendingLoot = ui.index]
      BY <1>0, <1>6 DEF ActivateLoot, UiOK
    <2> QED BY <2>1, <1>0 DEF UiOK, Type
  <1>7. CASE ActivateElement
    <2>1. \E after, w : ui' = IF u.context = "lootroll" THEN Refreshed(u, after, w) ELSE u
      BY <1>7 DEF ActivateElement
    <2> HIDE DEF u
    <2> QED BY <2>1, <1>1, <1>2, ScanKeepsSuspended
  <1>8. CASE SetUIEnabled
    BY <1>0, <1>8, NilAssumption DEF SetUIEnabled, Left, UiOK, Type
  <1>9. CASE UICancel \/ RollStarts \/ RollEnds \/ WindowChanges
    BY <1>9 DEF UICancel, RollStarts, RollEnds, WindowChanges
  <1> QED BY <1>3, <1>4, <1>5, <1>6, <1>7, <1>8, <1>9 DEF Next

LEMMA RefreshReturnsFocus ==
    ASSUME IInv, RefreshElements, ui.suspended # None, ui'.suspended = None
    PROVE  \/ Focus(ui') = ui.suspended.element
           \/ ~Usable(ui.suspended.element, rolls, windows)
           \/ ~ui'.active
           \/ ui'.context # ui.suspended.context
  <1> DEFINE k == ui.suspended.context
             x == ui.suspended.element
             s == ui'.elements
  <1>1. SUFFICES ASSUME ui'.active, ui'.context = k, Usable(x, rolls, windows)
                 PROVE  Focus(ui') = x
    OBVIOUS
  <1>2. /\ UiOK(ui) /\ ui.context = "lootroll" /\ k \in Contexts \ {"lootroll"}
        /\ x \in Listed(k) /\ ui.suspended.index \in Nat \ {0}
    BY DEF IInv, UiOK, Type
  <1>3. ui' = Refreshed(ui, rolls, windows)
    BY DEF RefreshElements
  <1>4. ui' # Left(ui)
    BY <1>1, <1>2 DEF Left, UiOK, Type
  <1>5. /\ ElementsOK(s, k, rolls, windows) /\ s # << >>
        /\ ui'.index = NewIndex(ui, k, s)
    BY <1>1, <1>2, <1>3, <1>4, ScanFacts
  <1> HIDE DEF s
  <1>6. ui'.index = ResumedFocus(ui.suspended, s)
    BY <1>2, <1>5 DEF NewIndex
  <1>7. \E i \in 1..Len(s) : s[i] = x
    BY <1>1, <1>2, <1>5 DEF ElementsOK
  <1>8. s \in Seq(Listed(k))
    BY <1>5 DEF ElementsOK
  <1>9. ui'.index \in 1..Len(s) /\ s[ui'.index] = x
    BY <1>2, <1>5, <1>6, <1>7, <1>8, ResumedFocusFacts
  <1> QED BY <1>9 DEF Focus, s

\* The suspended focus stays while rolls come and go; a scan gives it back unless its
\* element is gone, UI mode ends or another window is in front.
THEOREM SuspendedFocusIsKept == Spec => SuspendedFocusReturns
  <1> DEFINE A == /\ ui.context = "lootroll" /\ ui'.context = "lootroll" =>
                        ui'.suspended = ui.suspended
                  /\ ui.suspended # None /\ ui'.suspended = None /\ RefreshElements =>
                        \/ Focus(ui') = ui.suspended.element
                        \/ ~Usable(ui.suspended.element, rolls, windows)
                        \/ ~ui'.active
                        \/ ui'.context # ui.suspended.context
  <1>1. IInv /\ [Next]_vars => [A]_vars
    BY StepKeepsSuspended, RefreshReturnsFocus
  <1>2. Spec => [][A]_vars
    <2> HIDE DEF A
    <2> QED BY <1>1, Invariant, PTL DEF Spec
  <1> QED BY <1>2 DEF SuspendedFocusReturns
=============================================================================
