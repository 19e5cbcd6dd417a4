-------------------------- MODULE ControllerHudProofs --------------------------
(***************************************************************************)
(* Theorems about ControllerHud for every flash time and update interval.  *)
(*                                                                         *)
(* DPadUsesWhatIsShown and HudAsSaved are inductive once the record of the *)
(* HUD's options is known to have its two fields (OptionPart), which       *)
(* changing one of them needs to leave the other alone.                    *)
(* TypeCorrect takes the highlights (MarksOK) apart from what they are     *)
(* computed from (PartsOK); that only modifiers are pressed follows from   *)
(* KeyPart.                                                                *)
(***************************************************************************)
EXTENDS ControllerHud, SequenceTheorems, TLAPS

OptionPart == hudDB \in [visible : BOOLEAN, locked : BOOLEAN]

PagePart == created => page = PageOffset

IInv == OptionPart /\ PagePart /\ HudAsSaved

\* The orders in which modifiers can be held.
Orders == {<< >>, <<"L2">>, <<"R2">>, <<"L2", "R2">>, <<"R2", "L2">>}

\* The add-on knows the modifiers held, and of two of them the one pressed last.
Knows(order, keys, latest) ==
    /\ order \in Orders
    /\ keys = {m \in Modifiers : \E i \in 1..Len(order) : order[i] = m}
    /\ keys = Modifiers => latest = order[2]

KeyPart == Knows(pressed, held, lastMod)

\* The frames are those of the page in force.
MarkPart ==
    created =>
        /\ marks.group = IF enabled /\ bar = 1 THEN PageOffset \div 4 + 1 ELSE 0
        /\ marks.slots = (enabled /\ bar = 2)

HeldIInv == KeyPart /\ MarkPart

\* The page is a slot offset, whatever is held.
LEMMA PageOffsetType == PageOffset \in {0, 4, 8}
  BY DEF PageOffset, DinoHUD_GetPageOffset, BasePage, L2Page, R2Page

\* The files of the add-on start with no HUD.
LEMMA InitIInv == Init => IInv
  BY DEF Init, IInv, OptionPart, PagePart, HudAsSaved

\* Whoever calls UpdateActivePage leaves the buttons on the page of the keys.
LEMMA UpdateActivePageSetsPage == UpdateActivePage => PagePart'
  BY DEF UpdateActivePage, PagePart

\* Whatever leaves the options, the frame, the keys and the page alone keeps IInv.
LEMMA UnrelatedKeepsIInv ==
  IInv /\ UNCHANGED <<optionVars, frameVars, keyVars, page>> => IInv'
  BY DEF IInv, OptionPart, PagePart, HudAsSaved, optionVars, frameVars, keyVars,
         PageOffset

\* Every step keeps the page and the options of the HUD in force.
LEMMA NextIInv == IInv /\ [Next]_vars => IInv'
  <1> SUFFICES ASSUME IInv, [Next]_vars
               PROVE  IInv'
    OBVIOUS
  <1>1. ASSUME NEW m \in Modifiers, PressModifier(m) \/ ReleaseModifier(m)
        PROVE  IInv'
    <2>1. PagePart'
      BY <1>1, UpdateActivePageSetsPage DEF PressModifier, ReleaseModifier
    <2>2. UNCHANGED <<optionVars, frameVars>>
      BY <1>1 DEF PressModifier, ReleaseModifier
    <2>3. OptionPart' /\ HudAsSaved'
      BY <2>2 DEF IInv, OptionPart, HudAsSaved, optionVars, frameVars
    <2> QED BY <2>1, <2>3 DEF IInv
  <1>2. CASE ExecuteXAction \/ UseMount
    BY <1>2, UnrelatedKeepsIInv DEF ExecuteXAction, UseMount, TriggerFlash
  <1>3. CASE ToggleDpadLayout
    <2>1. PagePart'
      BY <1>3, UpdateActivePageSetsPage DEF ToggleDpadLayout
    <2>2. UNCHANGED <<enabled, hudDB, frameVars>>
      BY <1>3 DEF ToggleDpadLayout
    <2>3. OptionPart' /\ HudAsSaved'
      BY <2>2 DEF IInv, OptionPart, HudAsSaved, frameVars
    <2> QED BY <2>1, <2>3 DEF IInv
  <1>4. CASE SetControllerEnabled
    <2>1. PagePart'
      BY <1>4 DEF SetControllerEnabled, IInv, PagePart, PageOffset, keyVars
    <2>2. OptionPart'
      BY <1>4 DEF SetControllerEnabled, IInv, OptionPart
    <2>3. HudAsSaved'
      BY <1>4 DEF SetControllerEnabled, UpdateVisibility, IInv, HudAsSaved
    <2> QED BY <2>1, <2>2, <2>3 DEF IInv
  <1>5. CASE ShowOrHide
    <2>1. PagePart'
      BY <1>5 DEF ShowOrHide, IInv, PagePart, PageOffset, keyVars
    <2>2. OptionPart' /\ hudDB'.locked = hudDB.locked
      BY <1>5 DEF ShowOrHide, IInv, OptionPart
    <2>3. HudAsSaved'
      BY <1>5, <2>2 DEF ShowOrHide, UpdateVisibility, IInv, HudAsSaved
    <2> QED BY <2>1, <2>2, <2>3 DEF IInv
  <1>6. CASE LockOrUnlock
    <2>1. PagePart'
      BY <1>6 DEF LockOrUnlock, IInv, PagePart, PageOffset, keyVars
    <2>2. /\ OptionPart'
          /\ hudDB'.visible = hudDB.visible
          /\ mouse' = ~hudDB'.locked
      BY <1>6 DEF LockOrUnlock, IInv, OptionPart
    <2>3. HudAsSaved'
      BY <1>6, <2>2 DEF LockOrUnlock, IInv, HudAsSaved
    <2> QED BY <2>1, <2>2, <2>3 DEF IInv
  <1>7. CASE ActionbarPageChanged
    BY <1>7, UnrelatedKeepsIInv DEF ActionbarPageChanged
  <1>8. CASE NewSession
    BY <1>8 DEF NewSession, IInv, OptionPart, PagePart, HudAsSaved
  <1>9. CASE PlayerEnteringWorld
    <2>1. PagePart'
      BY <1>9, UpdateActivePageSetsPage DEF PlayerEnteringWorld
    <2>2. OptionPart'
      BY <1>9 DEF PlayerEnteringWorld, optionVars, IInv, OptionPart
    <2>3. HudAsSaved'
      BY <1>9 DEF PlayerEnteringWorld, CreateHUDFrame, optionVars, IInv, HudAsSaved
    <2> QED BY <2>1, <2>2, <2>3 DEF IInv
  <1>10. CASE HudEvent \/ OnUpdate \/ Tick
    BY <1>10, UnrelatedKeepsIInv DEF HudEvent, OnUpdate, Tick
  <1>11. CASE UNCHANGED vars
    BY <1>11, UnrelatedKeepsIInv DEF vars
  <1> QED
    BY <1>1, <1>2, <1>3, <1>4, <1>5, <1>6, <1>7, <1>8, <1>9, <1>10, <1>11 DEF Next, User

LEMMA AlwaysIInv == Spec => []IInv
  BY InitIInv, NextIInv, PTL DEF Spec

\* A direction of the D-pad always uses the slot its button shows.
THEOREM DPadAlwaysUsesWhatIsShown == Spec => []DPadUsesWhatIsShown
  <1>1. IInv => DPadUsesWhatIsShown
    BY PageOffsetType DEF IInv, PagePart, DPadUsesWhatIsShown, UsedSlot, ShownSlot, DPadButtons
  <1> QED BY <1>1, AlwaysIInv, PTL

\* The HUD is always shown and always takes the mouse as its options say.
THEOREM HudAlwaysAsSaved == Spec => []HudAsSaved
  <1>1. IInv => HudAsSaved
    BY DEF IInv
  <1> QED BY <1>1, AlwaysIInv, PTL

-----------------------------------------------------------------------------
(* The highlight frames *)

\* Pressing a modifier makes it the last one held; releasing it leaves the other.
LEMMA HeldOrders ==
  ASSUME NEW s \in Orders, NEW m \in Modifiers
  PROVE  /\ Without(s, m) \in {<< >>, <<"L2">>, <<"R2">>} \ {<<m>>}
         /\ \A c \in Modifiers :
              (\E i \in 1..Len(s) : s[i] = c) /\ c # m => Without(s, m) = <<c>>
         /\ \A c \in Modifiers :
              Without(s, m) = <<c>> => \E i \in 1..Len(s) : s[i] = c
  <1>1. CASE s = << >>
    BY <1>1 DEF Without
  <1>2. CASE s = <<"L2">>
    BY <1>2 DEF Without, Last, Front, Modifiers
  <1>3. CASE s = <<"R2">>
    BY <1>3 DEF Without, Last, Front, Modifiers
  <1>4. ASSUME NEW a \in Modifiers, NEW b \in Modifiers, a # b, s = <<a, b>>
        PROVE  Without(s, m) = IF m = a THEN <<b>> ELSE <<a>>
    <2>1. Tail(s) = <<b>> /\ Head(s) = a /\ s # << >>
      BY <1>4
    <2>2. Last(s) = b
      BY <1>4 DEF Last
    <2>3. Front(s) = <<a>>
      <3>1. Len(s) = 2 /\ s[1] = a /\ \A i \in 1..1 : s[i] \in Modifiers
        BY <1>4
      <3>2. Front(s) = SubSeq(s, 1, 1)
        BY <3>1 DEF Front
      <3> DEFINE front == SubSeq(s, 1, 1)
                 first == <<a>>
      <3>3. front \in Seq(Modifiers) /\ Len(front) = 1 /\ front[1] = a
        BY <3>1, SubSeqProperties
      <3>4. first \in Seq(Modifiers) /\ Len(first) = 1 /\ first[1] = a
        OBVIOUS
      <3> HIDE DEF front, first
      <3>5. front = first
        <4>1. \A i \in 1..Len(front) : front[i] = first[i]
          BY <3>3, <3>4
        <4> QED BY <3>3, <3>4, <4>1, SeqEqual
      <3> QED BY <3>2, <3>5 DEF front, first
    <2> QED BY <1>4, <2>1, <2>2, <2>3 DEF Without, Modifiers
  <1>5. CASE s = <<"L2", "R2">>
    <2>1. Without(s, m) = IF m = "L2" THEN <<"R2">> ELSE <<"L2">>
      BY <1>4, <1>5 DEF Modifiers
    <2> QED BY <1>5, <2>1 DEF Modifiers
  <1>6. CASE s = <<"R2", "L2">>
    <2>1. Without(s, m) = IF m = "R2" THEN <<"L2">> ELSE <<"R2">>
      BY <1>4, <1>6 DEF Modifiers
    <2> QED BY <1>6, <2>1 DEF Modifiers
  <1> QED BY <1>1, <1>2, <1>3, <1>5, <1>6 DEF Orders

\* The page computed from the keys is that of the modifier pressed last.
LEMMA PagesAgree == KeyPart => PageOffset = PressedPage
  <1> SUFFICES ASSUME KeyPart
               PROVE  PageOffset = PressedPage
    OBVIOUS
  <1>1. CASE pressed = << >>
    BY <1>1 DEF KeyPart, Knows, PageOffset, DinoHUD_GetPageOffset, PressedPage, Modifiers
  <1>2. CASE pressed = <<"L2">>
    BY <1>2 DEF KeyPart, Knows, PageOffset, DinoHUD_GetPageOffset, PressedPage, Modifiers, Last
  <1>3. CASE pressed = <<"R2">>
    BY <1>3 DEF KeyPart, Knows, PageOffset, DinoHUD_GetPageOffset, PressedPage, Modifiers, Last
  <1>4. CASE pressed = <<"L2", "R2">>
    BY <1>4 DEF KeyPart, Knows, PageOffset, DinoHUD_GetPageOffset, PressedPage, Modifiers, Last
  <1>5. CASE pressed = <<"R2", "L2">>
    BY <1>5 DEF KeyPart, Knows, PageOffset, DinoHUD_GetPageOffset, PressedPage, Modifiers, Last
  <1> QED BY <1>1, <1>2, <1>3, <1>4, <1>5 DEF KeyPart, Knows, Orders

\* What the add-on knows, order by order.
LEMMA KeysByOrder ==
  ASSUME NEW order, NEW keys, NEW latest
  PROVE  Knows(order, keys, latest) <=>
           \/ order = << >> /\ keys = {}
           \/ order = <<"L2">> /\ keys = {"L2"}
           \/ order = <<"R2">> /\ keys = {"R2"}
           \/ order = <<"L2", "R2">> /\ keys = Modifiers /\ latest = "R2"
           \/ order = <<"R2", "L2">> /\ keys = Modifiers /\ latest = "L2"
  <1> DEFINE listed == {m \in Modifiers : \E i \in 1..Len(order) : order[i] = m}
  <1>1. CASE order = << >>
    <2>1. listed = {}
      BY <1>1
    <2> QED BY <1>1, <2>1 DEF Knows, Orders, Modifiers
  <1>2. CASE order = <<"L2">>
    <2>1. listed = {"L2"}
      BY <1>2 DEF Modifiers
    <2> QED BY <1>2, <2>1 DEF Knows, Orders, Modifiers
  <1>3. CASE order = <<"R2">>
    <2>1. listed = {"R2"}
      BY <1>3 DEF Modifiers
    <2> QED BY <1>3, <2>1 DEF Knows, Orders, Modifiers
  <1>4. CASE order = <<"L2", "R2">>
    <2>1. listed = Modifiers
      BY <1>4 DEF Modifiers
    <2> QED BY <1>4, <2>1 DEF Knows, Orders, Modifiers
  <1>5. CASE order = <<"R2", "L2">>
    <2>1. listed = Modifiers
      BY <1>5 DEF Modifiers
    <2> QED BY <1>5, <2>1 DEF Knows, Orders, Modifiers
  <1> QED BY <1>1, <1>2, <1>3, <1>4, <1>5 DEF Knows, Orders

LEMMA AppendToOne ==
  ASSUME NEW a \in Modifiers, NEW b \in Modifiers
  PROVE  Append(<<a>>, b) = <<a, b>>
  <1> DEFINE s == Append(<<a>>, b)
             t == <<a, b>>
  <1>1. <<a>> \in Seq(Modifiers) /\ Len(<<a>>) = 1 /\ <<a>>[1] = a
    OBVIOUS
  <1>2. s \in Seq(Modifiers) /\ Len(s) = 2 /\ s[1] = a /\ s[2] = b
    BY <1>1
  <1>3. t \in Seq(Modifiers) /\ Len(t) = 2 /\ t[1] = a /\ t[2] = b
    OBVIOUS
  <1> HIDE DEF s, t
  <1>4. \A i \in 1..Len(s) : s[i] = t[i]
    BY <1>2, <1>3
  <1>5. s = t
    BY <1>2, <1>3, <1>4, SeqEqual
  <1> QED BY <1>5 DEF s, t

LEMMA PressKeepsKeys ==
  ASSUME KeyPart, NEW m \in Modifiers, PressModifier(m)
  PROVE  KeyPart'
  <1> DEFINE rest == Without(pressed, m)
  <1>1. /\ rest \in {<< >>, <<"L2">>, <<"R2">>} \ {<<m>>}
        /\ \A c \in held \ {m} : rest = <<c>>
        /\ \A c \in Modifiers : rest = <<c>> => c \in held
    BY HeldOrders DEF KeyPart, Knows
  <1>2. pressed' = Append(rest, m) /\ held' = held \cup {m} /\ lastMod' = m
    BY DEF PressModifier
  <1> HIDE DEF rest
  <1>3. CASE rest = << >>
    <2>1. pressed' = <<m>> /\ held' = {m}
      BY <1>1, <1>2, <1>3, KeysByOrder DEF KeyPart, Modifiers
    <2> QED BY <2>1, KeysByOrder DEF KeyPart, Modifiers
  <1>4. CASE rest # << >>
    <2>1. PICK c \in Modifiers \ {m} : rest = <<c>>
      BY <1>1, <1>4 DEF Modifiers
    <2>2. pressed' = <<c, m>>
      BY <1>2, <2>1, AppendToOne
    <2>3. held' = Modifiers
      BY <1>1, <1>2, <2>1 DEF Modifiers
    <2> QED BY <1>2, <2>1, <2>2, <2>3, KeysByOrder DEF KeyPart, Modifiers
  <1> QED BY <1>3, <1>4

LEMMA ReleaseKeepsKeys ==
  ASSUME KeyPart, NEW m \in Modifiers, ReleaseModifier(m)
  PROVE  KeyPart'
  <1> DEFINE rest == Without(pressed, m)
  <1>1. /\ rest \in {<< >>, <<"L2">>, <<"R2">>} \ {<<m>>}
        /\ \A c \in held \ {m} : rest = <<c>>
        /\ \A c \in Modifiers : rest = <<c>> => c \in held
    BY HeldOrders DEF KeyPart, Knows
  <1>2. pressed' = rest /\ held' = held \ {m}
    BY DEF ReleaseModifier
  <1> HIDE DEF rest
  <1> QED BY <1>1, <1>2 DEF KeyPart, Knows, Orders, Modifiers

\* Whoever refreshes the highlights leaves the frames of the page in force.
LEMMA HighlightsSetMarks ==
  ASSUME UpdateActionbarHighlights
  PROVE  MarkPart'
  BY DEF UpdateActionbarHighlights, Marks, MarkPart

LEMMA NextHeldIInv == HeldIInv /\ [Next]_vars => HeldIInv'
  <1> SUFFICES ASSUME HeldIInv, [Next]_vars
               PROVE  KeyPart' /\ MarkPart'
    BY DEF HeldIInv
  <1> USE DEF HeldIInv
  <1>1. ASSUME NEW m \in Modifiers, PressModifier(m)
        PROVE  KeyPart' /\ MarkPart'
    BY <1>1, PressKeepsKeys, HighlightsSetMarks DEF PressModifier, UpdateActivePage
  <1>2. ASSUME NEW m \in Modifiers, ReleaseModifier(m)
        PROVE  KeyPart' /\ MarkPart'
    BY <1>2, ReleaseKeepsKeys, HighlightsSetMarks DEF ReleaseModifier, UpdateActivePage
  <1>3. CASE NewSession
    BY <1>3, KeysByOrder DEF NewSession, KeyPart, MarkPart
  <1>4. ASSUME UNCHANGED keyVars, UpdateActionbarHighlights
        PROVE  KeyPart' /\ MarkPart'
    BY <1>4, HighlightsSetMarks DEF KeyPart, keyVars
  <1>5. ASSUME UNCHANGED <<enabled, layout, created, keyVars, bar, marks>>
        PROVE  KeyPart' /\ MarkPart'
    BY <1>5 DEF KeyPart, MarkPart, keyVars, PageOffset
  <1>6. CASE User
    <2>1. CASE ExecuteXAction \/ UseMount
      BY <1>4, <2>1 DEF ExecuteXAction, UseMount, TriggerFlash
    <2>2. CASE ToggleDpadLayout
      BY <1>4, <2>2 DEF ToggleDpadLayout, UpdateActivePage
    <2>3. CASE SetControllerEnabled \/ ShowOrHide
      BY <1>4, <2>3 DEF SetControllerEnabled, ShowOrHide, UpdateVisibility
    <2>4. CASE LockOrUnlock
      BY <1>5, <2>4 DEF LockOrUnlock
    <2>5. CASE ActionbarPageChanged
      BY <1>4, <2>5 DEF ActionbarPageChanged
    <2> QED BY <1>1, <1>2, <1>3, <1>6, <2>1, <2>2, <2>3, <2>4, <2>5 DEF User
  <1>7. CASE PlayerEnteringWorld \/ HudEvent \/ OnUpdate \/ Tick
    BY <1>4, <1>5, <1>7
    DEF PlayerEnteringWorld, UpdateActivePage, HudEvent, OnUpdate, Tick, optionVars, frameVars
  <1>8. CASE UNCHANGED vars
    BY <1>5, <1>8 DEF vars, optionVars, frameVars
  <1> QED BY <1>6, <1>7, <1>8 DEF Next

\* On either layout, after any order of presses and releases, the frames on the action
\* bar show the group of the modifier pressed last.
THEOREM MarksAlwaysFollowKeys == Spec => []MarksFollowKeys
  <1>1. Init => HeldIInv
    BY KeysByOrder DEF Init, HeldIInv, KeyPart, MarkPart
  <1>2. HeldIInv => MarksFollowKeys
    BY PagesAgree DEF HeldIInv, MarkPart, MarksFollowKeys
  <1> QED BY <1>1, <1>2, NextHeldIInv, PTL DEF Spec

-----------------------------------------------------------------------------
(* The type invariant *)

\* TypeOK without the keys the player holds, of which KeyPart says more.
PartsOK ==
    /\ enabled \in BOOLEAN
    /\ layout \in Layouts
    /\ hudDB \in [visible : BOOLEAN, locked : BOOLEAN]
    /\ created \in BOOLEAN
    /\ shown \in BOOLEAN
    /\ mouse \in BOOLEAN
    /\ held \in SUBSET Modifiers
    /\ lastMod \in Modifiers \cup {""}
    /\ page \in Offsets
    /\ flash \in [FlashSlots -> Unset..FlashTime]
    /\ elapsed \in 0..UpdateInterval
    /\ bar \in Bars

MarksOK == marks \in [group : 0..3, slots : BOOLEAN, blue : SUBSET FlashSlots]

LEMMA KeysTyped == KeyPart => pressed \in Seq(Modifiers)
  <1>1. "L2" \in Modifiers /\ "R2" \in Modifiers
    BY DEF Modifiers
  <1>2. << >> \in Seq(Modifiers) /\ <<"L2">> \in Seq(Modifiers) /\ <<"R2">> \in Seq(Modifiers)
    BY <1>1
  <1>3. <<"L2", "R2">> \in Seq(Modifiers) /\ <<"R2", "L2">> \in Seq(Modifiers)
    BY <1>1
  <1>4. KeyPart => pressed \in {<< >>, <<"L2">>, <<"R2">>, <<"L2", "R2">>, <<"R2", "L2">>}
    BY DEF KeyPart, Knows, Orders
  <1> QED BY <1>2, <1>3, <1>4

LEMMA TimeFacts ==
    /\ Unset \in Unset..FlashTime
    /\ UpdateInterval \in Nat
    /\ 0 \in 0..UpdateInterval
    /\ \A t \in 0..UpdateInterval : t < UpdateInterval => t + 1 \in 0..UpdateInterval
  BY TimeAssumption DEF Unset

\* The values a session starts with.
LEMMA StartFacts == 1 \in Bars /\ 0 \in Offsets /\ << >> \in Seq(Modifiers)
  <1>1. 1 \in Bars
    BY DEF Bars
  <1>2. 0 \in Offsets
    BY DEF Offsets
  <1>3. << >> \in Seq(Modifiers)
    OBVIOUS
  <1> QED BY <1>1, <1>2, <1>3

LEMMA NoMarksTyped == NoMarks \in [group : 0..3, slots : BOOLEAN, blue : SUBSET FlashSlots]
  <1>1. 0 \in 0..3
    OBVIOUS
  <1> QED BY <1>1 DEF NoMarks

\* A refresh leaves one of the four groups marked, or none.
LEMMA MarksTyped == PartsOK => Marks \in [group : 0..3, slots : BOOLEAN, blue : SUBSET FlashSlots]
  <1> SUFFICES ASSUME PartsOK
               PROVE  Marks \in [group : 0..3, slots : BOOLEAN, blue : SUBSET FlashSlots]
    OBVIOUS
  <1>1. PageOffset \div 4 + 1 \in 0..3
    <2>1. CASE PageOffset = 0
      BY <2>1
    <2>2. CASE PageOffset = 4
      BY <2>2
    <2>3. CASE PageOffset = 8
      BY <2>3
    <2> QED BY <2>1, <2>2, <2>3, PageOffsetType
  <1>2. (IF enabled /\ bar = 1 THEN PageOffset \div 4 + 1 ELSE 0) \in 0..3
    BY <1>1
  <1>3. (enabled /\ bar = 2) \in BOOLEAN
    OBVIOUS
  <1>4. (IF enabled /\ bar = 2 THEN {s \in FlashSlots : flash[s] > 0} ELSE {}) \in SUBSET FlashSlots
    OBVIOUS
  <1> QED BY <1>2, <1>3, <1>4 DEF Marks

LEMMA RefreshTyped == PartsOK' /\ UpdateActionbarHighlights => MarksOK'
  <1>1. (PartsOK => Marks \in [group : 0..3, slots : BOOLEAN, blue : SUBSET FlashSlots])'
    BY MarksTyped, PTL
  <1> QED BY <1>1 DEF UpdateActionbarHighlights, MarksOK

\* The flashes count down to zero and are then unset.
LEMMA FlashTyped ==
  ASSUME PartsOK
  PROVE  /\ [s \in FlashSlots |-> Unset] \in [FlashSlots -> Unset..FlashTime]
         /\ [s \in FlashSlots |-> Remaining(flash[s])] \in [FlashSlots -> Unset..FlashTime]
         /\ [s \in FlashSlots |-> IF s \in Expired THEN Unset ELSE flash[s]]
              \in [FlashSlots -> Unset..FlashTime]
         /\ \A s \in FlashSlots : [flash EXCEPT ![s] = FlashTime] \in [FlashSlots -> Unset..FlashTime]
  <1>1. FlashTime \in Nat /\ FlashTime > 0 /\ Unset = -1
    BY TimeAssumption DEF Unset
  <1>2. Unset \in Unset..FlashTime /\ FlashTime \in Unset..FlashTime
    BY <1>1
  <1>3. flash \in [FlashSlots -> Unset..FlashTime]
    BY DEF PartsOK
  <1>4. ASSUME NEW t \in Unset..FlashTime  PROVE Remaining(t) \in Unset..FlashTime
    BY <1>1 DEF Remaining
  <1> QED BY <1>2, <1>3, <1>4

LEMMA NextTypeOK == TypeOK /\ KeyPart' /\ [Next]_vars => TypeOK'
  <1> SUFFICES ASSUME PartsOK, MarksOK, KeyPart', [Next]_vars
               PROVE  PartsOK' /\ MarksOK'
    BY KeysTyped, PTL DEF TypeOK, PartsOK, MarksOK
  <1> USE DEF PartsOK
  <1>1. PageOffset' \in Offsets
    <2>1. (PageOffset \in {0, 4, 8})'
      BY PageOffsetType, PTL
    <2> QED BY <2>1 DEF Offsets
  <1>2. CASE \E m \in Modifiers : PressModifier(m) \/ ReleaseModifier(m)
    <2>1. PICK m \in Modifiers : PressModifier(m) \/ ReleaseModifier(m)
      BY <1>2
    <2>2. PartsOK'
      BY <1>1, <2>1 DEF PressModifier, ReleaseModifier, UpdateActivePage, optionVars,
                        frameVars, timeVars, Modifiers
    <2> QED BY <2>1, <2>2, RefreshTyped DEF PressModifier, ReleaseModifier, UpdateActivePage
  <1>3. CASE ExecuteXAction \/ UseMount
    <2>1. PICK s \in FlashSlots : TriggerFlash(s)
      BY <1>3 DEF ExecuteXAction, UseMount, FlashSlots
    <2>2. PartsOK'
      BY <2>1, FlashTyped DEF TriggerFlash, optionVars, frameVars, keyVars
    <2> QED BY <2>1, <2>2, RefreshTyped DEF TriggerFlash
  <1>4. CASE ToggleDpadLayout
    <2>1. PartsOK'
      BY <1>1, <1>4 DEF ToggleDpadLayout, UpdateActivePage, frameVars, keyVars, timeVars
    <2> QED BY <1>4, <2>1, RefreshTyped DEF ToggleDpadLayout, UpdateActivePage
  <1>5. CASE SetControllerEnabled \/ ShowOrHide
    <2>1. PartsOK'
      BY <1>5 DEF SetControllerEnabled, ShowOrHide, UpdateVisibility, keyVars, timeVars
    <2> QED BY <1>5, <2>1, RefreshTyped DEF SetControllerEnabled, ShowOrHide, UpdateVisibility
  <1>6. CASE LockOrUnlock
    BY <1>6 DEF LockOrUnlock, keyVars, timeVars, MarksOK
  <1>7. CASE ActionbarPageChanged \/ HudEvent
    <2>1. PartsOK'
      BY <1>7 DEF ActionbarPageChanged, HudEvent, optionVars, frameVars, keyVars, timeVars
    <2> QED BY <1>7, <2>1, RefreshTyped DEF ActionbarPageChanged, HudEvent
  <1>8. CASE NewSession
    <2>1. PartsOK'
      BY <1>8, FlashTyped, TimeFacts, StartFacts DEF NewSession
    <2>2. MarksOK'
      BY <1>8, NoMarksTyped DEF NewSession, MarksOK
    <2> QED BY <2>1, <2>2
  <1>9. CASE PlayerEnteringWorld
    <2>1. PartsOK'
      BY <1>1, <1>9 DEF PlayerEnteringWorld, CreateHUDFrame, UpdateActivePage, optionVars,
                        keyVars, timeVars
    <2> QED BY <1>9, <2>1, RefreshTyped DEF PlayerEnteringWorld, UpdateActivePage
  <1>10. CASE OnUpdate
    <2>1. PartsOK'
      BY <1>10, FlashTyped, TimeFacts DEF OnUpdate, optionVars, frameVars, keyVars
    <2>2. CASE Expired # {}
      BY <1>10, <2>1, <2>2, RefreshTyped DEF OnUpdate
    <2>3. CASE Expired = {}
      BY <1>10, <2>1, <2>3 DEF OnUpdate, MarksOK
    <2> QED BY <2>2, <2>3
  <1>11. CASE Tick
    <2>1. elapsed' \in 0..UpdateInterval
      BY <1>11, TimeFacts DEF Tick
    <2> QED BY <1>11, <2>1, FlashTyped DEF Tick, optionVars, frameVars, keyVars, MarksOK
  <1>12. CASE UNCHANGED vars
    BY <1>12 DEF vars, optionVars, frameVars, keyVars, timeVars, MarksOK
  <1> QED
    BY <1>2, <1>3, <1>4, <1>5, <1>6, <1>7, <1>8, <1>9, <1>10, <1>11, <1>12 DEF Next, User

\* The HUD's state keeps its types: in particular no flash outlasts its time, and
\* each modifier is held once.
THEOREM TypeCorrect == Spec => []TypeOK
  <1>1. Init => TypeOK
    <2> SUFFICES ASSUME Init PROVE TypeOK
      OBVIOUS
    <2>1. flash \in [FlashSlots -> Unset..FlashTime] /\ elapsed \in 0..UpdateInterval
      BY TimeFacts DEF Init
    <2>2. pressed \in Seq(Modifiers) /\ bar \in Bars /\ page \in Offsets
      BY StartFacts DEF Init
    <2> QED BY <2>1, <2>2, NoMarksTyped DEF Init, TypeOK
  <1>2. Init => HeldIInv
    BY KeysByOrder DEF Init, HeldIInv, KeyPart, MarkPart
  <1>3. HeldIInv => KeyPart
    BY DEF HeldIInv
  <1>4. Spec => []HeldIInv
    BY <1>2, NextHeldIInv, PTL DEF Spec
  <1> QED BY <1>1, <1>3, <1>4, NextTypeOK, PTL DEF Spec
=============================================================================
