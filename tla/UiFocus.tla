------------------------------- MODULE UiFocus -------------------------------
(***************************************************************************)
(* The focus of the controller UI (DinoControllerUI.lua): the list of      *)
(* elements of the foremost window, the focused one, and the focus that is *)
(* suspended while group loot rolls are shown.                             *)
(*                                                                         *)
(* Three kinds of window stand for all: popups, which come before the loot *)
(* window, which comes before bags; each with its buttons numbered.  A     *)
(* group loot roll is shown in one of several frames, which the client     *)
(* uses again.  The client may change all of them at any time; the add-on  *)
(* looks at them only in RefreshElements.  A scene says which of them the  *)
(* client uses: nothing else depends on it.                                *)
(***************************************************************************)
EXTENDS Integers, Sequences, SequencesExt, FiniteSetsExt

CONSTANTS
    RollFrames,     \* NUM_GROUP_LOOT_FRAMES, 4
    Scenes,         \* which roll frames and kinds of window may be used together
    Buttons,        \* buttons of a window
    None            \* nil

ASSUME FrameAssumption == RollFrames \in Nat /\ Buttons \in Nat \ {0}
ASSUME SceneAssumption ==
    \A s \in Scenes : s.frames \in 0..RollFrames /\ s.windows \subseteq {"popup", "loot", "bags"}
ASSUME NilAssumption == None \notin {"lootroll", "popup", "loot", "bags"}

VARIABLES
    ui,             \* state: active, context, elements, index, suspendedFocus, ...
    enabled,        \* controllerEnabled and uiEnabled
    rolls,          \* external: the usable choices in each GroupLootFrame, none if hidden
    windows,        \* external: the usable buttons of each window, None if it is closed
    scene,          \* the scene the client plays; chosen once
    command         \* what the last Confirm asked the client for

clientVars == <<rolls, windows, scene>>
vars == <<ui, enabled, clientVars, command>>

-----------------------------------------------------------------------------
(* Elements *)

\* GROUP_LOOT_ACTIONS
RollChoices == <<"icon", "need", "greed", "pass">>

Contexts == {"lootroll", "popup", "loot", "bags"}

\* An element, by its key: the frame or button it stands for.
Element == [context : Contexts, at : Nat, choice : ToSet(RollChoices) \cup {None}]

\* The elements each context may have, in the order in which they are listed.
AllElements ==
    [k \in Contexts |->
        IF k = "lootroll"
        THEN [i \in 1..4 * RollFrames |->
                 [context |-> k, at |-> ((i - 1) \div 4) + 1, choice |-> RollChoices[((i - 1) % 4) + 1]]]
        ELSE [i \in 1..Buttons |-> [context |-> k, at |-> i, choice |-> None]]]

\* UsableElement, with rolls r and windows w.
Usable(e, r, w) ==
    IF e.context = "lootroll" THEN e.choice \in r[e.at]
    ELSE w[e.context] # None /\ e.at \in w[e.context]

\* The elements of s at the positions in I, added to the list one by one.
Picked(s, I) ==
    LET list[i \in 0..Len(s)] ==
            IF i = 0 THEN << >>
            ELSE IF i \in I THEN Append(list[i - 1], s[i]) ELSE list[i - 1]
    IN  list[Len(s)]

\* BuildElements: the usable elements of a context.
Elements(context, r, w) ==
    LET all == AllElements[context]
    IN  Picked(all, {i \in 1..Len(all) : Usable(all[i], r, w)})

Priority == <<"lootroll", "popup", "loot", "bags">>

\* Position of the first member of S, 0 if there is none.
Find(elements, S) ==
    LET at == {i \in 1..Len(elements) : elements[i] \in S}
    IN  IF at = {} THEN 0 ELSE Min(at)

\* Context k is on the screen: a roll that can be answered, or a window, which may
\* be without a usable button.
Visible(k, r, w) ==
    IF k = "lootroll" THEN \E f \in 1..RollFrames : r[f] # {} ELSE w[k] # None

\* The first context on the screen.
BuildContext(r, w) ==
    LET i == Find(Priority, {k \in Contexts : Visible(k, r, w)})
    IN  IF i = 0 THEN None ELSE Priority[i]

\* The elements of frame f, and those of choice c.
Of(elements, f) == {e \in ToSet(elements) : e.at = f}
With(elements, c) == {e \in ToSet(elements) : e.choice = c}

Clip(i, elements) == IF i > Len(elements) THEN Len(elements) ELSE i

Focus(u) == IF u.index \in 1..Len(u.elements) THEN u.elements[u.index] ELSE None

Type == [active : BOOLEAN, context : Contexts \cup {None}, elements : Seq(Element),
         index : Nat \ {0},
         suspended : [context : Contexts, element : Element, index : Nat \ {0}] \cup {None},
         pendingLoot : (Nat \ {0}) \cup {None}]

TypeOK ==
    /\ ui \in Type
    /\ ui.active <=> ui.context # None
    /\ ui.active <=> ui.elements # << >>
    /\ \A i \in 1..Len(ui.elements) : ui.elements[i].context = ui.context
    /\ ui.suspended # None => ui.context = "lootroll" /\ ui.suspended.context # "lootroll"
    /\ enabled \in BOOLEAN
    /\ rolls \in [1..RollFrames -> SUBSET ToSet(RollChoices)]
    /\ windows \in [{"popup", "loot", "bags"} -> {None} \cup SUBSET (1..Buttons)]
    /\ scene \in Scenes

-----------------------------------------------------------------------------
(* RefreshElements *)

\* A mutated form: the elements stay.
LeftWithElements(u) ==
    [u EXCEPT !.active = FALSE, !.context = None, !.index = 1, !.suspended = None]

\* LeaveUIMode
Left(u) ==
    [u EXCEPT !.active = FALSE, !.context = None, !.elements = << >>, !.index = 1,
              !.suspended = None]

\* A mutated form: another roll suspends the focus of the first.
SuspendedAtEveryRoll(u, context) ==
    IF context = "lootroll"
    THEN IF u.active /\ Focus(u) # None
         THEN [context |-> u.context, element |-> Focus(u), index |-> u.index]
         ELSE None
    ELSE None

\* The suspended focus after a scan that finds context.
Suspended(u, context) ==
    IF context = "lootroll"
    THEN IF u.context = "lootroll" THEN u.suspended
         ELSE IF u.active THEN [context |-> u.context, element |-> Focus(u), index |-> u.index]
         ELSE None
    ELSE IF u.context = "lootroll" THEN None ELSE u.suspended

\* A mutated form: the focus stays at its position in the list.
RollFocusByPosition(old, elements) ==
    LET i == Find(elements, {old}) IN IF i # 0 THEN i ELSE Len(elements)

\* Where the focus goes among the rolls when the element old had it: there, or to
\* the same choice of the next frame, going round, or to that frame's first choice.
RollFocus(old, elements) ==
    LET same == Find(elements, {old})
        frames == {e.at : e \in ToSet(elements)}
        later == {f \in frames : f > old.at}
        next == Min(IF later # {} THEN later ELSE frames)
        choice == Find(elements, Of(elements, next) \cap With(elements, old.choice))
    IN  IF same # 0 THEN same
        ELSE IF choice # 0 THEN choice
        ELSE Find(elements, Of(elements, next))

\* The focus when rolls appear: the icon of the first frame, else its first choice.
FirstRollFocus(elements) ==
    LET First(choice) == Find(elements, With(elements, choice))
    IN  IF First("icon") # 0 THEN First("icon")
        ELSE IF First("need") # 0 THEN First("need")
        ELSE IF First("greed") # 0 THEN First("greed")
        ELSE IF First("pass") # 0 THEN First("pass") ELSE 1

\* A mutated form: the position is not checked against the new list.
ResumedFocusUnclipped(focus, elements) ==
    LET same == Find(elements, {focus.element})
    IN  IF same # 0 THEN same ELSE focus.index

\* The suspended focus, or its position if the element is gone.
ResumedFocus(focus, elements) ==
    LET same == Find(elements, {focus.element})
    IN  IF same # 0 THEN same ELSE Clip(focus.index, elements)

\* The position of the focus after a scan that finds context and elements.
NewIndex(u, context, elements) ==
    LET same == Find(elements, {Focus(u)})
    IN  IF context = "lootroll" /\ u.context # "lootroll" THEN FirstRollFocus(elements)
        ELSE IF context = "lootroll" THEN RollFocus(Focus(u), elements)
        ELSE IF u.context = "lootroll" /\ u.suspended # None /\ u.suspended.context = context
             THEN ResumedFocus(u.suspended, elements)
        ELSE IF context # u.context THEN 1
        ELSE IF same # 0 THEN same
        ELSE IF u.pendingLoot # None THEN Clip(u.pendingLoot, elements)
        ELSE Clip(u.index, elements)

\* pendingLootIndex is used up when the focused element of this context is gone.
UsesPendingLoot(u, context, elements) ==
    /\ context = u.context
    /\ context # "lootroll"
    /\ Find(elements, {Focus(u)}) = 0

\* RefreshElements of u, when rolls r and windows w are shown.  UI mode is left if the
\* first context on the screen has no elements, whatever is behind it.
Refreshed(u, r, w) ==
    LET context == BuildContext(r, w)
        elements == Elements(context, r, w)
    IN  IF ~enabled \/ context = None \/ elements = << >> THEN Left(u)
        ELSE [active |-> TRUE, context |-> context, elements |-> elements,
              index |-> NewIndex(u, context, elements),
              suspended |-> Suspended(u, context),
              pendingLoot |-> IF UsesPendingLoot(u, context, elements) THEN None
                              ELSE u.pendingLoot]

RollsShown == Visible("lootroll", rolls, windows)

\* A scan that finds rolls closes the loot window.
ScanClosesLoot ==
    windows' = IF enabled /\ RollsShown THEN [windows EXCEPT !["loot"] = None] ELSE windows

RefreshElements ==
    /\ ui' = Refreshed(ui, rolls, windows)
    /\ ScanClosesLoot
    /\ command' = None
    /\ UNCHANGED <<enabled, rolls, scene>>

-----------------------------------------------------------------------------
(* The player's keys *)

\* MoveGroupLootRoll: the positions the focus may go to from u.
MoveGroupLootRoll(u, dir) ==
    LET at == Focus(u).at
        frames == {e.at : e \in ToSet(u.elements)}
        row == {i \in 1..Len(u.elements) : u.elements[i].at = at}
        Following(S, i) == IF i < Max(S) THEN Min({j \in S : j > i}) ELSE Min(S)
        Preceding(S, i) == IF i > Min(S) THEN Max({j \in S : j < i}) ELSE Max(S)
        frame == IF dir = "UP" THEN Following(frames, at) ELSE Preceding(frames, at)
        choice == Find(u.elements, Of(u.elements, frame) \cap With(u.elements, Focus(u).choice))
        first == Find(u.elements, Of(u.elements, frame))
    IN  CASE dir = "LEFT" /\ \E i \in row : i # u.index -> {Preceding(row, u.index)}
          [] dir = "RIGHT" /\ \E i \in row : i # u.index -> {Following(row, u.index)}
          [] dir \in {"UP", "DOWN"} /\ \E f \in frames : f # at ->
                {IF choice # 0 THEN choice ELSE first}
          [] OTHER -> {}

\* MoveSpatial, whatever the layout on the screen: to a usable element, or nowhere.
MoveSpatial(u, w) ==
    {u.index} \cup {i \in 1..Len(u.elements) : Usable(u.elements[i], rolls, w)}

\* A mutated form: no scan while rolls are shown.
ScannedIfInactive(u) == IF ~u.active THEN Refreshed(u, rolls, windows) ELSE u

\* The state a direction key acts on: rolls are looked at again first.
Scanned(u) ==
    LET v == IF ~u.active THEN Refreshed(u, rolls, windows) ELSE u
    IN  IF v.context = "lootroll" THEN Refreshed(v, rolls, windows) ELSE v

\* DinoController_UIMoveDir
UIMoveDir(dir) ==
    LET u == Scanned(ui)
        to == IF u.context = "lootroll" THEN MoveGroupLootRoll(u, dir) ELSE {}
    IN  /\ \E i \in IF to # {} THEN to ELSE MoveSpatial(u, windows) :
             ui' = IF u.elements = << >> THEN u ELSE [u EXCEPT !.index = i]
        /\ IF ~ui.active \/ ui.context = "lootroll" THEN ScanClosesLoot ELSE UNCHANGED windows
        /\ command' = None
        /\ UNCHANGED <<enabled, rolls, scene>>

\* DinoController_UIMove
UIMove(delta) ==
    LET u == Refreshed(ui, rolls, windows)
        n == Len(u.elements)
    IN  /\ ui' = IF ~u.active THEN u
                 ELSE [u EXCEPT !.index = ((u.index - 1 + delta) % n) + 1]
        /\ ScanClosesLoot
        /\ command' = None
        /\ UNCHANGED <<enabled, rolls, scene>>

\* Confirm with the loot window open and no roll: the focused button's ID, whatever
\* window it is of, is taken for a loot slot.
ActivateLoot ==
    LET u == IF ui.elements = << >> THEN Refreshed(ui, rolls, windows) ELSE ui
        e == Focus(u)
    IN  /\ windows["loot"] # None
        /\ ~RollsShown
        /\ command' = IF e # None /\ Usable(e, rolls, windows) /\ e.at \in windows["loot"]
                      THEN [context |-> "loot", at |-> e.at, choice |-> None] ELSE None
        /\ ui' = [u EXCEPT !.pendingLoot = u.index]
        /\ UNCHANGED <<enabled, clientVars>>

\* Confirm otherwise.  The client may hide the frame of an answered roll at once; a
\* popup closes, and rolls are looked at again.
ActivateElement ==
    LET u == Refreshed(ui, rolls, windows)
        e == Focus(u)
        r == IF e # None /\ e.context = "lootroll" /\ e.choice # "icon"
             THEN {rolls, [rolls EXCEPT ![e.at] = {}]} ELSE {rolls}
        w == IF e # None /\ e.context = "popup" THEN [windows EXCEPT !["popup"] = None]
             ELSE windows
    IN  /\ windows["loot"] = None \/ RollsShown
        /\ command' = e
        /\ \E after \in r :
             /\ rolls' = after
             /\ ui' = IF u.context = "lootroll" THEN Refreshed(u, after, w) ELSE u
        /\ windows' = IF enabled /\ RollsShown THEN [w EXCEPT !["loot"] = None] ELSE w
        /\ UNCHANGED <<enabled, scene>>

\* DinoController_UICancel: a popup closes, or else every window.
UICancel ==
    /\ windows' = IF windows["popup"] # None THEN [windows EXCEPT !["popup"] = None]
                  ELSE [k \in DOMAIN windows |-> None]
    /\ command' = None
    /\ UNCHANGED <<ui, enabled, rolls, scene>>

\* /dino ui, and controller support on or off
SetUIEnabled ==
    /\ enabled' = ~enabled
    /\ ui' = IF enabled /\ ui.active THEN Left(ui) ELSE ui
    /\ command' = None
    /\ UNCHANGED clientVars

-----------------------------------------------------------------------------
(* The client (external) *)

\* START_LOOT_ROLL shows a hidden frame; need and greed may be unavailable.
RollStarts ==
    /\ \E f \in 1..scene.frames, c \in SUBSET {"need", "greed"} :
         /\ rolls[f] = {}
         /\ \A g \in 1..f - 1 : rolls[g] # {}
         /\ rolls' = [rolls EXCEPT ![f] = {"icon", "pass"} \cup c]
    /\ command' = None
    /\ UNCHANGED <<ui, enabled, windows, scene>>

\* CANCEL_LOOT_ROLL: the roll timed out or was answered.
RollEnds ==
    /\ \E f \in 1..RollFrames : rolls[f] # {} /\ rolls' = [rolls EXCEPT ![f] = {}]
    /\ command' = None
    /\ UNCHANGED <<ui, enabled, windows, scene>>

\* A window opens or closes, or other buttons of it become usable.
WindowChanges ==
    /\ \E k \in scene.windows, shown \in {None} \cup SUBSET (1..Buttons) :
         /\ shown # windows[k]
         /\ windows' = [windows EXCEPT ![k] = shown]
    /\ command' = None
    /\ UNCHANGED <<ui, enabled, rolls, scene>>

-----------------------------------------------------------------------------

Init ==
    /\ ui = [active |-> FALSE, context |-> None, elements |-> << >>, index |-> 1,
             suspended |-> None, pendingLoot |-> None]
    /\ enabled \in BOOLEAN
    /\ rolls = [f \in 1..RollFrames |-> {}]
    /\ windows = [k \in {"popup", "loot", "bags"} |-> None]
    /\ scene \in Scenes
    /\ command = None

Next ==
    \/ RefreshElements
    \/ \E dir \in {"UP", "DOWN", "LEFT", "RIGHT"} : UIMoveDir(dir)
    \/ \E delta \in {-1, 1} : UIMove(delta)
    \/ ActivateLoot
    \/ ActivateElement
    \/ UICancel
    \/ SetUIEnabled
    \/ RollStarts
    \/ RollEnds
    \/ WindowChanges

Spec == Init /\ [][Next]_vars

-----------------------------------------------------------------------------
(* Properties *)

\* Lists shrink while the focus, the suspended focus and the pending loot position
\* wait: the focus is always on an element while UI mode is active.
FocusOnElement == ui.active => ui.index \in 1..Len(ui.elements)

\* DinoControllerUI.lua:1872-1873 "a timed-out frame must never remain the
\* controller target": after a direction key, the focus among rolls is on a roll
\* that is still shown.
MoveLandsOnLiveRoll ==
    [][ui'.context = "lootroll" /\ ~Usable(Focus(ui'), rolls, windows) =>
         ~ \E dir \in {"UP", "DOWN", "LEFT", "RIGHT"} : UIMoveDir(dir)]_vars

\* However rolls come and go between the highlight and Confirm, the choice sent for
\* a roll is the choice that was highlighted.
ConfirmKeepsChoice ==
    [][command' # None /\ command'.context = "lootroll" /\ command'.choice # "icon" =>
         /\ ui.context = "lootroll"
         /\ Focus(ui).choice = command'.choice]_vars

\* DinoControllerUI.lua:1252-1254 "the previous context/focus is restored below as
\* soon as the final roll frame disappears": it stays while rolls come and go, and a
\* scan forgets it only if it restores it, if its element is gone, with UI mode, or
\* if another window is in front.
SuspendedFocusReturns ==
    [][/\ ui.context = "lootroll" /\ ui'.context = "lootroll" => ui'.suspended = ui.suspended
       /\ ui.suspended # None /\ ui'.suspended = None /\ RefreshElements =>
            \/ Focus(ui') = ui.suspended.element
            \/ ~Usable(ui.suspended.element, rolls, windows)
            \/ ~ui'.active
            \/ ui'.context # ui.suspended.context]_vars
=============================================================================
