---------------------------- MODULE ControllerHud ----------------------------
(***************************************************************************)
(* The HUD of DinoController: the modifier keys L2 and R2 that page the    *)
(* D-pad over the twelve slots of the first action bar, the frames that    *)
(* highlight the active group on the bar, the flash of the X and mount     *)
(* slots, and the options that show, hide and lock the HUD.                *)
(*                                                                         *)
(* Slots are redrawn by every event and every tenth of a second; what must *)
(* be refreshed by hand is which slots the D-pad buttons stand for (page), *)
(* the highlight frames (marks) and the frame itself (shown, mouse).       *)
(*                                                                         *)
(* The keys the player holds, the page of the action bar and the clock are *)
(* external.                                                               *)
(***************************************************************************)
EXTENDS Integers, SequencesExt

CONSTANTS
    FlashTime,       \* how long a slot flashes (0.2 s)
    UpdateInterval   \* HUD_UPDATE_INTERVAL

ASSUME TimeAssumption == FlashTime \in Nat \ {0} /\ UpdateInterval \in Nat \ {0}

Unset == -1

Modifiers == {"L2", "R2"}
Layouts == {"Standard", "Mitte"}
FlashSlots == {13, 14}    \* the X action and the mount
Bars == 1..3              \* 3 stands for every further page of the action bar

VARIABLES
    enabled,     \* DinoControllerDB.controllerEnabled
    layout,      \* DinoControllerDB.dpadLayout
    hudDB,       \* DinoControllerHUDDB.hudVisible and .hudLocked
    created,     \* is there a hudFrame: has the player entered the world
    shown,       \* hudFrame:IsShown()
    mouse,       \* do the frame and its buttons take the mouse
    held,        \* l2Held, r2Held
    lastMod,     \* lastMod
    page,        \* dinoActionSlot of the D-pad buttons, less their number
    marks,       \* the highlight frames
    flash,       \* time left until flashSlot13Until, flashSlot14Until
    elapsed,     \* hudUpdateElapsed
    bar,         \* external: CURRENT_ACTIONBAR_PAGE
    pressed      \* external: the modifiers pressed and not released, in order

optionVars == <<enabled, layout, hudDB>>
frameVars == <<created, shown, mouse>>
keyVars == <<held, lastMod, pressed>>
timeVars == <<flash, elapsed>>
vars == <<optionVars, frameVars, keyVars, page, marks, timeVars, bar>>

Offsets == {0, 4, 8}

TypeOK ==
    /\ enabled \in BOOLEAN
    /\ layout \in Layouts
    /\ hudDB \in [visible : BOOLEAN, locked : BOOLEAN]
    /\ created \in BOOLEAN
    /\ shown \in BOOLEAN
    /\ mouse \in BOOLEAN
    /\ held \in SUBSET Modifiers
    /\ lastMod \in Modifiers \cup {""}
    /\ page \in Offsets
    /\ marks \in [group : 0..3, slots : BOOLEAN, blue : SUBSET FlashSlots]
    /\ flash \in [FlashSlots -> Unset..FlashTime]
    /\ elapsed \in 0..UpdateInterval
    /\ bar \in Bars
    /\ pressed \in Seq(Modifiers)

-----------------------------------------------------------------------------
(* Pages and highlights *)

BasePage(l) == IF l = "Mitte" THEN 4 ELSE 0
L2Page(l) == IF l = "Mitte" THEN 0 ELSE 4
R2Page == 8

\* A mutated form: of two modifiers L2 always wins.
DinoHUD_GetPageOffsetL2First(l, h, last) ==
    IF "L2" \in h THEN L2Page(l) ELSE IF "R2" \in h THEN R2Page ELSE BasePage(l)

\* With both modifiers held the one pressed last counts.
DinoHUD_GetPageOffset(l, h, last) ==
    IF "R2" \in h /\ ("L2" \in h => last = "R2") THEN R2Page
    ELSE IF "L2" \in h THEN L2Page(l) ELSE BasePage(l)

PageOffset == DinoHUD_GetPageOffset(layout, held, lastMod)

DPadButtons == 1..4

\* The slot whose icon button i of the HUD shows, and which a click on it uses.
ShownSlot(i) == page + i

\* The slot DinoHUD_UseAction uses for the direction i.
UsedSlot(i) == i + PageOffset

NoMarks == [group |-> 0, slots |-> FALSE, blue |-> {}]

\* DinoHUD_UpdateActionbarHighlights: one of three groups on bar 1, the slots 13
\* and 14 on bar 2, which are blue while they flash.
Marks ==
    [group |-> IF enabled /\ bar = 1 THEN PageOffset \div 4 + 1 ELSE 0,
     slots |-> enabled /\ bar = 2,
     blue  |-> IF enabled /\ bar = 2 THEN {s \in FlashSlots : flash[s] > 0} ELSE {}]

UpdateActionbarHighlights == marks' = Marks'

UpdateActivePage ==
    /\ page' = IF created' THEN PageOffset' ELSE page
    /\ UpdateActionbarHighlights

-----------------------------------------------------------------------------
(* Keys *)

\* Of two modifiers held one is the first and the other the last.
Without(s, m) ==
    IF s = << >> THEN s
    ELSE IF Head(s) = m THEN Tail(s)
    ELSE IF Last(s) = m THEN Front(s) ELSE s

\* DinoHUD_SetModifier(m, true)
PressModifier(m) ==
    /\ created
    /\ held' = held \cup {m}
    /\ lastMod' = m
    /\ pressed' = Append(Without(pressed, m), m)
    /\ UNCHANGED <<optionVars, frameVars, timeVars, bar>>
    /\ UpdateActivePage

\* DinoHUD_SetModifier(m, false), also for a key pressed before /reload
ReleaseModifier(m) ==
    /\ created
    /\ held' = held \ {m}
    /\ pressed' = Without(pressed, m)
    /\ UNCHANGED <<lastMod, optionVars, frameVars, timeVars, bar>>
    /\ UpdateActivePage

TriggerFlash(s) ==
    /\ created
    /\ flash' = [flash EXCEPT ![s] = FlashTime]
    /\ UNCHANGED <<optionVars, frameVars, keyVars, page, elapsed, bar>>
    /\ UpdateActionbarHighlights

\* While the world map is shown nothing happens.
ExecuteXAction == TriggerFlash(13)

\* In UI mode nothing happens.
UseMount == TriggerFlash(14)

-----------------------------------------------------------------------------
(* Options: the menu and the slash commands *)

\* A mutated form: the page is left to the next press of a modifier.
ToggleDpadLayoutLater ==
    /\ created
    /\ layout' \in Layouts \ {layout}
    /\ UNCHANGED <<enabled, hudDB, frameVars, keyVars, page, marks, timeVars, bar>>

ToggleDpadLayout ==
    /\ created
    /\ layout' \in Layouts \ {layout}
    /\ UNCHANGED <<enabled, hudDB, frameVars, keyVars, timeVars, bar>>
    /\ UpdateActivePage

UpdateVisibility ==
    /\ shown' = IF created THEN enabled' /\ hudDB'.visible ELSE shown
    /\ UpdateActionbarHighlights

SetControllerEnabled ==
    /\ created
    /\ enabled' \in BOOLEAN
    /\ UNCHANGED <<layout, hudDB, created, mouse, keyVars, page, timeVars, bar>>
    /\ UpdateVisibility

\* DinoHUD_Show and DinoHUD_Hide
ShowOrHide ==
    /\ created
    /\ \E visible \in BOOLEAN : hudDB' = [hudDB EXCEPT !.visible = visible]
    /\ UNCHANGED <<enabled, layout, created, mouse, keyVars, page, timeVars, bar>>
    /\ UpdateVisibility

\* DinoHUD_Lock and DinoHUD_Unlock
LockOrUnlock ==
    /\ created
    /\ \E locked \in BOOLEAN :
         /\ hudDB' = [hudDB EXCEPT !.locked = locked]
         /\ mouse' = ~locked
    /\ UNCHANGED <<enabled, layout, created, shown, keyVars, page, marks, timeVars, bar>>

-----------------------------------------------------------------------------
(* Events and frames *)

\* The frame of a new session takes the mouse unless the HUD was locked.
CreateHUDFrame ==
    /\ created' = TRUE
    /\ mouse' = IF created THEN mouse ELSE ~hudDB.locked

\* A mutated form: only the HUD's own option is asked.
PlayerEnteringWorldHudOnly ==
    /\ CreateHUDFrame
    /\ shown' = hudDB.visible
    /\ UNCHANGED <<optionVars, keyVars, timeVars, bar>>
    /\ UpdateActivePage

\* The first PLAYER_ENTERING_WORLD of a session creates the HUD.
PlayerEnteringWorld ==
    /\ CreateHUDFrame
    /\ shown' = (hudDB.visible /\ enabled)
    /\ UNCHANGED <<optionVars, keyVars, timeVars, bar>>
    /\ UpdateActivePage

\* The player turns the pages of the action bar: ACTIONBAR_PAGE_CHANGED.
ActionbarPageChanged ==
    /\ bar' \in Bars \ {bar}
    /\ UNCHANGED <<optionVars, frameVars, keyVars, page, timeVars>>
    /\ UpdateActionbarHighlights

\* The other events the HUD is registered for.
HudEvent ==
    /\ UNCHANGED <<optionVars, frameVars, keyVars, page, timeVars, bar>>
    /\ UpdateActionbarHighlights

Expired == {s \in FlashSlots : flash[s] = 0}

\* A mutated form: the highlights are left to the next event.
OnUpdateClearsOnly ==
    /\ elapsed >= UpdateInterval
    /\ elapsed' = 0
    /\ flash' = [s \in FlashSlots |-> IF s \in Expired THEN Unset ELSE flash[s]]
    /\ UNCHANGED <<optionVars, frameVars, keyVars, page, bar, marks>>

\* At most once per UpdateInterval flashes that are over are cleared.
OnUpdate ==
    /\ elapsed >= UpdateInterval
    /\ elapsed' = 0
    /\ flash' = [s \in FlashSlots |-> IF s \in Expired THEN Unset ELSE flash[s]]
    /\ UNCHANGED <<optionVars, frameVars, keyVars, page, bar>>
    /\ IF Expired # {} THEN UpdateActionbarHighlights ELSE UNCHANGED marks

\* A mutated form: the countdown runs past its end.
RemainingForever(time) == time - 1

Remaining(time) == IF time > 0 THEN time - 1 ELSE time

Tick ==
    /\ flash' = [s \in FlashSlots |-> Remaining(flash[s])]
    /\ elapsed' = IF elapsed < UpdateInterval THEN elapsed + 1 ELSE elapsed
    /\ UNCHANGED <<optionVars, frameVars, keyVars, page, marks, bar>>

\* /reload, or a new login after a logout or a crash, which loses the options
\* changed since the last logout: any options may be found saved.
NewSession ==
    /\ created
    /\ enabled' \in BOOLEAN
    /\ layout' \in Layouts
    /\ hudDB' \in [visible : BOOLEAN, locked : BOOLEAN]
    /\ created' = FALSE
    /\ shown' = FALSE
    /\ mouse' = FALSE
    /\ held' = {}
    /\ lastMod' = ""
    /\ page' = 0
    /\ marks' = NoMarks
    /\ flash' = [s \in FlashSlots |-> Unset]
    /\ elapsed' = 0
    /\ bar' = 1
    /\ pressed' = << >>

-----------------------------------------------------------------------------

\* What the files of the add-on start with, whatever options were saved.
Init ==
    /\ enabled \in BOOLEAN
    /\ layout \in Layouts
    /\ hudDB \in [visible : BOOLEAN, locked : BOOLEAN]
    /\ created = FALSE
    /\ shown = FALSE
    /\ mouse = FALSE
    /\ held = {}
    /\ lastMod = ""
    /\ page = 0
    /\ marks = NoMarks
    /\ flash = [s \in FlashSlots |-> Unset]
    /\ elapsed = 0
    /\ bar = 1
    /\ pressed = << >>

User ==
    \/ \E m \in Modifiers : PressModifier(m) \/ ReleaseModifier(m)
    \/ ExecuteXAction
    \/ UseMount
    \/ ToggleDpadLayout
    \/ SetControllerEnabled
    \/ ShowOrHide
    \/ LockOrUnlock
    \/ ActionbarPageChanged
    \/ NewSession

Next == User \/ PlayerEnteringWorld \/ HudEvent \/ OnUpdate \/ Tick

Spec == Init /\ [][Next]_vars

\* Time passes and the client draws frames.
FairSpec == Spec /\ WF_vars(Tick) /\ WF_vars(OnUpdate)

-----------------------------------------------------------------------------
(* Properties *)

\* The page of the modifier pressed last among those the player holds.
PressedPage ==
    IF pressed = << >> THEN BasePage(layout)
    ELSE IF Last(pressed) = "R2" THEN R2Page ELSE L2Page(layout)

\* DinoHUD_UseAction computes the slot when the D-pad is pressed, the buttons keep
\* theirs from the last refresh: a direction always uses the slot the HUD shows.
DPadUsesWhatIsShown ==
    created => \A i \in DPadButtons : UsedSlot(i) = ShownSlot(i)

\* DinoController.lua:1315-1318: in either layout the frames on the action bar show
\* the group of the modifier pressed last, through every order of presses and
\* releases, changes of the layout, the bar and the controller option.
MarksFollowKeys ==
    created =>
        /\ marks.group = IF enabled /\ bar = 1 THEN PressedPage \div 4 + 1 ELSE 0
        /\ marks.slots = (enabled /\ bar = 2)

\* The HUD is shown and takes the mouse exactly as the options of now say, whichever
\* of menu, slash command, controller option and loading screen came last.
HudAsSaved ==
    created => shown = (enabled /\ hudDB.visible) /\ mouse = ~hudDB.locked

\* A slot that flashes stops, unless it is used again: the flash is cleared by the
\* time, never left to the next event.
FlashEnds ==
    \A s \in FlashSlots :
        (s \in marks.blue /\ flash[s] # FlashTime)
            ~> (s \notin marks.blue \/ flash[s] = FlashTime)
=============================================================================
