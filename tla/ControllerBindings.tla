------------------------- MODULE ControllerBindings -------------------------
(***************************************************************************)
(* The key bindings DinoController manages: the world bindings, which      *)
(* follow the options, and the temporary bindings of UI mode, which put    *)
(* navigation on the same keys while a window is open.  The client keeps   *)
(* two sets, the live one (SetBinding) and the saved one (SaveBindings),   *)
(* and the options survive only a clean logout.                            *)
(*                                                                         *)
(* One key stands for each group of keys the code always binds alike:      *)
(* DPad for the four directions, NUMPAD8 for the five movement keys        *)
(* (8, 2, 4, 6, 7), NUMPAD1 for 1 and 3, NUMPAD5 for NUMPAD5 and F8.       *)
(* Keys that are always bound to the same command are left out.            *)
(***************************************************************************)
EXTENDS Integers

CONSTANT Options      \* the options the user changes, and "bind" for /dino bind

SwapOptions == {"swapAB", "swapXY", "swapMenuButtons"}

ASSUME OptionAssumption ==
    Options \subseteq SwapOptions \cup {"targetMode", "controllerEnabled", "uiEnabled", "bind"}

VARIABLES
    db,         \* DinoControllerDB
    savedDB,    \* DinoControllerDB as of the last clean logout (external)
    live,       \* the bindings in force
    saved,      \* the bindings SaveBindings wrote (external)
    active,     \* state.active and uiModeActive, which change together
    temp,       \* state.temporaryBindings
    map,        \* external: is the world map shown
    window,     \* external: is another window shown that UI mode navigates
    inWorld     \* external: has PLAYER_ENTERING_WORLD fired in this session

uiVars == <<active, temp>>
clientVars == <<map, window>>
vars == <<db, savedDB, live, saved, active, temp, map, window, inWorld>>

-----------------------------------------------------------------------------
(* Keys, commands and bindings *)

Keys == {"DPad", "NUMPAD0", "NUMPAD9", "NUMPADMINUS", "NUMPADPLUS",
         "NUMPAD8", "F12", "NUMPAD1", "NUMPAD5"}

Unbound == ""

UICommands == {"UI_DIRECTION", "UI_ACTIVATE", "UI_CANCEL"}

\* PRIMARY is TURNORACTION or the class's ranged attack, GROUP and ENEMY the two
\* meanings of the target keys, MAP_QUEST and MENU_CYCLE those of Select and
\* Start; OWN is whatever the user's client had before.
Commands == UICommands \cup
    {"HUD_ACTION", "PRIMARY", "JUMP", "X_ACTION", "TARGETSELF", "MOVE",
     "ENEMY", "GROUP", "MAP_QUEST", "MENU_CYCLE", "OWN", Unbound}

\* The bindings b after SetBinding on every key of f.
Bind(b, f) == [k \in Keys |-> IF k \in DOMAIN f THEN f[k] ELSE b[k]]

DB == [swapAB : BOOLEAN, swapXY : BOOLEAN, swapMenuButtons : BOOLEAN,
       targetMode : {"dps", "healer"}, controllerEnabled : BOOLEAN,
       uiEnabled : BOOLEAN, bindingsInstalled : BOOLEAN]

NoBindings == [k \in {} |-> Unbound]

TemporaryKeys == Keys \ {"NUMPAD1", "NUMPAD5"}

TypeOK ==
    /\ db \in DB
    /\ savedDB \in DB
    /\ live \in [Keys -> Commands]
    /\ saved \in [Keys -> Commands]
    /\ active \in BOOLEAN
    /\ DOMAIN temp \subseteq TemporaryKeys
    /\ temp \in [DOMAIN temp -> Commands]
    /\ ~active => temp = NoBindings
    /\ map \in BOOLEAN
    /\ window \in BOOLEAN
    /\ inWorld \in BOOLEAN

-----------------------------------------------------------------------------
(* What the code binds *)

ControllerKeys == [k \in {"NUMPAD8", "NUMPAD5"} |->
    IF k = "NUMPAD8" THEN "MOVE" ELSE "MAP_QUEST"]

WorldDPad == [k \in {"DPad"} |-> "HUD_ACTION"]

TargetMode(d) == [k \in {"NUMPAD1"} |->
    IF d.targetMode = "healer" THEN "GROUP" ELSE "ENEMY"]

Swap(swapped, k, first, one, other) == IF swapped <=> k = first THEN other ELSE one

ButtonLayout(d) ==
    [k \in {"NUMPAD0", "NUMPAD9", "NUMPADMINUS", "NUMPADPLUS", "NUMPAD5"} |->
        CASE k \in {"NUMPAD0", "NUMPAD9"} ->
                Swap(d.swapAB, k, "NUMPAD0", "PRIMARY", "JUMP")
          [] k \in {"NUMPADMINUS", "NUMPADPLUS"} ->
                Swap(d.swapXY, k, "NUMPADMINUS", "X_ACTION", "TARGETSELF")
          [] k = "NUMPAD5" ->
                IF d.swapMenuButtons THEN "MENU_CYCLE" ELSE "MAP_QUEST"]

\* A mutated form: UI mode does not hold the layout back.
ApplyButtonLayoutAlways(b, d) == Bind(b, ButtonLayout(d))

\* DinoController_ApplyButtonLayout on bindings b.
ApplyButtonLayout(b, d) == IF active THEN b ELSE Bind(b, ButtonLayout(d))

\* InstallBindings, forced.
InstalledBindings(b, d) ==
    Bind(ApplyButtonLayout(Bind(Bind(b, ControllerKeys), TargetMode(d)), d), WorldDPad)

\* What EnterUIMode puts on the keys; under the map the character must stand
\* still, so the keys that would move it do nothing.
UIBindings ==
    [k \in {"DPad", "NUMPAD0", "NUMPAD9"} \cup
           IF map THEN {"NUMPADMINUS", "NUMPADPLUS", "NUMPAD8", "F12"} ELSE {} |->
        CASE k = "DPad" -> "UI_DIRECTION"
          [] k \in {"NUMPAD0", "NUMPAD9"} ->
                Swap(db.swapAB, k, "NUMPAD0", "UI_ACTIVATE", "UI_CANCEL")
          [] OTHER -> Unbound]

-----------------------------------------------------------------------------
(* UI mode *)

EnterUIMode ==
    /\ ~active
    /\ active' = TRUE
    /\ temp' = [k \in DOMAIN UIBindings |-> live[k]]
    /\ live' = Bind(live, UIBindings)
    /\ UNCHANGED saved

\* A mutated form: the options changed meanwhile are not applied.
RestoredBindingsOnly(d) == Bind(live, temp)

\* The bindings LeaveUIMode ends with: the former ones, and then the layout of
\* the options d of now.
RestoredBindings(d) == Bind(Bind(live, temp), ButtonLayout(d))

\* A mutated form: the bindings are restored but not saved.
LeaveUIModeUnsaved(d) ==
    /\ active
    /\ active' = FALSE
    /\ temp' = NoBindings
    /\ live' = RestoredBindings(d)
    /\ UNCHANGED saved

\* A mutated form: the former bindings are not forgotten.
LeaveUIModeRemembers(d) ==
    /\ active
    /\ active' = FALSE
    /\ live' = RestoredBindings(d)
    /\ saved' = live'
    /\ UNCHANGED temp

LeaveUIMode(d) ==
    /\ active
    /\ active' = FALSE
    /\ temp' = NoBindings
    /\ live' = RestoredBindings(d)
    /\ saved' = live'

LeaveUIModeIfActive(d) ==
    \/ LeaveUIMode(d)
    \/ ~active /\ UNCHANGED <<live, saved, uiVars>>

Navigable == db.controllerEnabled /\ db.uiEnabled /\ (map \/ window)

\* RefreshElements, every UI_SCAN_INTERVAL: UI mode follows the windows.
RefreshElements ==
    /\ inWorld
    /\ \/ Navigable /\ EnterUIMode
       \/ ~Navigable /\ LeaveUIMode(db)
    /\ UNCHANGED <<db, savedDB, clientVars, inWorld>>

\* TAXIMAP_CLOSED leaves UI mode at once, whatever else is shown.
TaxiMapClosed ==
    /\ inWorld
    /\ window
    /\ window' = FALSE
    /\ LeaveUIMode(db)
    /\ UNCHANGED <<db, savedDB, map, inWorld>>

-----------------------------------------------------------------------------
(* Options and slash commands *)

\* The live bindings become b and are saved if save.
SetLive(b, save) ==
    /\ live' = b
    /\ saved' = IF save THEN b ELSE saved

\* Menu buttons that swap X and Y, or Select and Start: ApplyButtonLayout(true).
SwapButtons(option) ==
    /\ option \in Options \cap {"swapXY", "swapMenuButtons"}
    /\ db' = [db EXCEPT ![option] = ~@]
    /\ SetLive(ApplyButtonLayout(live, db'), ~active)
    /\ UNCHANGED uiVars

\* The menu button that swaps A and B also leaves UI mode.
SwapAB ==
    /\ "swapAB" \in Options
    /\ db' = [db EXCEPT !.swapAB = ~@]
    /\ \/ LeaveUIMode(db')
       \/ /\ ~active
          /\ SetLive(ApplyButtonLayout(live, db'), TRUE)
          /\ UNCHANGED uiVars

\* /dino layout xbox, /dino layout nintendo
SlashLayout ==
    /\ "swapAB" \in Options
    /\ \E nintendo \in BOOLEAN : db' = [db EXCEPT !.swapAB = nintendo]
    /\ SetLive(ApplyButtonLayout(live, db'), ~active)
    /\ UNCHANGED uiVars

SetTargetMode ==
    /\ "targetMode" \in Options
    /\ \E mode \in {"dps", "healer"} : db' = [db EXCEPT !.targetMode = mode]
    /\ SetLive(Bind(live, TargetMode(db')), ~active)
    /\ UNCHANGED uiVars

\* /dino ui
SetUIEnabled ==
    /\ "uiEnabled" \in Options
    /\ \E enabled \in BOOLEAN :
         /\ db' = [db EXCEPT !.uiEnabled = enabled]
         /\ \/ ~enabled /\ LeaveUIModeIfActive(db')
            \/ enabled /\ UNCHANGED <<live, saved, uiVars>>

\* /dino bind: InstallBindings(true), in UI mode as well.
SlashBind ==
    /\ "bind" \in Options
    /\ db' = [db EXCEPT !.bindingsInstalled = TRUE]
    /\ SetLive(InstalledBindings(live, db), TRUE)
    /\ UNCHANGED uiVars

SetControllerEnabled ==
    /\ "controllerEnabled" \in Options
    /\ \/ /\ db' = [db EXCEPT !.controllerEnabled = TRUE, !.bindingsInstalled = TRUE]
          /\ SetLive(InstalledBindings(live, db'), TRUE)
          /\ UNCHANGED uiVars
       \/ /\ db' = [db EXCEPT !.controllerEnabled = FALSE]
          /\ LeaveUIModeIfActive(db')

\* SPELLS_CHANGED, and UNIT_INVENTORY_CHANGED of the player.
InventoryChanged ==
    /\ SetLive(ApplyButtonLayout(live, db), FALSE)
    /\ UNCHANGED <<db, uiVars>>

InSession ==
    /\ inWorld
    /\ \/ \E option \in Options : SwapButtons(option)
       \/ SwapAB
       \/ SlashLayout
       \/ SetTargetMode
       \/ SetUIEnabled
       \/ SlashBind
       \/ SetControllerEnabled
       \/ InventoryChanged
    /\ UNCHANGED <<savedDB, clientVars, inWorld>>

-----------------------------------------------------------------------------
(* Login, loading screens, logout *)

\* PLAYER_ENTERING_WORLD: at login, and after every loading screen, with windows
\* open or not.
PlayerEnteringWorld ==
    LET installed == IF db.bindingsInstalled THEN live ELSE InstalledBindings(live, db)
        layout == ApplyButtonLayout(installed, db)
    IN  /\ SetLive(Bind(Bind(layout, TargetMode(db)), WorldDPad), TRUE)
        /\ db' = [db EXCEPT !.bindingsInstalled = TRUE]
        /\ inWorld' = TRUE
        /\ UNCHANGED <<savedDB, uiVars, clientVars>>

\* A new session begins with the options d and the bindings b.
NewSession(d, b) ==
    /\ inWorld
    /\ db' = d
    /\ live' = b
    /\ active' = FALSE
    /\ temp' = NoBindings
    /\ map' = FALSE
    /\ window' = FALSE
    /\ inWorld' = FALSE
    /\ UNCHANGED saved

Logout == NewSession(db, saved) /\ savedDB' = db

\* /reload: the client may keep its live bindings.
ReloadUI == (\E b \in {live, saved} : NewSession(db, b)) /\ savedDB' = db

\* The options of this session are lost, the saved bindings are not.
Crash == NewSession(savedDB, saved) /\ UNCHANGED savedDB

ShowOrHideWindow ==
    /\ inWorld
    /\ \/ map' = ~map /\ UNCHANGED window
       \/ window' = ~window /\ UNCHANGED map
    /\ UNCHANGED <<db, savedDB, live, saved, uiVars, inWorld>>

-----------------------------------------------------------------------------

Defaults == [swapAB |-> FALSE, swapXY |-> FALSE, swapMenuButtons |-> FALSE,
             targetMode |-> "dps", controllerEnabled |-> TRUE, uiEnabled |-> TRUE,
             bindingsInstalled |-> FALSE]

\* The first login with the add-on.
Init ==
    /\ db = Defaults
    /\ savedDB = Defaults
    /\ live = [k \in Keys |-> "OWN"]
    /\ saved = [k \in Keys |-> "OWN"]
    /\ active = FALSE
    /\ temp = NoBindings
    /\ map = FALSE
    /\ window = FALSE
    /\ inWorld = FALSE

Next ==
    \/ RefreshElements
    \/ TaxiMapClosed
    \/ InSession
    \/ PlayerEnteringWorld
    \/ Logout
    \/ ReloadUI
    \/ Crash
    \/ ShowOrHideWindow

Spec == Init /\ [][Next]_vars

-----------------------------------------------------------------------------
(* Properties *)

\* The world bindings the options d ask for, on the keys whose world command the
\* add-on sets again at every login.
WorldBindings(d) == Bind(Bind(Bind(live, ButtonLayout(d)), TargetMode(d)), WorldDPad)

\* Whatever options were changed in UI mode, by whichever of the menu and slash
\* handlers, and however sessions ended before, outside UI mode the keys have
\* the world commands of the options of now.
WorldBindingsRestored == inWorld /\ ~active => live = WorldBindings(db)

\* DinoController.lua:541-543: what was changed in UI mode without saving is saved
\* when UI mode is left; so outside UI mode nothing is lost by a crash.
NothingUnsaved == inWorld /\ ~active => saved = live

\* DinoController.lua:548-550: no event and no option takes Confirm or Cancel away
\* in UI mode, or puts both on one key.
ConfirmAndCancel ==
    active => {live["NUMPAD0"], live["NUMPAD9"]} = {"UI_ACTIVATE", "UI_CANCEL"}

\* What LeaveUIMode will put back is never itself a command of UI mode, even when
\* bindings saved during UI mode were loaded after a crash.
TemporaryBindingsAreWorld ==
    \A k \in DOMAIN temp : temp[k] \notin UICommands

\* DinoController.lua:541-543 "Do not save these bindings permanently": the saved
\* bindings hold neither UI commands nor movement keys disabled for the map.
SavedBindingsAreWorld ==
    \A k \in Keys : saved[k] \notin UICommands \cup {Unbound}
=============================================================================
