---------------------- MODULE ControllerBindingsProofs ----------------------
(***************************************************************************)
(* Proofs about ControllerBindings, for any set of options.                *)
(***************************************************************************)
EXTENDS ControllerBindings, TLAPS

LayoutKeys == {"NUMPAD0", "NUMPAD9", "NUMPADMINUS", "NUMPADPLUS", "NUMPAD5"}

\* Keys the add-on does not bind again at login.
UnmanagedKeys == {"NUMPAD8", "F12"}

\* Outside UI mode: the layout and the D-pad are those of the world, and saved.
WorldPart ==
    inWorld /\ ~active =>
        /\ \A k \in LayoutKeys : live[k] = ButtonLayout(db)[k]
        /\ live["DPad"] = "HUD_ACTION"
        /\ saved = live

\* In UI mode: the former commands of the keys are kept, and are world commands.
UIPart ==
    active =>
        /\ inWorld
        /\ {"DPad", "NUMPAD0", "NUMPAD9"} \subseteq DOMAIN temp
        /\ temp["DPad"] = "HUD_ACTION"

TargetPart == inWorld => live["NUMPAD1"] = TargetMode(db)["NUMPAD1"]

UnmanagedPart ==
    \A k \in UnmanagedKeys : live[k] \notin UICommands /\ saved[k] \notin UICommands

IInv ==
    /\ TypeOK
    /\ WorldPart
    /\ UIPart
    /\ TargetPart
    /\ UnmanagedPart
    /\ ConfirmAndCancel
    /\ TemporaryBindingsAreWorld

-----------------------------------------------------------------------------
(* The operators on bindings *)

LEMMA KeysSplit == Keys = LayoutKeys \cup UnmanagedKeys \cup {"DPad", "NUMPAD1"}
  BY DEF Keys, LayoutKeys, UnmanagedKeys

LEMMA LayoutType ==
    ASSUME NEW d \in DB
    PROVE  /\ DOMAIN ButtonLayout(d) = LayoutKeys
           /\ \A k \in LayoutKeys : ButtonLayout(d)[k] \in Commands \ UICommands
  BY DEF ButtonLayout, LayoutKeys, Swap, Commands, UICommands, Unbound

LEMMA TargetModeType ==
    ASSUME NEW d \in DB
    PROVE  /\ DOMAIN TargetMode(d) = {"NUMPAD1"}
           /\ TargetMode(d)["NUMPAD1"] \in Commands
  BY DEF TargetMode, Commands

LEMMA UIBindingsFacts ==
    /\ {"DPad", "NUMPAD0", "NUMPAD9"} \subseteq DOMAIN UIBindings
    /\ DOMAIN UIBindings \subseteq TemporaryKeys
    /\ \A k \in DOMAIN UIBindings : UIBindings[k] \in Commands
    /\ \A k \in DOMAIN UIBindings \cap UnmanagedKeys : UIBindings[k] = Unbound
    /\ {UIBindings["NUMPAD0"], UIBindings["NUMPAD9"]} = {"UI_ACTIVATE", "UI_CANCEL"}
  BY DEF UIBindings, TemporaryKeys, Keys, Commands, UICommands, Unbound, UnmanagedKeys, Swap

LEMMA BindType ==
    ASSUME NEW b \in [Keys -> Commands], NEW f,
           \A k \in DOMAIN f \cap Keys : f[k] \in Commands
    PROVE  Bind(b, f) \in [Keys -> Commands]
  BY DEF Bind

LEMMA BindAt ==
    ASSUME NEW b, NEW f, NEW k \in Keys
    PROVE  Bind(b, f)[k] = IF k \in DOMAIN f THEN f[k] ELSE b[k]
  BY DEF Bind

\* ApplyButtonLayout, by key.
LEMMA ApplyButtonLayoutFacts ==
    ASSUME NEW b \in [Keys -> Commands], NEW d \in DB
    PROVE  /\ ApplyButtonLayout(b, d) \in [Keys -> Commands]
           /\ active => ApplyButtonLayout(b, d) = b
           /\ ~active => \A k \in LayoutKeys : ApplyButtonLayout(b, d)[k] = ButtonLayout(d)[k]
           /\ \A k \in Keys \ LayoutKeys : ApplyButtonLayout(b, d)[k] = b[k]
<1> DEFINE bound == Bind(b, ButtonLayout(d))
<1>1. bound \in [Keys -> Commands]
  BY LayoutType, BindType
<1>2. ASSUME NEW k \in Keys
      PROVE  bound[k] = IF k \in LayoutKeys THEN ButtonLayout(d)[k] ELSE b[k]
  BY LayoutType, BindAt
<1>3. LayoutKeys \subseteq Keys
  BY KeysSplit
<1>4. ApplyButtonLayout(b, d) = IF active THEN b ELSE bound
  BY DEF ApplyButtonLayout
<1> HIDE DEF bound
<1>5. CASE active
  BY <1>4, <1>5
<1>6. CASE ~active
  <2>1. ApplyButtonLayout(b, d) = bound
    BY <1>4, <1>6
  <2> QED
    BY <1>1, <1>2, <1>3, <1>6, <2>1
<1> QED
  BY <1>5, <1>6

\* InstallBindings, by key.
LEMMA InstalledBindingsFacts ==
    ASSUME NEW b \in [Keys -> Commands], NEW d \in DB
    PROVE  /\ InstalledBindings(b, d) \in [Keys -> Commands]
           /\ InstalledBindings(b, d)["NUMPAD8"] = "MOVE"
           /\ InstalledBindings(b, d)["F12"] = b["F12"]
           /\ InstalledBindings(b, d)["DPad"] = "HUD_ACTION"
           /\ InstalledBindings(b, d)["NUMPAD1"] = TargetMode(d)["NUMPAD1"]
           /\ active => \A k \in {"NUMPAD0", "NUMPAD9"} : InstalledBindings(b, d)[k] = b[k]
           /\ ~active => \A k \in LayoutKeys : InstalledBindings(b, d)[k] = ButtonLayout(d)[k]
<1> DEFINE controller == Bind(b, ControllerKeys)
           target == Bind(controller, TargetMode(d))
           layout == ApplyButtonLayout(target, d)
<1>1. /\ DOMAIN ControllerKeys = {"NUMPAD8", "NUMPAD5"}
      /\ ControllerKeys["NUMPAD8"] = "MOVE"
      /\ \A k \in DOMAIN ControllerKeys : ControllerKeys[k] \in Commands
  BY DEF ControllerKeys, Commands
<1>2. /\ DOMAIN WorldDPad = {"DPad"}
      /\ WorldDPad["DPad"] = "HUD_ACTION"
      /\ "HUD_ACTION" \in Commands
  BY DEF WorldDPad, Commands
<1>3. controller \in [Keys -> Commands]
  BY <1>1, BindType
<1>4. target \in [Keys -> Commands]
  BY <1>3, TargetModeType, BindType
<1>5. /\ target["NUMPAD8"] = "MOVE"
      /\ target["F12"] = b["F12"]
      /\ target["NUMPAD1"] = TargetMode(d)["NUMPAD1"]
      /\ \A k \in {"NUMPAD0", "NUMPAD9"} : target[k] = b[k]
  BY <1>1, TargetModeType, BindAt DEF Keys
<1> HIDE DEF controller, target
<1>6. /\ layout \in [Keys -> Commands]
      /\ active => layout = target
      /\ ~active => \A k \in LayoutKeys : layout[k] = ButtonLayout(d)[k]
      /\ \A k \in Keys \ LayoutKeys : layout[k] = target[k]
  BY <1>4, ApplyButtonLayoutFacts
<1> HIDE DEF layout
<1>7. InstalledBindings(b, d) = Bind(layout, WorldDPad)
  BY DEF InstalledBindings, layout, target, controller
<1>8. /\ Bind(layout, WorldDPad) \in [Keys -> Commands]
      /\ Bind(layout, WorldDPad)["DPad"] = "HUD_ACTION"
      /\ \A k \in Keys \ {"DPad"} : Bind(layout, WorldDPad)[k] = layout[k]
  BY <1>2, <1>6, BindType, BindAt DEF Keys
<1> QED
  BY <1>5, <1>6, <1>7, <1>8 DEF Keys, LayoutKeys

\* What LeaveUIMode ends with, by key.
LEMMA RestoredBindingsFacts ==
    ASSUME IInv, NEW d \in DB
    PROVE  /\ RestoredBindings(d) \in [Keys -> Commands]
           /\ \A k \in LayoutKeys : RestoredBindings(d)[k] = ButtonLayout(d)[k]
           /\ active => RestoredBindings(d)["DPad"] = "HUD_ACTION"
           /\ RestoredBindings(d)["NUMPAD1"] = live["NUMPAD1"]
           /\ \A k \in UnmanagedKeys : RestoredBindings(d)[k] \notin UICommands
<1> DEFINE former == Bind(live, temp)
<1>1. /\ live \in [Keys -> Commands]
      /\ DOMAIN temp \subseteq TemporaryKeys
      /\ \A k \in DOMAIN temp : temp[k] \in Commands
  BY DEF IInv, TypeOK
<1>2. former \in [Keys -> Commands]
  BY <1>1, BindType
<1>3. active => former["DPad"] = "HUD_ACTION"
  BY BindAt DEF IInv, UIPart, Keys
<1>4. former["NUMPAD1"] = live["NUMPAD1"]
  BY <1>1, BindAt DEF TemporaryKeys, Keys
<1>5. \A k \in UnmanagedKeys : former[k] \notin UICommands
  BY BindAt DEF IInv, UnmanagedPart, TemporaryBindingsAreWorld, UnmanagedKeys, Keys
<1>6. RestoredBindings(d) = Bind(former, ButtonLayout(d))
  BY DEF RestoredBindings
<1> HIDE DEF former
<1>7. RestoredBindings(d) \in [Keys -> Commands]
  BY <1>2, <1>6, LayoutType, BindType
<1>8. ASSUME NEW k \in Keys
      PROVE  RestoredBindings(d)[k] = IF k \in LayoutKeys THEN ButtonLayout(d)[k] ELSE former[k]
  BY <1>6, LayoutType, BindAt
<1> QED
  BY <1>3, <1>4, <1>5, <1>7, <1>8 DEF Keys, LayoutKeys, UnmanagedKeys

-----------------------------------------------------------------------------
(* The steps *)

LEMMA InitIInv == Init => IInv
<1> SUFFICES ASSUME Init  PROVE IInv
  OBVIOUS
<1>1. TypeOK
  BY DEF Init, TypeOK, DB, Defaults, Commands, NoBindings, TemporaryKeys, Keys
<1>2. UnmanagedPart
  BY DEF Init, UnmanagedPart, UnmanagedKeys, UICommands, Keys
<1>3. TemporaryBindingsAreWorld
  BY DEF Init, TemporaryBindingsAreWorld, NoBindings
<1> QED
  BY <1>1, <1>2, <1>3
  DEF Init, IInv, WorldPart, UIPart, TargetPart, ConfirmAndCancel

LEMMA LayoutKeysFacts ==
    /\ LayoutKeys \subseteq Keys /\ UnmanagedKeys \subseteq Keys
    /\ "DPad" \in Keys \ LayoutKeys /\ "NUMPAD1" \in Keys \ LayoutKeys
    /\ UnmanagedKeys \cap LayoutKeys = {}
    /\ "DPad" \notin UnmanagedKeys /\ "NUMPAD1" \notin UnmanagedKeys
    /\ {"NUMPAD0", "NUMPAD9"} \subseteq LayoutKeys
  BY DEF Keys, LayoutKeys, UnmanagedKeys

\* Entering UI mode: all that is put aside is a command of the world.
LEMMA EnterUIModeIInv ==
    ASSUME IInv, inWorld, EnterUIMode, UNCHANGED <<db, savedDB, clientVars, inWorld>>
    PROVE  IInv'
<1>1. /\ live \in [Keys -> Commands] /\ saved \in [Keys -> Commands] /\ db \in DB
      /\ ~active
  BY DEF IInv, TypeOK, EnterUIMode
<1>2. \A k \in TemporaryKeys : live[k] \in Commands \ UICommands
  <2>1. \A k \in LayoutKeys : live[k] \in Commands \ UICommands
    BY <1>1, LayoutType DEF IInv, WorldPart
  <2>2. live["DPad"] \in Commands \ UICommands
    BY <1>1 DEF IInv, WorldPart, Commands, UICommands, Unbound
  <2>3. \A k \in UnmanagedKeys : live[k] \in Commands \ UICommands
    BY <1>1, KeysSplit DEF IInv, UnmanagedPart
  <2> QED
    BY <2>1, <2>2, <2>3, KeysSplit DEF TemporaryKeys
<1>3. /\ DOMAIN temp' = DOMAIN UIBindings
      /\ \A k \in DOMAIN UIBindings : temp'[k] = live[k]
      /\ live' = Bind(live, UIBindings)
      /\ active' = TRUE /\ saved' = saved
  BY DEF EnterUIMode
<1>4. /\ DOMAIN temp' \subseteq TemporaryKeys
      /\ temp' \in [DOMAIN temp' -> Commands]
      /\ TemporaryBindingsAreWorld'
  BY <1>2, UIBindingsFacts DEF EnterUIMode, TemporaryBindingsAreWorld
<1>5. live' \in [Keys -> Commands]
  BY <1>1, <1>3, UIBindingsFacts, BindType
<1>6. TypeOK'
  BY <1>3, <1>4, <1>5 DEF IInv, TypeOK, clientVars
<1>7. UIPart'
  BY <1>1, <1>3, UIBindingsFacts DEF IInv, WorldPart, UIPart
<1>8. TargetPart'
  <2>1. "NUMPAD1" \in Keys /\ "NUMPAD1" \notin DOMAIN UIBindings
    BY UIBindingsFacts DEF Keys, TemporaryKeys
  <2>2. live'["NUMPAD1"] = live["NUMPAD1"]
    BY <1>3, <2>1, BindAt
  <2> QED
    BY <2>2 DEF IInv, TargetPart, TargetMode
<1>9. UnmanagedPart'
  <2>1. Unbound \notin UICommands
    BY DEF Unbound, UICommands
  <2>2. ASSUME NEW k \in UnmanagedKeys  PROVE live'[k] \notin UICommands
    BY <1>3, <2>1, UIBindingsFacts, BindAt, LayoutKeysFacts DEF IInv, UnmanagedPart
  <2> QED
    BY <1>3, <2>2 DEF IInv, UnmanagedPart
<1>10. ConfirmAndCancel'
  BY <1>3, UIBindingsFacts, BindAt, LayoutKeysFacts DEF ConfirmAndCancel
<1>11. WorldPart'
  BY <1>3 DEF WorldPart
<1> QED
  BY <1>4, <1>6, <1>7, <1>8, <1>9, <1>10, <1>11 DEF IInv

\* Leaving UI mode restores and saves the world of the options of now.
LEMMA LeaveUIModeIInv ==
    ASSUME IInv, NEW d \in DB, LeaveUIMode(d), db' = d, d.targetMode = db.targetMode,
           savedDB' \in DB, UNCHANGED inWorld, map' \in BOOLEAN, window' \in BOOLEAN
    PROVE  IInv'
<1>1. /\ active /\ active' = FALSE /\ inWorld /\ inWorld' \in BOOLEAN
      /\ temp' = NoBindings
      /\ live' = RestoredBindings(d) /\ saved' = live'
  BY DEF LeaveUIMode, IInv, UIPart, TypeOK
<1>2. /\ live' \in [Keys -> Commands]
      /\ \A k \in LayoutKeys : live'[k] = ButtonLayout(d)[k]
      /\ live'["DPad"] = "HUD_ACTION"
      /\ live'["NUMPAD1"] = live["NUMPAD1"]
      /\ \A k \in UnmanagedKeys : live'[k] \notin UICommands
  BY <1>1, RestoredBindingsFacts
<1>3. /\ DOMAIN temp' \subseteq TemporaryKeys
      /\ temp' \in [DOMAIN temp' -> Commands]
      /\ TemporaryBindingsAreWorld'
  BY <1>1 DEF NoBindings, TemporaryBindingsAreWorld
<1>4. TypeOK'
  BY <1>1, <1>2, <1>3 DEF TypeOK
<1>5. WorldPart'
  <2>1. ButtonLayout(d) = ButtonLayout(db)'
    BY DEF ButtonLayout
  <2> QED
    BY <1>1, <1>2, <2>1 DEF WorldPart
<1>6. TargetPart'
  BY <1>1, <1>2 DEF IInv, TargetPart, TargetMode
<1> QED
  BY <1>1, <1>2, <1>3, <1>4, <1>5, <1>6 DEF IInv, UIPart, UnmanagedPart, ConfirmAndCancel

\* Handlers that set live bindings and leave the mode alone: in UI mode they must
\* keep Confirm and Cancel, outside it they must end with the world's, saved.
LEMMA SetLiveIInv ==
    ASSUME IInv, db' \in DB, savedDB' \in DB, UNCHANGED <<uiVars, clientVars>>,
           inWorld' \in BOOLEAN, inWorld => inWorld',
           NEW b \in [Keys -> Commands], NEW save, SetLive(b, save),
           b["NUMPAD1"] = TargetMode(db')["NUMPAD1"],
           \A k \in UnmanagedKeys : b[k] \notin UICommands,
           active => \A k \in {"NUMPAD0", "NUMPAD9"} : b[k] = live[k],
           ~active => /\ \A k \in LayoutKeys : b[k] = ButtonLayout(db')[k]
                      /\ b["DPad"] = "HUD_ACTION"
                      /\ save \/ saved = b
    PROVE  IInv'
<1>1. /\ active' = active /\ temp' = temp /\ map' = map /\ window' = window
      /\ live' = b /\ saved' = IF save THEN b ELSE saved
  BY DEF uiVars, clientVars, SetLive
<1>2. TypeOK'
  BY <1>1 DEF IInv, TypeOK
<1>3. WorldPart'
  <2>1. ButtonLayout(db') = ButtonLayout(db)'
    BY DEF ButtonLayout
  <2> QED
    BY <1>1, <2>1 DEF WorldPart
<1>4. UIPart'
  BY <1>1 DEF IInv, UIPart
<1>5. TargetPart'
  BY <1>1 DEF TargetPart, TargetMode
<1>6. UnmanagedPart'
  BY <1>1 DEF IInv, UnmanagedPart
<1>7. ConfirmAndCancel'
  BY <1>1 DEF IInv, ConfirmAndCancel
<1>8. TemporaryBindingsAreWorld'
  BY <1>1 DEF IInv, TemporaryBindingsAreWorld
<1> QED
  BY <1>2, <1>3, <1>4, <1>5, <1>6, <1>7, <1>8 DEF IInv

\* Applying the layout of other options that keep the target mode.
LEMMA ApplyLayoutIInv ==
    ASSUME IInv, inWorld, UNCHANGED <<savedDB, uiVars, clientVars, inWorld>>,
           db' \in DB, db'.targetMode = db.targetMode,
           NEW save, SetLive(ApplyButtonLayout(live, db'), save),
           ~active /\ ~save => db' = db
    PROVE  IInv'
<1> DEFINE b == ApplyButtonLayout(live, db')
<1>1. live \in [Keys -> Commands] /\ savedDB' \in DB /\ inWorld' \in BOOLEAN
  BY DEF IInv, TypeOK
<1>2. /\ b \in [Keys -> Commands]
      /\ active => b = live
      /\ ~active => \A k \in LayoutKeys : b[k] = ButtonLayout(db')[k]
      /\ \A k \in Keys \ LayoutKeys : b[k] = live[k]
  BY <1>1, ApplyButtonLayoutFacts
<1>3. SetLive(b, save)
  OBVIOUS
<1> HIDE DEF b
<1>4. b["NUMPAD1"] = TargetMode(db')["NUMPAD1"]
  BY <1>2, LayoutKeysFacts DEF IInv, TargetPart, TargetMode
<1>5. \A k \in UnmanagedKeys : b[k] \notin UICommands
  BY <1>2, LayoutKeysFacts DEF IInv, UnmanagedPart
<1>6. ASSUME ~active  PROVE b["DPad"] = "HUD_ACTION" /\ (save \/ saved = b)
  <2>1. live["DPad"] = "HUD_ACTION" /\ saved = live
    BY <1>6 DEF IInv, WorldPart
  <2>2. ASSUME ~save  PROVE b = live
    <3>1. \A k \in LayoutKeys : b[k] = live[k]
      BY <1>2, <1>6, <2>2 DEF IInv, WorldPart
    <3> QED
      BY <1>1, <1>2, <3>1
  <2> QED
    BY <1>2, <2>1, <2>2, LayoutKeysFacts
<1>7. UNCHANGED <<uiVars, clientVars>>
  OBVIOUS
<1> QED
  BY <1>1, <1>2, <1>3, <1>4, <1>5, <1>6, <1>7, SetLiveIInv

\* InstallBindings(true), in UI mode or not.
LEMMA InstallIInv ==
    ASSUME IInv, UNCHANGED <<uiVars, clientVars>>, savedDB' \in DB,
           inWorld' \in BOOLEAN, inWorld => inWorld', NEW d \in DB, db' \in DB,
           ButtonLayout(d) = ButtonLayout(db'), TargetMode(d) = TargetMode(db'),
           SetLive(InstalledBindings(live, d), TRUE)
    PROVE  IInv'
<1> DEFINE b == InstalledBindings(live, d)
<1>1. live \in [Keys -> Commands] /\ "MOVE" \notin UICommands
  BY DEF IInv, TypeOK, UICommands
<1>2. /\ b \in [Keys -> Commands]
      /\ \A k \in UnmanagedKeys : b[k] \notin UICommands
      /\ b["DPad"] = "HUD_ACTION"
      /\ b["NUMPAD1"] = TargetMode(db')["NUMPAD1"]
      /\ active => \A k \in {"NUMPAD0", "NUMPAD9"} : b[k] = live[k]
      /\ ~active => \A k \in LayoutKeys : b[k] = ButtonLayout(db')[k]
  BY <1>1, InstalledBindingsFacts DEF IInv, UnmanagedPart, UnmanagedKeys
<1>3. SetLive(b, TRUE)
  OBVIOUS
<1> HIDE DEF b
<1> QED
  BY <1>2, <1>3, SetLiveIInv

LEMMA SetTargetModeIInv ==
    ASSUME IInv, inWorld, SetTargetMode, UNCHANGED <<savedDB, clientVars, inWorld>>
    PROVE  IInv'
<1> PICK mode \in {"dps", "healer"} : db' = [db EXCEPT !.targetMode = mode]
  BY DEF SetTargetMode
<1> DEFINE b == Bind(live, TargetMode(db'))
<1>1. /\ db' \in DB /\ savedDB' \in DB /\ inWorld' \in BOOLEAN
      /\ live \in [Keys -> Commands]
  BY DEF IInv, TypeOK, DB
<1>2. b \in [Keys -> Commands]
  BY <1>1, TargetModeType, BindType
<1>3. /\ b["NUMPAD1"] = TargetMode(db')["NUMPAD1"]
      /\ \A k \in Keys \ {"NUMPAD1"} : b[k] = live[k]
  BY <1>1, TargetModeType, BindAt, LayoutKeysFacts
<1>4. ButtonLayout(db') = ButtonLayout(db)
  <2>1. /\ db'.swapAB = db.swapAB /\ db'.swapXY = db.swapXY
        /\ db'.swapMenuButtons = db.swapMenuButtons
    BY DEF IInv, TypeOK, DB
  <2> QED
    BY <2>1 DEF ButtonLayout
<1>5. SetLive(b, ~active) /\ UNCHANGED <<uiVars, clientVars>>
  BY DEF SetTargetMode
<1> HIDE DEF b
<1>6. \A k \in UnmanagedKeys : b[k] \notin UICommands
  BY <1>3, LayoutKeysFacts DEF IInv, UnmanagedPart
<1>7. \A k \in {"NUMPAD0", "NUMPAD9"} : b[k] = live[k]
  BY <1>3, LayoutKeysFacts
<1>8. ~active => /\ \A k \in LayoutKeys : b[k] = ButtonLayout(db')[k]
                 /\ b["DPad"] = "HUD_ACTION"
  BY <1>3, <1>4, LayoutKeysFacts DEF IInv, WorldPart
<1> QED
  BY <1>1, <1>2, <1>3, <1>5, <1>6, <1>7, <1>8, SetLiveIInv

\* The handlers of the options and slash commands.
LEMMA InSessionIInv == IInv /\ InSession => IInv'
<1> SUFFICES ASSUME IInv, InSession  PROVE IInv'
  OBVIOUS
<1>1. /\ db \in DB /\ active \in BOOLEAN
      /\ inWorld /\ UNCHANGED <<savedDB, clientVars, inWorld>>
      /\ savedDB' \in DB /\ map' \in BOOLEAN /\ window' \in BOOLEAN /\ inWorld' \in BOOLEAN
  BY DEF InSession, IInv, TypeOK, clientVars
<1>2. ASSUME NEW option \in Options, SwapButtons(option)  PROVE IInv'
  <2>1. db' \in DB /\ db'.targetMode = db.targetMode
    BY <1>1, <1>2 DEF SwapButtons, DB
  <2> QED
    BY <1>1, <1>2, <2>1, ApplyLayoutIInv DEF SwapButtons
<1>3. CASE SwapAB
  <2>1. db' \in DB /\ db'.targetMode = db.targetMode
    BY <1>1, <1>3 DEF SwapAB, DB
  <2>2. CASE LeaveUIMode(db')
    BY <1>1, <2>1, <2>2, LeaveUIModeIInv
  <2>3. CASE ~active /\ SetLive(ApplyButtonLayout(live, db'), TRUE) /\ UNCHANGED uiVars
    BY <1>1, <2>1, <2>3, ApplyLayoutIInv
  <2> QED
    BY <1>3, <2>2, <2>3 DEF SwapAB
<1>4. CASE SlashLayout
  <2>1. db' \in DB /\ db'.targetMode = db.targetMode
    BY <1>1, <1>4 DEF SlashLayout, DB
  <2> QED
    BY <1>1, <1>4, <2>1, ApplyLayoutIInv DEF SlashLayout
<1>5. CASE SetTargetMode
  BY <1>1, <1>5, SetTargetModeIInv
<1>6. CASE SetUIEnabled
  <2>1. /\ db' \in DB /\ db'.targetMode = db.targetMode
        /\ ButtonLayout(db') = ButtonLayout(db) /\ TargetMode(db') = TargetMode(db)
    BY <1>1, <1>6 DEF SetUIEnabled, DB, ButtonLayout, TargetMode
  <2>2. CASE LeaveUIMode(db')
    BY <1>1, <2>1, <2>2, LeaveUIModeIInv
  <2>3. CASE UNCHANGED <<live, saved, uiVars>>
    BY <1>1, <2>1, <2>3
    DEF IInv, TypeOK, WorldPart, UIPart, TargetPart, UnmanagedPart, ConfirmAndCancel,
        TemporaryBindingsAreWorld, uiVars, clientVars, ButtonLayout, TargetMode
  <2> QED
    BY <1>6, <2>2, <2>3 DEF SetUIEnabled, LeaveUIModeIfActive
<1>7. CASE SlashBind
  <2>1. /\ db' \in DB
        /\ ButtonLayout(db) = ButtonLayout(db') /\ TargetMode(db) = TargetMode(db')
    BY <1>1, <1>7 DEF SlashBind, DB, ButtonLayout, TargetMode
  <2>2. SetLive(InstalledBindings(live, db), TRUE) /\ UNCHANGED <<uiVars, clientVars>>
    BY <1>1, <1>7 DEF SlashBind
  <2>3. inWorld => inWorld'
    BY <1>1
  <2> QED
    BY <1>1, <2>1, <2>2, <2>3, InstallIInv
<1>8. CASE SetControllerEnabled
  <2>1. /\ db' \in DB /\ db'.targetMode = db.targetMode
        /\ ButtonLayout(db') = ButtonLayout(db) /\ TargetMode(db') = TargetMode(db)
    BY <1>1, <1>8 DEF SetControllerEnabled, DB, ButtonLayout, TargetMode
  <2>2. CASE SetLive(InstalledBindings(live, db'), TRUE) /\ UNCHANGED uiVars
    <3>1. UNCHANGED <<uiVars, clientVars>> /\ (inWorld => inWorld')
      BY <1>1, <2>2
    <3> QED
      BY <1>1, <2>1, <2>2, <3>1, InstallIInv
  <2>3. CASE LeaveUIMode(db')
    BY <1>1, <2>1, <2>3, LeaveUIModeIInv
  <2>4. CASE UNCHANGED <<live, saved, uiVars>>
    BY <1>1, <2>1, <2>4
    DEF IInv, TypeOK, WorldPart, UIPart, TargetPart, UnmanagedPart, ConfirmAndCancel,
        TemporaryBindingsAreWorld, uiVars, clientVars, ButtonLayout, TargetMode
  <2> QED
    BY <1>8, <2>2, <2>3, <2>4 DEF SetControllerEnabled, LeaveUIModeIfActive
<1>9. CASE InventoryChanged
  <2>1. db' = db /\ SetLive(ApplyButtonLayout(live, db'), FALSE) /\ UNCHANGED uiVars
    BY <1>9 DEF InventoryChanged
  <2> QED
    BY <1>1, <2>1, ApplyLayoutIInv
<1> QED
  BY <1>2, <1>3, <1>4, <1>5, <1>6, <1>7, <1>8, <1>9 DEF InSession

\* At login and after loading screens.
LEMMA PlayerEnteringWorldIInv == IInv /\ PlayerEnteringWorld => IInv'
<1> SUFFICES ASSUME IInv, PlayerEnteringWorld  PROVE IInv'
  OBVIOUS
<1> DEFINE installed == IF db.bindingsInstalled THEN live ELSE InstalledBindings(live, db)
           layout == ApplyButtonLayout(installed, db)
           target == Bind(layout, TargetMode(db))
           b == Bind(target, WorldDPad)
<1>1. /\ db \in DB /\ savedDB' \in DB /\ db' \in DB
      /\ live \in [Keys -> Commands] /\ "MOVE" \notin UICommands
      /\ inWorld' \in BOOLEAN /\ (inWorld => inWorld') /\ UNCHANGED <<uiVars, clientVars>>
  BY DEF PlayerEnteringWorld, IInv, TypeOK, DB, UICommands
<1>2. /\ installed \in [Keys -> Commands]
      /\ \A k \in UnmanagedKeys : installed[k] \notin UICommands
      /\ active => \A k \in {"NUMPAD0", "NUMPAD9"} : installed[k] = live[k]
  BY <1>1, InstalledBindingsFacts DEF IInv, UnmanagedPart, UnmanagedKeys
<1> HIDE DEF installed
<1>3. /\ layout \in [Keys -> Commands]
      /\ active => layout = installed
      /\ ~active => \A k \in LayoutKeys : layout[k] = ButtonLayout(db)[k]
      /\ \A k \in Keys \ LayoutKeys : layout[k] = installed[k]
  BY <1>1, <1>2, ApplyButtonLayoutFacts
<1> HIDE DEF layout
<1>4. /\ target \in [Keys -> Commands]
      /\ target["NUMPAD1"] = TargetMode(db)["NUMPAD1"]
      /\ \A k \in Keys \ {"NUMPAD1"} : target[k] = layout[k]
  BY <1>1, <1>3, TargetModeType, BindType, BindAt, LayoutKeysFacts
<1> HIDE DEF target
<1>5. /\ b \in [Keys -> Commands]
      /\ b["DPad"] = "HUD_ACTION"
      /\ \A k \in Keys \ {"DPad"} : b[k] = target[k]
  <2>1. /\ DOMAIN WorldDPad = {"DPad"}
        /\ WorldDPad["DPad"] = "HUD_ACTION"
        /\ "HUD_ACTION" \in Commands
    BY DEF WorldDPad, Commands
  <2> QED
    BY <1>4, <2>1, BindType, BindAt, LayoutKeysFacts
<1>6. SetLive(b, TRUE)
  BY DEF PlayerEnteringWorld, target, layout, installed
<1> HIDE DEF b
<1>7. ButtonLayout(db') = ButtonLayout(db) /\ TargetMode(db') = TargetMode(db)
  BY <1>1 DEF PlayerEnteringWorld, ButtonLayout, TargetMode, DB
<1>8. b["NUMPAD1"] = TargetMode(db')["NUMPAD1"]
  BY <1>4, <1>5, <1>7, LayoutKeysFacts
<1>9. \A k \in UnmanagedKeys : b[k] \notin UICommands
  BY <1>2, <1>3, <1>4, <1>5, LayoutKeysFacts
<1>10. active => \A k \in {"NUMPAD0", "NUMPAD9"} : b[k] = live[k]
  BY <1>2, <1>3, <1>4, <1>5, LayoutKeysFacts
<1>11. ~active => /\ \A k \in LayoutKeys : b[k] = ButtonLayout(db')[k]
                  /\ b["DPad"] = "HUD_ACTION"
  BY <1>3, <1>4, <1>5, <1>7, LayoutKeysFacts
<1> QED
  BY <1>1, <1>5, <1>6, <1>8, <1>9, <1>10, <1>11, SetLiveIInv

\* Logout, reload and crash: nothing is in force before PLAYER_ENTERING_WORLD.
LEMMA NewSessionIInv ==
    ASSUME IInv, NEW d \in DB, NEW b \in {live, saved}, NewSession(d, b), savedDB' \in DB
    PROVE  IInv'
<1>1. /\ DOMAIN NoBindings = {}
      /\ NoBindings \in [DOMAIN NoBindings -> Commands]
  BY DEF NoBindings
<1>2. TypeOK'
  BY <1>1 DEF NewSession, IInv, TypeOK
<1>3. UnmanagedPart'
  BY DEF NewSession, IInv, UnmanagedPart
<1> QED
  BY <1>1, <1>2, <1>3
  DEF NewSession, IInv, WorldPart, UIPart, TargetPart, ConfirmAndCancel,
      TemporaryBindingsAreWorld

\* Every step keeps the inductive invariant.
LEMMA NextIInv == IInv /\ [Next]_vars => IInv'
<1> SUFFICES ASSUME IInv, [Next]_vars  PROVE IInv'
  OBVIOUS
<1>0. db \in DB /\ savedDB \in DB
  BY DEF IInv, TypeOK
<1>1. CASE RefreshElements
  <2>1. /\ inWorld /\ db' = db /\ db \in DB /\ savedDB' \in DB /\ UNCHANGED inWorld
        /\ map' \in BOOLEAN /\ window' \in BOOLEAN /\ db.targetMode = db.targetMode
        /\ UNCHANGED <<db, savedDB, clientVars, inWorld>>
        /\ EnterUIMode \/ LeaveUIMode(db)
    BY <1>1 DEF RefreshElements, clientVars, IInv, TypeOK
  <2> QED
    BY <2>1, EnterUIModeIInv, LeaveUIModeIInv
<1>2. CASE TaxiMapClosed
  <2>1. /\ LeaveUIMode(db) /\ db' = db /\ savedDB' \in DB /\ UNCHANGED inWorld
        /\ map' \in BOOLEAN /\ window' \in BOOLEAN
    BY <1>2 DEF TaxiMapClosed, IInv, TypeOK
  <2> QED
    BY <1>0, <2>1, LeaveUIModeIInv
<1>3. CASE Logout \/ ReloadUI \/ Crash
  <2>1. PICK d \in {db, savedDB}, b \in {live, saved} : NewSession(d, b)
    BY <1>3 DEF Logout, ReloadUI, Crash
  <2>2. savedDB' \in DB
    BY <1>0, <1>3 DEF Logout, ReloadUI, Crash
  <2> QED
    BY <1>0, <2>1, <2>2, NewSessionIInv
<1>4. CASE ShowOrHideWindow
  <2>1. UNCHANGED <<db, savedDB, live, saved, active, temp, inWorld>>
    BY <1>4 DEF ShowOrHideWindow, uiVars
  <2>2. map' \in BOOLEAN /\ window' \in BOOLEAN
    BY <1>4 DEF ShowOrHideWindow, IInv, TypeOK
  <2>3. TypeOK'
    BY <2>1, <2>2 DEF IInv, TypeOK
  <2> QED
    BY <2>1, <2>3 DEF IInv, WorldPart, UIPart, TargetPart, UnmanagedPart,
                      ConfirmAndCancel, TemporaryBindingsAreWorld, ButtonLayout, TargetMode
<1>5. CASE UNCHANGED vars
  BY <1>5 DEF vars, IInv, TypeOK, WorldPart, UIPart, TargetPart, UnmanagedPart,
              ConfirmAndCancel, TemporaryBindingsAreWorld, ButtonLayout, TargetMode
<1> QED
  BY <1>1, <1>2, <1>3, <1>4, <1>5, InSessionIInv, PlayerEnteringWorldIInv DEF Next

LEMMA InductiveInvariant == Spec => []IInv
  BY InitIInv, NextIInv, PTL DEF Spec

\* The variables of the bindings keep their types, and nothing is remembered
\* outside UI mode.
THEOREM TypeCorrect == Spec => []TypeOK
<1>1. IInv => TypeOK
  BY DEF IInv
<1> QED
  BY <1>1, InductiveInvariant, PTL

\* LeaveUIMode and PLAYER_ENTERING_WORLD always end with the world bindings of the
\* current options.
THEOREM WorldAlwaysRestored == Spec => []WorldBindingsRestored
<1>1. ASSUME IInv, inWorld, ~active  PROVE live = WorldBindings(db)
  <2> DEFINE layout == Bind(live, ButtonLayout(db))
             target == Bind(layout, TargetMode(db))
             world == Bind(target, WorldDPad)
  <2>1. db \in DB /\ live \in [Keys -> Commands]
    BY <1>1 DEF IInv, TypeOK
  <2>2. \A k \in Keys : layout[k] = live[k]
    BY <1>1, <2>1, LayoutType, BindAt DEF IInv, WorldPart
  <2>3. \A k \in Keys : target[k] = live[k]
    BY <1>1, <2>1, <2>2, TargetModeType, BindAt DEF IInv, TargetPart
  <2>4. DOMAIN WorldDPad = {"DPad"} /\ WorldDPad["DPad"] = "HUD_ACTION"
    BY DEF WorldDPad
  <2> HIDE DEF target
  <2>5. \A k \in Keys : world[k] = live[k]
    BY <1>1, <2>3, <2>4, BindAt DEF IInv, WorldPart
  <2>6. world = [k \in Keys |-> world[k]]
    BY DEF Bind
  <2> HIDE DEF world
  <2>7. world = live
    BY <2>1, <2>5, <2>6
  <2> QED
    BY <2>7 DEF world, target, WorldBindings
<1>2. IInv => WorldBindingsRestored
  BY <1>1 DEF WorldBindingsRestored
<1> QED
  BY <1>2, InductiveInvariant, PTL

\* Outside UI mode everything the handlers bound is saved.
THEOREM NothingStaysUnsaved == Spec => []NothingUnsaved
<1>1. IInv => NothingUnsaved
  BY DEF IInv, WorldPart, NothingUnsaved
<1> QED
  BY <1>1, InductiveInvariant, PTL

\* ApplyButtonLayout and InstallBindings never take Confirm or Cancel away.
THEOREM ConfirmAndCancelStay == Spec => []ConfirmAndCancel
<1>1. IInv => ConfirmAndCancel
  BY DEF IInv
<1> QED
  BY <1>1, InductiveInvariant, PTL

\* SaveAndBind never remembers a command of UI mode.
THEOREM TemporaryBindingsStayWorld == Spec => []TemporaryBindingsAreWorld
<1>1. IInv => TemporaryBindingsAreWorld
  BY DEF IInv
<1> QED
  BY <1>1, InductiveInvariant, PTL
=============================================================================
