------------------------------ MODULE MapQuest ------------------------------
(***************************************************************************)
(* The map and quest-log button of DinoController                          *)
(* (AddOns/DinoController/DinoController.lua).  With the option            *)
(* "secondary windows" its presses open, in turn, the world map and the    *)
(* quest log.  The log is opened by a later frame when a press has to      *)
(* close the map first.                                                    *)
(*                                                                         *)
(* The player also opens and closes both windows in the client's own ways, *)
(* which the code is not told of.  A full-screen map hides what lies under *)
(* it, and takes all keys: no key of the client opens the log over it.     *)
(***************************************************************************)

VARIABLES
    secondaryWindows,   \* DinoControllerDB.secondaryWindows
    nextWindow,         \* nextMapQuestWindow: what the next press opens
    pendingLog,         \* pendingMapQuestWindow = "questlog"
    mapShown,           \* external: WorldMapFrame is open
    logShown            \* external: QuestLogFrame is open, perhaps under the map

mapVars == <<secondaryWindows, nextWindow, pendingLog, mapShown, logShown>>

MapTypeOK ==
    /\ secondaryWindows \in BOOLEAN
    /\ nextWindow \in {"map", "questlog"}
    /\ pendingLog \in BOOLEAN
    /\ mapShown \in BOOLEAN
    /\ logShown \in BOOLEAN

MapInit ==
    /\ secondaryWindows \in BOOLEAN
    /\ nextWindow = "map"
    /\ pendingLog = FALSE
    /\ mapShown = FALSE
    /\ logShown = FALSE

-----------------------------------------------------------------------------

\* Whether the log is still open under a map that has come over it is the client's choice.
OpenMap ==
    /\ mapShown' = TRUE
    /\ logShown' \in {logShown, FALSE}

CloseWorldMap ==
    /\ mapShown' = FALSE
    /\ UNCHANGED logShown

OpenAndFocusQuestLog ==
    /\ logShown' = TRUE
    /\ UNCHANGED mapShown

\* The button without secondary windows is the map's only.
ToggleMapOnly ==
    /\ ~secondaryWindows
    /\ pendingLog' = FALSE
    /\ nextWindow' = "map"
    /\ IF mapShown THEN CloseWorldMap ELSE OpenMap
    /\ UNCHANGED secondaryWindows

\* A log that is open under the map is not visible, and stays.
ShowMapNext ==
    /\ secondaryWindows
    /\ nextWindow = "map"
    /\ pendingLog' = FALSE
    /\ logShown' \in IF mapShown THEN {logShown, FALSE} ELSE {FALSE}
    /\ mapShown' = TRUE
    /\ nextWindow' = "questlog"
    /\ UNCHANGED secondaryWindows

\* A mutated form: the log is opened in the press that closes the map.
ShowLogAtOnce ==
    /\ secondaryWindows
    /\ nextWindow = "questlog"
    /\ nextWindow' = "map"
    /\ OpenAndFocusQuestLog
    /\ UNCHANGED <<secondaryWindows, pendingLog>>

ShowLogNext ==
    /\ secondaryWindows
    /\ nextWindow = "questlog"
    /\ nextWindow' = "map"
    /\ IF mapShown
       THEN CloseWorldMap /\ pendingLog' = TRUE
       ELSE OpenAndFocusQuestLog /\ UNCHANGED pendingLog
    /\ UNCHANGED secondaryWindows

DinoController_ToggleMapQuest == ToggleMapOnly \/ ShowMapNext \/ ShowLogNext

\* A mutated form: both variables are set to nil.
SecondaryWindowsForgets ==
    /\ secondaryWindows' = ~secondaryWindows
    /\ IF secondaryWindows
       THEN pendingLog' = FALSE /\ nextWindow' = "nil"
       ELSE UNCHANGED <<pendingLog, nextWindow>>
    /\ UNCHANGED <<mapShown, logShown>>

SecondaryWindowsButton ==
    /\ secondaryWindows' = ~secondaryWindows
    /\ IF secondaryWindows
       THEN pendingLog' = FALSE /\ nextWindow' = "map"
       ELSE UNCHANGED <<pendingLog, nextWindow>>
    /\ UNCHANGED <<mapShown, logShown>>

\* A mutated form: a map that is open again ends the wait.
OnUpdateMapQuestOnce ==
    /\ pendingLog' = FALSE
    /\ IF ~pendingLog THEN UNCHANGED <<mapShown, logShown>>
       ELSE IF mapShown THEN CloseWorldMap ELSE OpenAndFocusQuestLog
    /\ UNCHANGED <<secondaryWindows, nextWindow>>

\* The part of every frame's OnUpdate that is about the two windows.
OnUpdateMapQuest ==
    /\ IF ~pendingLog THEN UNCHANGED <<pendingLog, mapShown, logShown>>
       ELSE IF mapShown THEN CloseWorldMap /\ UNCHANGED pendingLog
       ELSE OpenAndFocusQuestLog /\ pendingLog' = FALSE
    /\ UNCHANGED <<secondaryWindows, nextWindow>>

\* /reload closes the windows and forgets the local variables.
ReloadMapQuest ==
    /\ nextWindow' = "map"
    /\ pendingLog' = FALSE
    /\ mapShown' = FALSE
    /\ logShown' = FALSE
    /\ UNCHANGED secondaryWindows

-----------------------------------------------------------------------------
(* The player, by the client's own keys and buttons *)

PlayerTogglesMap ==
    /\ IF mapShown THEN CloseWorldMap ELSE OpenMap
    /\ UNCHANGED <<secondaryWindows, nextWindow, pendingLog>>

PlayerTogglesLog ==
    /\ ~mapShown
    /\ logShown' = ~logShown
    /\ UNCHANGED <<secondaryWindows, nextWindow, pendingLog, mapShown>>

MapInputs ==
    \/ DinoController_ToggleMapQuest
    \/ SecondaryWindowsButton
    \/ PlayerTogglesMap
    \/ PlayerTogglesLog

-----------------------------------------------------------------------------
(* Property *)

\* DinoController.lua:773: the log is left to a later frame so that it never opens
\* while the map is there, whatever was pressed in between.
LogNeverOverMap == [][~logShown /\ logShown' => ~mapShown']_mapVars
=============================================================================
