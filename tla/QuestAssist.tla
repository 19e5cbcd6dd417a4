----------------------------- MODULE QuestAssist -----------------------------
(***************************************************************************)
(* The quest help of DinoController                                        *)
(* (AddOns/DinoController/DinoController.lua), composed with the map and   *)
(* quest-log button by the OnUpdate script they share.                     *)
(*                                                                         *)
(* Auto Quest takes the only quest a character offers.  If it offers       *)
(* several, the player is to choose, also from the shorter list that is    *)
(* shown next, until the window has been closed for some seconds.          *)
(*                                                                         *)
(* Auto-track watches the quest that was accepted.  The client does not    *)
(* say which one that is: the code counts the log's entries by title       *)
(* before, and looks for more of them after, for some seconds.             *)
(***************************************************************************)
EXTENDS MapQuest, Integers, FiniteSets

CONSTANTS
    Uses,           \* which features a player may use, each a set of Features
    Quests,
    Titles,         \* titles, with level and tag
    TitleOf,        \* the title of each quest
    ClearDelay,     \* the 5 seconds of ambiguityClearAt, in ticks
    WatchDelay,     \* the 5 seconds of pendingQuestWatchUntil
    None            \* nil

Features == {"map", "list", "watch"}

ASSUME UsesAssumption == Uses \subseteq SUBSET Features
ASSUME TitleAssumption == TitleOf \in [Quests -> Titles]
ASSUME FiniteAssumption == IsFiniteSet(Quests)
ASSUME DelayAssumption == ClearDelay \in Nat /\ WatchDelay \in Nat
ASSUME NoneAssumption == None \notin Int /\ None \notin [Titles -> Nat]

VARIABLES
    uses,           \* the features the player uses; chosen once
    canWatch,       \* external: AddQuestWatch raises no error; chosen once
    autoQuest,      \* DinoControllerDB.autoQuest
    ambiguous,      \* ambiguousQuestList
    clearIn,        \* the time left to ambiguityClearAt
    windows,        \* external: the windows open with a non-player character
    autoTrack,      \* DinoControllerDB.autoTrackQuest
    snapshot,       \* pendingQuestWatchSnapshot: entries of each title
    watchIn,        \* the time left to pendingQuestWatchUntil
    log,            \* external: the quests in the log
    hidden,         \* external: those of them under a collapsed header
    tracked,        \* external: those of them that AddQuestWatch was called for
    did,            \* observed: what the last step did
    choosing,       \* observed: the time since a window came up, while a choice is the
                    \* player's; ClearDelay if none is
    arrived,        \* observed: quests that came into the log since the snapshot
    unseen,         \* observed: quests the snapshot could not see
    lost            \* observed: has an entry gone since the snapshot

listVars == <<autoQuest, ambiguous, clearIn, windows, choosing>>
pendingVars == <<snapshot, watchIn, arrived, unseen, lost>>
logVars == <<log, hidden, tracked>>
settings == <<uses, canWatch>>
vars == <<mapVars, settings, listVars, autoTrack, pendingVars, logVars, did>>

TypeOK ==
    /\ MapTypeOK
    /\ uses \in Uses
    /\ canWatch \in BOOLEAN
    /\ autoQuest \in BOOLEAN
    /\ ambiguous \in BOOLEAN
    /\ clearIn \in 0..ClearDelay \cup {None}
    /\ windows \subseteq {"gossip", "quest"}
    /\ autoTrack \in BOOLEAN
    /\ snapshot \in [Titles -> 0..Cardinality(Quests)] \cup {None}
    /\ watchIn \in 0..WatchDelay \cup {None}
    /\ log \subseteq Quests
    /\ hidden \subseteq log
    /\ tracked \subseteq log
    /\ did \in {"select", "look", "reload", "other"}
    /\ choosing \in 0..ClearDelay
    /\ arrived \subseteq log
    /\ unseen \subseteq Quests
    /\ lost \in BOOLEAN

-----------------------------------------------------------------------------
(* The quest log as the code sees it *)

\* GetQuestLogTitle does not show what a collapsed header hides.
Visible == log \ hidden

Entries(quests, title) == {q \in quests : TitleOf[q] = title}

\* A mutated form: which titles there are, not how often.
CaptureTitles == [t \in Titles |-> IF Entries(Visible, t) = {} THEN 0 ELSE 1]

CaptureQuestLogSnapshot == [t \in Titles |-> Cardinality(Entries(Visible, t))]

ForgetAccepted ==
    /\ snapshot' = None
    /\ watchIn' = None
    /\ UNCHANGED <<arrived, unseen, lost>>

\* The hook of AcceptQuest, before the client's function.
AcceptQuestHook ==
    IF autoTrack
    THEN /\ snapshot' = CaptureQuestLogSnapshot
         /\ watchIn' = WatchDelay
         /\ arrived' = {}
         /\ unseen' = hidden
         /\ lost' = FALSE
    ELSE ForgetAccepted

-----------------------------------------------------------------------------
(* Quest windows.  Any of them may come up while another is open. *)

Shown(window) == windows' = windows \cup {window}

CancelAmbiguityClear == clearIn' = None

\* A mutated form: the deadline that runs is left running.
ShownLateClear(window) ==
    /\ Shown(window)
    /\ UNCHANGED clearIn
    /\ choosing' = IF choosing < ClearDelay THEN 0 ELSE choosing

\* Every window cancels the deadline, whatever the options.
WindowComesUp(window) ==
    /\ Shown(window)
    /\ CancelAmbiguityClear
    /\ choosing' = IF choosing < ClearDelay THEN 0 ELSE choosing

\* QUEST_GREETING and GOSSIP_SHOW with more than one quest
SeveralQuestsOffered(window) ==
    /\ Shown(window)
    /\ CancelAmbiguityClear
    /\ IF autoQuest
       THEN ambiguous' = TRUE /\ choosing' = 0
       ELSE /\ UNCHANGED ambiguous
            /\ choosing' = IF choosing < ClearDelay THEN 0 ELSE choosing
    /\ did' = "other"
    /\ UNCHANGED <<mapVars, settings, autoQuest, autoTrack, pendingVars, logVars>>

\* A list of one quest, or of none
AtMostOneQuestOffered(window) ==
    /\ WindowComesUp(window)
    /\ \/ did' = IF autoQuest /\ ~ambiguous THEN "select" ELSE "other"
       \/ did' = "other"
    /\ UNCHANGED <<mapVars, settings, autoQuest, ambiguous, autoTrack, pendingVars, logVars>>

QuestDetail ==
    /\ WindowComesUp("quest")
    /\ IF autoQuest THEN AcceptQuestHook ELSE UNCHANGED pendingVars
    /\ did' = "other"
    /\ UNCHANGED <<mapVars, settings, autoQuest, ambiguous, autoTrack, logVars>>

\* QUEST_PROGRESS and QUEST_COMPLETE: what is sent to the server is seen as the
\* windows that come next.
QuestProgressOrComplete ==
    /\ WindowComesUp("quest")
    /\ did' = "other"
    /\ UNCHANGED <<mapVars, settings, autoQuest, ambiguous, autoTrack, pendingVars, logVars>>

\* A mutated form: a deadline that runs is not moved.
CloseEarlier(window) ==
    /\ window \in windows
    /\ windows' \in {windows \ {window}, windows}
    /\ UNCHANGED <<clearIn, choosing>>
    /\ did' = "other"
    /\ UNCHANGED <<mapVars, settings, autoQuest, ambiguous, autoTrack, pendingVars, logVars>>

\* QUEST_FINISHED and GOSSIP_CLOSED.  The event may be about a window that the same
\* frame has already shown again.
QuestFinishedOrGossipClosed(window) ==
    /\ window \in windows
    /\ windows' \in {windows \ {window}, windows}
    /\ clearIn' = ClearDelay
    /\ did' = "other"
    /\ UNCHANGED <<mapVars, settings, autoQuest, ambiguous, choosing, autoTrack, pendingVars,
                   logVars>>

\* The option button, and /dino autoquest
AutoQuestButton ==
    /\ autoQuest' = ~autoQuest
    /\ did' = "other"
    /\ UNCHANGED <<mapVars, settings, ambiguous, clearIn, windows, choosing, autoTrack,
                   pendingVars, logVars>>

ListInputs ==
    \/ \E window \in {"gossip", "quest"} :
         \/ SeveralQuestsOffered(window)
         \/ AtMostOneQuestOffered(window)
         \/ QuestFinishedOrGossipClosed(window)
    \/ QuestDetail
    \/ QuestProgressOrComplete
    \/ AutoQuestButton

-----------------------------------------------------------------------------
(* Tracking *)

\* The player accepts a quest, or the code does.
AcceptQuest ==
    /\ AcceptQuestHook
    /\ did' = "other"
    /\ UNCHANGED <<mapVars, settings, listVars, autoTrack, logVars>>

\* A mutated form: only titles that the snapshot does not have are new.
TakenForNewTitle(quests) == quests = {q \in Visible : snapshot[TitleOf[q]] = 0}

\* The entries beyond the number the snapshot has of their title.  Which of those with
\* one title they are depends on the order of the log, and may be any.
TakenForNew(quests) ==
    \A t \in Titles :
        LET excess == Cardinality(Entries(Visible, t)) - snapshot[t]
        IN  Cardinality(Entries(quests, t)) = IF excess > 0 THEN excess ELSE 0

TrackNewlyAcceptedQuest ==
    IF snapshot = None THEN UNCHANGED <<pendingVars, tracked>>
    ELSE IF ~autoTrack THEN ForgetAccepted /\ UNCHANGED tracked
    ELSE \E quests \in SUBSET Visible :
           /\ TakenForNew(quests)
           /\ IF canWatch /\ quests # {}
              THEN tracked' = tracked \cup quests /\ ForgetAccepted
              ELSE UNCHANGED <<pendingVars, tracked>>

QuestLogUpdate ==
    /\ TrackNewlyAcceptedQuest
    /\ did' = "look"
    /\ UNCHANGED <<mapVars, settings, listVars, autoTrack, log, hidden>>

AutoTrackButton ==
    /\ autoTrack' = ~autoTrack
    /\ IF autoTrack THEN ForgetAccepted ELSE UNCHANGED pendingVars
    /\ did' = "other"
    /\ UNCHANGED <<mapVars, settings, listVars, logVars>>

-----------------------------------------------------------------------------
(* The log (external).  It changes before QUEST_LOG_UPDATE says so. *)

\* A quest comes into the log, perhaps under a collapsed header.
QuestEntersLog(q) ==
    /\ q \notin log
    /\ log' = log \cup {q}
    /\ hidden' \in {hidden, hidden \cup {q}}
    /\ arrived' = IF snapshot = None THEN arrived ELSE arrived \cup {q}
    /\ did' = "other"
    /\ UNCHANGED <<mapVars, settings, listVars, autoTrack, snapshot, watchIn, unseen, lost,
                   tracked>>

QuestLeavesLog(q) ==
    /\ q \in log
    /\ log' = log \ {q}
    /\ hidden' = hidden \ {q}
    /\ tracked' = tracked \ {q}
    /\ arrived' = arrived \ {q}
    /\ lost' = TRUE
    /\ did' = "other"
    /\ UNCHANGED <<mapVars, settings, listVars, autoTrack, snapshot, watchIn, unseen>>

HeaderCollapses(q) ==
    /\ q \in Visible
    /\ hidden' = hidden \cup {q}
    /\ lost' = TRUE
    /\ did' = "other"
    /\ UNCHANGED <<mapVars, settings, listVars, autoTrack, snapshot, watchIn, arrived, unseen,
                   log, tracked>>

HeaderExpands(q) ==
    /\ q \in hidden
    /\ hidden' = hidden \ {q}
    /\ did' = "other"
    /\ UNCHANGED <<mapVars, settings, listVars, autoTrack, pendingVars, log, tracked>>

WatchInputs ==
    \/ AcceptQuest
    \/ QuestLogUpdate
    \/ AutoTrackButton
    \/ \E q \in Quests :
         \/ QuestEntersLog(q)
         \/ QuestLeavesLog(q)
         \/ HeaderCollapses(q)
         \/ HeaderExpands(q)

-----------------------------------------------------------------------------

\* The ambiguity flag at its deadline
OnUpdateAmbiguity ==
    IF clearIn = 0 THEN ambiguous' = FALSE /\ clearIn' = None
    ELSE UNCHANGED <<ambiguous, clearIn>>

\* The snapshot at its deadline
OnUpdateSnapshot == IF watchIn = 0 THEN ForgetAccepted ELSE UNCHANGED pendingVars

OnUpdate ==
    /\ OnUpdateMapQuest
    /\ OnUpdateAmbiguity
    /\ OnUpdateSnapshot
    /\ did' = "other"
    /\ UNCHANGED <<settings, autoQuest, windows, choosing, autoTrack, logVars>>

\* /reload; the options are saved, and quests stay in the log.
Reload ==
    /\ ReloadMapQuest
    /\ ambiguous' = FALSE
    /\ clearIn' = None
    /\ windows' = {}
    /\ choosing' = ClearDelay
    /\ ForgetAccepted
    /\ did' = "reload"
    /\ UNCHANGED <<settings, autoQuest, autoTrack, logVars>>

Less(time) == IF time = None \/ time = 0 THEN time ELSE time - 1

\* Time passes, with or without a frame.
Tick ==
    /\ clearIn' = Less(clearIn)
    /\ watchIn' = Less(watchIn)
    /\ choosing' = IF choosing < ClearDelay THEN choosing + 1 ELSE choosing
    /\ did' = "other"
    /\ UNCHANGED <<mapVars, settings, autoQuest, ambiguous, windows, autoTrack, snapshot,
                   arrived, unseen, lost, logVars>>

PlayerInputs ==
    \/ /\ "map" \in uses
       /\ MapInputs
       /\ did' = "other"
       /\ UNCHANGED <<settings, listVars, autoTrack, pendingVars, logVars>>
    \/ "list" \in uses /\ ListInputs
    \/ "watch" \in uses /\ WatchInputs

Init ==
    /\ MapInit
    /\ uses \in Uses
    /\ canWatch \in BOOLEAN
    /\ autoQuest \in BOOLEAN
    /\ ambiguous = FALSE
    /\ clearIn = None
    /\ windows = {}
    /\ autoTrack \in BOOLEAN
    /\ snapshot = None
    /\ watchIn = None
    /\ log \in SUBSET Quests
    /\ hidden \in SUBSET log
    /\ tracked = {}
    /\ did = "other"
    /\ choosing = ClearDelay
    /\ arrived = {}
    /\ unseen = {}
    /\ lost = FALSE

Next == PlayerInputs \/ OnUpdate \/ Reload \/ Tick

Spec == Init /\ [][Next]_vars

\* Frames are drawn, time passes, and the map is not open whenever a frame is drawn.
Fairness ==
    /\ WF_vars(Tick)
    /\ WF_vars(OnUpdate)
    /\ SF_vars(OnUpdate /\ ~mapShown)

FairSpec == Spec /\ Fairness
-----------------------------------------------------------------------------
(* Properties *)

\* DinoController.lua:1580: the log a press has asked for opens, unless another press,
\* the option or a reload calls it off, even if the player opens the map again meanwhile.
PendingLogOpens ==
    pendingLog ~>
        (logShown \/ nextWindow = "questlog" \/ ~secondaryWindows \/ did = "reload")

\* DinoController.lua:892 "Multiple quests are available - select one.": no quest is
\* picked for the player from then on, through all windows that follow, until none has
\* come up for the time of the deadline.
ChoiceIsThePlayers == [][did' = "select" => choosing = ClearDelay]_vars

\* DinoController.lua:1600: the flag does not outlive the windows it is about.
FlagEnds == (<>[](windows = {})) => <>[]~ambiguous

\* DinoController.lua:942-971: a snapshot is never without the deadline that ends it.
SnapshotHasDeadline == (snapshot = None) <=> (watchIn = None)

\* DinoController.lua:961: a quest is tracked only if one of its title has come
\* into the log since the snapshot, or was under a collapsed header then.
OnlyNewTitlesTracked ==
    [][\A q \in tracked' \ tracked :
         \E new \in arrived \cup unseen : TitleOf[new] = TitleOf[q]]_vars

\* DinoController.lua:974-976: the update of the log tracks what came in, also a
\* quest with the title of another, if nothing has gone since the snapshot.
NewQuestTracked ==
    [][did' = "look" /\ snapshot # None /\ autoTrack /\ canWatch /\ ~lost =>
         \A new \in arrived \ hidden : \E q \in tracked' : TitleOf[q] = TitleOf[new]]_vars
=============================================================================
