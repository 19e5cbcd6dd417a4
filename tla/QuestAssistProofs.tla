-------------------------- MODULE QuestAssistProofs --------------------------
(***************************************************************************)
(* Proofs about QuestAssist and MapQuest, for any quests, titles, delays   *)
(* and features used.                                                      *)
(***************************************************************************)
EXTENDS QuestAssist, FiniteSetTheorems, TLAPS

-----------------------------------------------------------------------------
(* Types *)

\* What every handler leaves alone of the map and quest-log button keeps its types.
LEMMA MapTypes ==
    ASSUME MapTypeOK,
           MapInputs \/ OnUpdateMapQuest \/ ReloadMapQuest \/ UNCHANGED mapVars
    PROVE  MapTypeOK'
<1> USE DEF MapTypeOK
<1>1. CASE DinoController_ToggleMapQuest
  BY <1>1 DEF DinoController_ToggleMapQuest, ToggleMapOnly, ShowMapNext, ShowLogNext,
    OpenMap, CloseWorldMap, OpenAndFocusQuestLog
<1>2. CASE SecondaryWindowsButton \/ PlayerTogglesMap \/ PlayerTogglesLog
  BY <1>2 DEF SecondaryWindowsButton, PlayerTogglesMap, PlayerTogglesLog, OpenMap,
    CloseWorldMap
<1>3. CASE OnUpdateMapQuest \/ ReloadMapQuest
  BY <1>3 DEF OnUpdateMapQuest, ReloadMapQuest, CloseWorldMap, OpenAndFocusQuestLog
<1>4. CASE UNCHANGED mapVars
  BY <1>4 DEF mapVars
<1> QED
  BY <1>1, <1>2, <1>3, <1>4 DEF MapInputs

LEMMA EntriesAreQuests ==
    ASSUME NEW quests \in SUBSET Quests, NEW t \in Titles
    PROVE  /\ Cardinality(Entries(quests, t)) \in 0..Cardinality(Quests)
           /\ IsFiniteSet(Entries(quests, t))
<1> Entries(quests, t) \in SUBSET Quests
  BY DEF Entries
<1> QED
  BY FiniteAssumption, FS_Subset, FS_CardinalityType

LEMMA SnapshotType ==
    ASSUME TypeOK
    PROVE  CaptureQuestLogSnapshot \in [Titles -> 0..Cardinality(Quests)]
<1> Visible \in SUBSET Quests
  BY DEF TypeOK, Visible
<1> QED
  BY EntriesAreQuests DEF CaptureQuestLogSnapshot

\* The variables of the tracking, without those of the log.
PendingTypeOK ==
    /\ snapshot \in [Titles -> 0..Cardinality(Quests)] \cup {None}
    /\ watchIn \in 0..WatchDelay \cup {None}
    /\ arrived \subseteq log
    /\ unseen \subseteq Quests
    /\ lost \in BOOLEAN

LEMMA HookTypes ==
    ASSUME TypeOK, AcceptQuestHook \/ ForgetAccepted \/ UNCHANGED pendingVars, UNCHANGED log
    PROVE  PendingTypeOK'
<1>1. CASE autoTrack /\ AcceptQuestHook
  <2>1. snapshot' \in [Titles -> 0..Cardinality(Quests)]
    BY <1>1, SnapshotType DEF AcceptQuestHook
  <2>2. watchIn' \in 0..WatchDelay
    BY <1>1, DelayAssumption DEF AcceptQuestHook
  <2>3. arrived' = {} /\ unseen' \subseteq Quests /\ lost' = FALSE
    BY <1>1 DEF AcceptQuestHook, TypeOK
  <2> QED
    BY <2>1, <2>2, <2>3 DEF PendingTypeOK
<1>2. CASE ForgetAccepted \/ UNCHANGED pendingVars
  BY <1>2 DEF ForgetAccepted, pendingVars, TypeOK, PendingTypeOK
<1> QED
  BY <1>1, <1>2 DEF AcceptQuestHook

LEMMA InitTypes == Init => TypeOK
<1> SUFFICES ASSUME Init
             PROVE  TypeOK
  OBVIOUS
<1>1. MapTypeOK
  BY DEF Init, MapInit, MapTypeOK
<1>2. choosing \in 0..ClearDelay
  BY DelayAssumption DEF Init
<1>3. /\ log \subseteq Quests
      /\ hidden \subseteq log
      /\ tracked \subseteq log
      /\ arrived \subseteq log
      /\ unseen \subseteq Quests
  BY DEF Init
<1>4. windows \subseteq {"gossip", "quest"}
  BY DEF Init
<1> QED
  BY <1>1, <1>2, <1>3, <1>4 DEF Init, TypeOK

LEMMA ListTypes ==
    ASSUME TypeOK, ListInputs
    PROVE  TypeOK'
<1> USE DelayAssumption
<1>1. MapTypeOK'
  <2> UNCHANGED mapVars
    BY DEF ListInputs, SeveralQuestsOffered, AtMostOneQuestOffered, QuestDetail,
      QuestProgressOrComplete, QuestFinishedOrGossipClosed, AutoQuestButton
  <2> QED
    BY MapTypes DEF TypeOK
<1>2. ASSUME NEW window \in {"gossip", "quest"}, SeveralQuestsOffered(window)
      PROVE  TypeOK'
  <2>1. choosing' \in 0..ClearDelay
    BY <1>2 DEF SeveralQuestsOffered, TypeOK
  <2>2. windows' \subseteq {"gossip", "quest"}
    BY <1>2 DEF SeveralQuestsOffered, Shown, TypeOK
  <2>3. clearIn' = None /\ ambiguous' \in BOOLEAN /\ did' = "other"
    BY <1>2 DEF SeveralQuestsOffered, CancelAmbiguityClear, TypeOK
  <2> QED
    BY <1>1, <1>2, <2>1, <2>2, <2>3 DEF SeveralQuestsOffered, TypeOK, settings, pendingVars,
      logVars
<1>3. ASSUME NEW window \in {"gossip", "quest"}, AtMostOneQuestOffered(window)
      PROVE  TypeOK'
  BY <1>1, <1>3 DEF AtMostOneQuestOffered, WindowComesUp, Shown, CancelAmbiguityClear, TypeOK,
    settings, pendingVars, logVars
<1>4. ASSUME NEW window \in {"gossip", "quest"}, QuestFinishedOrGossipClosed(window)
      PROVE  TypeOK'
  BY <1>1, <1>4 DEF QuestFinishedOrGossipClosed, TypeOK, settings, pendingVars, logVars
<1>5. CASE QuestDetail
  <2>1. PendingTypeOK'
    BY <1>5, HookTypes DEF QuestDetail, logVars
  <2> QED
    BY <1>1, <1>5, <2>1 DEF QuestDetail, WindowComesUp, Shown, CancelAmbiguityClear, TypeOK,
      PendingTypeOK, settings, logVars
<1>6. CASE QuestProgressOrComplete
  BY <1>1, <1>6 DEF QuestProgressOrComplete, WindowComesUp, Shown, CancelAmbiguityClear,
    TypeOK, settings, pendingVars, logVars
<1>7. CASE AutoQuestButton
  BY <1>1, <1>7 DEF AutoQuestButton, TypeOK, settings, pendingVars, logVars
<1> QED
  BY <1>2, <1>3, <1>4, <1>5, <1>6, <1>7 DEF ListInputs

LEMMA WatchTypes ==
    ASSUME TypeOK, WatchInputs
    PROVE  TypeOK'
<1>1. MapTypeOK'
  <2> UNCHANGED mapVars
    BY DEF WatchInputs, AcceptQuest, QuestLogUpdate, AutoTrackButton, QuestEntersLog,
      QuestLeavesLog, HeaderCollapses, HeaderExpands
  <2> QED
    BY MapTypes DEF TypeOK
<1> USE DEF settings, listVars, logVars
<1>2. CASE AcceptQuest \/ AutoTrackButton
  <2>1. PendingTypeOK'
    BY <1>2, HookTypes DEF AcceptQuest, AutoTrackButton
  <2> QED
    BY <1>1, <1>2, <2>1 DEF AcceptQuest, AutoTrackButton, TypeOK, PendingTypeOK
<1>3. CASE QuestLogUpdate
  <2>1. PendingTypeOK' /\ tracked' \subseteq log'
    <3>1. ForgetAccepted \/ UNCHANGED pendingVars
      BY <1>3 DEF QuestLogUpdate, TrackNewlyAcceptedQuest, pendingVars
    <3>2. PendingTypeOK'
      BY <1>3, <3>1, HookTypes DEF QuestLogUpdate
    <3> QED
      BY <1>3, <3>2 DEF QuestLogUpdate, TrackNewlyAcceptedQuest, TypeOK, Visible, pendingVars
  <2> QED
    BY <1>1, <1>3, <2>1 DEF QuestLogUpdate, TypeOK, PendingTypeOK
<1>4. ASSUME NEW q \in Quests, QuestEntersLog(q)
      PROVE  TypeOK'
  BY <1>1, <1>4 DEF QuestEntersLog, TypeOK
<1>5. ASSUME NEW q \in Quests, QuestLeavesLog(q)
      PROVE  TypeOK'
  BY <1>1, <1>5 DEF QuestLeavesLog, TypeOK
<1>6. ASSUME NEW q \in Quests, HeaderCollapses(q) \/ HeaderExpands(q)
      PROVE  TypeOK'
  BY <1>1, <1>6 DEF HeaderCollapses, HeaderExpands, Visible, TypeOK, pendingVars
<1> QED
  BY <1>2, <1>3, <1>4, <1>5, <1>6 DEF WatchInputs

LEMMA StepTypes == TypeOK /\ [Next]_vars => TypeOK'
<1> SUFFICES ASSUME TypeOK, [Next]_vars
             PROVE  TypeOK'
  OBVIOUS
<1> USE DelayAssumption DEF settings, listVars, logVars
<1>1. ASSUME MapInputs, did' = "other",
             UNCHANGED <<settings, listVars, autoTrack, pendingVars, logVars>>
      PROVE  TypeOK'
  <2>1. MapTypeOK'
    BY <1>1, MapTypes DEF TypeOK
  <2> QED
    BY <1>1, <2>1 DEF TypeOK, pendingVars
<1>2. CASE ListInputs
  BY <1>2, ListTypes
<1>3. CASE WatchInputs
  BY <1>3, WatchTypes
<1>4. CASE OnUpdate
  <2>1. MapTypeOK'
    BY <1>4, MapTypes DEF TypeOK, OnUpdate
  <2>2. PendingTypeOK'
    BY <1>4, HookTypes DEF OnUpdate, OnUpdateSnapshot
  <2> QED
    BY <1>4, <2>1, <2>2 DEF OnUpdate, OnUpdateAmbiguity, TypeOK, PendingTypeOK
<1>5. CASE Reload
  <2>1. MapTypeOK'
    BY <1>5, MapTypes DEF TypeOK, Reload
  <2>2. PendingTypeOK'
    BY <1>5, HookTypes DEF Reload
  <2>3. choosing' \in 0..ClearDelay /\ windows' \subseteq {"gossip", "quest"}
    BY <1>5 DEF Reload
  <2> QED
    BY <1>5, <2>1, <2>2, <2>3 DEF Reload, TypeOK, PendingTypeOK
<1>6. CASE Tick
  <2>1. MapTypeOK'
    BY <1>6, MapTypes DEF TypeOK, Tick
  <2>2. clearIn' \in 0..ClearDelay \cup {None} /\ watchIn' \in 0..WatchDelay \cup {None}
    BY <1>6 DEF Tick, Less, TypeOK
  <2>3. choosing' \in 0..ClearDelay
    BY <1>6 DEF Tick, TypeOK
  <2> QED
    BY <1>6, <2>1, <2>2, <2>3 DEF Tick, TypeOK
<1>7. CASE UNCHANGED vars
  <2>1. MapTypeOK'
    BY <1>7, MapTypes DEF TypeOK, vars
  <2> QED
    BY <1>7, <2>1 DEF vars, TypeOK, pendingVars
<1> QED
  BY <1>1, <1>2, <1>3, <1>4, <1>5, <1>6, <1>7 DEF Next, PlayerInputs

\* The variables keep their types; no deadline goes below zero, no count of a
\* snapshot beyond the number of quests.
THEOREM TypeCorrect == Spec => []TypeOK
<1>1. QED
  BY InitTypes, StepTypes, PTL DEF Spec

-----------------------------------------------------------------------------
(* The map and the quest log *)

LEMMA OpenedLogIsAlone ==
    ASSUME MapInputs \/ OnUpdateMapQuest \/ ReloadMapQuest \/ UNCHANGED mapVars,
           ~logShown, logShown'
    PROVE  ~mapShown'
<1>1. CASE DinoController_ToggleMapQuest
  BY <1>1 DEF DinoController_ToggleMapQuest, ToggleMapOnly, ShowMapNext, ShowLogNext,
    OpenMap, CloseWorldMap, OpenAndFocusQuestLog
<1>2. CASE SecondaryWindowsButton \/ PlayerTogglesMap \/ PlayerTogglesLog
  BY <1>2 DEF SecondaryWindowsButton, PlayerTogglesMap, PlayerTogglesLog, OpenMap,
    CloseWorldMap
<1>3. CASE OnUpdateMapQuest \/ ReloadMapQuest
  BY <1>3 DEF OnUpdateMapQuest, ReloadMapQuest, CloseWorldMap, OpenAndFocusQuestLog
<1>4. CASE UNCHANGED mapVars
  BY <1>4 DEF mapVars
<1> QED
  BY <1>1, <1>2, <1>3, <1>4 DEF MapInputs

LEMMA StepOfMap ==
    ASSUME [Next]_vars
    PROVE  MapInputs \/ OnUpdateMapQuest \/ ReloadMapQuest \/ UNCHANGED mapVars
<1>1. ListInputs => UNCHANGED mapVars
  BY DEF ListInputs, SeveralQuestsOffered, AtMostOneQuestOffered, QuestDetail,
    QuestProgressOrComplete, QuestFinishedOrGossipClosed, AutoQuestButton
<1>2. WatchInputs => UNCHANGED mapVars
  BY DEF WatchInputs, AcceptQuest, QuestLogUpdate, AutoTrackButton, QuestEntersLog,
    QuestLeavesLog, HeaderCollapses, HeaderExpands
<1>3. UNCHANGED vars => UNCHANGED mapVars
  BY DEF vars
<1> QED
  BY <1>1, <1>2, <1>3 DEF Next, PlayerInputs, OnUpdate, Reload, Tick

\* Whatever is pressed while the log waits for the map to go, it never opens
\* while the map is there.
THEOREM LogNeverOpensOverMap == Spec => LogNeverOverMap
<1>1. [Next]_vars => [~logShown /\ logShown' => ~mapShown']_mapVars
  BY OpenedLogIsAlone, StepOfMap
<1> QED
  BY <1>1, PTL DEF Spec, LogNeverOverMap

-----------------------------------------------------------------------------
(* The choice among several quests *)

\* As long as the choice is the player's the flag is up, and a deadline that would
\* take it down is not due before a window has been away for its whole time.
FlagLasts ==
    /\ choosing < ClearDelay => ambiguous
    /\ clearIn # None => choosing + clearIn >= ClearDelay

ChoiceIInv == TypeOK /\ FlagLasts

LEMMA ListFlagLasts ==
    ASSUME TypeOK, FlagLasts, ListInputs
    PROVE  FlagLasts' /\ (did' = "select" => choosing = ClearDelay)
<1> USE DelayAssumption, NoneAssumption
<1>0. /\ choosing \in 0..ClearDelay
      /\ clearIn \in 0..ClearDelay \cup {None}
  BY DEF TypeOK
<1>1. ASSUME NEW window \in {"gossip", "quest"}, SeveralQuestsOffered(window)
      PROVE  FlagLasts' /\ did' # "select"
  BY <1>0, <1>1 DEF FlagLasts, SeveralQuestsOffered, CancelAmbiguityClear
<1>2. ASSUME NEW window \in {"gossip", "quest"}, AtMostOneQuestOffered(window)
      PROVE  FlagLasts' /\ (did' = "select" => choosing = ClearDelay)
  BY <1>0, <1>2 DEF FlagLasts, AtMostOneQuestOffered, WindowComesUp, CancelAmbiguityClear
<1>3. ASSUME NEW window \in {"gossip", "quest"}, QuestFinishedOrGossipClosed(window)
      PROVE  FlagLasts' /\ did' # "select"
  BY <1>0, <1>3 DEF FlagLasts, QuestFinishedOrGossipClosed
<1>4. CASE QuestDetail \/ QuestProgressOrComplete
  BY <1>0, <1>4 DEF FlagLasts, QuestDetail, QuestProgressOrComplete, WindowComesUp,
    CancelAmbiguityClear
<1>5. CASE AutoQuestButton
  BY <1>5 DEF FlagLasts, AutoQuestButton
<1> QED
  BY <1>1, <1>2, <1>3, <1>4, <1>5 DEF ListInputs

LEMMA StepFlagLasts ==
    ASSUME TypeOK, FlagLasts, [Next]_vars
    PROVE  FlagLasts' /\ [did' = "select" => choosing = ClearDelay]_vars
<1> USE DelayAssumption, NoneAssumption
<1>0. /\ choosing \in 0..ClearDelay
      /\ clearIn \in 0..ClearDelay \cup {None}
  BY DEF TypeOK
<1>1. CASE ListInputs
  BY <1>1, ListFlagLasts
<1>2. ASSUME MapInputs, did' = "other",
             UNCHANGED <<settings, listVars, autoTrack, pendingVars, logVars>>
      PROVE  FlagLasts' /\ did' # "select"
  BY <1>2 DEF FlagLasts, listVars
<1>3. CASE WatchInputs
  <2>1. UNCHANGED listVars /\ did' # "select"
    BY <1>3 DEF WatchInputs, AcceptQuest, QuestLogUpdate, AutoTrackButton, QuestEntersLog,
      QuestLeavesLog, HeaderCollapses, HeaderExpands
  <2> QED
    BY <2>1 DEF FlagLasts, listVars
<1>4. CASE OnUpdate
  BY <1>0, <1>4 DEF FlagLasts, OnUpdate, OnUpdateAmbiguity
<1>5. CASE Reload
  BY <1>5 DEF FlagLasts, Reload
<1>6. CASE Tick
  BY <1>0, <1>6 DEF FlagLasts, Tick, Less
<1>7. CASE UNCHANGED vars
  BY <1>7 DEF FlagLasts, vars, listVars
<1> QED
  BY <1>1, <1>2, <1>3, <1>4, <1>5, <1>6, <1>7 DEF Next, PlayerInputs

\* Once several quests were offered, no quest is picked for the player until no window
\* has come up for the time of the deadline, whatever opens and closes meanwhile.
THEOREM ChoiceStaysThePlayers == Spec => ChoiceIsThePlayers
<1>1. Init => ChoiceIInv
  <2> SUFFICES ASSUME Init
               PROVE  FlagLasts
    BY InitTypes DEF ChoiceIInv
  <2> QED
    BY DelayAssumption DEF Init, FlagLasts
<1>2. ChoiceIInv /\ [Next]_vars => ChoiceIInv'
  BY StepTypes, StepFlagLasts DEF ChoiceIInv
<1>3. ChoiceIInv /\ [Next]_vars => [did' = "select" => choosing = ClearDelay]_vars
  BY StepFlagLasts DEF ChoiceIInv
<1> QED
  BY <1>1, <1>2, <1>3, PTL DEF Spec, ChoiceIsThePlayers

-----------------------------------------------------------------------------
(* The snapshot *)

\* Whatever the snapshot counts, it counted in a set of quests that with the later
\* arrivals and those it could not see makes up the log.
SnapshotExplainsLog ==
    snapshot # None =>
        \E seen \in SUBSET Quests :
            /\ log \subseteq seen \cup arrived \cup unseen
            /\ \A t \in Titles : snapshot[t] = Cardinality(Entries(seen, t))

TrackIInv == TypeOK /\ SnapshotHasDeadline /\ SnapshotExplainsLog

\* The entries beyond the number in the snapshot have the title of one it did not count.
LEMMA ExcessIsNew ==
    ASSUME TypeOK, SnapshotExplainsLog, snapshot # None,
           NEW quests \in SUBSET Visible, TakenForNew(quests), NEW q \in quests
    PROVE  \E new \in arrived \cup unseen : TitleOf[new] = TitleOf[q]
<1> DEFINE t == TitleOf[q]
<1>1. q \in Quests /\ t \in Titles /\ Visible \in SUBSET Quests
  BY TitleAssumption DEF TypeOK, Visible
<1>2. PICK seen \in SUBSET Quests :
        /\ log \subseteq seen \cup arrived \cup unseen
        /\ \A title \in Titles : snapshot[title] = Cardinality(Entries(seen, title))
  BY DEF SnapshotExplainsLog
<1> SUFFICES ASSUME \A new \in arrived \cup unseen : TitleOf[new] # t
             PROVE  FALSE
  OBVIOUS
<1>3. Entries(Visible, t) \in SUBSET Entries(seen, t)
  BY <1>2 DEF Entries, Visible
<1>4. /\ Cardinality(Entries(Visible, t)) \in Nat
      /\ Cardinality(Entries(seen, t)) \in Nat
      /\ Cardinality(Entries(Visible, t)) <= Cardinality(Entries(seen, t))
  BY <1>1, <1>3, EntriesAreQuests, FS_Subset, FS_CardinalityType
<1>5. Cardinality(Entries(quests, t)) = 0
  <2>1. snapshot[t] = Cardinality(Entries(seen, t))
    BY <1>1, <1>2
  <2>2. ~(Cardinality(Entries(Visible, t)) - snapshot[t] > 0)
    BY <1>4, <2>1
  <2> QED
    BY <1>1, <2>2 DEF TakenForNew
<1>6. Entries(quests, t) = {}
  BY <1>1, <1>5, EntriesAreQuests, FS_EmptySet
<1>7. q \in Entries(quests, t)
  BY DEF Entries
<1> QED
  BY <1>6, <1>7

LEMMA HookExplains ==
    ASSUME TypeOK, SnapshotHasDeadline, SnapshotExplainsLog, UNCHANGED log,
           AcceptQuestHook \/ ForgetAccepted \/ UNCHANGED pendingVars
    PROVE  SnapshotHasDeadline' /\ SnapshotExplainsLog'
<1>1. CASE autoTrack /\ AcceptQuestHook
  <2>1. CaptureQuestLogSnapshot # None /\ WatchDelay # None
    BY SnapshotType, NoneAssumption, DelayAssumption, FiniteAssumption, FS_CardinalityType
  <2>2. Visible \in SUBSET Quests /\ log \subseteq Visible \cup hidden
    BY DEF TypeOK, Visible
  <2>3. \A t \in Titles : CaptureQuestLogSnapshot[t] = Cardinality(Entries(Visible, t))
    BY DEF CaptureQuestLogSnapshot
  <2> QED
    BY <1>1, <2>1, <2>2, <2>3
    DEF AcceptQuestHook, SnapshotHasDeadline, SnapshotExplainsLog, Entries
<1>2. CASE ForgetAccepted
  BY <1>2 DEF ForgetAccepted, SnapshotHasDeadline, SnapshotExplainsLog
<1>3. CASE UNCHANGED pendingVars
  BY <1>3 DEF pendingVars, SnapshotHasDeadline, SnapshotExplainsLog, Entries
<1> QED
  BY <1>1, <1>2, <1>3 DEF AcceptQuestHook

\* Every handler either asks the hook, forgets, or leaves the snapshot alone, and hides no
\* quest.
LEMMA StepOfSnapshot ==
    ASSUME [Next]_vars, ~Tick, \A q \in Quests : ~QuestEntersLog(q) /\ ~QuestLeavesLog(q)
                                                  /\ ~HeaderCollapses(q)
    PROVE  /\ UNCHANGED log
           /\ \/ AcceptQuestHook /\ UNCHANGED hidden
              \/ ForgetAccepted
              \/ UNCHANGED pendingVars /\ hidden' \subseteq hidden
<1>1. CASE ListInputs
  BY <1>1 DEF ListInputs, SeveralQuestsOffered, AtMostOneQuestOffered, QuestDetail,
    QuestProgressOrComplete, QuestFinishedOrGossipClosed, AutoQuestButton, logVars
<1>2. CASE WatchInputs
  BY <1>2 DEF WatchInputs, AcceptQuest, QuestLogUpdate, AutoTrackButton, HeaderExpands,
    TrackNewlyAcceptedQuest, logVars, pendingVars
<1>3. CASE OnUpdate \/ Reload
  BY <1>3 DEF OnUpdate, OnUpdateSnapshot, Reload, logVars
<1>4. CASE UNCHANGED vars
  BY <1>4 DEF vars, logVars
<1> QED
  BY <1>1, <1>2, <1>3, <1>4 DEF Next, PlayerInputs, logVars

LEMMA StepExplains == TrackIInv /\ [Next]_vars => TrackIInv'
<1> SUFFICES ASSUME TypeOK, SnapshotHasDeadline, SnapshotExplainsLog, [Next]_vars
             PROVE  SnapshotHasDeadline' /\ SnapshotExplainsLog'
  BY StepTypes DEF TrackIInv
<1>1. CASE Tick
  <2>1. SnapshotHasDeadline'
    BY <1>1, NoneAssumption DEF Tick, Less, SnapshotHasDeadline, TypeOK
  <2> QED
    BY <1>1, <2>1 DEF Tick, SnapshotExplainsLog, Entries, logVars
<1>2. ASSUME NEW q \in Quests, QuestEntersLog(q)
      PROVE  SnapshotHasDeadline' /\ SnapshotExplainsLog'
  BY <1>2 DEF QuestEntersLog, SnapshotHasDeadline, SnapshotExplainsLog, Entries
<1>3. ASSUME NEW q \in Quests, QuestLeavesLog(q) \/ HeaderCollapses(q)
      PROVE  SnapshotHasDeadline' /\ SnapshotExplainsLog'
  BY <1>3 DEF QuestLeavesLog, HeaderCollapses, SnapshotHasDeadline, SnapshotExplainsLog,
    Entries
<1> QED
  BY <1>1, <1>2, <1>3, StepOfSnapshot, HookExplains

LEMMA InitExplains == Init => TrackIInv
  BY InitTypes DEF Init, TrackIInv, SnapshotHasDeadline, SnapshotExplainsLog

\* A snapshot never stays behind without the deadline that ends it.
THEOREM SnapshotAlwaysHasDeadline == Spec => []SnapshotHasDeadline
<1>1. TrackIInv => SnapshotHasDeadline
  BY DEF TrackIInv
<1> QED
  BY <1>1, InitExplains, StepExplains, PTL DEF Spec

\* However the log changes, only quests with the title of one that came in, or that a
\* collapsed header hid from the snapshot, are tracked.
THEOREM OnlyNewTitlesEverTracked == Spec => OnlyNewTitlesTracked
<1> DEFINE A == \A q \in tracked' \ tracked :
                  \E new \in arrived \cup unseen : TitleOf[new] = TitleOf[q]
<1>1. TrackIInv /\ [Next]_vars => [A]_vars
  <2> SUFFICES ASSUME TypeOK, SnapshotExplainsLog, [Next]_vars, NEW q \in tracked' \ tracked
               PROVE  \E new \in arrived \cup unseen : TitleOf[new] = TitleOf[q]
    BY DEF TrackIInv
  <2>1. QuestLogUpdate
    <3>1. ~ListInputs
      BY DEF ListInputs, SeveralQuestsOffered, AtMostOneQuestOffered, QuestDetail,
        QuestProgressOrComplete, QuestFinishedOrGossipClosed, AutoQuestButton, logVars
    <3>2. WatchInputs => QuestLogUpdate
      BY DEF WatchInputs, AcceptQuest, AutoTrackButton, QuestEntersLog, QuestLeavesLog,
        HeaderCollapses, HeaderExpands, logVars
    <3> QED
      BY <3>1, <3>2 DEF Next, PlayerInputs, OnUpdate, Reload, Tick, vars, logVars
  <2>2. snapshot # None
    BY <2>1 DEF QuestLogUpdate, TrackNewlyAcceptedQuest
  <2>3. PICK quests \in SUBSET Visible : TakenForNew(quests) /\ tracked' \subseteq tracked \cup quests
    BY <2>1, <2>2 DEF QuestLogUpdate, TrackNewlyAcceptedQuest
  <2> QED
    BY <2>2, <2>3, ExcessIsNew
<1> QED
  BY <1>1, InitExplains, StepExplains, PTL DEF Spec, OnlyNewTitlesTracked

-----------------------------------------------------------------------------
(* What came in is tracked *)

\* As long as nothing has gone, what the snapshot counted is still in the log and shown,
\* beside the arrivals.
CountedStay ==
    snapshot # None /\ ~lost =>
        \E seen \in SUBSET (Visible \ arrived) :
            \A t \in Titles : snapshot[t] = Cardinality(Entries(seen, t))

LEMMA HookCounts ==
    ASSUME TypeOK, CountedStay, UNCHANGED log,
           \/ AcceptQuestHook /\ UNCHANGED hidden
           \/ ForgetAccepted
           \/ UNCHANGED pendingVars /\ hidden' \subseteq hidden
    PROVE  CountedStay'
<1>1. CASE autoTrack /\ AcceptQuestHook /\ UNCHANGED hidden
  <2>1. /\ snapshot' = CaptureQuestLogSnapshot /\ arrived' = {}
        /\ Visible' = Visible
    BY <1>1 DEF AcceptQuestHook, Visible
  <2>2. \A t \in Titles : snapshot'[t] = Cardinality(Entries(Visible, t))
    BY <2>1 DEF CaptureQuestLogSnapshot
  <2>3. Visible \in SUBSET (Visible' \ arrived')
    BY <2>1
  <2> QED
    BY <2>2, <2>3 DEF CountedStay, Entries
<1>2. CASE ForgetAccepted
  BY <1>2 DEF ForgetAccepted, CountedStay
<1>3. CASE UNCHANGED pendingVars /\ hidden' \subseteq hidden
  <2>1. Visible \subseteq Visible'
    BY <1>3 DEF Visible
  <2> QED
    BY <1>3, <2>1 DEF pendingVars, CountedStay, Entries
<1> QED
  BY <1>1, <1>2, <1>3 DEF AcceptQuestHook

LEMMA StepCounts == TypeOK /\ CountedStay /\ [Next]_vars => CountedStay'
<1> SUFFICES ASSUME TypeOK, CountedStay, [Next]_vars
             PROVE  CountedStay'
  OBVIOUS
<1>1. CASE Tick
  BY <1>1 DEF Tick, CountedStay, Visible, Entries, logVars
<1>2. ASSUME NEW q \in Quests, QuestEntersLog(q)
      PROVE  CountedStay'
  <2> SUFFICES ASSUME snapshot # None, ~lost
               PROVE  \E seen \in SUBSET (Visible' \ arrived') :
                         \A t \in Titles : snapshot'[t] = Cardinality(Entries(seen, t))
    BY <1>2 DEF QuestEntersLog, CountedStay, Entries
  <2>1. PICK seen \in SUBSET (Visible \ arrived) :
           \A t \in Titles : snapshot[t] = Cardinality(Entries(seen, t))
    BY DEF CountedStay
  <2>2. Visible \ arrived \subseteq Visible' \ arrived'
    BY <1>2 DEF QuestEntersLog, Visible
  <2> QED
    BY <1>2, <2>1, <2>2 DEF QuestEntersLog
<1>3. ASSUME NEW q \in Quests, QuestLeavesLog(q) \/ HeaderCollapses(q)
      PROVE  CountedStay'
  BY <1>3 DEF QuestLeavesLog, HeaderCollapses, CountedStay
<1> QED
  BY <1>1, <1>2, <1>3, StepOfSnapshot, HookCounts

\* An arrival that is shown is one entry of its title more than the snapshot counts.
LEMMA ArrivalIsExcess ==
    ASSUME TypeOK, CountedStay, snapshot # None, ~lost, NEW new \in arrived \ hidden
    PROVE  Cardinality(Entries(Visible, TitleOf[new])) > snapshot[TitleOf[new]]
<1> DEFINE t == TitleOf[new]
<1>1. new \in Visible /\ Visible \in SUBSET Quests /\ t \in Titles
  BY TitleAssumption DEF TypeOK, Visible
<1>2. PICK seen \in SUBSET (Visible \ arrived) :
        \A title \in Titles : snapshot[title] = Cardinality(Entries(seen, title))
  BY DEF CountedStay
<1>3. Entries(seen, t) \in SUBSET (Entries(Visible, t) \ {new}) /\ new \in Entries(Visible, t)
  BY <1>1, <1>2 DEF Entries
<1>4. IsFiniteSet(Entries(Visible, t))
  BY <1>1, EntriesAreQuests
<1>5. /\ IsFiniteSet(Entries(Visible, t) \ {new})
      /\ Cardinality(Entries(Visible, t) \ {new}) = Cardinality(Entries(Visible, t)) - 1
  BY <1>3, <1>4, FS_RemoveElement
<1>6. Cardinality(Entries(seen, t)) <= Cardinality(Entries(Visible, t) \ {new})
  BY <1>3, <1>5, FS_Subset
<1>7. /\ Cardinality(Entries(Visible, t)) \in Nat
      /\ Cardinality(Entries(seen, t)) \in Nat
  BY <1>3, <1>4, FS_Subset, FS_CardinalityType
<1> QED
  BY <1>1, <1>2, <1>5, <1>6, <1>7

\* A look at the log that meets a snapshot is QUEST_LOG_UPDATE's.
LEMMA LookIsUpdate ==
    ASSUME Next, did' = "look"
    PROVE  TrackNewlyAcceptedQuest
<1>1. ~ListInputs
  BY DEF ListInputs, SeveralQuestsOffered, AtMostOneQuestOffered, QuestDetail,
    QuestProgressOrComplete, QuestFinishedOrGossipClosed, AutoQuestButton
<1>2. WatchInputs => QuestLogUpdate
  BY DEF WatchInputs, AcceptQuest, AutoTrackButton, QuestEntersLog, QuestLeavesLog,
    HeaderCollapses, HeaderExpands
<1> QED
  BY <1>1, <1>2 DEF Next, PlayerInputs, OnUpdate, Reload, Tick, QuestLogUpdate

\* The update of the log tracks what came in and is shown, also a quest with the title of
\* another, if nothing has gone since the snapshot.
THEOREM NewQuestsAreTracked == Spec => NewQuestTracked
<1> DEFINE A == did' = "look" /\ snapshot # None /\ autoTrack /\ canWatch /\ ~lost =>
                  \A new \in arrived \ hidden : \E q \in tracked' : TitleOf[q] = TitleOf[new]
<1>1. TypeOK /\ CountedStay /\ [Next]_vars => [A]_vars
  <2> SUFFICES ASSUME TypeOK, CountedStay, Next, did' = "look", snapshot # None, autoTrack,
                      canWatch, ~lost, NEW new \in arrived \ hidden
               PROVE  \E q \in tracked' : TitleOf[q] = TitleOf[new]
    OBVIOUS
  <2> DEFINE t == TitleOf[new]
  <2>1. t \in Titles /\ Visible \in SUBSET Quests
    BY TitleAssumption DEF TypeOK, Visible
  <2>2. PICK quests \in SUBSET Visible :
           /\ TakenForNew(quests)
           /\ canWatch /\ quests # {} => tracked' = tracked \cup quests
    BY LookIsUpdate DEF TrackNewlyAcceptedQuest
  <2>3. Cardinality(Entries(quests, t)) # 0
    <3>1. Cardinality(Entries(Visible, t)) > snapshot[t]
      BY ArrivalIsExcess
    <3>2. Cardinality(Entries(Visible, t)) \in Nat /\ snapshot[t] \in Nat
      BY <2>1, FiniteAssumption, FS_CardinalityType, EntriesAreQuests DEF TypeOK
    <3> QED
      BY <2>1, <2>2, <3>1, <3>2 DEF TakenForNew
  <2>4. Entries(quests, t) # {}
    BY <2>3, FS_EmptySet
  <2> QED
    BY <2>2, <2>4 DEF Entries
<1>2. Init => CountedStay
  BY DEF Init, CountedStay
<1>3. Spec => [][A]_vars
  <2> HIDE DEF A
  <2> QED
    BY <1>1, <1>2, InitTypes, StepTypes, StepCounts, PTL DEF Spec
<1> QED
  BY <1>3 DEF NewQuestTracked
=============================================================================
