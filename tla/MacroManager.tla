---------------------------- MODULE MacroManager ----------------------------
(***************************************************************************)
(* The run-time of DinoMacroManager: fourteen slots with a chain of two to *)
(* four steps each, the single pending cast shared by all of them, the     *)
(* reset timers, the OnUpdate script and the event handlers.               *)
(*                                                                         *)
(* Time is kept as ages, in ticks: lastUsed[s] is how long ago slot s was  *)
(* last used, pending.age how long ago the cast was fired, pending.due how *)
(* long until it may be confirmed.  An age stops growing once no           *)
(* comparison of the code can tell larger values apart.                    *)
(*                                                                         *)
(* The game client is external: cast and echo are what it knows of the     *)
(* cast a chain asked for, which the add-on sees only through events.      *)
(***************************************************************************)
EXTENDS Integers, Sequences

CONSTANTS
    Slots,            \* the slots (14 in the code)
    Entries,          \* what a step can be: spells and commands
    Commands,         \* the entries that are commands (Pet: Attack, Bot: Attack)
    Ground,           \* the spells DinoController sends as a .gcast chat command
    Chains,           \* the chains a user may save
    Tables,           \* identities of Lua tables holding the steps of a chain
    ResetTimes,       \* values of the reset field of the editor, 0 is off
    DefaultReset,     \* DMM.DEFAULT_RESET
    SuccessDelay,     \* DMM.SUCCESS_DELAY
    PendingTimeout,   \* DMM.PENDING_TIMEOUT
    RefreshInterval,  \* the 0.08 s throttle of OnUpdate
    EventLag,         \* how long SPELLCAST_INTERRUPTED may trail SPELLCAST_STOP
    Activities,       \* values otherActivity may have
    None              \* nil

MinSteps == 2
MaxSteps == 4

Unset == -1           \* nil, for a time

ASSUME SlotAssumption == None \notin Slots
ASSUME EntryAssumption == Commands \subseteq Entries /\ Ground \subseteq Entries \ Commands
ASSUME ChainAssumption ==
    \A c \in Chains : c \in Seq(Entries) /\ Len(c) \in MinSteps..MaxSteps
ASSUME TimeAssumption ==
    /\ ResetTimes \subseteq Nat
    /\ DefaultReset \in Nat
    /\ SuccessDelay \in Nat
    /\ PendingTimeout \in Nat
    /\ RefreshInterval \in Nat
    /\ EventLag \in Nat
ASSUME LagAssumption == EventLag < SuccessDelay
ASSUME ActivityAssumption == Activities \subseteq BOOLEAN

VARIABLES
    chain,            \* slot.spells: the steps of each slot
    table,            \* identity of slot.spells
    resetSeconds,     \* slot.resetSeconds
    resetOnTarget,    \* slot.resetOnTargetChange
    current,          \* slot.current
    lastUsed,         \* age of slot.lastUsed
    pending,          \* DMM.pendingCast
    updateElapsed,    \* DMM.updateElapsed
    editorSlot,       \* DMM.editorSlot while the editor is shown
    cast,             \* external: the latest cast a chain started
    echo,             \* external: time left for a SPELLCAST_INTERRUPTED to come
    otherActivity     \* external: does the player cast by hand and meet other UI
                      \* errors; chosen once

configVars == <<chain, table, resetSeconds, resetOnTarget>>
pointerVars == <<current, lastUsed>>
gameVars == <<cast, echo, otherActivity>>
vars == <<chain, table, resetSeconds, resetOnTarget, current, lastUsed,
          pending, updateElapsed, editorSlot, cast, echo, otherActivity>>

-----------------------------------------------------------------------------
(* Types *)

PendingCast ==
    [slot : Slots, step : 1..MaxSteps, table : Tables,
     age : 0..PendingTimeout + 1, due : Unset..SuccessDelay]

Cast == [slot : Slots, step : 1..MaxSteps,
         phase : {"casting", "completed", "aborted"}]

ASSUME NilAssumption == None \notin PendingCast /\ None \notin Cast

TypeOK ==
    /\ chain \in [Slots -> Chains \cup {<< >>}]
    /\ table \in [Slots -> Tables]
    /\ resetSeconds \in [Slots -> ResetTimes \cup {DefaultReset}]
    /\ resetOnTarget \in [Slots -> BOOLEAN]
    /\ current \in [Slots -> 1..MaxSteps]
    /\ lastUsed \in [Slots -> Nat \cup {Unset}]
    /\ pending \in PendingCast \cup {None}
    /\ updateElapsed \in 0..RefreshInterval
    /\ editorSlot \in Slots \cup {None}
    /\ cast \in Cast \cup {None}
    /\ echo \in Unset..EventLag
    /\ otherActivity \in Activities

-----------------------------------------------------------------------------
(* The reset timer *)

\* ApplyTimeReset would put slot s back to step 1.
Expired(s) ==
    /\ lastUsed[s] # Unset
    /\ current[s] # 1
    /\ resetSeconds[s] > 0
    /\ lastUsed[s] >= resetSeconds[s]

\* ApplyTimeReset on every slot of S, as the display updates call it.
ApplyTimeReset(S) ==
    /\ current' = [s \in Slots |-> IF s \in S /\ Expired(s) THEN 1 ELSE current[s]]
    /\ lastUsed' = [s \in Slots |-> IF s \in S /\ Expired(s) THEN Unset ELSE lastUsed[s]]

-----------------------------------------------------------------------------
(* Choosing the step to cast *)

\* What the client says of an entry: castable; on a short cooldown (the global
\* one) or disabled; on a long cooldown or, for a command, without its pet or
\* target; not in the spellbook.
Availability == {"ready", "busy", "away", "unknown"}

Availabilities ==
    {av \in [Entries -> Availability] : \A e \in Commands : av[e] \in {"ready", "away"}}

IsSpellOnCooldownOrUnavailable(e, av) == av[e] \in {"away", "unknown"}

\* The first available step from the current one on, going round, or the
\* current one if there is none.
GetEffectiveStep(steps, from, av) ==
    LET n == Len(steps)
        StepAt(offset) == IF from + offset <= n THEN from + offset
                                                ELSE from + offset - n
        open == {o \in 0..n - 1 : ~IsSpellOnCooldownOrUnavailable(steps[StepAt(o)], av)}
    IN  IF open = {} THEN from
        ELSE StepAt(CHOOSE o \in open : \A p \in open : o <= p)

-----------------------------------------------------------------------------
(* DinoMacroManager_TriggerSlot *)

Incomplete(s) == Len(chain[s]) \notin MinSteps..MaxSteps

TriggerIncomplete(s) ==
    /\ Incomplete(s)
    /\ ApplyTimeReset({s})
    /\ editorSlot' = s
    /\ UNCHANGED <<configVars, pending, updateElapsed, gameVars>>

TriggerWhilePending(s) ==
    /\ ~Incomplete(s)
    /\ pending # None
    /\ ApplyTimeReset({s})
    /\ UNCHANGED <<configVars, pending, updateElapsed, editorSlot, gameVars>>

\* The step TriggerSlot settles on, after ApplyTimeReset.
StepToUse(s, av) ==
    GetEffectiveStep(chain[s], IF Expired(s) THEN 1 ELSE current[s], av)

MoveToStep(s, step) ==
    /\ current' = [current EXCEPT ![s] = step]
    /\ lastUsed' = [lastUsed EXCEPT ![s] = IF Expired(s) THEN Unset ELSE @]

NewPendingCast(s, step, due) ==
    [slot |-> s, step |-> step, table |-> table[s], age |-> 0, due |-> due]

\* Unknown, on cooldown, or a command without target: the pointer has moved,
\* nothing is cast.
TriggerNotReady(s, av) ==
    LET step == StepToUse(s, av) IN
    /\ av[chain[s][step]] # "ready"
    /\ MoveToStep(s, step)
    /\ UNCHANGED <<pending, gameVars>>

TriggerCommand(s, av) ==
    LET step == StepToUse(s, av) IN
    /\ av[chain[s][step]] = "ready"
    /\ chain[s][step] \in Commands
    /\ MoveToStep(s, step)
    /\ pending' = NewPendingCast(s, step, SuccessDelay)
    /\ UNCHANGED gameVars

Casting == cast # None /\ cast.phase = "casting"

\* CastSpellByName: the client begins the cast, or refuses it on the spot with
\* a UI_ERROR_MESSAGE or a "no_target"/"unresolved" result; it refuses any
\* spell while another cast runs.
TriggerSpell(s, av) ==
    LET step == StepToUse(s, av) IN
    /\ av[chain[s][step]] = "ready"
    /\ chain[s][step] \notin Commands
    /\ MoveToStep(s, step)
    /\ \/ /\ ~Casting
          /\ pending' = NewPendingCast(s, step, Unset)
          /\ cast' = [slot |-> s, step |-> step, phase |-> "casting"]
       \/ UNCHANGED <<pending, cast>>
    /\ UNCHANGED <<echo, otherActivity>>

\* A ground spell goes out as a chat command, which the client never refuses:
\* the server may ignore it, and no event need follow.
TriggerGroundSpell(s, av) ==
    LET step == StepToUse(s, av) IN
    /\ av[chain[s][step]] = "ready"
    /\ chain[s][step] \in Ground
    /\ MoveToStep(s, step)
    /\ pending' = NewPendingCast(s, step, Unset)
    /\ cast' = IF Casting THEN cast ELSE None
    /\ UNCHANGED <<echo, otherActivity>>

TriggerReady(s) ==
    /\ ~Incomplete(s)
    /\ pending = None
    /\ \E av \in Availabilities :
         \/ TriggerNotReady(s, av)
         \/ TriggerCommand(s, av)
         \/ TriggerSpell(s, av)
         \/ TriggerGroundSpell(s, av)
    /\ UNCHANGED <<configVars, updateElapsed, editorSlot>>

TriggerSlot(s) == TriggerIncomplete(s) \/ TriggerWhilePending(s) \/ TriggerReady(s)

-----------------------------------------------------------------------------
(* The editor, as far as the run-time sees it: which slot it shows, and what *)
(* Save and Clear write.  The editor's own fields are not modelled here.     *)

OpenEditor(s) ==
    /\ editorSlot' = s
    /\ UNCHANGED <<configVars, pointerVars, pending, updateElapsed, gameVars>>

CloseEditor ==
    /\ editorSlot' = None
    /\ UNCHANGED <<configVars, pointerVars, pending, updateElapsed, gameVars>>

\* A mutated form: the editor rewrites the table of the slot in place.
NewTablesInPlace == Tables

\* A new Lua table is a different object from every one still referenced.
NewTables ==
    {t \in Tables : /\ \A s \in Slots : table[s] # t
                    /\ pending # None => pending.table # t}

\* Slot s gets new steps and starts over; UpdateAllSlots applies the timers of
\* the other slots.
RewriteSlot(s, steps, reset, onTarget) ==
    /\ \E t \in NewTables : table' = [table EXCEPT ![s] = t]
    /\ chain' = [chain EXCEPT ![s] = steps]
    /\ resetSeconds' = [resetSeconds EXCEPT ![s] = reset]
    /\ resetOnTarget' = [resetOnTarget EXCEPT ![s] = onTarget]
    /\ current' = [c \in Slots |-> IF c = s \/ Expired(c) THEN 1 ELSE current[c]]
    /\ lastUsed' = [c \in Slots |-> IF c = s \/ Expired(c) THEN Unset ELSE lastUsed[c]]
    /\ UNCHANGED <<pending, updateElapsed, gameVars>>

SaveEditor ==
    /\ editorSlot # None
    /\ \E steps \in Chains, reset \in ResetTimes, onTarget \in BOOLEAN :
         RewriteSlot(editorSlot, steps, reset, onTarget)
    /\ editorSlot' = None

ClearEditorSlot ==
    /\ editorSlot # None
    /\ RewriteSlot(editorSlot, << >>, DefaultReset, FALSE)
    /\ UNCHANGED editorSlot

-----------------------------------------------------------------------------
(* OnUpdate *)

\* A mutated form: the steps table is not compared.
PendingIsCurrentByNumber == current[pending.slot] = pending.step

\* The pending cast still stands for the step its slot points to.
PendingIsCurrent ==
    /\ current[pending.slot] = pending.step
    /\ table[pending.slot] = pending.table

ConfirmationDue == pending # None /\ pending.due = 0

\* A mutated form: a cast whose confirmation was announced never times out.
TimedOutUnannounced == pending # None /\ pending.due = Unset /\ pending.age > PendingTimeout

TimedOut == pending # None /\ pending.due # 0 /\ pending.age > PendingTimeout

\* ConfirmPendingCast moves slot s on.
Confirms(s) == ConfirmationDue /\ PendingIsCurrent /\ pending.slot = s

NextStep(s) == IF current[s] + 1 > Len(chain[s]) THEN 1 ELSE current[s] + 1

\* One frame: confirm the pending cast or let it time out, then, at most once
\* per RefreshInterval, apply the reset timers of all slots.  A confirmation
\* refreshes the slots placed on the action bars at once.
OnUpdate ==
    /\ pending' = IF ConfirmationDue \/ TimedOut THEN None ELSE pending
    /\ \E placed \in SUBSET Slots :
         LET refreshed == IF updateElapsed >= RefreshInterval THEN Slots
                          ELSE IF \E s \in Slots : Confirms(s) THEN placed ELSE {}
             Resets(s) == s \in refreshed /\ Expired(s)
         IN  /\ current' = [s \in Slots |-> IF Confirms(s) THEN NextStep(s)
                                            ELSE IF Resets(s) THEN 1 ELSE current[s]]
             /\ lastUsed' = [s \in Slots |-> IF Confirms(s) THEN 0
                                             ELSE IF Resets(s) THEN Unset ELSE lastUsed[s]]
    /\ updateElapsed' = IF updateElapsed >= RefreshInterval THEN 0 ELSE updateElapsed
    /\ UNCHANGED <<configVars, editorSlot, gameVars>>

-----------------------------------------------------------------------------
(* OnEvent *)

\* SPELLS_CHANGED, SPELL_UPDATE_COOLDOWN and opening the window refresh every
\* slot, the action bar events and the public queries those that are shown:
\* each looks up the slot's step and so applies its reset timer.
RefreshSlots ==
    /\ \E shown \in SUBSET Slots : ApplyTimeReset(shown)
    /\ UNCHANGED <<configVars, pending, updateElapsed, editorSlot, gameVars>>

\* InitializeDB: steps outside the chain go back to 1 and timers are forgotten.
InitializeDB ==
    /\ current' = [s \in Slots |-> IF current[s] \in 1..Len(chain[s]) THEN current[s] ELSE 1]
    /\ lastUsed' = [s \in Slots |-> Unset]
    /\ UNCHANGED configVars

PlayerEnteringWorld ==
    /\ InitializeDB
    /\ UNCHANGED <<pending, updateElapsed, editorSlot, gameVars>>

\* Log out, or /reload: the slots are saved, everything else is lost.
Reload ==
    /\ InitializeDB
    /\ pending' = None
    /\ updateElapsed' = 0
    /\ editorSlot' = None
    /\ cast' = None
    /\ echo' = Unset
    /\ UNCHANGED otherActivity

\* Marked chains go back to step 1 and a pending cast of theirs is dropped.  If
\* that changed anything the slots placed on the action bars are refreshed.
PlayerTargetChanged ==
    LET dropped == pending # None /\ resetOnTarget[pending.slot]
        moved == \E s \in Slots :
                    resetOnTarget[s] /\ (current[s] # 1 \/ lastUsed[s] # Unset)
    IN  /\ \E placed \in SUBSET Slots :
             LET Resets(s) == \/ resetOnTarget[s]
                              \/ (dropped \/ moved) /\ s \in placed /\ Expired(s)
             IN  /\ current' = [s \in Slots |-> IF Resets(s) THEN 1 ELSE current[s]]
                 /\ lastUsed' = [s \in Slots |-> IF Resets(s) THEN Unset ELSE lastUsed[s]]
        /\ pending' = IF dropped THEN None ELSE pending
        /\ UNCHANGED <<configVars, updateElapsed, editorSlot, gameVars>>

\* A mutated form: confirmed without waiting for SPELLCAST_INTERRUPTED.
SpellcastStopAtOnce ==
    pending' = IF pending = None THEN None ELSE [pending EXCEPT !.due = 0]

\* SPELLCAST_STOP and SPELLCAST_CHANNEL_STOP.
SpellcastStop ==
    pending' = IF pending = None THEN None ELSE [pending EXCEPT !.due = SuccessDelay]

\* A mutated form: a failure does not drop the pending cast.
SpellcastFailedIgnored == UNCHANGED pending

\* SPELLCAST_FAILED, SPELLCAST_INTERRUPTED and UI_ERROR_MESSAGE.
SpellcastFailed == pending' = None

localVars == <<configVars, pointerVars, updateElapsed, editorSlot, otherActivity>>

-----------------------------------------------------------------------------
(* The client (external) and the events it sends *)

CastCompletes ==
    /\ Casting
    /\ cast' = [cast EXCEPT !.phase = "completed"]
    /\ SpellcastStop
    /\ UNCHANGED <<localVars, echo>>

\* The client announces an interrupted cast twice: SPELLCAST_STOP first and
\* SPELLCAST_INTERRUPTED up to EventLag later.
CastAborts ==
    /\ Casting
    /\ echo = Unset
    /\ cast' = [cast EXCEPT !.phase = "aborted"]
    /\ echo' = EventLag
    /\ SpellcastStop
    /\ UNCHANGED localVars

CastInterrupted ==
    /\ echo # Unset
    /\ echo' = Unset
    /\ SpellcastFailed
    /\ UNCHANGED <<localVars, cast>>

\* The server rejects the cast.
CastFails ==
    /\ Casting
    /\ cast' = [cast EXCEPT !.phase = "aborted"]
    /\ SpellcastFailed
    /\ UNCHANGED <<localVars, echo>>

\* A spell the player cast without the manager ends, or any error shows.
UnrelatedStop ==
    /\ otherActivity
    /\ SpellcastStop
    /\ UNCHANGED <<localVars, gameVars>>

UnrelatedError ==
    /\ otherActivity
    /\ SpellcastFailed
    /\ UNCHANGED <<localVars, gameVars>>

\* One tick of the clock.  An announced interruption is not held back beyond
\* its lag.
Older(age, limit) == IF age < limit THEN age + 1 ELSE age
\* A mutated form: the countdown runs past its end.
NearerForever(time) == time - 1

Nearer(time) == IF time > 0 THEN time - 1 ELSE time

Tick ==
    /\ echo # 0
    /\ echo' = Nearer(echo)
    /\ lastUsed' = [s \in Slots |->
         IF lastUsed[s] = Unset THEN Unset ELSE Older(lastUsed[s], resetSeconds[s])]
    /\ pending' = IF pending = None THEN None
                  ELSE [pending EXCEPT !.age = Older(@, PendingTimeout + 1), !.due = Nearer(@)]
    /\ updateElapsed' = Older(updateElapsed, RefreshInterval)
    /\ UNCHANGED <<configVars, current, editorSlot, cast, otherActivity>>

-----------------------------------------------------------------------------

\* The saved slots as InitializeDB leaves them at login.
Init ==
    /\ chain \in [Slots -> Chains \cup {<< >>}]
    /\ table \in [Slots -> Tables]
    /\ \A s, c \in Slots : s # c => table[s] # table[c]
    /\ resetSeconds \in [Slots -> ResetTimes \cup {DefaultReset}]
    /\ resetOnTarget \in [Slots -> BOOLEAN]
    /\ current \in [Slots -> 1..MaxSteps]
    /\ \A s \in Slots : current[s] = 1 \/ current[s] <= Len(chain[s])
    /\ lastUsed = [s \in Slots |-> Unset]
    /\ pending = None
    /\ updateElapsed = 0
    /\ editorSlot = None
    /\ cast = None
    /\ echo = Unset
    /\ otherActivity \in Activities

User ==
    \/ \E s \in Slots : TriggerSlot(s) \/ OpenEditor(s)
    \/ CloseEditor
    \/ SaveEditor
    \/ ClearEditorSlot
    \/ PlayerTargetChanged
    \/ PlayerEnteringWorld
    \/ Reload

Game ==
    \/ CastCompletes
    \/ CastAborts
    \/ CastInterrupted
    \/ CastFails
    \/ UnrelatedStop
    \/ UnrelatedError
    \/ RefreshSlots

Next == User \/ Game \/ OnUpdate \/ Tick

Spec == Init /\ [][Next]_vars

\* The client draws frames, time passes and announced events arrive; nothing
\* obliges the user or the server to act.
Fairness == WF_vars(Tick) /\ WF_vars(OnUpdate) /\ WF_vars(CastInterrupted)

FairSpec == Spec /\ Fairness

-----------------------------------------------------------------------------
(* Properties *)

\* Every slot points to a step its chain has, or to 1 when it is empty, however
\* skips, confirmations, resets, edits and reloads are interleaved.
StepInRange ==
    \A s \in Slots : current[s] = 1 \/ current[s] <= Len(chain[s])

\* A pending cast whose steps table is still the slot's stands for a step of that
\* chain, so ConfirmPendingCast and the display never index past its end.
PendingStepExists ==
    pending # None /\ table[pending.slot] = pending.table
        => pending.step <= Len(chain[pending.slot])

\* Slot s is moved on by the confirmation of its pending cast: the only way to
\* a new step that also restarts the timer.
Advanced(s) == pending # None /\ current'[s] # current[s] /\ lastUsed'[s] = 0

CastOf(s) == cast # None /\ cast.slot = s /\ cast.step = current[s]

\* The reason for SUCCESS_DELAY: a cast that was interrupted or rejected never
\* moves its chain on, although the client announced it with SPELLCAST_STOP and
\* whatever else the player casts meanwhile.
InterruptedCastNeverAdvances ==
    [][\A s \in Slots :
         Advanced(s) /\ chain[s][current[s]] \notin Commands
             => ~(CastOf(s) /\ cast.phase = "aborted")]_vars

\* As long as the player casts nothing by hand and meets no unrelated error, a
\* chain moves past a spell that CastSpellByName cast only if that very spell was
\* cast to its end.  A ground spell gives no such proof: any end counts for it.
AdvanceProvesCast ==
    [][\A s \in Slots :
         ~otherActivity /\ Advanced(s) /\ chain[s][current[s]] \notin Commands \cup Ground
             => CastOf(s) /\ cast.phase = "completed"]_vars

\* The pending cast blocks all slots, so it must always end: by an event or at
\* the latest by PENDING_TIMEOUT, even if SPELLCAST_STOP keeps putting the
\* confirmation off.
PendingCastEnds == pending # None ~> pending = None

\* The slot whose pending cast would be confirmed if it succeeded.
ArmedSlot == IF pending # None /\ PendingIsCurrent THEN pending.slot ELSE None

Chain == INSTANCE SpellChain WITH
    length <- [s \in Slots |-> Len(chain[s])],
    at <- current,
    armed <- ArmedSlot

\* The manager keeps the promise of SpellChain: in particular a cast that was
\* overtaken by an edit, a reset or a target change never moves the chain, even
\* if the chain later looks the same again.
ImplementsSpellChain == Chain!Spec
=============================================================================
