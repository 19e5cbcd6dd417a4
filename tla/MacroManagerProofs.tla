------------------------- MODULE MacroManagerProofs -------------------------
(***************************************************************************)
(* Proofs about MacroManager, for any number of slots, any chains and any  *)
(* values of the times: its chains move on only by casts that succeeded,   *)
(* and it keeps the promise of SpellChain.                                 *)
(***************************************************************************)
EXTENDS MacroManager, TLAPS

\* What the step relation relies on: types, pointers inside their chains, and a
\* pending cast that stands for an existing step of a chain not edited since.
IInv == TypeOK /\ StepInRange /\ PendingStepExists

-----------------------------------------------------------------------------
(* Choosing the step *)

\* A non-empty set of offsets has a least element, so the CHOOSE of
\* GetEffectiveStep picks one of them.
LEMMA LeastOffset ==
    ASSUME NEW n \in MinSteps..MaxSteps, NEW open \in SUBSET (0..n - 1), open # {}
    PROVE  (CHOOSE o \in open : \A p \in open : o <= p) \in open
<1>1. \E o \in open : \A p \in open : o <= p
  <2>1. open \subseteq {0, 1, 2, 3}
    BY DEF MinSteps, MaxSteps
  <2>2. CASE 0 \in open
    BY <2>1, <2>2
  <2>3. CASE 0 \notin open /\ 1 \in open
    BY <2>1, <2>3
  <2>4. CASE 0 \notin open /\ 1 \notin open /\ 2 \in open
    BY <2>1, <2>4
  <2>5. CASE 0 \notin open /\ 1 \notin open /\ 2 \notin open
    <3>1. open \subseteq {3}
      BY <2>1, <2>5
    <3>2. 3 \in open
      BY <3>1
    <3> QED
      BY <3>1, <3>2
  <2> QED
    BY <2>2, <2>3, <2>4, <2>5
<1> QED
  BY <1>1

\* Whatever is unavailable, the step GetEffectiveStep returns exists.
LEMMA EffectiveStepInRange ==
    ASSUME NEW steps, Len(steps) \in MinSteps..MaxSteps,
           NEW from \in 1..Len(steps), NEW av
    PROVE  GetEffectiveStep(steps, from, av) \in 1..Len(steps)
<1> DEFINE n == Len(steps)
           StepAt(offset) == IF from + offset <= n THEN from + offset
                                                   ELSE from + offset - n
           open == {o \in 0..n - 1 : ~IsSpellOnCooldownOrUnavailable(steps[StepAt(o)], av)}
           first == CHOOSE o \in open : \A p \in open : o <= p
<1>1. GetEffectiveStep(steps, from, av) = IF open = {} THEN from ELSE StepAt(first)
  BY DEF GetEffectiveStep
<1>2. ASSUME open # {}  PROVE first \in 0..n - 1
  <2>1. open \in SUBSET (0..n - 1)
    OBVIOUS
  <2>2. first \in open
    BY <1>2, <2>1, LeastOffset
  <2> QED
    BY <2>1, <2>2
<1>3. ASSUME NEW o \in 0..n - 1  PROVE StepAt(o) \in 1..n
  BY DEF MinSteps, MaxSteps
<1> HIDE DEF StepAt, open, first, n
<1> QED
  BY <1>1, <1>2, <1>3 DEF n

-----------------------------------------------------------------------------
(* The inductive invariant *)

LEMMA ChainFacts ==
    ASSUME TypeOK, NEW s \in Slots
    PROVE  /\ Len(chain[s]) \in Nat
           /\ ~Incomplete(s) => Len(chain[s]) \in MinSteps..MaxSteps
           /\ Len(chain[s]) <= MaxSteps
<1> DEFINE n == Len(chain[s])
<1>1. chain[s] \in Chains \cup {<< >>}
  BY DEF TypeOK
<1>2. ASSUME chain[s] = << >>  PROVE n = 0
  BY <1>2
<1>3. ASSUME chain[s] \in Chains  PROVE n \in MinSteps..MaxSteps
  BY <1>3, ChainAssumption
<1>4. Incomplete(s) <=> n \notin MinSteps..MaxSteps
  BY DEF Incomplete
<1> HIDE DEF n
<1>5. n = 0 \/ n \in MinSteps..MaxSteps
  BY <1>1, <1>2, <1>3
<1>6. n \in Nat /\ n <= MaxSteps
  BY <1>5 DEF MinSteps, MaxSteps
<1> QED
  BY <1>4, <1>6 DEF n

LEMMA InitIInv == Init => IInv
<1> SUFFICES ASSUME Init PROVE IInv
  OBVIOUS
<1>1. TypeOK
  BY TimeAssumption DEF Init, TypeOK, Unset
<1> QED
  BY <1>1 DEF Init, IInv, StepInRange, PendingStepExists

\* Rewinding expired slots keeps the pointers typed and in range.
LEMMA ResetsIInv ==
    ASSUME IInv, NEW S \in SUBSET Slots, ApplyTimeReset(S), UNCHANGED chain
    PROVE  /\ current' \in [Slots -> 1..MaxSteps]
           /\ lastUsed' \in [Slots -> Nat \cup {Unset}]
           /\ StepInRange'
  BY DEF IInv, TypeOK, StepInRange, ApplyTimeReset, MaxSteps, Unset

LEMMA MoveIInv ==
    ASSUME IInv, NEW s \in Slots, NEW step \in 1..Len(chain[s]),
           MoveToStep(s, step), UNCHANGED chain
    PROVE  /\ current' \in [Slots -> 1..MaxSteps]
           /\ lastUsed' \in [Slots -> Nat \cup {Unset}]
           /\ StepInRange'
<1>1. Len(chain[s]) \in Nat /\ Len(chain[s]) <= MaxSteps
  BY ChainFacts DEF IInv
<1> QED
  BY <1>1 DEF IInv, TypeOK, StepInRange, MoveToStep, MaxSteps, Unset

LEMMA StepToUseInRange ==
    ASSUME IInv, NEW s \in Slots, ~Incomplete(s), NEW av
    PROVE  /\ StepToUse(s, av) \in 1..Len(chain[s])
           /\ StepToUse(s, av) \in 1..MaxSteps
<1> DEFINE n == Len(chain[s])
<1>1. n \in MinSteps..MaxSteps
  BY ChainFacts DEF IInv
<1>2. /\ current[s] \in 1..MaxSteps
      /\ current[s] = 1 \/ current[s] <= n
  BY DEF IInv, TypeOK, StepInRange
<1>3. ASSUME NEW from \in 1..n  PROVE GetEffectiveStep(chain[s], from, av) \in 1..n
  BY <1>1, EffectiveStepInRange
<1>4. StepToUse(s, av) = GetEffectiveStep(chain[s], IF Expired(s) THEN 1 ELSE current[s], av)
  BY DEF StepToUse
<1> HIDE DEF n
<1>5. current[s] \in 1..n /\ 1 \in 1..n
  BY <1>1, <1>2 DEF MinSteps, MaxSteps
<1>6. StepToUse(s, av) \in 1..n
  BY <1>3, <1>4, <1>5
<1>7. StepToUse(s, av) \in 1..MaxSteps
  BY <1>1, <1>6 DEF MinSteps, MaxSteps
<1> QED
  BY <1>6, <1>7 DEF n

\* Firing a slot that can be fired: the pointer moves to an existing step and a
\* new pending cast stands for it.
LEMMA TriggerReadyIInv ==
    ASSUME IInv, NEW s \in Slots, TriggerReady(s)
    PROVE  IInv'
<1> PICK av \in Availabilities :
        \/ TriggerNotReady(s, av)
        \/ TriggerCommand(s, av)
        \/ TriggerSpell(s, av)
        \/ TriggerGroundSpell(s, av)
  BY DEF TriggerReady
<1> DEFINE step == StepToUse(s, av)
<1>1. step \in 1..Len(chain[s]) /\ step \in 1..MaxSteps
  BY StepToUseInRange DEF TriggerReady
<1>2. MoveToStep(s, step) /\ UNCHANGED <<chain, table>>
  BY DEF TriggerReady, TriggerNotReady, TriggerCommand, TriggerSpell, TriggerGroundSpell,
         configVars
<1>3. /\ current' \in [Slots -> 1..MaxSteps]
      /\ lastUsed' \in [Slots -> Nat \cup {Unset}]
      /\ StepInRange'
  BY <1>1, <1>2, MoveIInv
<1>4. step <= Len(chain[s])
  BY <1>1, ChainFacts DEF IInv
<1>5. \/ UNCHANGED pending
      \/ \E due \in {Unset, SuccessDelay} : pending' = NewPendingCast(s, step, due)
  BY DEF TriggerNotReady, TriggerCommand, TriggerSpell, TriggerGroundSpell
<1>6. ASSUME NEW due \in {Unset, SuccessDelay}
      PROVE  NewPendingCast(s, step, due) \in PendingCast
  BY <1>1, <1>6, TimeAssumption DEF NewPendingCast, PendingCast, IInv, TypeOK, Unset
<1>7. pending' \in PendingCast \cup {None}
  BY <1>5, <1>6 DEF IInv, TypeOK
<1>8. UNCHANGED cast \/ cast' = None
        \/ cast' = [slot |-> s, step |-> step, phase |-> "casting"]
  BY DEF TriggerNotReady, TriggerCommand, TriggerSpell, TriggerGroundSpell, gameVars
<1>9. cast' \in Cast \cup {None}
  BY <1>1, <1>8 DEF IInv, TypeOK, Cast
<1>10. UNCHANGED <<echo, otherActivity>>
  BY DEF TriggerNotReady, TriggerCommand, TriggerSpell, TriggerGroundSpell, gameVars
<1>11. TypeOK'
  BY <1>3, <1>7, <1>9, <1>10 DEF IInv, TypeOK, TriggerReady, configVars
<1>12. PendingStepExists'
  BY <1>2, <1>4, <1>5 DEF IInv, PendingStepExists, NewPendingCast
<1> HIDE DEF step
<1> QED
  BY <1>3, <1>11, <1>12 DEF IInv

LEMMA TriggerIInv ==
    ASSUME IInv, NEW s \in Slots, TriggerSlot(s)
    PROVE  IInv'
<1>1. CASE TriggerIncomplete(s) \/ TriggerWhilePending(s)
  <2>1. ApplyTimeReset({s}) /\ UNCHANGED <<configVars, pending, updateElapsed, gameVars>>
    BY <1>1 DEF TriggerIncomplete, TriggerWhilePending
  <2>2. editorSlot' \in Slots \cup {None}
    BY <1>1 DEF TriggerIncomplete, TriggerWhilePending, IInv, TypeOK
  <2>3. /\ current' \in [Slots -> 1..MaxSteps]
        /\ lastUsed' \in [Slots -> Nat \cup {Unset}]
        /\ StepInRange'
    BY <2>1, ResetsIInv DEF configVars
  <2> QED
    BY <2>1, <2>2, <2>3
    DEF IInv, TypeOK, PendingStepExists, configVars, gameVars
<1>2. CASE TriggerReady(s)
  BY <1>2, TriggerReadyIInv
<1> QED
  BY <1>1, <1>2 DEF TriggerSlot

\* An edit puts the slot back to step 1 with a table no pending cast refers to.
LEMMA RewriteIInv ==
    ASSUME IInv, NEW s \in Slots, NEW steps \in Chains \cup {<< >>},
           NEW reset \in ResetTimes \cup {DefaultReset}, NEW onTarget \in BOOLEAN,
           RewriteSlot(s, steps, reset, onTarget), editorSlot' \in Slots \cup {None}
    PROVE  IInv'
<1> USE DEF IInv, TypeOK
<1>1. PICK t \in NewTables : table' = [table EXCEPT ![s] = t]
  BY DEF RewriteSlot
<1>2. t \in Tables /\ (pending # None => pending.table # t)
  BY DEF NewTables
<1>3. /\ current' \in [Slots -> 1..MaxSteps]
      /\ lastUsed' \in [Slots -> Nat \cup {Unset}]
      /\ StepInRange'
  BY DEF RewriteSlot, StepInRange, MaxSteps, Unset
<1>4. TypeOK'
  BY <1>1, <1>2, <1>3 DEF RewriteSlot, gameVars
<1>5. PendingStepExists'
  BY <1>1, <1>2 DEF RewriteSlot, PendingStepExists, PendingCast
<1> QED
  BY <1>3, <1>4, <1>5

LEMMA SpellcastStopType ==
    ASSUME IInv, SpellcastStop
    PROVE  pending' \in PendingCast \cup {None}
<1>1. SuccessDelay \in Unset..SuccessDelay
  BY TimeAssumption DEF Unset
<1>2. CASE pending = None
  BY <1>2 DEF SpellcastStop
<1>3. CASE pending \in PendingCast
  BY <1>1, <1>3, NilAssumption DEF SpellcastStop, PendingCast
<1> QED
  BY <1>2, <1>3 DEF IInv, TypeOK

LEMMA OnUpdateIInv == IInv /\ OnUpdate => IInv'
<1> SUFFICES ASSUME IInv, OnUpdate  PROVE IInv'
  OBVIOUS
<1> PICK placed \in SUBSET Slots :
      LET refreshed == IF updateElapsed >= RefreshInterval THEN Slots
                       ELSE IF \E s \in Slots : Confirms(s) THEN placed ELSE {}
          Resets(s) == s \in refreshed /\ Expired(s)
      IN  /\ current' = [s \in Slots |-> IF Confirms(s) THEN NextStep(s)
                                         ELSE IF Resets(s) THEN 1 ELSE current[s]]
          /\ lastUsed' = [s \in Slots |-> IF Confirms(s) THEN 0
                                          ELSE IF Resets(s) THEN Unset ELSE lastUsed[s]]
  BY DEF OnUpdate
<1>1. ASSUME NEW s \in Slots
      PROVE  /\ NextStep(s) \in 1..MaxSteps
             /\ NextStep(s) = 1 \/ NextStep(s) <= Len(chain[s])
  <2> DEFINE n == Len(chain[s])
  <2>1. n \in Nat /\ n <= MaxSteps
    BY ChainFacts DEF IInv
  <2>2. current[s] \in 1..MaxSteps
    BY DEF IInv, TypeOK
  <2>3. NextStep(s) = IF current[s] + 1 > n THEN 1 ELSE current[s] + 1
    BY DEF NextStep
  <2> HIDE DEF n
  <2>4. NextStep(s) \in 1..MaxSteps /\ (NextStep(s) = 1 \/ NextStep(s) <= n)
    BY <2>1, <2>2, <2>3 DEF MaxSteps
  <2> QED
    BY <2>4 DEF n
<1>2. /\ chain' = chain /\ table' = table
      /\ pending' \in {pending, None}
  BY DEF OnUpdate, configVars
<1>3. current' \in [Slots -> 1..MaxSteps] /\ StepInRange'
  BY <1>1, <1>2 DEF IInv, TypeOK, StepInRange, MaxSteps
<1>4. lastUsed' \in [Slots -> Nat \cup {Unset}]
  BY DEF IInv, TypeOK
<1>5. updateElapsed' \in 0..RefreshInterval
  BY TimeAssumption DEF OnUpdate, IInv, TypeOK
<1>6. TypeOK'
  BY <1>2, <1>3, <1>4, <1>5 DEF OnUpdate, IInv, TypeOK, configVars, gameVars
<1>7. PendingStepExists'
  BY <1>2 DEF IInv, PendingStepExists
<1> QED
  BY <1>3, <1>6, <1>7 DEF IInv

LEMMA TickIInv == IInv /\ Tick => IInv'
<1> SUFFICES ASSUME IInv, Tick  PROVE IInv'
  OBVIOUS
<1>1. pending' \in PendingCast \cup {None}
  <2>1. ASSUME NEW age \in 0..PendingTimeout + 1
        PROVE  Older(age, PendingTimeout + 1) \in 0..PendingTimeout + 1
    BY TimeAssumption DEF Older
  <2>2. ASSUME NEW due \in Unset..SuccessDelay
        PROVE  Nearer(due) \in Unset..SuccessDelay
    BY TimeAssumption DEF Nearer, Unset
  <2>3. CASE pending = None
    BY <2>3 DEF Tick
  <2>4. CASE pending \in PendingCast
    <3>1. pending' = [pending EXCEPT !.age = Older(@, PendingTimeout + 1), !.due = Nearer(@)]
      BY <2>4, NilAssumption DEF Tick
    <3> QED
      BY <2>1, <2>2, <2>4, <3>1 DEF PendingCast
  <2> QED
    BY <2>3, <2>4 DEF IInv, TypeOK
<1>2. lastUsed' \in [Slots -> Nat \cup {Unset}]
  <2>1. ASSUME NEW s \in Slots, lastUsed[s] # Unset
        PROVE  Older(lastUsed[s], resetSeconds[s]) \in Nat
    BY <2>1, TimeAssumption DEF IInv, TypeOK, Older
  <2> QED
    BY <2>1 DEF Tick
<1>3. updateElapsed' \in 0..RefreshInterval /\ echo' \in Unset..EventLag
  BY TimeAssumption DEF IInv, TypeOK, Tick, Older, Nearer, Unset
<1>4. TypeOK'
  BY <1>1, <1>2, <1>3 DEF IInv, TypeOK, Tick, configVars
<1>5. pending' # None => /\ pending # None
                         /\ pending'.slot = pending.slot
                         /\ pending'.step = pending.step
                         /\ pending'.table = pending.table
  BY DEF Tick, IInv, TypeOK, PendingCast
<1> QED
  BY <1>4, <1>5 DEF IInv, StepInRange, PendingStepExists, Tick, configVars

\* InitializeDB leaves every pointer inside its chain, whatever it was.
LEMMA InitializeDBIInv ==
    ASSUME IInv, InitializeDB
    PROVE  /\ current' \in [Slots -> 1..MaxSteps]
           /\ lastUsed' \in [Slots -> Nat \cup {Unset}]
           /\ StepInRange'
<1>1. current' \in [Slots -> 1..MaxSteps]
  BY DEF InitializeDB, IInv, TypeOK, MaxSteps
<1>2. \A s \in Slots : current'[s] = 1 \/ current'[s] = current[s]
  BY DEF InitializeDB
<1> QED
  BY <1>1, <1>2 DEF InitializeDB, IInv, TypeOK, StepInRange, configVars

\* Handlers that leave the slots alone and may drop, keep or put off the pending
\* cast.
LEMMA EventIInv ==
    ASSUME IInv, UNCHANGED localVars,
           pending' = None \/ UNCHANGED pending \/ SpellcastStop,
           cast' \in Cast \cup {None}, echo' \in Unset..EventLag
    PROVE  IInv'
<1>1. pending' \in PendingCast \cup {None}
  BY SpellcastStopType DEF IInv, TypeOK
<1>2. TypeOK'
  BY <1>1 DEF IInv, TypeOK, localVars, configVars, pointerVars
<1>3. pending' # None => /\ pending # None
                         /\ pending'.slot = pending.slot
                         /\ pending'.step = pending.step
                         /\ pending'.table = pending.table
  BY DEF SpellcastStop, IInv, TypeOK, PendingCast
<1> QED
  BY <1>2, <1>3 DEF IInv, StepInRange, PendingStepExists, localVars, configVars, pointerVars

LEMMA GameIInv == IInv /\ Game => IInv'
<1> SUFFICES ASSUME IInv, Game  PROVE IInv'
  OBVIOUS
<1>1. cast \in Cast \cup {None} /\ echo \in Unset..EventLag
  BY DEF IInv, TypeOK
<1>2. ASSUME Casting, NEW phase \in {"completed", "aborted"}
      PROVE  [cast EXCEPT !.phase = phase] \in Cast
  BY <1>1, <1>2 DEF Casting, Cast
<1>3. EventLag \in Unset..EventLag /\ Unset \in Unset..EventLag
  BY TimeAssumption DEF Unset
<1>4. CASE CastCompletes
  BY <1>1, <1>2, <1>4, EventIInv DEF CastCompletes
<1>5. CASE CastAborts
  BY <1>2, <1>3, <1>5, EventIInv DEF CastAborts
<1>6. CASE CastInterrupted
  BY <1>1, <1>3, <1>6, EventIInv DEF CastInterrupted, SpellcastFailed
<1>7. CASE CastFails
  BY <1>1, <1>2, <1>7, EventIInv DEF CastFails, SpellcastFailed
<1>8. CASE UnrelatedStop \/ UnrelatedError
  BY <1>1, <1>8, EventIInv DEF UnrelatedStop, UnrelatedError, SpellcastFailed, gameVars
<1>9. CASE RefreshSlots
  BY <1>9, ResetsIInv
  DEF RefreshSlots, IInv, TypeOK, PendingStepExists, configVars, gameVars
<1> QED
  BY <1>4, <1>5, <1>6, <1>7, <1>8, <1>9 DEF Game

LEMMA TargetChangedIInv == IInv /\ PlayerTargetChanged => IInv'
<1> SUFFICES ASSUME IInv, PlayerTargetChanged  PROVE IInv'
  OBVIOUS
<1>1. PICK R \in SUBSET Slots :
        /\ current' = [s \in Slots |-> IF s \in R THEN 1 ELSE current[s]]
        /\ lastUsed' = [s \in Slots |-> IF s \in R THEN Unset ELSE lastUsed[s]]
  <2> DEFINE dropped == pending # None /\ resetOnTarget[pending.slot]
             moved == \E s \in Slots :
                         resetOnTarget[s] /\ (current[s] # 1 \/ lastUsed[s] # Unset)
             Resets(placed, s) == \/ resetOnTarget[s]
                                  \/ (dropped \/ moved) /\ s \in placed /\ Expired(s)
             Rewound(placed) == {s \in Slots : Resets(placed, s)}
  <2>1. PICK placed \in SUBSET Slots :
          /\ current' = [s \in Slots |-> IF Resets(placed, s) THEN 1 ELSE current[s]]
          /\ lastUsed' = [s \in Slots |-> IF Resets(placed, s) THEN Unset ELSE lastUsed[s]]
    BY DEF PlayerTargetChanged
  <2> WITNESS Rewound(placed) \in SUBSET Slots
  <2> QED
    BY <2>1
<1>2. /\ UNCHANGED <<configVars, updateElapsed, editorSlot, gameVars>>
      /\ pending' \in {pending, None}
  BY DEF PlayerTargetChanged
<1>3. TypeOK' /\ StepInRange'
  BY <1>1, <1>2 DEF IInv, TypeOK, StepInRange, configVars, gameVars, MaxSteps, Unset
<1>4. PendingStepExists'
  BY <1>2 DEF IInv, PendingStepExists, configVars
<1> QED
  BY <1>3, <1>4 DEF IInv

LEMMA UserIInv == IInv /\ User => IInv'
<1> SUFFICES ASSUME IInv, User  PROVE IInv'
  OBVIOUS
<1>1. ASSUME NEW s \in Slots, TriggerSlot(s)  PROVE IInv'
  BY <1>1, TriggerIInv
<1>2. CASE (\E s \in Slots : OpenEditor(s)) \/ CloseEditor
  BY <1>2 DEF OpenEditor, CloseEditor, IInv, TypeOK, StepInRange, PendingStepExists,
              configVars, pointerVars, gameVars
<1>3. CASE SaveEditor
  BY <1>3, RewriteIInv DEF SaveEditor, IInv, TypeOK
<1>4. CASE ClearEditorSlot
  BY <1>4, RewriteIInv DEF ClearEditorSlot, IInv, TypeOK
<1>5. CASE PlayerTargetChanged
  BY <1>5, TargetChangedIInv
<1>6. CASE PlayerEnteringWorld
  BY <1>6, InitializeDBIInv
  DEF PlayerEnteringWorld, InitializeDB, IInv, TypeOK, PendingStepExists, configVars, gameVars
<1>7. CASE Reload
  BY <1>7, InitializeDBIInv, TimeAssumption
  DEF Reload, InitializeDB, IInv, TypeOK, PendingStepExists, configVars, Unset
<1> QED
  BY <1>1, <1>2, <1>3, <1>4, <1>5, <1>6, <1>7 DEF User

\* Every step keeps the inductive invariant.
LEMMA NextIInv == IInv /\ [Next]_vars => IInv'
<1>1. CASE UNCHANGED vars
  BY <1>1 DEF vars, IInv, TypeOK, StepInRange, PendingStepExists
<1> QED
  BY <1>1, UserIInv, GameIInv, OnUpdateIInv, TickIInv DEF Next

LEMMA InductiveInvariant == Spec => []IInv
  BY InitIInv, NextIInv, PTL DEF Spec

\* The variables of the manager keep their types.
THEOREM TypeCorrect == Spec => []TypeOK
<1>1. IInv => TypeOK
  BY DEF IInv
<1> QED
  BY <1>1, InductiveInvariant, PTL

\* slot.current always names an existing step, so DMM.TriggerSlot and the display
\* never index a chain past its end.
THEOREM StepAlwaysInRange == Spec => []StepInRange
<1>1. IInv => StepInRange
  BY DEF IInv
<1> QED
  BY <1>1, InductiveInvariant, PTL

\* A pending cast whose chain was not edited meanwhile stands for an existing step.
THEOREM PendingStepAlwaysExists == Spec => []PendingStepExists
<1>1. IInv => PendingStepExists
  BY DEF IInv
<1> QED
  BY <1>1, InductiveInvariant, PTL

-----------------------------------------------------------------------------
(* What a pending cast stands for *)

\* The slot was not rewritten since the pending cast was fired.
StillThere == pending # None /\ table[pending.slot] = pending.table

PendingEntry == chain[pending.slot][pending.step]

\* While a cast is pending its slot can only be rewound.
PendingOrRewound == StillThere => current[pending.slot] \in {pending.step, 1}

CastIsPending == cast # None /\ cast.slot = pending.slot /\ cast.step = pending.step

\* A pending spell whose cast was aborted will hear so before it may be confirmed.
AbortIsAnnounced ==
    /\ StillThere
    /\ PendingEntry \notin Commands
    /\ CastIsPending
    /\ cast.phase = "aborted"
    => echo # Unset /\ (pending.due = Unset \/ echo < pending.due)

\* Without other activity a pending spell is the cast the client knows, and nothing is
\* heard of it while it runs.
PendingIsCast ==
    /\ ~otherActivity
    /\ StillThere
    /\ PendingEntry \notin Commands \cup Ground
    => CastIsPending /\ (cast.phase = "casting" => pending.due = Unset)

CastIInv == IInv /\ PendingOrRewound /\ AbortIsAnnounced /\ PendingIsCast

CastParts == PendingOrRewound /\ AbortIsAnnounced /\ PendingIsCast

LEMMA InitCastIInv == Init => CastIInv
  BY InitIInv
  DEF Init, CastIInv, PendingOrRewound, AbortIsAnnounced, PendingIsCast, StillThere

-----------------------------------------------------------------------------
(* The invariant, by what a step does to the pending cast *)

\* The pending cast is dropped or confirmed.
LEMMA DroppedParts ==
    ASSUME pending' = None
    PROVE  CastParts'
  BY DEF CastParts, PendingOrRewound, AbortIsAnnounced, PendingIsCast, StillThere

\* Nothing happens to it, but slots may be rewound.
LEMMA KeptParts ==
    ASSUME CastIInv, UNCHANGED <<chain, table, pending, cast, echo, otherActivity>>,
           \A s \in Slots : current'[s] \in {current[s], 1}
    PROVE  CastParts'
<1>1. pending # None => pending.slot \in Slots
  BY DEF CastIInv, IInv, TypeOK, PendingCast
<1> QED
  BY <1>1 DEF CastIInv, CastParts, PendingOrRewound, AbortIsAnnounced, PendingIsCast,
    StillThere, PendingEntry, CastIsPending

LEMMA ResetsAreRewinds ==
    ASSUME NEW S \in SUBSET Slots, ApplyTimeReset(S)
    PROVE  \A s \in Slots : current'[s] \in {current[s], 1}
  BY DEF ApplyTimeReset

\* A slot is rewritten: the pending cast stands for another one, or for nothing.
LEMMA RewriteParts ==
    ASSUME CastIInv, NEW s \in Slots, NEW steps, NEW reset, NEW onTarget,
           RewriteSlot(s, steps, reset, onTarget)
    PROVE  CastParts'
<1>1. PICK t \in NewTables : table' = [table EXCEPT ![s] = t]
  BY DEF RewriteSlot
<1>2. pending # None => pending.slot \in Slots /\ pending.table # t
  BY DEF NewTables, CastIInv, IInv, TypeOK, PendingCast
<1>3. /\ UNCHANGED <<pending, cast, echo, otherActivity>>
      /\ \A c \in Slots : current'[c] \in {current[c], 1}
  BY DEF RewriteSlot, gameVars
<1>4. CASE pending # None /\ pending.slot # s
  <2>1. table'[pending.slot] = table[pending.slot] /\ chain'[pending.slot] = chain[pending.slot]
    BY <1>1, <1>2, <1>4 DEF RewriteSlot, CastIInv, IInv, TypeOK
  <2> QED
    BY <1>2, <1>3, <1>4, <2>1 DEF CastIInv, CastParts, PendingOrRewound, AbortIsAnnounced,
      PendingIsCast, StillThere, PendingEntry, CastIsPending
<1>5. CASE pending = None \/ pending.slot = s
  <2>1. ~StillThere'
    BY <1>1, <1>2, <1>3, <1>5 DEF StillThere, CastIInv, IInv, TypeOK
  <2> QED
    BY <2>1 DEF CastParts, PendingOrRewound, AbortIsAnnounced, PendingIsCast
<1> QED
  BY <1>4, <1>5

\* A new pending cast stands for the step its slot has moved to.
LEMMA TriggerReadyParts ==
    ASSUME CastIInv, NEW s \in Slots, TriggerReady(s)
    PROVE  CastParts'
<1> PICK av \in Availabilities :
        \/ TriggerNotReady(s, av)
        \/ TriggerCommand(s, av)
        \/ TriggerSpell(s, av)
        \/ TriggerGroundSpell(s, av)
  BY DEF TriggerReady
<1> DEFINE step == StepToUse(s, av)
<1>1. pending = None /\ UNCHANGED <<chain, table>>
  BY DEF TriggerReady, configVars
<1>2. MoveToStep(s, step) /\ UNCHANGED <<echo, otherActivity>>
  BY DEF TriggerNotReady, TriggerCommand, TriggerSpell, TriggerGroundSpell, gameVars
<1>3. current'[s] = step
  BY <1>2 DEF MoveToStep, CastIInv, IInv, TypeOK
<1>4. ASSUME NEW due, pending' = NewPendingCast(s, step, due)
      PROVE  /\ pending'.slot = s /\ pending'.step = step /\ pending'.due = due
             /\ PendingOrRewound'
             /\ PendingEntry' = chain[s][step]
  BY <1>1, <1>3, <1>4 DEF NewPendingCast, PendingOrRewound, PendingEntry
<1> HIDE DEF step
<1>5. CASE pending' = None
  BY <1>5, DroppedParts
<1>6. CASE TriggerCommand(s, av)
  <2>1. pending' = NewPendingCast(s, step, SuccessDelay) /\ chain[s][step] \in Commands
    BY <1>6 DEF TriggerCommand, step
  <2> QED
    BY <1>4, <2>1 DEF CastParts, AbortIsAnnounced, PendingIsCast
<1>7. CASE TriggerSpell(s, av) /\ pending' # None
  <2>1. /\ pending' = NewPendingCast(s, step, Unset)
        /\ cast' = [slot |-> s, step |-> step, phase |-> "casting"]
    BY <1>1, <1>7 DEF TriggerSpell, step
  <2>2. cast'.slot = s /\ cast'.step = step /\ cast'.phase = "casting"
    BY <2>1
  <2>3. cast' # None
    <3>1. cast' \in Cast
      BY <2>1, StepToUseInRange DEF Cast, step, TriggerReady, CastIInv
    <3> QED
      BY <3>1, NilAssumption
  <2> QED
    BY <1>4, <2>1, <2>2, <2>3 DEF CastParts, AbortIsAnnounced, PendingIsCast, CastIsPending
<1>8. CASE TriggerGroundSpell(s, av)
  <2>1. /\ pending' = NewPendingCast(s, step, Unset)
        /\ chain[s][step] \in Ground
        /\ cast' = None \/ (cast' = cast /\ cast.phase = "casting")
    BY <1>8 DEF TriggerGroundSpell, step, Casting
  <2> QED
    BY <1>4, <2>1 DEF CastParts, AbortIsAnnounced, PendingIsCast, CastIsPending
<1>9. CASE TriggerNotReady(s, av)
  BY <1>1, <1>9, <1>5 DEF TriggerNotReady
<1> QED
  BY <1>5, <1>6, <1>7, <1>8, <1>9

\* SPELLCAST_STOP puts the confirmation off and keeps the rest of the pending cast.
LEMMA StopFacts ==
    ASSUME IInv, SpellcastStop
    PROVE  pending' # None =>
             /\ pending # None
             /\ pending'.slot = pending.slot
             /\ pending'.step = pending.step
             /\ pending'.table = pending.table
             /\ pending'.due = SuccessDelay
  BY DEF SpellcastStop, IInv, TypeOK, PendingCast

LEMMA GameParts ==
    ASSUME CastIInv, Game
    PROVE  CastParts'
<1> USE DEF CastIInv
<1>1. CASE CastInterrupted \/ CastFails \/ UnrelatedError
  BY <1>1, DroppedParts DEF CastInterrupted, CastFails, UnrelatedError, SpellcastFailed
<1>2. CASE RefreshSlots
  BY <1>2, KeptParts, ResetsAreRewinds DEF RefreshSlots, configVars, gameVars
<1>3. SuccessDelay \in Nat /\ EventLag \in Nat /\ EventLag < SuccessDelay /\ echo \in Unset..EventLag
  BY TimeAssumption, LagAssumption DEF IInv, TypeOK
<1>4. CASE CastCompletes
  <2>1. /\ cast' # None => cast'.phase = "completed" /\ cast'.slot = cast.slot
                           /\ cast'.step = cast.step
        /\ cast # None /\ cast' # None
        /\ UNCHANGED <<chain, table, current, otherActivity>>
    <3>1. cast \in Cast /\ cast' = [cast EXCEPT !.phase = "completed"]
      BY <1>4 DEF CastCompletes, Casting, IInv, TypeOK
    <3>2. cast' \in Cast /\ cast'.phase = "completed" /\ cast'.slot = cast.slot
          /\ cast'.step = cast.step
      BY <3>1 DEF Cast
    <3> QED
      BY <1>4, <3>1, <3>2, NilAssumption DEF CastCompletes, localVars, configVars, pointerVars
  <2> QED
    BY <1>4, <2>1, StopFacts DEF CastCompletes, CastParts, PendingOrRewound, AbortIsAnnounced,
      PendingIsCast, StillThere, PendingEntry, CastIsPending
<1>5. CASE CastAborts
  <2>1. /\ cast'.phase = "aborted" /\ cast'.slot = cast.slot /\ cast'.step = cast.step
        /\ cast # None /\ cast' # None
        /\ UNCHANGED <<chain, table, current, otherActivity>>
        /\ echo' = EventLag
    <3>1. cast \in Cast /\ cast' = [cast EXCEPT !.phase = "aborted"]
      BY <1>5 DEF CastAborts, Casting, IInv, TypeOK
    <3>2. cast' \in Cast /\ cast'.phase = "aborted" /\ cast'.slot = cast.slot
          /\ cast'.step = cast.step
      BY <3>1 DEF Cast
    <3> QED
      BY <1>5, <3>1, <3>2, NilAssumption DEF CastAborts, localVars, configVars, pointerVars
  <2>2. EventLag # Unset
    BY <1>3 DEF Unset
  <2> QED
    BY <1>3, <1>5, <2>1, <2>2, StopFacts DEF CastAborts, CastParts, PendingOrRewound,
      AbortIsAnnounced, PendingIsCast, StillThere, PendingEntry, CastIsPending
<1>6. CASE UnrelatedStop
  <2>1. echo < SuccessDelay
    BY <1>3
  <2>2. UNCHANGED <<chain, table, current, cast, echo, otherActivity>> /\ otherActivity
    BY <1>6 DEF UnrelatedStop, localVars, configVars, pointerVars, gameVars
  <2> QED
    BY <1>6, <2>1, <2>2, StopFacts DEF UnrelatedStop, CastParts, PendingOrRewound,
      AbortIsAnnounced, PendingIsCast, StillThere, PendingEntry, CastIsPending
<1> QED
  BY <1>1, <1>2, <1>4, <1>5, <1>6 DEF Game

LEMMA TickParts ==
    ASSUME CastIInv, Tick
    PROVE  CastParts'
<1> USE DEF CastIInv
<1>1. UNCHANGED <<chain, table, current, cast, otherActivity>>
  BY DEF Tick, configVars
<1>2. pending' # None =>
        /\ pending # None
        /\ pending'.slot = pending.slot
        /\ pending'.step = pending.step
        /\ pending'.table = pending.table
        /\ pending'.due = Nearer(pending.due)
        /\ pending.due \in Unset..SuccessDelay
  BY DEF Tick, IInv, TypeOK, PendingCast
<1>3. ASSUME NEW due \in Unset..SuccessDelay, echo # Unset, due = Unset \/ echo < due
      PROVE  echo' # Unset /\ (Nearer(due) = Unset \/ echo' < Nearer(due))
  <2>1. echo \in Int /\ echo > 0 /\ due \in Int /\ SuccessDelay \in Int
    BY <1>3, TimeAssumption DEF Tick, IInv, TypeOK, Unset
  <2>2. echo' = echo - 1
    BY <2>1 DEF Tick, Nearer
  <2> QED
    BY <1>3, <2>1, <2>2 DEF Nearer, Unset
<1>4. Nearer(Unset) = Unset
  BY DEF Nearer, Unset
<1>5. PendingOrRewound'
  BY <1>1, <1>2 DEF PendingOrRewound, StillThere
<1>6. AbortIsAnnounced'
  BY <1>1, <1>2, <1>3 DEF AbortIsAnnounced, StillThere, PendingEntry, CastIsPending
<1>7. PendingIsCast'
  BY <1>1, <1>2, <1>4 DEF PendingIsCast, StillThere, PendingEntry, CastIsPending
<1> QED
  BY <1>5, <1>6, <1>7 DEF CastParts

\* A frame confirms or drops the pending cast, or only rewinds.
LEMMA OnUpdateParts ==
    ASSUME CastIInv, OnUpdate
    PROVE  CastParts'
<1>1. CASE pending' = None
  BY <1>1, DroppedParts
<1>2. CASE pending' # None
  <2>1. pending' = pending /\ ~ConfirmationDue
    BY <1>2 DEF OnUpdate
  <2>2. \A s \in Slots : current'[s] \in {current[s], 1}
    BY <2>1 DEF OnUpdate, Confirms
  <2> QED
    BY <2>1, <2>2, KeptParts DEF OnUpdate, configVars, gameVars
<1> QED
  BY <1>1, <1>2

LEMMA UserParts ==
    ASSUME CastIInv, User
    PROVE  CastParts'
<1>1. ASSUME NEW s \in Slots, TriggerSlot(s)
      PROVE  CastParts'
  <2>1. CASE TriggerReady(s)
    BY <2>1, TriggerReadyParts
  <2>2. CASE TriggerIncomplete(s) \/ TriggerWhilePending(s)
    <3>1. ApplyTimeReset({s})
          /\ UNCHANGED <<chain, table, pending, cast, echo, otherActivity>>
      BY <2>2 DEF TriggerIncomplete, TriggerWhilePending, configVars, gameVars
    <3> QED
      BY <3>1, KeptParts, ResetsAreRewinds
  <2> QED
    BY <1>1, <2>1, <2>2 DEF TriggerSlot
<1>2. CASE (\E s \in Slots : OpenEditor(s)) \/ CloseEditor
  BY <1>2, KeptParts DEF OpenEditor, CloseEditor, configVars, pointerVars, gameVars
<1>3. CASE SaveEditor
  BY <1>3, RewriteParts DEF SaveEditor, CastIInv, IInv, TypeOK
<1>4. CASE ClearEditorSlot
  BY <1>4, RewriteParts DEF ClearEditorSlot, CastIInv, IInv, TypeOK
<1>5. CASE PlayerTargetChanged
  <2>1. pending' = None \/ UNCHANGED pending
    BY <1>5 DEF PlayerTargetChanged
  <2>2. \A s \in Slots : current'[s] \in {current[s], 1}
    BY <1>5 DEF PlayerTargetChanged
  <2> QED
    BY <1>5, <2>1, <2>2, DroppedParts, KeptParts DEF PlayerTargetChanged, configVars, gameVars
<1>6. CASE PlayerEnteringWorld
  BY <1>6, KeptParts DEF PlayerEnteringWorld, InitializeDB, configVars, gameVars
<1>7. CASE Reload
  BY <1>7, DroppedParts DEF Reload
<1> QED
  BY <1>1, <1>2, <1>3, <1>4, <1>5, <1>6, <1>7 DEF User

LEMMA NextCastIInv == CastIInv /\ [Next]_vars => CastIInv'
<1> SUFFICES ASSUME CastIInv, [Next]_vars
             PROVE  IInv' /\ CastParts'
  BY DEF CastIInv, CastParts
<1>1. IInv'
  BY NextIInv DEF CastIInv
<1>2. CASE UNCHANGED vars
  BY <1>1, <1>2, KeptParts DEF vars
<1> QED
  BY <1>1, <1>2, UserParts, GameParts, OnUpdateParts, TickParts DEF Next

LEMMA AlwaysCastIInv == Spec => []CastIInv
  BY InitCastIInv, NextCastIInv, PTL DEF Spec

-----------------------------------------------------------------------------
(* What a chain that moved on proves *)

\* Only a confirmation moves a slot on and restarts its timer.
LEMMA AdvanceIsConfirmation ==
    ASSUME CastIInv, Next, NEW s \in Slots, Advanced(s)
    PROVE  Confirms(s)
<1>1. Unset # 0
  BY DEF Unset
<1>2. CASE OnUpdate
  BY <1>1, <1>2 DEF OnUpdate, Advanced
<1>3. CASE Tick
  BY <1>3 DEF Tick, Advanced
<1>4. CASE Game
  BY <1>1, <1>4 DEF Game, CastCompletes, CastAborts, CastInterrupted, CastFails, UnrelatedStop,
    UnrelatedError, RefreshSlots, ApplyTimeReset, localVars, pointerVars, Advanced
<1>5. CASE User
  <2>1. ASSUME NEW c \in Slots, TriggerSlot(c)  PROVE FALSE
    BY <1>1, <2>1 DEF TriggerSlot, TriggerIncomplete, TriggerWhilePending, TriggerReady,
      ApplyTimeReset, Advanced
  <2> QED
    BY <1>1, <1>5, <2>1 DEF User, OpenEditor, CloseEditor, SaveEditor, ClearEditorSlot,
      RewriteSlot, PlayerTargetChanged, PlayerEnteringWorld, Reload, InitializeDB,
      pointerVars, Advanced
<1> QED
  BY <1>2, <1>3, <1>4, <1>5 DEF Next

LEMMA ConfirmedCast ==
    ASSUME CastIInv, Next, NEW s \in Slots, Advanced(s), chain[s][current[s]] \notin Commands
    PROVE  /\ StillThere
           /\ PendingEntry = chain[s][current[s]]
           /\ pending.due = 0
           /\ CastOf(s) <=> CastIsPending
  BY AdvanceIsConfirmation
  DEF Confirms, ConfirmationDue, PendingIsCurrent, StillThere, PendingEntry, CastOf, CastIsPending

\* SUCCESS_DELAY is long enough: whatever the player casts besides, a cast that was
\* interrupted or rejected never moves its chain on.
THEOREM InterruptedCastsNeverAdvance == Spec => InterruptedCastNeverAdvances
<1>1. ASSUME CastIInv, [Next]_vars
      PROVE  [\A s \in Slots :
                Advanced(s) /\ chain[s][current[s]] \notin Commands
                  => ~(CastOf(s) /\ cast.phase = "aborted")]_vars
  <2> SUFFICES ASSUME Next, NEW s \in Slots, Advanced(s),
                      chain[s][current[s]] \notin Commands,
                      CastOf(s), cast.phase = "aborted"
               PROVE  FALSE
    BY <1>1
  <2>1. echo # Unset /\ echo < 0
    BY <1>1, ConfirmedCast DEF CastIInv, AbortIsAnnounced, Unset
  <2> QED
    BY <1>1, <2>1, TimeAssumption DEF CastIInv, IInv, TypeOK, Unset
<1> QED
  BY <1>1, AlwaysCastIInv, PTL DEF Spec, InterruptedCastNeverAdvances

\* Left alone, a chain moves past a spell only if that spell was cast to its end.
THEOREM AdvanceAlwaysProvesCast == Spec => AdvanceProvesCast
<1>1. ASSUME CastIInv, [Next]_vars
      PROVE  [\A s \in Slots :
                ~otherActivity /\ Advanced(s) /\ chain[s][current[s]] \notin Commands \cup Ground
                  => CastOf(s) /\ cast.phase = "completed"]_vars
  <2> SUFFICES ASSUME Next, NEW s \in Slots, ~otherActivity, Advanced(s),
                      chain[s][current[s]] \notin Commands \cup Ground
               PROVE  CastOf(s) /\ cast.phase = "completed"
    BY <1>1
  <2>1. /\ StillThere /\ PendingEntry \notin Commands \cup Ground
        /\ pending.due = 0
        /\ CastOf(s) <=> CastIsPending
    BY <1>1, ConfirmedCast
  <2>2. CastIsPending /\ cast.phase # "casting"
    BY <1>1, <2>1 DEF CastIInv, PendingIsCast, Unset
  <2>3. cast.phase # "aborted"
    BY <1>1, <2>1, <2>2, TimeAssumption DEF CastIInv, AbortIsAnnounced, IInv, TypeOK, Unset
  <2>4. cast.phase \in {"casting", "completed", "aborted"}
    BY <1>1, <2>2 DEF CastIInv, IInv, TypeOK, Cast, CastIsPending
  <2> QED
    BY <2>1, <2>2, <2>3, <2>4
<1> QED
  BY <1>1, AlwaysCastIInv, PTL DEF Spec, AdvanceProvesCast

-----------------------------------------------------------------------------
(* The manager implements SpellChain *)

LEMMA LengthFacts ==
    ASSUME NEW steps \in Chains \cup {<< >>}
    PROVE  Len(steps) \in Chain!Lengths
<1>1. CASE steps = << >>
  BY <1>1 DEF Chain!Lengths
<1>2. CASE steps \in Chains
  BY <1>2, ChainAssumption DEF Chain!Lengths
<1> QED
  BY <1>1, <1>2

\* The same pending cast still waits.
StillPending ==
    /\ pending # None /\ pending' # None
    /\ pending'.slot = pending.slot
    /\ pending'.step = pending.step
    /\ pending'.table = pending.table

\* Rewinding slots can only disarm, because a pending slot that is at another step
\* than the pending one is at step 1 already.
LEMMA RewoundStaysDisarmed ==
    ASSUME CastIInv, NEW R \in SUBSET Slots, pending' = None \/ StillPending,
           StillThere' => StillThere,
           \A s \in R : current'[s] = 1,
           \A s \in Slots : current'[s] \in {current[s], 1}
    PROVE  Chain!DisarmedBy(R)
<1>1. CASE ArmedSlot' = None
  BY <1>1 DEF Chain!DisarmedBy
<1>2. CASE ArmedSlot' # None
  <2>1. StillPending /\ PendingIsCurrent' /\ ArmedSlot' = pending.slot
    BY <1>2 DEF ArmedSlot, StillPending
  <2>2. StillThere' /\ pending.slot \in Slots
    BY <2>1 DEF StillThere, StillPending, PendingIsCurrent, CastIInv, IInv, TypeOK, PendingCast
  <2>3. current'[pending.slot] = pending.step /\ StillThere
    BY <2>1, <2>2 DEF PendingIsCurrent, StillPending
  <2>4. current[pending.slot] = pending.step
    BY <2>2, <2>3 DEF CastIInv, PendingOrRewound
  <2>5. ArmedSlot = pending.slot
    BY <2>3, <2>4 DEF ArmedSlot, PendingIsCurrent, StillThere
  <2> QED
    BY <2>1, <2>3, <2>4, <2>5 DEF Chain!DisarmedBy
<1> QED
  BY <1>1, <1>2

LEMMA RewindRefines ==
    ASSUME CastIInv, UNCHANGED <<chain, table>>, pending' = None \/ StillPending,
           NEW R \in SUBSET Slots,
           current' = [s \in Slots |-> IF s \in R THEN 1 ELSE current[s]]
    PROVE  Chain!Rewind
<1>1. Chain!DisarmedBy(R)
  BY RewoundStaysDisarmed DEF StillThere, StillPending
<1> QED
  BY <1>1 DEF Chain!Rewind

\* Saving or clearing a slot: its new table disarms it.
LEMMA RewriteRefines ==
    ASSUME CastIInv, NEW s \in Slots, NEW steps \in Chains \cup {<< >>}, NEW reset,
           NEW onTarget, RewriteSlot(s, steps, reset, onTarget)
    PROVE  Chain!Rewrite(s)
<1> DEFINE R == {c \in Slots : Expired(c)}
<1>1. PICK t \in NewTables : table' = [table EXCEPT ![s] = t]
  BY DEF RewriteSlot
<1>2. pending # None => pending.slot \in Slots /\ pending.table # t
  BY DEF NewTables, CastIInv, IInv, TypeOK, PendingCast
<1>3. UNCHANGED pending
  BY DEF RewriteSlot
<1>4. StillThere' => StillThere /\ pending.slot # s
  BY <1>1, <1>2, <1>3 DEF StillThere, CastIInv, IInv, TypeOK
<1>5. current' = [c \in Slots |-> IF c = s \/ c \in R THEN 1 ELSE current[c]]
  BY DEF RewriteSlot
<1>6. Chain!DisarmedBy(R)
  BY <1>3, <1>4, <1>5, RewoundStaysDisarmed DEF StillPending
<1>7. ArmedSlot' # s
  BY <1>3, <1>4, SlotAssumption DEF ArmedSlot, PendingIsCurrent, StillThere
<1>8. [c \in Slots |-> Len(chain'[c])] = [[c \in Slots |-> Len(chain[c])] EXCEPT ![s] = Len(steps)]
  BY DEF RewriteSlot, CastIInv, IInv, TypeOK
<1> HIDE DEF R
<1>9. R \in SUBSET Slots
  BY DEF R
<1> QED
  BY <1>5, <1>6, <1>7, <1>8, <1>9, LengthFacts DEF Chain!Rewrite

\* Firing a slot moves it to an existing step and may arm it.
LEMMA FireRefines ==
    ASSUME CastIInv, NEW s \in Slots, TriggerReady(s)
    PROVE  Chain!Fire(s)
<1> PICK av \in Availabilities :
        \/ TriggerNotReady(s, av)
        \/ TriggerCommand(s, av)
        \/ TriggerSpell(s, av)
        \/ TriggerGroundSpell(s, av)
  BY DEF TriggerReady
<1> DEFINE step == StepToUse(s, av)
<1>1. step \in 1..Len(chain[s])
  BY StepToUseInRange DEF TriggerReady, CastIInv
<1>2. pending = None /\ UNCHANGED chain /\ ~Incomplete(s)
  BY DEF TriggerReady, configVars
<1>3. Len(chain[s]) >= MinSteps
  <2>1. Len(chain[s]) \in MinSteps..MaxSteps
    BY <1>2 DEF Incomplete
  <2> QED
    BY <2>1 DEF MinSteps, MaxSteps
<1>4. current' = [current EXCEPT ![s] = step]
  BY DEF TriggerNotReady, TriggerCommand, TriggerSpell, TriggerGroundSpell, MoveToStep
<1>5. pending' = None \/ \E due \in {Unset, SuccessDelay} : pending' = NewPendingCast(s, step, due)
  BY <1>2 DEF TriggerNotReady, TriggerCommand, TriggerSpell, TriggerGroundSpell
<1>6. ArmedSlot = None /\ ArmedSlot' \in {s, None}
  BY <1>2, <1>5 DEF ArmedSlot, NewPendingCast
<1> HIDE DEF step
<1> QED
  BY <1>1, <1>2, <1>3, <1>4, <1>6 DEF Chain!Fire

\* A frame moves the armed chain on, or only rewinds.
LEMMA OnUpdateRefines ==
    ASSUME CastIInv, OnUpdate
    PROVE  Chain!Advance \/ Chain!Rewind
<1> PICK R \in SUBSET Slots :
      current' = [s \in Slots |-> IF Confirms(s) THEN NextStep(s)
                                  ELSE IF s \in R /\ Expired(s) THEN 1 ELSE current[s]]
  BY DEF OnUpdate
<1> DEFINE rewound == {s \in R : Expired(s) /\ ~Confirms(s)}
<1>1. UNCHANGED <<chain, table>>
  BY DEF OnUpdate, configVars
<1>2. ASSUME NEW s \in Slots, Confirms(s)
      PROVE  Chain!Advance
  <2>1. pending # None /\ pending.slot = s /\ ArmedSlot = s /\ pending' = None
    BY <1>2 DEF Confirms, ConfirmationDue, ArmedSlot, OnUpdate
  <2>2. ArmedSlot' = None
    BY <2>1 DEF ArmedSlot
  <2>3. \A c \in Slots : Confirms(c) <=> c = s
    BY <1>2, <2>1 DEF Confirms
  <2>4. NextStep(s) = Chain!Successor(s)
    BY DEF NextStep, Chain!Successor
  <2>5. rewound \in SUBSET (Slots \ {s})
    BY <1>2
  <2>6. current' = [c \in Slots |-> IF c = s THEN Chain!Successor(s)
                                    ELSE IF c \in rewound THEN 1 ELSE current[c]]
    BY <2>3, <2>4
  <2> HIDE DEF rewound
  <2> QED
    BY <1>1, <2>1, <2>2, <2>5, <2>6 DEF Chain!Advance
<1>3. CASE \A s \in Slots : ~Confirms(s)
  <2>1. rewound \in SUBSET Slots
    OBVIOUS
  <2>2. current' = [s \in Slots |-> IF s \in rewound THEN 1 ELSE current[s]]
    BY <1>3
  <2>3. pending' = None \/ StillPending
    BY DEF OnUpdate, StillPending
  <2> QED
    BY <1>1, <2>1, <2>2, <2>3, RewindRefines
<1> QED
  BY <1>2, <1>3

\* Everything else rewinds slots, drops or keeps the pending cast, and no more.
LEMMA GameRefines ==
    ASSUME CastIInv, Game
    PROVE  Chain!Rewind
<1> DEFINE R == {s \in Slots : current'[s] # current[s]}
<1>1. UNCHANGED <<chain, table>>
  BY DEF Game, CastCompletes, CastAborts, CastInterrupted, CastFails, UnrelatedStop,
    UnrelatedError, RefreshSlots, localVars, configVars
<1>2. pending' = None \/ StillPending
  <2>1. SpellcastStop => pending' = None \/ StillPending
    BY StopFacts DEF StillPending, CastIInv
  <2> QED
    BY <2>1 DEF Game, CastCompletes, CastAborts, CastInterrupted, CastFails, UnrelatedStop,
      UnrelatedError, RefreshSlots, SpellcastFailed, StillPending
<1>3. UNCHANGED current \/ \E shown \in SUBSET Slots : ApplyTimeReset(shown)
  BY DEF Game, CastCompletes, CastAborts, CastInterrupted, CastFails, UnrelatedStop,
    UnrelatedError, RefreshSlots, localVars, pointerVars
<1>4. current' = [s \in Slots |-> IF s \in R THEN 1 ELSE current[s]]
  BY <1>3 DEF ApplyTimeReset, CastIInv, IInv, TypeOK
<1>5. R \in SUBSET Slots
  OBVIOUS
<1> HIDE DEF R
<1> QED
  BY <1>1, <1>2, <1>4, <1>5, RewindRefines

\* Time alone changes nothing the user was promised.
LEMMA TickRefines ==
    ASSUME CastIInv, Tick
    PROVE  Chain!Rewind
<1> DEFINE R == {c \in Slots : FALSE}
<1>1. UNCHANGED <<chain, table, current>>
  BY DEF Tick, configVars
<1>2. pending' = None \/ StillPending
  BY DEF Tick, StillPending, CastIInv, IInv, TypeOK, PendingCast
<1>3. current' = [s \in Slots |-> IF s \in R THEN 1 ELSE current[s]] /\ R \in SUBSET Slots
  BY <1>1 DEF CastIInv, IInv, TypeOK
<1> HIDE DEF R
<1> QED
  BY <1>1, <1>2, <1>3, RewindRefines

LEMMA UserRefines ==
    ASSUME CastIInv, User
    PROVE  Chain!Rewind \/ \E s \in Slots : Chain!Fire(s) \/ Chain!Rewrite(s)
<1>1. CASE \E s \in Slots : TriggerReady(s)
  BY <1>1, FireRefines
<1>2. CASE SaveEditor
  BY <1>2, RewriteRefines DEF SaveEditor, CastIInv, IInv, TypeOK
<1>3. CASE ClearEditorSlot
  BY <1>3, RewriteRefines DEF ClearEditorSlot, CastIInv, IInv, TypeOK
<1>4. CASE \/ \E s \in Slots : TriggerIncomplete(s) \/ TriggerWhilePending(s) \/ OpenEditor(s)
           \/ CloseEditor \/ PlayerTargetChanged \/ PlayerEnteringWorld \/ Reload
  <2> DEFINE R == {s \in Slots : current'[s] # current[s]}
  <2>1. UNCHANGED <<chain, table>>
    BY <1>4 DEF TriggerIncomplete, TriggerWhilePending, OpenEditor, CloseEditor,
      PlayerTargetChanged, PlayerEnteringWorld, Reload, InitializeDB, configVars
  <2>2. pending' = None \/ StillPending
    BY <1>4 DEF TriggerIncomplete, TriggerWhilePending, OpenEditor, CloseEditor,
      PlayerTargetChanged, PlayerEnteringWorld, Reload, StillPending
  <2>3. /\ current' = [s \in Slots |-> current'[s]]
        /\ \A s \in Slots : current'[s] \in {current[s], 1}
    BY <1>4 DEF TriggerIncomplete, TriggerWhilePending, OpenEditor, CloseEditor,
      PlayerTargetChanged, PlayerEnteringWorld, Reload, InitializeDB, ApplyTimeReset,
      pointerVars, CastIInv, IInv, TypeOK
  <2>4. current' = [s \in Slots |-> IF s \in R THEN 1 ELSE current[s]]
    BY <2>3
  <2>5. R \in SUBSET Slots
    OBVIOUS
  <2> HIDE DEF R
  <2> QED
    BY <2>1, <2>2, <2>4, <2>5, RewindRefines
<1> QED
  BY <1>1, <1>2, <1>3, <1>4 DEF User, TriggerSlot

LEMMA InitRefines == Init => Chain!Init
<1> SUFFICES ASSUME Init PROVE Chain!Init
  OBVIOUS
<1>1. [s \in Slots |-> Len(chain[s])] \in [Slots -> Chain!Lengths]
  BY LengthFacts DEF Init
<1> QED
  BY <1>1 DEF Init, Chain!Init, ArmedSlot

\* MacroManager implements SpellChain: at most one chain is armed, it moves on by one
\* step and only while armed, and a rewound or rewritten chain is armed no longer.
THEOREM RefinesSpellChain == Spec => ImplementsSpellChain
<1>1. CastIInv /\ [Next]_vars => [Chain!Next]_Chain!vars
  <2> SUFFICES ASSUME CastIInv, [Next]_vars  PROVE [Chain!Next]_Chain!vars
    OBVIOUS
  <2>1. CASE UNCHANGED vars
    BY <2>1 DEF vars, Chain!vars, ArmedSlot, PendingIsCurrent
  <2>2. CASE Next
    BY <2>2, UserRefines, GameRefines, OnUpdateRefines, TickRefines DEF Next, Chain!Next
  <2> QED
    BY <2>1, <2>2
<1> QED
  BY <1>1, InitRefines, AlwaysCastIInv, PTL DEF Spec, ImplementsSpellChain, Chain!Spec
=============================================================================
