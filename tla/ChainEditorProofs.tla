--------------------------- MODULE ChainEditorProofs ---------------------------
(***************************************************************************)
(* Theorems about ChainEditor for every set of slots, commands and books   *)
(* and every number of steps a chain may have.                             *)
(*                                                                         *)
(* The check for unsaved changes compares fields by position, Save leaves  *)
(* the empty ones out: the two agree because the fields that are filled,   *)
(* counted, are as many as the saved steps only if they are the first ones *)
(* (FirstFieldsFilled).  That every slot keeps a complete chain needs to   *)
(* know of the fields that they never hold a passive spell (IInv).         *)
(***************************************************************************)
EXTENDS ChainEditor, FunctionTheorems, FiniteSetTheorems, TLAPS

\* The fields hold what a chain may be made of, the slots hold complete chains.
EntriesPart ==
    /\ fields \in [FieldNumbers -> Entries \cup {None}]
    /\ \A s \in Slots : slots[s].steps \in Chains \cup {<< >>}

IInv == TypeOK /\ EntriesPart

-----------------------------------------------------------------------------
(* Counting *)

Rank(S, i) == Cardinality({j \in S : j <= i})

\* Ranks tell the members of a finite set of numbers apart.
LEMMA RankInjective ==
    ASSUME NEW S, IsFiniteSet(S), S \subseteq Int,
           NEW i \in S, NEW j \in S, Rank(S, i) = Rank(S, j)
    PROVE  i = j
<1>1. ASSUME NEW a \in S, NEW b \in S, a < b
      PROVE  Rank(S, a) # Rank(S, b)
  <2> DEFINE A == {k \in S : k <= a}
             B == {k \in S : k <= b}
  <2>1. A \subseteq B
    <3>1. ASSUME NEW k \in S, k <= a  PROVE k <= b
      <4>1. k \in Int /\ a \in Int /\ b \in Int
        OBVIOUS
      <4> QED
        BY <1>1, <3>1, <4>1
    <3> QED
      BY <3>1
  <2>2. B \subseteq S
    OBVIOUS
  <2>3. b \in B /\ b \notin A
    <3>1. a \in Int /\ b \in Int
      OBVIOUS
    <3> QED
      BY <1>1, <3>1
  <2> HIDE DEF A, B
  <2>4. IsFiniteSet(B)
    BY <2>2, FS_Subset
  <2>5. Cardinality(A) # Cardinality(B)
    BY <2>1, <2>3, <2>4, FS_Subset
  <2> QED
    BY <2>5 DEF Rank, A, B
<1> QED
  BY <1>1

\* The rank of a member is a position in the set.
LEMMA RankInRange ==
    ASSUME NEW S, IsFiniteSet(S), S \subseteq Int, NEW i \in S
    PROVE  Rank(S, i) \in 1..Cardinality(S)
<1> DEFINE A == {k \in S : k <= i}
<1>1. A \subseteq S /\ i \in A
  OBVIOUS
<1> HIDE DEF A
<1>2. IsFiniteSet(A) /\ Cardinality(A) <= Cardinality(S)
  BY <1>1, FS_Subset
<1>3. Cardinality(A) \in Nat /\ Cardinality(S) \in Nat /\ Cardinality(A) # 0
  BY <1>1, <1>2, FS_CardinalityType, FS_EmptySet
<1> QED
  BY <1>2, <1>3 DEF Rank, A

\* Nth finds, for every position, the member of that rank.
LEMMA NthHasRank ==
    ASSUME NEW S, IsFiniteSet(S), S \subseteq Int, NEW k \in 1..Cardinality(S)
    PROVE  Nth(S, k) \in S /\ Rank(S, Nth(S, k)) = k
<1> DEFINE n == Cardinality(S)
           rank == [i \in S |-> Rank(S, i)]
<1>1. n \in Nat
  BY FS_CardinalityType
<1>2. rank \in [S -> 1..n]
  BY RankInRange
<1>3. \A i, j \in S : rank[i] = rank[j] => i = j
  BY RankInjective
<1>4. rank \in Injection(S, 1..n)
  <2> HIDE DEF rank, n
  <2> QED
    BY <1>2, <1>3, Fun_IsInj
<1>5. IsFiniteSet(1..n) /\ Cardinality(1..n) = n
  BY <1>1, FS_Interval
<1>6. rank \in Surjection(S, 1..n)
  <2>1. Cardinality(S) = Cardinality(1..n)
    BY <1>5
  <2> HIDE DEF rank, n
  <2> QED
    BY <1>4, <1>5, <2>1, FS_Injection
<1>7. \E i \in S : rank[i] = k
  <2>1. k \in 1..n
    OBVIOUS
  <2> HIDE DEF rank, n
  <2>2. \A t \in 1..n : \E i \in S : rank[i] = t
    BY <1>6, Fun_SurjectionProperties
  <2> QED
    BY <2>1, <2>2
<1>8. \E i \in S : Cardinality({j \in S : j <= i}) = k
  BY <1>7 DEF Rank
<1> QED
  BY <1>8 DEF Nth, Rank

-----------------------------------------------------------------------------
(* The fields that are filled *)

\* The filled fields are finitely many numbers of fields.
LEMMA FilledFacts ==
    /\ IsFiniteSet(Filled)
    /\ Filled \subseteq FieldNumbers
    /\ Filled \subseteq Int
    /\ Cardinality(Filled) \in 0..MaxSpells
<1>1. MaxSpells \in Nat /\ MaxSpells >= 1
  BY LimitAssumption
<1>2. IsFiniteSet(1..MaxSpells) /\ Cardinality(1..MaxSpells) = MaxSpells
  BY <1>1, FS_Interval
<1>3. Filled \subseteq 1..MaxSpells
  BY DEF Filled, FieldNumbers
<1>4. IsFiniteSet(Filled) /\ Cardinality(Filled) <= MaxSpells
  BY <1>2, <1>3, FS_Subset
<1>5. Cardinality(Filled) \in Nat
  BY <1>4, FS_CardinalityType
<1>6. Filled \subseteq Int
  BY <1>3, <1>1
<1> QED
  BY <1>1, <1>3, <1>4, <1>5, <1>6 DEF FieldNumbers

\* Compact lists entries of the fields, none of them empty.
LEMMA CompactFacts ==
    ASSUME NEW E, fields \in [FieldNumbers -> E \cup {None}]
    PROVE  /\ Len(Compact) = Cardinality(Filled)
           /\ Compact \in [1..Len(Compact) -> E]
           /\ \A k \in 1..Len(Compact) : Compact[k] = fields[Nth(Filled, k)]
           /\ DOMAIN Compact = 1..Len(Compact)
<1> DEFINE n == Cardinality(Filled)
<1>1. n \in Nat
  BY FilledFacts, LimitAssumption
<1>2. ASSUME NEW k \in 1..n  PROVE fields[Nth(Filled, k)] \in E
  <2>1. Nth(Filled, k) \in Filled
    BY FilledFacts, NthHasRank
  <2> QED
    BY <2>1 DEF Filled
<1>3. Compact = [k \in 1..n |-> fields[Nth(Filled, k)]]
  BY DEF Compact
<1>4. Compact \in Seq(E) /\ Len(Compact) = n
  <2> HIDE DEF n
  <2> QED
    BY <1>1, <1>2, <1>3
<1> HIDE DEF n
<1> QED
  BY <1>1, <1>2, <1>3, <1>4 DEF n

\* If the first fields, as many as are filled, are filled, then they alone are, and
\* Compact is what they hold.
LEMMA FirstFieldsFilled ==
    ASSUME fields \in [FieldNumbers -> Spells \cup Commands \cup {None}],
           \A i \in 1..Cardinality(Filled) : fields[i] # None
    PROVE  /\ Filled = 1..Cardinality(Filled)
           /\ \A k \in 1..Cardinality(Filled) : Compact[k] = fields[k]
<1> DEFINE n == Cardinality(Filled)
<1>1. n \in Nat /\ n <= MaxSpells /\ MaxSpells \in Nat
  BY FilledFacts, LimitAssumption
<1>2. 1..n \subseteq Filled
  BY <1>1 DEF Filled, FieldNumbers
<1>3. IsFiniteSet(1..n) /\ Cardinality(1..n) = n
  BY <1>1, FS_Interval
<1>4. Filled = 1..n
  <2>1. Cardinality(1..n) = Cardinality(Filled)
    BY <1>3
  <2> HIDE DEF n
  <2> QED
    BY <1>2, <2>1, FilledFacts, FS_Subset
<1>5. ASSUME NEW k \in 1..n  PROVE Nth(Filled, k) = k
  <2>1. {j \in Filled : j <= k} = 1..k
    <3> HIDE DEF n
    <3> QED
      BY <1>1, <1>4
  <2>2. Cardinality(1..k) = k
    BY <1>1, FS_Interval
  <2>3. Rank(Filled, k) = k
    BY <2>1, <2>2 DEF Rank
  <2>4. Nth(Filled, k) \in Filled /\ Rank(Filled, Nth(Filled, k)) = k
    BY FilledFacts, NthHasRank
  <2>5. k \in Filled
    BY <1>4
  <2> QED
    BY <2>3, <2>4, <2>5, FilledFacts, RankInjective
<1>6. \A k \in 1..n : Compact[k] = fields[k]
  BY <1>5 DEF Compact
<1> QED
  BY <1>4, <1>6

-----------------------------------------------------------------------------
(* The inductive invariant *)

LEMMA ConstantFacts ==
    /\ MinSpells \in Nat \ {0}
    /\ MaxSpells \in Nat
    /\ MinSpells <= MaxSpells
    /\ Entries \subseteq Spells \cup Commands
    /\ Commands \subseteq Entries
    /\ None \notin Spells \cup Commands
    /\ None \notin Entries
  BY LimitAssumption, SettingAssumption DEF Entries

\* Fields loaded from a chain hold its steps, then nothing.
LEMMA InFieldsType ==
    ASSUME NEW E, NEW n \in 0..MaxSpells, NEW steps \in [1..n -> E]
    PROVE  /\ InFields(steps) \in [FieldNumbers -> E \cup {None}]
           /\ Len(steps) = n
<1>1. n \in Nat
  BY LimitAssumption
<1>2. Len(steps) = n
  BY <1>1
<1>3. ASSUME NEW i \in FieldNumbers
      PROVE  (IF i <= Len(steps) THEN steps[i] ELSE None) \in E \cup {None}
  <2>1. i \in Nat /\ i >= 1
    BY LimitAssumption DEF FieldNumbers
  <2> QED
    BY <1>1, <1>2, <2>1
<1> QED
  BY <1>2, <1>3 DEF InFields

\* A chain that can be saved is complete.
LEMMA SavedChain ==
    ASSUME IInv, CanSave
    PROVE  /\ SlotOfFields \in Slot
           /\ SlotOfFields.steps \in Chains
<1>1. fields \in [FieldNumbers -> Entries \cup {None}]
  BY DEF IInv, EntriesPart
<1>2. Compact \in [1..Len(Compact) -> Entries] /\ Len(Compact) \in MinSpells..MaxSpells
  BY <1>1, CompactFacts DEF CanSave
<1>3. Compact \in Chains
  BY <1>2 DEF Chains
<1>4. Compact \in [1..Len(Compact) -> Spells \cup Commands] /\ Len(Compact) \in 0..MaxSpells
  BY <1>2, ConstantFacts
<1>5. Compact \in UNION {[1..n -> Spells \cup Commands] : n \in 0..MaxSpells}
  BY <1>4
<1>6. resetText \in ResetTimes
  BY DEF IInv, TypeOK, CanSave
<1> QED
  BY <1>3, <1>5, <1>6 DEF SlotOfFields, Slot

\* The facts of IInv that the actions need.
LEMMA SlotFacts ==
    ASSUME IInv, NEW s \in Slots
    PROVE  /\ slots[s].reset \in ResetTimes
           /\ slots[s].steps \in Chains \cup {<< >>}
           /\ Len(slots[s].steps) \in 0..MaxSpells
           /\ slots[s].steps \in [1..Len(slots[s].steps) -> Entries]
           /\ slots[s] = [steps |-> slots[s].steps, reset |-> slots[s].reset]
<1>1. slots[s] \in Slot
  BY DEF IInv, TypeOK
<1>2. slots[s].steps \in Chains \cup {<< >>}
  BY DEF IInv, EntriesPart
<1>3. CASE slots[s].steps \in Chains
  <2>1. PICK n \in MinSpells..MaxSpells : slots[s].steps \in [1..n -> Entries]
    BY <1>3 DEF Chains
  <2>2. n \in 0..MaxSpells
    BY ConstantFacts
  <2>3. Len(slots[s].steps) = n
    BY <2>1, <2>2, ConstantFacts
  <2> QED
    BY <1>1, <1>2, <2>1, <2>2, <2>3 DEF Slot
<1>4. CASE slots[s].steps = << >>
  <2>1. Len(slots[s].steps) = 0 /\ slots[s].steps \in [1..0 -> Entries]
    BY <1>4
  <2> QED
    BY <1>1, <1>2, <2>1, ConstantFacts DEF Slot
<1> QED
  BY <1>2, <1>3, <1>4

LEMMA LoadPreserves ==
    ASSUME IInv, NEW s \in Slots, OpenEditor(s)
    PROVE  IInv'
<1>1. slots[s].steps \in [1..Len(slots[s].steps) -> Entries]
  BY SlotFacts
<1>2. InFields(slots[s].steps) \in [FieldNumbers -> Entries \cup {None}]
  BY <1>1, SlotFacts, InFieldsType
<1>3. fields' \in [FieldNumbers -> Entries \cup {None}]
  BY <1>2 DEF OpenEditor, Load
<1>4. fields' \in [FieldNumbers -> Spells \cup Commands \cup {None}]
  BY <1>3, ConstantFacts
<1>5. TypeOK'
  BY <1>4, SlotFacts, SettingAssumption
     DEF IInv, TypeOK, OpenEditor, Load, clientVars
<1>6. EntriesPart'
  BY <1>3 DEF IInv, EntriesPart, OpenEditor, Load
<1> QED
  BY <1>5, <1>6 DEF IInv

\* An entry put into a field.
LEMMA SetFieldPreserves ==
    ASSUME IInv, NEW i \in FieldNumbers, NEW e \in Entries, SetField(i, e),
           book' = book, picked' \in {picked, None}, cursor' \in {cursor, None}
    PROVE  IInv'
<1>1. fields' \in [FieldNumbers -> Entries \cup {None}]
  BY DEF IInv, EntriesPart, SetField
<1>2. fields' \in [FieldNumbers -> Spells \cup Commands \cup {None}]
  BY <1>1, ConstantFacts
<1>3. TypeOK'
  BY <1>2 DEF IInv, TypeOK, SetField
<1>4. EntriesPart'
  BY <1>1 DEF IInv, EntriesPart, SetField
<1> QED
  BY <1>3, <1>4 DEF IInv

LEMMA FieldPreserves ==
    ASSUME IInv, NEW i \in FieldNumbers, Field(i)
    PROVE  IInv'
<1>1. CASE RemoveEditorSpell(i)
  <2>1. ASSUME NEW j \in FieldNumbers, j < MaxSpells  PROVE j + 1 \in FieldNumbers
    BY <2>1, ConstantFacts DEF FieldNumbers
  <2>2. fields' \in [FieldNumbers -> Entries \cup {None}]
    BY <1>1, <2>1 DEF IInv, EntriesPart, RemoveEditorSpell
  <2>3. fields' \in [FieldNumbers -> Spells \cup Commands \cup {None}]
    BY <2>2, ConstantFacts
  <2>4. TypeOK'
    BY <1>1, <2>3 DEF IInv, TypeOK, RemoveEditorSpell, clientVars
  <2>5. EntriesPart'
    BY <1>1, <2>2 DEF IInv, EntriesPart, RemoveEditorSpell
  <2> QED
    BY <2>4, <2>5 DEF IInv
<1>2. CASE InsertCommand(i)
  <2>1. PICK c \in Commands : SetField(i, c)
    BY <1>2 DEF InsertCommand
  <2> QED
    BY <1>2, <2>1, ConstantFacts, SetFieldPreserves DEF InsertCommand, clientVars
<1>3. CASE ReceiveSpell(i)
  <2>1. picked \in Nat \ {0} /\ picked <= Len(book) /\ book[picked] \notin Passive
    BY <1>3 DEF IInv, TypeOK, ReceiveSpell, Receivable
  <2>2. book \in Seq(Spells)
    BY BookAssumption DEF IInv, TypeOK
  <2>3. book[picked] \in Spells
    BY <2>1, <2>2
  <2>4. book[picked] \in Entries
    BY <2>1, <2>3 DEF Entries
  <2> QED
    BY <1>3, <2>4, SetFieldPreserves DEF ReceiveSpell
<1> QED
  BY <1>1, <1>2, <1>3 DEF Field

LEMMA SavePreserves ==
    ASSUME IInv, SaveEditor
    PROVE  IInv'
<1>1. SlotOfFields \in Slot /\ SlotOfFields.steps \in Chains
  BY SavedChain DEF SaveEditor
<1>2. editorSlot \in Slots
  BY DEF IInv, TypeOK, SaveEditor
<1> HIDE DEF SlotOfFields
<1>3. TypeOK'
  BY <1>1, <1>2 DEF IInv, TypeOK, SaveEditor, clientVars
<1>4. EntriesPart'
  BY <1>1, <1>2 DEF IInv, TypeOK, EntriesPart, SaveEditor
<1> QED
  BY <1>3, <1>4 DEF IInv

\* The empty slot and the empty fields.
LEMMA EmptyFacts ==
    /\ NewSlot \in Slot
    /\ NewSlot.steps = << >>
    /\ Empty \in [FieldNumbers -> Entries \cup {None}]
    /\ Empty \in [FieldNumbers -> Spells \cup Commands \cup {None}]
    /\ DefaultReset \in ResetTimes
<1>1. << >> \in [1..0 -> Spells \cup Commands]
  OBVIOUS
<1>2. 0 \in 0..MaxSpells
  BY ConstantFacts
<1>3. << >> \in UNION {[1..n -> Spells \cup Commands] : n \in 0..MaxSpells}
  BY <1>1, <1>2
<1> QED
  BY <1>3, SettingAssumption DEF NewSlot, Slot, Empty

LEMMA ButtonPreserves ==
    ASSUME IInv, Button
    PROVE  IInv'
<1>1. CASE SaveEditor
  BY <1>1, SavePreserves
<1>2. CASE ClearEditorSlot
  <2>1. editorSlot \in Slots
    BY <1>2 DEF IInv, TypeOK, ClearEditorSlot
  <2>2. TypeOK'
    BY <1>2, <2>1, EmptyFacts DEF IInv, TypeOK, ClearEditorSlot, clientVars
  <2>3. EntriesPart'
    BY <1>2, <2>1, EmptyFacts DEF IInv, TypeOK, EntriesPart, ClearEditorSlot
  <2> QED
    BY <2>2, <2>3 DEF IInv
<1>3. CASE PickupSlotMacro
  <2>1. editorSlot \in Slots
    BY <1>3 DEF IInv, TypeOK, PickupSlotMacro
  <2> QED
    BY <1>3, <2>1 DEF IInv, TypeOK, EntriesPart, PickupSlotMacro, editorVars
<1> QED
  BY <1>1, <1>2, <1>3 DEF Button

\* The client and the closing of the editor.
LEMMA OtherPreserves ==
    ASSUME IInv,
           TypeReset \/ Hide \/ PickupSpell \/ UseCursorElsewhere \/ SpellsChanged \/ Reload
    PROVE  IInv'
<1>1. CASE TypeReset
  BY <1>1 DEF IInv, TypeOK, EntriesPart, TypeReset, clientVars
<1>2. CASE Hide
  BY <1>2 DEF IInv, TypeOK, EntriesPart, Hide, clientVars
<1>3. CASE PickupSpell
  <2>1. picked' \in (Nat \ {0}) \cup {None}
    <3>1. Len(book) \in Nat
      BY BookAssumption DEF IInv, TypeOK
    <3> QED
      BY <1>3, <3>1 DEF PickupSpell
  <2> QED
    BY <1>3, <2>1 DEF IInv, TypeOK, EntriesPart, PickupSpell, editorVars
<1>4. CASE UseCursorElsewhere
  BY <1>4 DEF IInv, TypeOK, EntriesPart, UseCursorElsewhere, editorVars
<1>5. CASE SpellsChanged
  BY <1>5 DEF IInv, TypeOK, EntriesPart, SpellsChanged, editorVars
<1>6. CASE Reload
  BY <1>6, EmptyFacts DEF IInv, TypeOK, EntriesPart, Reload
<1> QED
  BY <1>1, <1>2, <1>3, <1>4, <1>5, <1>6

LEMMA InitIInv == Init => IInv
<1> SUFFICES ASSUME Init PROVE IInv
  OBVIOUS
<1>1. slots \in [Slots -> Slot]
  BY EmptyFacts DEF Init
<1>2. TypeOK
  BY <1>1, EmptyFacts DEF Init, TypeOK
<1>3. EntriesPart
  BY EmptyFacts DEF Init, EntriesPart
<1> QED
  BY <1>2, <1>3 DEF IInv

LEMMA NextIInv == IInv /\ [Next]_vars => IInv'
<1> SUFFICES ASSUME IInv, [Next]_vars PROVE IInv'
  OBVIOUS
<1>1. CASE Next
  BY <1>1, LoadPreserves, FieldPreserves, ButtonPreserves, OtherPreserves DEF Next
<1>2. CASE UNCHANGED vars
  BY <1>2 DEF IInv, TypeOK, EntriesPart, vars, editorVars, clientVars
<1> QED
  BY <1>1, <1>2

LEMMA Invariance == Spec => []IInv
  BY InitIInv, NextIInv, PTL DEF Spec

-----------------------------------------------------------------------------
(* Theorems *)

\* DMM.slots and the state of the editor keep their types: in particular a slot's
\* steps stay a sequence without gaps of at most MAX_SPELLS entries.
THEOREM TypeCorrect == Spec => []TypeOK
<1>1. IInv => TypeOK
  BY DEF IInv
<1> QED
  BY <1>1, Invariance, PTL

\* When EditorHasUnsavedChanges finds nothing, the fields are the saved steps and
\* nothing more.
LEMMA UnchangedFields ==
    ASSUME IInv, shown, ~EditorHasUnsavedChanges
    PROVE  /\ Compact = slots[editorSlot].steps
           /\ fields = InFields(slots[editorSlot].steps)
           /\ slots[editorSlot].steps # << >>
           /\ resetText # BadText => resetText = slots[editorSlot].reset
<1> DEFINE n == Cardinality(Filled)
           saved == slots[editorSlot]
<1>1. editorSlot \in Slots
  BY DEF IInv, TypeOK
<1>2. /\ Len(saved.steps) \in 0..MaxSpells
      /\ saved.steps \in [1..Len(saved.steps) -> Entries]
  BY <1>1, SlotFacts
<1>3. /\ Len(Compact) = n
      /\ Compact \in [1..n -> Entries]
  BY CompactFacts DEF IInv, EntriesPart
<1>4. /\ Len(saved.steps) = n
      /\ \A i \in 1..n : fields[i] = saved.steps[i]
      /\ n >= MinSpells
      /\ CurrentReset = saved.reset
  <2>1. n \in 0..MaxSpells
    BY FilledFacts
  <2>2. /\ Len(Compact) = Len(saved.steps)
        /\ \A i \in 1..Len(Compact) : fields[i] = saved.steps[i]
        /\ ~(Len(saved.steps) < MinSpells)
        /\ CurrentReset = saved.reset
    BY DEF EditorHasUnsavedChanges
  <2> QED
    BY <1>3, <2>1, <2>2, ConstantFacts
<1>5. \A i \in 1..n : fields[i] # None
  BY <1>2, <1>4, ConstantFacts
<1>6. Filled = 1..n /\ \A k \in 1..n : Compact[k] = fields[k]
  BY <1>5, FirstFieldsFilled DEF IInv, TypeOK
<1>7. Compact = saved.steps
  BY <1>2, <1>3, <1>4, <1>6
<1>8. fields = InFields(saved.steps)
  <2>1. fields = [i \in FieldNumbers |-> fields[i]]
    BY DEF IInv, TypeOK
  <2>2. ASSUME NEW i \in FieldNumbers
        PROVE  fields[i] = IF i <= Len(saved.steps) THEN saved.steps[i] ELSE None
    <3>1. i \in Nat \ {0} /\ n \in Nat
      BY FilledFacts, ConstantFacts DEF FieldNumbers
    <3>2. CASE i <= n
      BY <1>4, <3>1, <3>2
    <3>3. CASE ~(i <= n)
      <4>1. i \notin Filled
        BY <1>6, <3>1, <3>3
      <4> QED
        BY <1>4, <3>3, <4>1 DEF Filled
    <3> QED
      BY <3>2, <3>3
  <2> HIDE DEF saved, n
  <2> QED
    BY <2>1, <2>2 DEF InFields
<1>9. saved.steps # << >>
  BY <1>4, ConstantFacts
<1> QED
  BY <1>4, <1>7, <1>8, <1>9 DEF CurrentReset

\* EditorHasUnsavedChanges and SaveEditor agree, whatever was inserted, removed and
\* moved up before: with nothing unsaved, Save writes what the slot already has.
THEOREM NothingUnsavedIsAlwaysSaved == Spec => []NothingUnsavedIsSaved
<1>1. IInv => NothingUnsavedIsSaved
  <2> SUFFICES ASSUME IInv, shown, ~EditorHasUnsavedChanges, CanSave
               PROVE  SlotOfFields = slots[editorSlot]
    BY DEF NothingUnsavedIsSaved
  <2>1. editorSlot \in Slots
    BY DEF IInv, TypeOK
  <2>2. Compact = slots[editorSlot].steps /\ resetText = slots[editorSlot].reset
    BY UnchangedFields DEF CanSave
  <2>3. slots[editorSlot] = [steps |-> slots[editorSlot].steps, reset |-> slots[editorSlot].reset]
    BY <2>1, SlotFacts
  <2> QED
    BY <2>2, <2>3 DEF SlotOfFields
<1> QED
  BY <1>1, Invariance, PTL

\* PickupSlotMacro puts a macro on the cursor only if the fields show the saved steps
\* of its slot, and these are complete.
THEOREM PickedMacroIsAlwaysShown == Spec => PickedMacroIsShown
<1>1. IInv /\ [Next]_vars =>
        [cursor' \in Slots /\ cursor' # cursor
           => /\ fields = InFields(slots[cursor'].steps)
              /\ slots[cursor'].steps # << >>]_vars
  <2> SUFFICES ASSUME IInv, Next, cursor' \in Slots, cursor' # cursor
               PROVE  /\ fields = InFields(slots[cursor'].steps)
                      /\ slots[cursor'].steps # << >>
    OBVIOUS
  <2>1. cursor' \notin {None, "spell"}
    BY SettingAssumption
  <2>2. PickupSlotMacro
    BY <2>1 DEF Next, OpenEditor, Load, Field, RemoveEditorSpell, InsertCommand, SetField,
                ReceiveSpell, TypeReset, Button, SaveEditor, ClearEditorSlot, Hide,
                PickupSpell, UseCursorElsewhere, SpellsChanged, Reload, clientVars
  <2> QED
    BY <2>2, UnchangedFields DEF PickupSlotMacro
<1> QED
  BY <1>1, Invariance, PTL DEF Spec, PickedMacroIsShown

-----------------------------------------------------------------------------
(* The refinement of ChainStore *)

\* What ChainStore sees of a state.
Chain == [s \in Slots |-> slots[s].steps]
Open == IF shown THEN editorSlot ELSE None

\* An action that leaves the slots and the editor's slot alone.
LEMMA StutterRefines ==
    ASSUME slots' = slots, editorSlot' = editorSlot, shown' = shown
    PROVE  UNCHANGED Store!vars
  BY DEF Store!vars

LEMMA OpenRefines ==
    ASSUME NEW s \in Slots, OpenEditor(s)
    PROVE  Store!Open(s)
  BY DEF OpenEditor, Load, Store!Open

LEMMA CloseRefines ==
    ASSUME slots' = slots, shown' = FALSE
    PROVE  Store!Close
  BY DEF Store!Close

\* Save writes a complete chain to the slot shown, no other, and closes.
LEMMA SaveRefines ==
    ASSUME IInv, SaveEditor
    PROVE  Store!Save
<1>1. editorSlot \in Slots /\ editorSlot # None /\ shown /\ shown' = FALSE
  BY DEF IInv, TypeOK, SaveEditor
<1>2. slots \in [Slots -> Slot] /\ slots' = [slots EXCEPT ![editorSlot] = SlotOfFields]
  BY DEF IInv, TypeOK, SaveEditor
<1>3. SlotOfFields.steps \in Chains
  BY SavedChain DEF SaveEditor
<1> HIDE DEF SlotOfFields
<1>4. Chain' = [Chain EXCEPT ![editorSlot] = SlotOfFields.steps]
  BY <1>1, <1>2 DEF Chain
<1>5. Chain'[editorSlot] = SlotOfFields.steps
  BY <1>1, <1>4 DEF Chain
<1>6. Open = editorSlot /\ Open' = None
  BY <1>1 DEF Open
<1>7. /\ Open # None
      /\ Chain'[Open] \in Chains
      /\ Chain' = [Chain EXCEPT ![Open] = Chain'[Open]]
      /\ Open' = None
  BY <1>1, <1>3, <1>4, <1>5, <1>6
<1> QED
  BY <1>7 DEF Store!Save, Chain, Open

\* Clear empties the slot shown, no other, and leaves the editor open.
LEMMA ClearRefines ==
    ASSUME IInv, ClearEditorSlot
    PROVE  Store!Clear
<1>1. editorSlot \in Slots /\ editorSlot # None /\ shown
      /\ shown' = shown /\ editorSlot' = editorSlot
  BY DEF IInv, TypeOK, ClearEditorSlot
<1>2. slots \in [Slots -> Slot] /\ slots' = [slots EXCEPT ![editorSlot] = NewSlot]
  BY DEF IInv, TypeOK, ClearEditorSlot
<1>3. Chain' = [Chain EXCEPT ![editorSlot] = << >>]
  BY <1>1, <1>2, EmptyFacts DEF Chain
<1>4. /\ Open # None
      /\ Chain' = [Chain EXCEPT ![Open] = << >>]
      /\ Open' = Open
  BY <1>1, <1>3 DEF Open
<1> QED
  BY <1>4 DEF Store!Clear, Chain, Open

LEMMA InitRefines == Init => Store!Init
<1> SUFFICES ASSUME Init PROVE Store!Init
  OBVIOUS
<1>1. [s \in Slots |-> slots[s].steps] \in [Slots -> Chains \cup {<< >>}]
  BY EmptyFacts DEF Init
<1>2. (IF shown THEN editorSlot ELSE None) = None
  BY DEF Init
<1> QED
  BY <1>1, <1>2 DEF Store!Init

\* ChainEditor implements ChainStore: a slot changes only while the editor shows it,
\* to a complete chain without passive spells, or to none.
THEOREM RefinesChainStore == Spec => ImplementsChainStore
<1>1. IInv /\ [Next]_vars => [Store!Next]_Store!vars
  <2> SUFFICES ASSUME IInv, [Next]_vars  PROVE [Store!Next]_Store!vars
    OBVIOUS
  <2>1. CASE UNCHANGED vars
    BY <2>1, StutterRefines DEF vars, editorVars
  <2>2. ASSUME NEW s \in Slots, OpenEditor(s)  PROVE Store!Next
    BY <2>2, OpenRefines DEF Store!Next
  <2>3. ASSUME NEW i \in FieldNumbers, Field(i)  PROVE UNCHANGED Store!vars
    BY <2>3, StutterRefines
       DEF Field, RemoveEditorSpell, InsertCommand, ReceiveSpell, SetField
  <2>4. CASE TypeReset \/ PickupSpell \/ UseCursorElsewhere \/ SpellsChanged
    BY <2>4, StutterRefines
       DEF TypeReset, PickupSpell, UseCursorElsewhere, SpellsChanged, editorVars
  <2>5. CASE Hide \/ Reload
    BY <2>5, CloseRefines DEF Hide, Reload, Store!Next
  <2>6. CASE Button
    <3>1. CASE SaveEditor
      BY <3>1, SaveRefines DEF Store!Next
    <3>2. CASE ClearEditorSlot
      BY <3>2, ClearRefines DEF Store!Next
    <3>3. CASE PickupSlotMacro
      BY <3>3, StutterRefines DEF PickupSlotMacro, editorVars
    <3> QED
      BY <2>6, <3>1, <3>2, <3>3 DEF Button
  <2> QED
    BY <2>1, <2>2, <2>3, <2>4, <2>5, <2>6 DEF Next
<1> QED
  BY <1>1, InitRefines, Invariance, PTL DEF Spec, ImplementsChainStore, Store!Spec
=============================================================================
