----------------------------- MODULE ChainEditor -----------------------------
(***************************************************************************)
(* The editor of DinoMacroManager: the fields a spell or a command is put  *)
(* into, the check for unsaved changes, Save, Clear and the button that    *)
(* puts the macro of a slot on the cursor.  MacroManager is the run-time   *)
(* that uses the chains saved here.                                        *)
(*                                                                         *)
(* The name of a chain and its target check are loaded, compared and saved *)
(* like the reset time and left out.  The reset field holds any text: one  *)
(* that is no number between 0 and 3600 is BadText.                        *)
(*                                                                         *)
(* The cursor, the spellbook and the action bars belong to the client      *)
(* (external).                                                             *)
(***************************************************************************)
EXTENDS Integers, FiniteSets, SequencesExt

CONSTANTS
    Slots,           \* the slots (14 in the code)
    Commands,        \* Pet: Attack and Bot: Attack
    Books,           \* the contents the spellbook may have, as sequences
    Passive,         \* the passive spells
    MinSpells,       \* DMM.MIN_SPELLS
    MaxSpells,       \* DMM.MAX_SPELLS
    ResetTimes,      \* the numbers typed into the reset field
    DefaultReset,    \* DMM.DEFAULT_RESET
    BadText,
    None             \* nil

Spells == UNION {ToSet(book) : book \in Books}
Entries == Commands \cup (Spells \ Passive)
Chains == UNION {[1..n -> Entries] : n \in MinSpells..MaxSpells}
FieldNumbers == 1..MaxSpells

ASSUME BookAssumption == \A book \in Books : book \in Seq(Spells)
ASSUME LimitAssumption ==
    /\ MinSpells \in Nat \ {0}
    /\ MaxSpells \in Nat
    /\ MinSpells <= MaxSpells
ASSUME SettingAssumption ==
    /\ DefaultReset \in ResetTimes
    /\ BadText \notin ResetTimes
    /\ None \notin Slots \cup Spells \cup Commands
    /\ "spell" \notin Slots

VARIABLES
    slots,        \* DinoMacroManagerDB.slots: steps and reset time
    editorSlot,   \* DMM.editorSlot
    shown,        \* is the editor visible
    fields,       \* DMM.editorSpells
    resetText,    \* the text of the reset field
    picked,       \* DMM.pickedSpellIndex, None for a spell of the pet's book
    book,         \* external: the player's spellbook
    cursor        \* external: a spell, the macro of a slot, or nothing

editorVars == <<editorSlot, shown, fields, resetText>>
clientVars == <<picked, book, cursor>>
vars == <<slots, editorVars, clientVars>>

Slot == [steps : UNION {[1..n -> Spells \cup Commands] : n \in 0..MaxSpells},
         reset : ResetTimes]

TypeOK ==
    /\ slots \in [Slots -> Slot]
    /\ editorSlot \in Slots \cup {None}
    /\ shown \in BOOLEAN
    /\ shown => editorSlot # None
    /\ fields \in [FieldNumbers -> Spells \cup Commands \cup {None}]
    /\ resetText \in ResetTimes \cup {BadText}
    /\ picked \in (Nat \ {0}) \cup {None}
    /\ book \in Books
    /\ cursor \in {"spell", None} \cup Slots

-----------------------------------------------------------------------------
(* Reading the fields *)

Empty == [i \in FieldNumbers |-> None]

NewSlot == [steps |-> << >>, reset |-> DefaultReset]

\* The steps of a chain, one per field.
InFields(steps) == [i \in FieldNumbers |-> IF i <= Len(steps) THEN steps[i] ELSE None]

Filled == {i \in FieldNumbers : fields[i] # None}

\* The member of S that has k members of S up to it.
Nth(S, k) == CHOOSE i \in S : Cardinality({j \in S : j <= i}) = k

\* SaveEditor leaves the empty fields out.
Compact == [k \in 1..Cardinality(Filled) |-> fields[Nth(Filled, k)]]

\* ResolveSpell: commands always can be used, a spell while it is in the book.
Resolves(e) == e \in Commands \/ e \in ToSet(book)

\* A mutated form: gaps are saved as well.
SlotOfFieldsWithGaps == [steps |-> fields, reset |-> resetText]

SlotOfFields == [steps |-> Compact, reset |-> resetText]

\* What SaveEditor accepts.
CanSave ==
    /\ Len(Compact) \in MinSpells..MaxSpells
    /\ \A i \in DOMAIN Compact : Resolves(Compact[i])
    /\ resetText # BadText

\* The reset time EditorHasUnsavedChanges compares.
CurrentReset == IF resetText = BadText THEN DefaultReset ELSE resetText

\* A mutated form: only the steps in the fields are compared.
EditorHasUnsavedChangesPrefix ==
    LET saved == slots[editorSlot] IN
    \/ CurrentReset # saved.reset
    \/ \E i \in 1..Len(Compact) : fields[i] # InFields(saved.steps)[i]
    \/ Len(saved.steps) < MinSpells

EditorHasUnsavedChanges ==
    LET saved == slots[editorSlot] IN
    \/ CurrentReset # saved.reset
    \/ Len(Compact) # Len(saved.steps)
    \/ \E i \in 1..Len(Compact) : fields[i] # saved.steps[i]
    \/ Len(saved.steps) < MinSpells

-----------------------------------------------------------------------------
(* Opening and closing *)

Load(s) ==
    /\ editorSlot' = s
    /\ shown' = TRUE
    /\ fields' = InFields(slots[s].steps)
    /\ resetText' = slots[s].reset

\* From a slot button, or from TriggerSlot on an incomplete slot: whatever the
\* editor shows is replaced, saved or not.
OpenEditor(s) == Load(s) /\ UNCHANGED <<slots, clientVars>>

\* Cancel, the close button, and closing the main window.
Hide ==
    /\ shown
    /\ shown' = FALSE
    /\ UNCHANGED <<slots, editorSlot, fields, resetText, clientVars>>

-----------------------------------------------------------------------------
(* The fields *)

SetField(i, e) ==
    /\ fields' = [fields EXCEPT ![i] = e]
    /\ UNCHANGED <<slots, editorSlot, shown, resetText>>

\* InsertPetAttack and InsertBotAttack, by a click on an empty field.
InsertCommand(i) ==
    /\ shown
    /\ fields[i] = None
    /\ \E c \in Commands : SetField(i, c)
    /\ UNCHANGED clientVars

\* The fields behind the one removed move up.
RemoveEditorSpell(i) ==
    /\ shown
    /\ fields[i] # None
    /\ fields' = [j \in FieldNumbers |-> IF j < i THEN fields[j]
                                         ELSE IF j < MaxSpells THEN fields[j + 1] ELSE None]
    /\ UNCHANGED <<slots, editorSlot, shown, resetText, clientVars>>

\* A mutated form: passive spells are taken as well.
ReceivableAny(index) == index # None /\ index <= Len(book)

\* A spell index that ReceiveSpell accepts.
Receivable(index) ==
    /\ index # None
    /\ index <= Len(book)
    /\ book[index] \notin Passive

\* ReceiveSpell, a drop on field i: the field gets the spell with the index the
\* hook of PickupSpell noted last, whatever spell the cursor holds.
ReceiveSpell(i) ==
    /\ shown
    /\ cursor = "spell"
    /\ Receivable(picked)
    /\ SetField(i, book[picked])
    /\ cursor' = None
    /\ picked' = None
    /\ UNCHANGED book

\* The scripts of field i: right click, left click on an empty field, drop.
Field(i) == RemoveEditorSpell(i) \/ InsertCommand(i) \/ ReceiveSpell(i)

TypeReset ==
    /\ shown
    /\ resetText' \in ResetTimes \cup {BadText}
    /\ UNCHANGED <<slots, editorSlot, shown, fields, clientVars>>

-----------------------------------------------------------------------------
(* The buttons *)

SaveEditor ==
    /\ shown
    /\ CanSave
    /\ slots' = [slots EXCEPT ![editorSlot] = SlotOfFields]
    /\ shown' = FALSE
    /\ UNCHANGED <<editorSlot, fields, resetText, clientVars>>

ClearEditorSlot ==
    /\ shown
    /\ slots' = [slots EXCEPT ![editorSlot] = NewSlot]
    /\ fields' = Empty
    /\ resetText' = DefaultReset
    /\ UNCHANGED <<editorSlot, shown, clientVars>>

\* A mutated form: unsaved changes do not stop it.
PickupSlotMacroUnchecked ==
    /\ shown
    /\ Len(slots[editorSlot].steps) >= MinSpells
    /\ cursor' = editorSlot
    /\ UNCHANGED <<slots, editorVars, picked, book>>

\* PickupSlotMacro, "Drag to action bar": the macro of the slot is found, or made if
\* the client has room for one more.
PickupSlotMacro ==
    /\ shown
    /\ ~EditorHasUnsavedChanges
    /\ cursor' = editorSlot
    /\ UNCHANGED <<slots, editorVars, picked, book>>

Button == SaveEditor \/ ClearEditorSlot \/ PickupSlotMacro

-----------------------------------------------------------------------------
(* The client (external) *)

\* PickupSpell, which the add-on hooks, on the player's or the pet's book.
PickupSpell ==
    /\ \/ picked' \in 1..Len(book)
       \/ picked' = None
    /\ cursor' = "spell"
    /\ UNCHANGED <<slots, editorVars, book>>

\* The cursor is emptied, or a spell is taken or swapped from an action bar,
\* which does not go through PickupSpell.
UseCursorElsewhere ==
    /\ cursor' \in {"spell", None}
    /\ UNCHANGED <<slots, editorVars, picked, book>>

\* Spells are learned or unlearned, which renumbers the book.
SpellsChanged ==
    /\ book' \in Books
    /\ UNCHANGED <<slots, editorVars, picked, cursor>>

\* Log out, or /reload: only the slots are saved.
Reload ==
    /\ editorSlot' = None
    /\ shown' = FALSE
    /\ fields' = Empty
    /\ resetText' = DefaultReset
    /\ picked' = None
    /\ cursor' = None
    /\ UNCHANGED <<slots, book>>

-----------------------------------------------------------------------------

Init ==
    /\ slots = [s \in Slots |-> NewSlot]
    /\ editorSlot = None
    /\ shown = FALSE
    /\ fields = Empty
    /\ resetText = DefaultReset
    /\ picked = None
    /\ book \in Books
    /\ cursor = None

Next ==
    \/ \E s \in Slots : OpenEditor(s)
    \/ \E i \in FieldNumbers : Field(i)
    \/ TypeReset
    \/ Button
    \/ Hide
    \/ PickupSpell
    \/ UseCursorElsewhere
    \/ SpellsChanged
    \/ Reload

Spec == Init /\ [][Next]_vars

-----------------------------------------------------------------------------
(* Properties *)

Store == INSTANCE ChainStore WITH
    chain <- [s \in Slots |-> slots[s].steps],
    open <- IF shown THEN editorSlot ELSE None

\* The editor keeps the promise of ChainStore, on which the run-time relies: however
\* steps are put in, removed and reordered, with gaps or stale spell indices, a
\* slot is left alone or gets a complete chain without passive spells.
ImplementsChainStore == Store!Spec

\* EditorHasUnsavedChanges and SaveEditor, written apart, agree: when there is
\* nothing unsaved, Save is refused or would not change the slot.
NothingUnsavedIsSaved ==
    shown /\ ~EditorHasUnsavedChanges /\ CanSave => SlotOfFields = slots[editorSlot]

\* The macro put on the cursor runs exactly the steps the editor shows.
PickedMacroIsShown ==
    [][cursor' \in Slots /\ cursor' # cursor
         => /\ fields = InFields(slots[cursor'].steps)
            /\ slots[cursor'].steps # << >>]_vars
=============================================================================
