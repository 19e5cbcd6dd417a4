\* All options, crashes, reloads and loading screens.
SPECIFICATION Spec
CONSTANT Options <- AllOptions
INVARIANTS TypeOK WorldBindingsRestored NothingUnsaved ConfirmAndCancel
