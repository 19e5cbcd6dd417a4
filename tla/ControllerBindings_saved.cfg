\* What is saved during UI mode.
SPECIFICATION Spec
CONSTANT Options <- LayoutOptions
INVARIANT SavedBindingsAreWorld
