\* Loot rolls over windows that come, go and change.
SPECIFICATION Spec
CONSTANTS
    RollFrames = 2
    Scenes <- OneOrTwoRolls
    Buttons = 2
    None = None
INVARIANTS TypeOK FocusOnElement
PROPERTIES MoveLandsOnLiveRoll ConfirmKeepsChoice SuspendedFocusReturns
