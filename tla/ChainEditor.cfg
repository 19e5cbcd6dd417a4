\* One active and one passive spell, one command, chains of two or three steps.
SPECIFICATION Spec
CONSTANTS
    bolt = bolt
    aura = aura
    attack = attack
    BadText = BadText
    None = None
    s1 = s1
    s2 = s2
    Slots = {s1, s2}
    Commands = {attack}
    Books <- BothBooks
    Passive = {aura}
    MinSpells = 2
    MaxSpells = 3
    ResetTimes = {0, 1}
    DefaultReset = 0
SYMMETRY SlotSymmetry
INVARIANTS TypeOK NothingUnsavedIsSaved
PROPERTIES ImplementsChainStore PickedMacroIsShown
