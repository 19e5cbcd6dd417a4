\* Commands, ground spells, other casts and unrelated errors.
SPECIFICATION Spec
CONSTANTS
    bolt = bolt
    nova = nova
    rain = rain
    attack = attack
    t1 = t1
    t2 = t2
    t3 = t3
    t4 = t4
    None = None
    Slots = {1, 2}
    Entries = {rain, attack}
    Commands = {attack}
    Ground = {rain}
    Chains <- MixedChains
    Tables = {t1, t2, t3, t4}
    ResetTimes = {2}
    DefaultReset = 2
    SuccessDelay = 2
    PendingTimeout = 2
    RefreshInterval = 1
    EventLag = 1
    Activities = {TRUE}
SYMMETRY TableSymmetry
INVARIANTS PendingStepExists
PROPERTIES InterruptedCastNeverAdvances ImplementsSpellChain
