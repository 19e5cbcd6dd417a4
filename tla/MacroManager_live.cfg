\* One slot, chains of two and four steps, fair clock and client; a player who does
\* nothing else, and one who does.
SPECIFICATION FairSpec
CONSTANTS
    bolt = bolt
    nova = nova
    rain = rain
    attack = attack
    t1 = t1
    t2 = t2
    t3 = t3
    t4 = t4
    None = None
    Slots = {1}
    Entries = {bolt, rain, attack}
    Commands = {attack}
    Ground = {rain}
    Chains <- LongChains
    Tables = {t1, t2, t3}
    ResetTimes = {0, 1}
    DefaultReset = 1
    SuccessDelay = 2
    PendingTimeout = 3
    RefreshInterval = 1
    EventLag = 1
    Activities = {FALSE, TRUE}
INVARIANTS TypeOK
PROPERTIES AdvanceProvesCast PendingCastEnds
