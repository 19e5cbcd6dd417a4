\* One feature at a time; the others' options and clocks may have any value they start with.
SPECIFICATION FairSpec
CONSTANTS
    q1 = q1
    q2 = q2
    q3 = q3
    t1 = t1
    t2 = t2
    None = None
    Uses <- OneAtATime
    Quests = {q1, q2, q3}
    Titles = {t1, t2}
    TitleOf <- TwoAlike
    ClearDelay = 3
    WatchDelay = 2
INVARIANTS TypeOK
PROPERTIES LogNeverOverMap PendingLogOpens ChoiceIsThePlayers FlagEnds OnlyNewTitlesTracked
    NewQuestTracked
