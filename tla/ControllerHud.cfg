\* Both layouts, all options, flashes of two ticks.
SPECIFICATION FairSpec
CONSTANTS
    FlashTime = 2
    UpdateInterval = 1
INVARIANTS TypeOK DPadUsesWhatIsShown MarksFollowKeys HudAsSaved
PROPERTIES FlashEnds
