SPECIFICATION FairSpec
CONSTANTS
    r1 = r1
    r2 = r2
    browser1 = browser1
    browser2 = browser2
    None = None
    Requests = {r1, r2}
    Sessions <- OneOrTwoBrowsers
    Kinds = {"create", "restore", "upload", "delete"}
    Characters = {c1, c2}
    MaxTime = 1
    SecondsPerMinute = 1
    MaxPolls = 2
    ServerStops = TRUE
INVARIANT TypeOK
INVARIANT BackupOfRightCharacter
INVARIANT BackedUpIsComplete
PROPERTY RequestEnds
PROPERTY UploadNeverOverwrites
CHECK_DEADLOCK FALSE
