SPECIFICATION Spec
CONSTANTS
    r1 = r1
    r2 = r2
    browser1 = browser1
    browser2 = browser2
    None = None
    Requests = {r1, r2}
    Sessions <- OnlyOneBrowser
    Kinds = {"restore"}
    Characters = {c1, c2}
    MaxTime = 1
    SecondsPerMinute = 2
    MaxPolls = 2
    ServerStops = FALSE
PROPERTY RestoredIsRequested
CHECK_DEADLOCK FALSE
