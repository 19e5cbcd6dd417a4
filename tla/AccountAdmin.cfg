\* Three requests of one browser or of two, beside the world server.
SPECIFICATION Spec
CONSTANTS
    r1 = r1
    r2 = r2
    r3 = r3
    browser1 = browser1
    browser2 = browser2
    None = None
    Requests = {r1, r2, r3}
    Sessions <- OneOrTwoBrowsers
    Names = {n1, n2}
    MaxId = 2
    Guids = {g1}
    PushLevel = 2
    MaxLevel = 3
SYMMETRY NameSymmetry
INVARIANTS TypeOK OneAccountPerName RealmRowsHaveAccount
PROPERTIES PushedLevelKept
