\* One deletion, between whose statements the world server creates a character.
SPECIFICATION Spec
CONSTANTS
    r1 = r1
    r2 = r2
    r3 = r3
    browser1 = browser1
    browser2 = browser2
    None = None
    Requests = {r1}
    Sessions <- OneRequest
    Names = {n1}
    MaxId = 1
    Guids = {g1}
    PushLevel = 2
    MaxLevel = 2
PROPERTY OnlyEmptyAccountsDeleted
