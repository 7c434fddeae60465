CONSTANTS
    Sessions = {1, 2}
    Target = 1
    x = x
    Types = {x, y}
    Asked = x
    None = None
    Cap = 2
    Limit = 2
    AdminLimit = 1
    Window = 4
    Second = 2
    Ttl = 2
    MaxPage = 2
    Unfit = {y}
    MaxClock = 1
    MaxRecords = 4
    MaxTokens = 1
SPECIFICATION Spec
INVARIANTS PageInv
PROPERTIES AnswersHonest CatchesUp
