CONSTANTS
    Requests = {r1, r2}
    Pids = {p1}
    auto = auto
    human = human
    spare = spare
    Kids = {auto, human, spare}
    Enrolled <- MCEnrolled
    Pdas <- MCPdas
    NewRoles = {"Coordinator"}
    IssuedAts <- MCIssuedAts
    CrlKids = {auto}
    ExitCodes = {0, 3, 4}
    None = None
    Day = 1
    MaxAge = 1
    Window = 0
    Skew = 0
    MaxWindow = 1
    MaxClock = 1
    MaxWrites = 1
    MaxCrl = 1
SPECIFICATION Spec
CHECK_DEADLOCK FALSE
INVARIANTS HandlerInv SuspectsFlagged
PROPERTIES SignersEntitled WaitsEnd
