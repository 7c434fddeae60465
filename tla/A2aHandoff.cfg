CONSTANTS
    Tasks = {t1}
    Callers = {r1, r2}
    Contents = {c1, c2}
    Capabilities = {p, q}
    Served = {p}
    None = None
    Jtis = {"j1", "j2", "j3"}
    Tokens <- MCTokens
    TicksPerS = 2
    Retention = 2
    Deadline = 3
    MaxLifetime = 4
    ClockSkew = 1
    JtiExtra = 1
    CardTtl = 2
    FetchTimeout = 1
    Options <- MCOptions
    MaxClock = 8
    MaxCards = 2
    MaxLate = 1
    MaxCrashes = 1
    MaxArrivals = 2
SPECIFICATION Spec
SYMMETRY Symmetry
CHECK_DEADLOCK FALSE
INVARIANTS TimerInv JtiCacheExact EtagIsRecent
PROPERTIES TaskEnds
