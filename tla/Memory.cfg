CONSTANTS
    Kinds = {"mock", "sqlite", "zep", "mem0"}
    Callers = {c1, c2}
    seed = seed
    a = a
    Ids = {seed, a}
    Seed = seed
    Foreign = Foreign
    None = None
    Threshold = 2
    MaxAttempts = 2
    Interval = 1
    NoteThreshold = 2
    Faults <- MCFaults
    MaxCalls <- MCMaxCalls
    MaxDocs = 3
    MaxClock = 1
    MaxRestarts = 1
SPECIFICATION Spec
CHECK_DEADLOCK FALSE
INVARIANTS NoteInv CountersExact
PROPERTIES RunnerMovesOn
