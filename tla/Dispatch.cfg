CONSTANTS
    Dispatches = {d1, d2}
    Corrs = {c1, c2}
    UiCorr = c1
    Adapters = {"double", "example", "other"}
    InitialBehaviors = {"ok"}
    None = None
    OtherVerdicts <- MCOtherVerdicts
    MaxRetries = 1
    RingSize = 1
    MaxDeltas = 1
    MaxFrames = 3
    MaxSet = 1
    MaxCancels = 1
SPECIFICATION Spec
CHECK_DEADLOCK FALSE
INVARIANTS DispatchInv LiveIsCancellable UiSettled
PROPERTIES CancelIsFinal
