SPECIFICATION FairSpec
CONSTANTS
  Sessions = {s1, s2}
  Calls = {w1, w2, w3}
  None = None
  WindowsSequence = TRUE
  MaxCrashes = 1
CHECK_DEADLOCK FALSE
INVARIANTS TypeOK NoPartialRead AckedSurvives LockChain
PROPERTIES ImplementsRegister CallsReturn
