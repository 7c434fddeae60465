SPECIFICATION FairSpec
CONSTANTS
  Sessions = {s1, s2}
  Readers = {x1, x2}
  Scanner = scanner
  Files <- AllFiles
  k1 = k1
  k2 = k2
  Keys <- KeySet
  Compensable <- KeySet2
  None = none
  NoAudit = noaudit
  MaxCrashes = 1
  MaxErrors = 1
  MaxTogether = 2
CHECK_DEADLOCK FALSE
INVARIANTS ScanInv
PROPERTIES TerminalPhasesStick ReplaysAllowed BracketsClose
