SPECIFICATION Spec
CONSTANTS
  Requests = {r1, r2, r3}
  Readers = {}
  Scanner = scanner
  Sessions = {s1}
  Keys = {k}
  Settings <- ResubmittingOnly
  Owner = owner
  None = none
  NoAudit = noaudit
  Missing = missing
  MaxCrashes = 0
  MaxIoErrors = 0
  MaxEvents = 0
CHECK_DEADLOCK FALSE
PROPERTIES ResubmitReplays
