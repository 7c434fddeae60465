SPECIFICATION FairSpec
CONSTANTS
  Requests = {r1, r2}
  Readers = {x1}
  Scanner = scanner
  Sessions = {s1}
  Keys = {}
  Settings <- HookedAndLone
  Owner = owner
  None = none
  NoAudit = noaudit
  Missing = missing
  MaxCrashes = 1
  MaxIoErrors = 0
  MaxEvents = 3
CHECK_DEADLOCK FALSE
PROPERTIES WaitsEnd
