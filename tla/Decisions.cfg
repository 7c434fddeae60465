SPECIFICATION Spec
CONSTANTS
  Requests = {r1, r2, r3}
  Readers = {x1}
  Scanner = scanner
  Sessions = {s1}
  Keys = {k}
  Settings <- ConcurrentAndSerial
  Owner = owner
  None = none
  NoAudit = noaudit
  Missing = missing
  MaxCrashes = 1
  MaxIoErrors = 1
  MaxEvents = 2
CHECK_DEADLOCK FALSE
SYMMETRY Symmetry
INVARIANTS SessionInv CommittedIsAudited DecisionEventDurable RefusedNotReplayed
PROPERTIES AnswersAreAudited SerialResubmitReplays
