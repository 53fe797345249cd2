SPECIFICATION LiveSpec
CONSTANTS
  Tasks = {t1}
  MaxAttempts = 2
  MaxTransfers = 2
  Handlers <- HandlerNames
  Faults = {"down", "lost", "reversed", "expiry"}
INVARIANTS
  OneIsPaid
PROPERTIES
  DisputeEndsByDecision
  OwedIsResolved
