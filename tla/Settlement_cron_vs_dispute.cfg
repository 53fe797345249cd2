SPECIFICATION Spec
CONSTANTS
  Tasks = {t1, t2}
  MaxAttempts = 2
  MaxTransfers = 1
  Handlers = {"autoApprove", "dispute"}
  Faults = {}
PROPERTIES
  DisputeEndsByDecision
