SPECIFICATION Spec
CONSTANTS
  Tasks = {t1}
  Total = 2
  Cap = 2
  Handlers = {"settle", "retryStuckRefunds", "adminRetryRefund", "chargeRefunded"}
  Faults = {"dashboard"}
INVARIANTS
  OwedInFull
CHECK_DEADLOCK FALSE
