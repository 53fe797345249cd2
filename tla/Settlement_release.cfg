SPECIFICATION Spec
CONSTANTS
  Tasks = {t1, t2}
  MaxAttempts = 2
  MaxTransfers = 2
  Handlers <- Releasing
  Faults = {"down", "lost", "crash"}
SYMMETRY Symmetry
INVARIANTS
  NeverPaidTwice
  PaidMeansMoved
  DueIsEligible
  CompletedWasPaid
