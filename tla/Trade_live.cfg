SPECIFICATION TradeSpec
CONSTANTS
  Tasks = {t1}
  Inspectors = {i1, i2}
  NoOne = NoOne
  Overlaps = FALSE
  QueueHandlers = {"create", "decline", "accept", "abandon", "sweepExpired", "acceptOffer", "expireUnfilledSearches"}
  Replacements = {1}
  Prices = {2}
  Tariff = 1
  Handlers = {"accept", "finalize", "failed", "canceled", "sweepExpired", "acceptOffer", "expireUnfilledSearches", "stranded", "reconcile"}
  Faults = {"cancelFails"}
INVARIANTS
  AlwaysCovered
PROPERTIES
  QueueMovesOn
  NoStrayHold
CHECK_DEADLOCK FALSE
