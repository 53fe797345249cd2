SPECIFICATION RacesSpec
CONSTANTS
  Tasks = {t1, t2}
  Inspectors = {i1, i2}
  NoOne = NoOne
  Overlaps = FALSE
  Handlers = {"create", "decline", "accept", "abandon", "sweepExpired", "finalize", "acceptOffer", "expireUnfilledSearches"}
  Replacements = {1}
  Prices = {2}
  Tariff = 1
  MoneyFaults = {"cancelFails", "crash"}
  MoneyHandlers = {"accept", "finalize", "failed", "canceled", "sweepExpired", "acceptOffer", "expireUnfilledSearches", "stranded", "reconcile"}
SYMMETRY Symmetry
INVARIANTS
  OneAnswer
PROPERTIES
  AnswerIsFinal
  SaleKept
CHECK_DEADLOCK FALSE
