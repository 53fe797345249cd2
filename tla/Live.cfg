SPECIFICATION LiveTogether
CONSTANTS
  Nobody = Nobody
  Deliveries = {d1, d2}
  EventFaults = {"throws", "dies", "db"}
  Tasks = {t1}
  Inspectors = {i1, i2}
  NoOne = NoOne
  Handlers = {"authorize", "decline", "acceptOffer", "cancel", "expireStaleOffers", "redispatch", "expireUnfilledSearches", "abandon"}
  Alone = {}
  MaxRound = 1
  MaxRows = 3
  HoldTasks = {t1, t2}
  HoldInspectors = {i1}
  Total = 2
  FirstIntents = {"unpaid", "auto"}
  HoldHandlers = {"acceptOffer", "cancel", "expireUnfilledSearches", "authorizeOrderPayment", "stranded", "payment_failed", "cancelOrderPayment"}
  HoldFaults = {"refused"}
  Cap = 2
  RefundHandlers = {"settle", "retryStuckRefunds", "chargeRefunded"}
  RefundFaults = {"lost", "fails", "refused", "dashboard", "forgets"}
INVARIANTS
  OneHandler
  NothingIsSkipped
PROPERTIES
  EventIsHandled
  SearchMovesOn
  HoldIsReleased
  ParkedIsResolved
CHECK_DEADLOCK FALSE
