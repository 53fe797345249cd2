SPECIFICATION EscrowSpec
CONSTANTS
  t1 = t1
  t2 = t2
  t3 = t3
  i1 = i1
  i2 = i2
  NoOne = NoOne
  Tasks = {t1, t2}
  Inspectors = {i1}
  Total = 2
  Share <- MCShare
  Handlers = {"acceptOffer", "cancel", "authorizeOrderPayment"}
  Faults = {}
  FirstIntents = {"unpaid"}
CHECK_DEADLOCK FALSE
INVARIANTS
  CancelledMoneyIsAccounted
