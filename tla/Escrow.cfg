SPECIFICATION EscrowSpec
CONSTANTS
  t1 = t1
  t2 = t2
  t3 = t3
  i1 = i1
  i2 = i2
  NoOne = NoOne
  Tasks = {t1, t2, t3}
  Inspectors = {i1, i2}
  Total = 2
  Share <- MCShare
  Handlers <- MoneyHandlers
  Faults = {"lost", "down", "refused", "crash"}
  FirstIntents = {"unpaid", "auto"}
SYMMETRY MCSymmetry
INVARIANTS
  TypeOK
  AssignedIsCaptured
  LedgerIsHonest
  OneClaimant
  ClaimsAgree
  OneAcceptance
