SPECIFICATION PlatformSpec
CONSTANTS
  Tasks = {t1, t2}
  Inspectors = {i1, i2}
  NoOne = NoOne
  Handlers = {"authorize", "decline", "adminAssign", "expireStaleOffers", "redispatch"}
  Alone = {"authorize", "decline", "acceptOffer", "adminAssign", "cancel", "expireStaleOffers", "redispatch", "expireUnfilledSearches", "abandon"}
  MaxRound = 1
  MaxRows = 2
  HandsTasks = {t3}
  HandsHandlers = {"create", "withdraw", "adminAssign", "otherJob"}
  Overlaps = FALSE
  Users = {i1, i2}
  Documents = {f1, f2}
  MaxApps = 2
  MaxKeys = 2
  KycHandlers = {"createApplication", "uploadDocument", "submitApplication", "getApplicationForAdmin", "approve", "reject", "purgeOldDocuments"}
  KycAlone = {"createApplication", "submitApplication", "approve", "reject", "getApplicationForAdmin", "uploadDocument"}
  Ads = {a1}
  Slots = {s1}
  Shots = {f1, f2}
  NoShot = NoShot
  ShowroomHandlers = {"uploadPhoto", "deletePhoto", "removeReport", "create", "publish", "unpublish", "markSold", "remove", "adminDelete", "adminHide", "adminUnhide", "mirrorPending", "eraseMe"}
  ShowroomAlone = {"uploadPhoto", "deletePhoto", "removeReport", "publish", "create", "remove", "adminDelete", "eraseMe", "mirrorPending", "adminHide", "adminUnhide"}
  Refuses = TRUE
  ShowroomDiesAt = {"u_put", "u_row", "u_drop", "m_copy", "m_stamp", "x_tx", "x_sweep"}
  Devices = {i1, i2}
  Codes = {c1}
  Booked = {f1, f2}
  NoOrder = NoOrder
  MaxReports = 1
  FreeLimit = 1
  PurchaseCap = 1
  Attempts = 2
  IntakeHandlers = {"create", "update", "complete", "removeReport", "attachReportByCode", "grantPro", "erase"}
  Apart = {{"erase", "create"}, {"erase", "attachReportByCode"}, {"attachReportByCode"}, {"erase"}, {"erase", "update"}, {"erase", "complete"}, {"erase", "removeReport"}, {"grantPro", "attachReportByCode"}, {"grantPro", "update"}, {"grantPro", "complete"}, {"grantPro", "removeReport"}, {"login", "register"}, {"login", "oauthUpsert"}, {"login", "requestPasswordReset"}, {"login", "confirmPasswordReset"}, {"login", "verifyEmail"}, {"login", "eraseMe"}, {"renderContractForOrder"}, {"createVersion"}, {"activateVersion"}, {"createVersion", "backfillMissingPdfs"}, {"activateVersion", "backfillMissingPdfs"}}
  IntakeRefuses = {"delete"}
  IntakeDiesAt = {"c_quota", "a_write", "f_write"}
  PartHandlers = {"settle", "retryStuckRefunds", "adminRetryRefund", "chargeRefunded", "createPpvCheckout", "checkoutCompleted", "register", "oauthUpsert", "requestPasswordReset", "confirmPasswordReset", "verifyEmail", "eraseMe", "login", "generate", "linkDeviceByCode", "adminLink", "unlinkDevice", "createVersion", "activateVersion", "renderContractForOrder", "backfillMissingPdfs"}
  PartAlone = {"confirmPasswordReset", "verifyEmail", "linkDeviceByCode", "adminLink"}
  Faults = {"lost", "fails", "refused", "dashboard", "crash", "dies", "store"}
  Total = 1
  Cap = 2
  Payments = {p1, p2, p3}
  NoPayment = NoPayment
  Tokens = {k1, k2}
  MaxFailures = 1
  LinkCodes = {c1, c2}
  MaxVersion = 2
  MaxContracts = 2
  MaxAttempts = 1
  MaxAccounts = 2
  MaxEvents = 2
  MaxOffers = 1
  Readers = {r1}
  MaxOffered = 2
  Bidders = {p1, p2, p3}
  MaxNamed = 4
  MaxBoots = 3
  MaxScans = 2
  Pictures = {f1, f2, f3}
  MaxPhotos = 2
  MaxUploads = 3
  MaxShots = 3
  Drawn = {1}
  MaxOrders = 2
  MaxCharged = 1
  MaxClock = 1
  Window = 1
SYMMETRY Symmetry
INVARIANTS
  PlatformTypeOK
  RowsHaveTheirObjects
  QuotaHolds
  MoneyGoesBackOnce
  HoldsAreKnown
  AccessFollows
  PricesHold
  OnlySoOften
  AccountIsTheirs
  NoticesHold
  ShownIsTheirs
  PicturesAreRead
  BootHolds
PROPERTIES
  DecisionsStand
  AnswersAreTrue
CHECK_DEADLOCK FALSE
