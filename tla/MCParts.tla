------------------------------- MODULE MCParts -------------------------------
(* Parts of MCPlatform: the money of an order, from its card on and on its way  *)
(* back, what a payment or a code gives access to, the account an inspector is  *)
(* paid through, what a user is told, the quota a report costs, the accounts    *)
(* and their tokens, the contract of a booking, the documents of an inspector's *)
(* application, the adverts and their public copies, and a seller's gallery.    *)
EXTENDS Dispatch

CONSTANTS
  Users, PartHandlers, PartAlone, Faults,
  Total, Cap, Payments, NoPayment, LinkCodes,
  MaxAccounts, MaxEvents, MaxOffers,
  Drawn, MaxOrders, MaxClock, Window, Overlaps,
  Devices, Codes, Booked, NoOrder, MaxReports, FreeLimit, PurchaseCap, Attempts,
  IntakeHandlers, Apart, IntakeRefuses, IntakeDiesAt,
  Tokens, MaxFailures,
  MaxVersion, MaxContracts, MaxAttempts,
  Documents, MaxApps, MaxKeys, KycHandlers, KycAlone,
  Ads, Slots, Shots, NoShot, ShowroomHandlers, ShowroomAlone, Refuses, ShowroomDiesAt,
  Pictures, MaxPhotos, MaxUploads

VARIABLES
  at, my,
  debt, amount, ledger, parked, back, ours, keyed, told,
  payment, purchase, money, events, double,
  gone, link, owner, codes, taken,
  profile, accounts, reports, sent,
  prefs, wants, letters, flying, open, calls, erased,
  placed, intents, forms, hooks, clock, charging,
  rep, pdf, used, pro, grants, orders,
  person, account, token, fails, spent, guesses,
  made, active, deed, linked, archive,
  app, verified, objects, keys,
  photo, store, manifest, removed, ad, public,
  photos, kept, cdn, configured, shut, uploads

Refunds == INSTANCE Refunds WITH
  Handlers <- PartHandlers, order <- debt, payment <- ledger, row <- parked,
  events <- told, pc <- at, job <- my
Purchases == INSTANCE Purchases WITH
  Handlers <- PartHandlers, pc <- at, job <- my
Links == INSTANCE Devices WITH
  Codes <- LinkCodes, Handlers <- PartHandlers, Alone <- PartAlone, used <- taken,
  pc <- at, job <- my
Connect == INSTANCE Connect WITH
  Countries <- {"DE", "PL"}, Kinds <- {"company"},
  Handlers <- {"registerPushToken", "startStripeOnboarding", "syncConnectedAccount"},
  Alone <- {"startStripeOnboarding"}, pc <- at, job <- my
Notices == INSTANCE Notices WITH
  Told <- {"secret"}, Switched <- {"email", "push"},
  Handlers <- {"notify", "dispatch", "expireStaleOffers", "updatePreferences", "eraseMe"},
  Alone <- {"dispatch", "expireStaleOffers", "updatePreferences"},
  rows <- letters, made <- calls, pc <- at, job <- my
Ordering == INSTANCE Ordering WITH
  Numbers <- Drawn, MaxTime <- MaxClock,
  orders <- placed, news <- hooks, now <- clock, configured <- charging, pc <- at, job <- my
Intake == INSTANCE Intake WITH
  Orders <- Booked, Handlers <- IntakeHandlers, Refuses <- IntakeRefuses, DiesAt <- IntakeDiesAt,
  pc <- at, job <- my
Accounts == INSTANCE Accounts WITH
  Handlers <- PartHandlers, Alone <- PartAlone, row <- person, used <- spent,
  pc <- at, job <- my
Contracts == INSTANCE Contracts WITH
  MaxRows <- MaxContracts, Handlers <- PartHandlers, row <- deed, store <- archive,
  pc <- at, job <- my
Kyc == INSTANCE Kyc WITH
  Files <- Documents, Handlers <- KycHandlers, Alone <- KycAlone, pc <- at, job <- my
Showroom == INSTANCE Showroom WITH
  Handlers <- ShowroomHandlers, Alone <- ShowroomAlone, DiesAt <- ShowroomDiesAt,
  pc <- at, job <- my
Gallery == INSTANCE Gallery WITH
  Handlers <- {"addPhoto", "deletePhoto", "reorderPhotos", "remove", "mirror"},
  Together <- {{"addPhoto"}, {"addPhoto", "remove"}, {"mirror", "deletePhoto"},
               {"mirror", "remove"}},
  Fails <- {"put"}, store <- kept, wired <- configured, gone <- shut, pc <- at, job <- my

refundsState == <<debt, amount, ledger, parked, back, ours, keyed, told>>
purchasesState == <<payment, purchase, money, events, double>>
phonesState == <<gone, link, owner, codes, taken>>
connectState == <<profile, accounts, reports, sent>>
noticesState == <<prefs, wants, letters, flying, open, calls, erased>>
orderingState == <<placed, intents, forms, hooks, clock, charging>>
intakeState == <<rep, pdf, used, pro, grants, orders>>
accountsState == <<person, account, token, fails, spent, guesses>>
contractsState == <<made, active, deed, linked, archive>>
kycState == <<app, verified, objects, keys>>
showroomState == <<photo, store, manifest, removed, ad, public>>
galleryState == <<photos, kept, cdn, configured, shut, uploads>>
=============================================================================
