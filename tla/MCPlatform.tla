------------------------------ MODULE MCPlatform ------------------------------
(* The parts of the backend that share no row with one another, each with its    *)
(* handlers overlapping: a run is of one of them, which is chosen at the start,  *)
(* and the variables of the others are off.                                     *)
EXTENDS MCParts, Integers, TLC

CONSTANTS
  HandsTasks, HandsHandlers,
  Readers, MaxOffered, Bidders, MaxNamed, MaxBoots, MaxScans,
  MaxShots,
  MaxCharged   \* bound: how many orders have the row of a payment

\* Three tariffs, with an override of a band, of a country, and of both; an inspector
\* nearby and one farther off, with their own base fee or without; two routes.
Quiet == [f \in {"base", "perKm", "perMin", "minimum", "factor", "cap"} |-> -1]
Global(base, pct, surge) == [base |-> base, perKm |-> 49, perMin |-> 7, minimum |-> 900,
                             factor |-> 10, cap |-> 3000, pct |-> pct, surge |-> surge]
SomeSettings == {
  [global |-> Global(1050, 20, 10), zone |-> [Quiet EXCEPT !.factor = 15], country |-> Quiet],
  [global |-> Global(800, 15, 13), zone |-> Quiet,
   country |-> [Quiet EXCEPT !.factor = 20, !.perKm = 33]],
  [global |-> Global(1999, 33, 10), zone |-> [Quiet EXCEPT !.perKm = 61],
   country |-> [Quiet EXCEPT !.cap = 1000, !.perKm = 57]]}
SomeRoutes == {<<485, 7>>, <<1120, 16>>}

\* Adverts of two places, spelt in three scripts, with a report that is there, removed or
\* gone; prices down to nothing and years that are not said.
City(place, form) == [place |-> place, form |-> form]
Advert(gold, price, year, city, source, its) ==
  [gold |-> gold, price |-> price, year |-> year, city |-> city, source |-> source,
   report |-> its, active |-> TRUE]
Munich == City("munchen", "umlaut")
Manual(prices, years) ==
  {Advert(g, p, y, Munich, "manual", "gone") : g \in BOOLEAN, p \in prices, y \in years}
SomeAdverts ==
  Manual({0, 2}, {-1, 5})
    \cup {Advert(FALSE, 1, 5, City(p, f), "report", r) : p \in {"munchen", "lubeck"},
            f \in {"umlaut", "expanded", "cyrillic"}, r \in {"kept", "removed", "gone"}}
    \cup {[Advert(TRUE, 1, 6, Munich, "report", "kept") EXCEPT !.active = FALSE]}
SomeTables == [1 .. 2 -> SomeAdverts] \cup [1 .. 3 -> Manual({0, 2}, {5})]
Query(city, priceTo, yearFrom, verifiedOnly, sort) ==
  [city |-> city, priceTo |-> priceTo, yearFrom |-> yearFrom, verifiedOnly |-> verifiedOnly,
   sort |-> sort]
SomeQueries ==
  {Query(City("", "umlaut"), p, y, v, s) : p \in {-1, 0}, y \in {-1, 5}, v \in BOOLEAN,
     s \in {"price_asc", "year_asc", "year_desc"}}
    \cup {Query(City(p, f), -1, -1, FALSE, "price_desc") : p \in {"munchen", "lubeck"},
            f \in {"umlaut", "expanded", "english", "cyrillic"}}

\* A purchase and its restore, in the production store or in the sandbox; two purchases;
\* those of another product or app, and one that Play still waits for.
Sold(shop, from, root, forPro, own, st) ==
  [store |-> shop, env |-> from, root |-> root, pro |-> forPro, ours |-> own, st |-> st]
SomeBooks ==
  LET good == Sold("apple", "production", 1, TRUE, TRUE, "bought")
  IN {<<good, good>>,
      <<Sold("apple", "sandbox", 1, TRUE, TRUE, "bought"),
        Sold("apple", "production", 2, FALSE, TRUE, "bought")>>,
      <<good, Sold("apple", "production", 2, TRUE, TRUE, "bought")>>,
      <<Sold("apple", "production", 1, TRUE, FALSE, "bought"),
        Sold("play", "production", 2, TRUE, TRUE, "pending")>>}
Credentials(mode, api, secret, play, first) ==
  [mode |-> mode, serverApi |-> api, secret |-> secret, play |-> play, sandboxFirst |-> first]
SomeCredentials == {Credentials("client-trust", FALSE, FALSE, FALSE, FALSE),
                    Credentials("server", TRUE, TRUE, TRUE, FALSE),
                    Credentials("server", TRUE, FALSE, FALSE, TRUE),
                    Credentials("server", FALSE, TRUE, TRUE, FALSE)}

\* Settings as they should be, and with what has been wrong with them.
Good == [node |-> "production", strict |-> TRUE, allowShared |-> FALSE, r2 |-> TRUE,
         strongSecret |-> TRUE, retiredUrl |-> FALSE, dirty |-> FALSE, unset |-> FALSE,
         https |-> TRUE, kyc |-> "private", public |-> "photos", pepper |-> TRUE,
         stripe |-> "live", hooks |-> "two", mapbox |-> "token", iap |-> "server"]
SomeDeployments == {
  Good, [Good EXCEPT !.kyc = ""], [Good EXCEPT !.kyc = "", !.allowShared = TRUE],
  [Good EXCEPT !.kyc = "reports", !.allowShared = TRUE, !.public = "reports"],
  [Good EXCEPT !.strict = FALSE, !.kyc = "", !.dirty = TRUE, !.hooks = "one"],
  [Good EXCEPT !.public = "private", !.stripe = "test"],
  [Good EXCEPT !.https = FALSE, !.mapbox = "revoked"], [Good EXCEPT !.r2 = FALSE],
  [Good EXCEPT !.iap = "gap", !.public = "", !.unset = TRUE],
  [Good EXCEPT !.stripe = "", !.hooks = "none", !.iap = "trust", !.mapbox = ""],
  [Good EXCEPT !.node = "development", !.kyc = "", !.r2 = FALSE, !.stripe = "", !.dirty = TRUE],
  [Good EXCEPT !.node = "test"], [Good EXCEPT !.hooks = "one", !.pepper = FALSE]}

\* An order for a car that names no model, and one whose make was left out; a report that
\* has the number of the car, and one of another model.
Car(vin, make, model) == [vin |-> vin, make |-> make, model |-> model]
SomeCars == {[ordered |-> Car("none", "golf", " "), found |-> Car("V", "GOLF", "x")],
             [ordered |-> Car(" ", "golf", "x"), found |-> Car(" ", "polo", "x")]}
\* What an inspector left out: both of the newer angles, one of the older, a station, the
\* date of a tyre, the cabin, and the words of a damage.
SomeSkips == {{<<"exterior", "photo", "boot">>, <<"exterior", "photo", "rim">>},
              {<<"exterior", "photo", "front">>},
              {<<"thickness", "um", "sill">>, <<"thickness", "photo", "sill">>},
              {<<"wheel", "dot", "fl">>}, {<<"interior", "photo", "cabin">>},
              {<<"damage", "text", "described">>}}

\* A place inland, and two of one cell, on either side of a coast; a number typed twice.
SomePoints == {[cell |-> 1, land |-> "DE"], [cell |-> 2, land |-> "PL"],
               [cell |-> 2, land |-> "sea"]}
SomeTyped == {[vin |-> "V", small |-> FALSE], [vin |-> "V", small |-> TRUE]}

VARIABLES
  which,
  sale, search, offer, busy,
  settings, stated, edited, fare, held, bid, ask,
  role, banned, deleted,
  watched, offered, draft, filed, forgotten, reader, page,
  priced, named,
  table, query, leaf, answered,
  sold, credentials, request, said, unlocked,
  tuned, stage, wired, silent, raw, report, scans, boots,
  phone, sheet, standing, floor, holder, cars, step, asked,
  scan, last, barred, worker, cooling, alive,
  roll, copied, older, marked, claimed, seen,
  topic, tokens, cached, vinCache, knob, values, known, sure, replied, hour

Hands == INSTANCE CounterOffers WITH
  Tasks <- HandsTasks, Handlers <- HandsHandlers, order <- sale, pc <- at, job <- my
Pricing == INSTANCE Pricing WITH
  Settings <- SomeSettings, Lines <- <<370, 910>>, Bases <- {0, 901},
  Routes <- SomeRoutes, Detour <- 13, Multiplier <- 10, offer <- bid
StaffHandlers == {"ban", "unban", "changeRole", "erase", "eraseMe"}
Staff == INSTANCE Staff WITH
  Handlers <- StaffHandlers, Alone <- StaffHandlers, pc <- at, job <- my
Views == INSTANCE Views WITH
  Experts <- Inspectors, Nobody <- NoOne, job <- watched, erased <- forgotten
Queue == INSTANCE Queue WITH Asked <- {1, 2}
Search == INSTANCE Search WITH
  Tables <- SomeTables, Queries <- SomeQueries, PageSize <- 2, page <- leaf
Receipts == INSTANCE Receipts WITH
  Phones <- Devices, Books <- SomeBooks, Settings <- SomeCredentials,
  setting <- credentials, ask <- request
Boot == INSTANCE Boot WITH Deployments <- SomeDeployments, env <- tuned, at <- stage
Completeness == INSTANCE Completeness WITH
  Angles <- {"front", "boot", "rim"}, OldAngles <- {"front"},
  Panels <- {"hood", "sill"}, OldPanels <- {"hood"}, Corners <- {"fl"},
  Skips <- SomeSkips, Cars <- SomeCars, Overlaps <- FALSE,
  filed <- sheet, status <- standing, device <- holder, stage <- step
Mrz == INSTANCE Mrz WITH
  Uploads <- Tasks, Tails <- {3}, Spots <- {1, 6, 9, 14},
  Mistakes <- {8, 20}, job <- scan, refused <- barred, off <- cooling
Manifest == INSTANCE Manifest WITH MaxShown <- 2, OnCard <- 1, manifest <- roll
Lookups == INSTANCE Lookups WITH
  Servers <- {"web", "jobs"}, Points <- SomePoints, Typed <- SomeTyped, RouteTtl <- 1, SettingsTtl <- 1,
  MaxTime <- 2, MaxEdits <- 1, wired <- tokens, cache <- cached, key <- knob, row <- values,
  held <- known, said <- replied, time <- hour, pc <- at, job <- my

handsState == <<sale, search, offer, busy>>
pricingState == <<settings, stated, edited, fare, held, bid, ask>>
mainState == <<vars, handsState, kycState, showroomState, intakeState, refundsState,
               purchasesState, accountsState, phonesState, contractsState, pricingState>>
staffState == <<role, banned, deleted>>
viewsState == <<watched, offered, draft, filed, forgotten, reader, page>>
queueState == <<priced, named>>
searchState == <<table, query, leaf, answered>>
receiptsState == <<sold, credentials, request, said, unlocked>>
bootState == <<tuned, stage, wired, silent, raw, report, scans, boots>>
completenessState == <<phone, sheet, standing, floor, holder, cars, step, asked>>
mrzState == <<scan, last, barred, worker, cooling, alive>>
manifestState == <<roll, copied, older, marked, claimed, seen>>
lookupsState == <<topic, tokens, cached, vinCache, knob, values, known, sure, replied, hour>>
paperState == <<completenessState, mrzState, galleryState, manifestState, orderingState,
                lookupsState>>
deskState == <<connectState, staffState, noticesState, viewsState, queueState, searchState,
               receiptsState, bootState>>
sideState == <<deskState, paperState>>
platformVars == <<which, at, my, mainState, sideState>>

PoolOff == /\ order = "off" /\ over = "off" /\ locked = "off" /\ free = "off"
           /\ offers = "off" /\ refused = "off" /\ pc = "off" /\ job = "off"
HandsOff == sale = "off" /\ search = "off" /\ offer = "off" /\ busy = "off"
KycOff == app = "off" /\ verified = "off" /\ objects = "off" /\ keys = "off"
ShowroomOff == /\ photo = "off" /\ store = "off" /\ manifest = "off" /\ removed = "off"
               /\ ad = "off" /\ public = "off"
IntakeOff == /\ rep = "off" /\ pdf = "off" /\ used = "off" /\ pro = "off"
             /\ grants = "off" /\ orders = "off"
RefundsOff == /\ debt = "off" /\ amount = "off" /\ ledger = "off" /\ parked = "off"
              /\ back = "off" /\ ours = "off" /\ keyed = "off" /\ told = "off"
PurchasesOff == /\ payment = "off" /\ purchase = "off" /\ money = "off" /\ events = "off"
                /\ double = "off"
AccountsOff == /\ person = "off" /\ account = "off" /\ token = "off" /\ fails = "off"
               /\ spent = "off" /\ guesses = "off"
PhonesOff == /\ gone = "off" /\ link = "off" /\ owner = "off" /\ codes = "off"
             /\ taken = "off"
ContractsOff == /\ made = "off" /\ active = "off" /\ deed = "off" /\ linked = "off"
                /\ archive = "off"
PricingOff == /\ settings = "off" /\ stated = "off" /\ edited = "off" /\ fare = "off"
              /\ held = "off" /\ bid = "off" /\ ask = "off"
ConnectOff == profile = "off" /\ accounts = "off" /\ reports = "off" /\ sent = "off"
StaffOff == role = "off" /\ banned = "off" /\ deleted = "off"
NoticesOff == /\ prefs = "off" /\ wants = "off" /\ letters = "off" /\ flying = "off"
              /\ open = "off" /\ calls = "off" /\ erased = "off"
ViewsOff == /\ watched = "off" /\ offered = "off" /\ draft = "off" /\ filed = "off"
            /\ forgotten = "off" /\ reader = "off" /\ page = "off"
QueueOff == priced = "off" /\ named = "off"
SearchOff == table = "off" /\ query = "off" /\ leaf = "off" /\ answered = "off"
ReceiptsOff == /\ sold = "off" /\ credentials = "off" /\ request = "off" /\ said = "off"
               /\ unlocked = "off"
BootOff == /\ tuned = "off" /\ stage = "off" /\ wired = "off" /\ silent = "off" /\ raw = "off"
           /\ report = "off" /\ scans = "off" /\ boots = "off"
CompletenessOff == /\ phone = "off" /\ sheet = "off" /\ standing = "off" /\ floor = "off"
                   /\ holder = "off" /\ cars = "off" /\ step = "off" /\ asked = "off"
MrzOff == /\ scan = "off" /\ last = "off" /\ barred = "off" /\ worker = "off"
          /\ cooling = "off" /\ alive = "off"
GalleryOff == /\ photos = "off" /\ kept = "off" /\ cdn = "off" /\ configured = "off"
              /\ shut = "off" /\ uploads = "off"
ManifestOff == /\ roll = "off" /\ copied = "off" /\ older = "off" /\ marked = "off"
               /\ claimed = "off" /\ seen = "off"
OrderingOff == /\ placed = "off" /\ intents = "off" /\ forms = "off" /\ hooks = "off"
               /\ clock = "off" /\ charging = "off"
LookupsOff == /\ topic = "off" /\ tokens = "off" /\ cached = "off" /\ vinCache = "off"
              /\ knob = "off" /\ values = "off" /\ known = "off" /\ sure = "off"
              /\ replied = "off" /\ hour = "off"

\* A part begins where it does, or stays off.
Begins(part, begin, off) == IF which = part THEN begin ELSE off

PlatformInit ==
  /\ which \in {"pool", "hands", "kyc", "showroom", "intake", "refunds", "purchases",
              "accounts", "phones", "contracts", "pricing", "connect", "staff", "notices",
              "views", "queue", "search", "receipts", "boot", "completeness", "mrz", "gallery",
              "manifest", "ordering", "lookups"}
  /\ Begins("pool", Init, PoolOff)
  /\ Begins("hands", Hands!Init, HandsOff)
  /\ Begins("kyc", Kyc!Init, KycOff)
  /\ Begins("showroom", Showroom!Init, ShowroomOff)
  /\ Begins("intake", Intake!Init, IntakeOff)
  /\ Begins("refunds", Refunds!Init, RefundsOff)
  /\ Begins("purchases", Purchases!Init, PurchasesOff)
  /\ Begins("accounts", Accounts!Init, AccountsOff)
  /\ Begins("phones", Links!Init, PhonesOff)
  /\ Begins("contracts", Contracts!Init, ContractsOff)
  /\ Begins("pricing", Pricing!PricingInit, PricingOff)
  /\ Begins("connect", Connect!Init, ConnectOff)
  /\ Begins("staff", Staff!Init, StaffOff)
  /\ Begins("notices", Notices!Init, NoticesOff)
  /\ Begins("views", Views!Init, ViewsOff)
  /\ Begins("queue", Queue!Init, QueueOff)
  /\ Begins("search", Search!Init, SearchOff)
  /\ Begins("receipts", Receipts!Init, ReceiptsOff)
  /\ Begins("boot", Boot!Init, BootOff)
  /\ Begins("completeness", Completeness!Init, CompletenessOff)
  /\ Begins("mrz", Mrz!Init, MrzOff)
  /\ Begins("gallery", Gallery!Init, GalleryOff)
  /\ Begins("manifest", Manifest!Init, ManifestOff)
  /\ Begins("ordering", Ordering!Init, OrderingOff)
  /\ Begins("lookups", Lookups!Init, LookupsOff)
  /\ which \in {"pool", "pricing", "views", "queue", "search", "receipts", "boot",
               "completeness", "mrz", "manifest"}
       => at = "off" /\ my = "off"

PoolNext ==
  /\ which = "pool" /\ Next
  /\ UNCHANGED <<which, sideState, at, my, handsState, kycState, showroomState, intakeState,
                 refundsState, purchasesState, accountsState, phonesState, contractsState,
                 pricingState>>
HandsNext ==
  /\ which = "hands" /\ Hands!Next
  /\ UNCHANGED <<which, sideState, vars, kycState, showroomState, intakeState, refundsState,
                 purchasesState, accountsState, phonesState, contractsState, pricingState>>
KycNext ==
  /\ which = "kyc" /\ Kyc!Next
  /\ UNCHANGED <<which, sideState, vars, handsState, showroomState, intakeState, refundsState,
                 purchasesState, accountsState, phonesState, contractsState, pricingState>>
ShowroomNext ==
  /\ which = "showroom" /\ Showroom!Next
  /\ UNCHANGED <<which, sideState, vars, handsState, kycState, intakeState, refundsState,
                 purchasesState, accountsState, phonesState, contractsState, pricingState>>
IntakeNext ==
  /\ which = "intake" /\ Intake!Next
  /\ UNCHANGED <<which, sideState, vars, handsState, kycState, showroomState, refundsState,
                 purchasesState, accountsState, phonesState, contractsState, pricingState>>
RefundsNext ==
  /\ which = "refunds" /\ Refunds!Next
  /\ UNCHANGED <<which, sideState, vars, handsState, kycState, showroomState, intakeState,
                 purchasesState, accountsState, phonesState, contractsState, pricingState>>
PurchasesNext ==
  /\ which = "purchases" /\ Purchases!Next
  /\ UNCHANGED <<which, sideState, vars, handsState, kycState, showroomState, intakeState,
                 refundsState, accountsState, phonesState, contractsState, pricingState>>
AccountsNext ==
  /\ which = "accounts" /\ Accounts!Next
  /\ UNCHANGED <<which, sideState, vars, handsState, kycState, showroomState, intakeState,
                 refundsState, purchasesState, phonesState, contractsState, pricingState>>
PhonesNext ==
  /\ which = "phones" /\ Links!Next
  /\ UNCHANGED <<which, sideState, vars, handsState, kycState, showroomState, intakeState,
                 refundsState, purchasesState, accountsState, contractsState, pricingState>>
ContractsNext ==
  /\ which = "contracts" /\ Contracts!Next
  /\ UNCHANGED <<which, sideState, vars, handsState, kycState, showroomState, intakeState,
                 refundsState, purchasesState, accountsState, phonesState, pricingState>>
PricingNext ==
  /\ which = "pricing" /\ Pricing!PricingNext
  /\ UNCHANGED <<which, sideState, at, my, vars, handsState, kycState, showroomState, intakeState,
                 refundsState, purchasesState, accountsState, phonesState, contractsState>>

\* The parts that share neither rows nor tasks with those above.
ConnectNext ==
  /\ which = "connect" /\ Connect!Next
  /\ UNCHANGED <<which, mainState, paperState, staffState, noticesState, viewsState, queueState,
                 searchState, receiptsState, bootState>>
StaffNext ==
  /\ which = "staff" /\ Staff!Next
  /\ UNCHANGED <<which, mainState, paperState, connectState, noticesState, viewsState, queueState,
                 searchState, receiptsState, bootState>>
NoticesNext ==
  /\ which = "notices" /\ Notices!Next
  /\ UNCHANGED <<which, mainState, paperState, connectState, staffState, viewsState, queueState,
                 searchState, receiptsState, bootState>>
ViewsNext ==
  /\ which = "views" /\ Views!Next
  /\ UNCHANGED <<which, at, my, mainState, paperState, connectState, staffState, noticesState,
                 queueState, searchState, receiptsState, bootState>>
QueueNext ==
  /\ which = "queue" /\ Queue!Next
  /\ UNCHANGED <<which, at, my, mainState, paperState, connectState, staffState, noticesState,
                 viewsState, searchState, receiptsState, bootState>>
SearchNext ==
  /\ which = "search" /\ Search!SearchListings
  /\ UNCHANGED <<which, at, my, mainState, paperState, connectState, staffState, noticesState,
                 viewsState, queueState, receiptsState, bootState>>
ReceiptsNext ==
  /\ which = "receipts" /\ Receipts!Next
  /\ UNCHANGED <<which, at, my, mainState, paperState, connectState, staffState, noticesState,
                 viewsState, queueState, searchState, bootState>>
BootNext ==
  /\ which = "boot" /\ Boot!Next
  /\ UNCHANGED <<which, at, my, mainState, paperState, connectState, staffState, noticesState,
                 viewsState, queueState, searchState, receiptsState>>
\* Those of a report, of a document and of a gallery.
CompletenessNext ==
  /\ which = "completeness" /\ Completeness!Next
  /\ UNCHANGED <<which, at, my, mainState, deskState, mrzState, galleryState, manifestState,
                 orderingState, lookupsState>>
MrzNext ==
  /\ which = "mrz" /\ Mrz!Next
  /\ UNCHANGED <<which, at, my, mainState, deskState, completenessState, galleryState,
                 manifestState, orderingState, lookupsState>>
GalleryNext ==
  /\ which = "gallery" /\ Gallery!Next
  /\ UNCHANGED <<which, mainState, deskState, completenessState, mrzState, manifestState,
                 orderingState, lookupsState>>
ManifestNext ==
  /\ which = "manifest" /\ Manifest!Next
  /\ UNCHANGED <<which, at, my, mainState, deskState, completenessState, mrzState,
                 galleryState, orderingState, lookupsState>>
OrderingNext ==
  /\ which = "ordering" /\ Ordering!Next
  /\ Cardinality({o \in DOMAIN placed' : placed'[o].row # "none"}) <= MaxCharged
  /\ UNCHANGED <<which, mainState, deskState, completenessState, mrzState, galleryState,
                 manifestState, lookupsState>>
\* And what is looked up for a price or a form.
LookupsNext ==
  /\ which = "lookups" /\ Lookups!Next
  /\ UNCHANGED <<which, mainState, deskState, completenessState, mrzState, galleryState,
                 manifestState, orderingState>>

PlatformNext ==
  \/ PoolNext \/ HandsNext \/ KycNext \/ ShowroomNext \/ IntakeNext \/ RefundsNext
  \/ PurchasesNext \/ AccountsNext \/ PhonesNext \/ ContractsNext \/ PricingNext
  \/ ConnectNext \/ StaffNext \/ NoticesNext \/ ViewsNext \/ QueueNext \/ SearchNext
  \/ ReceiptsNext \/ BootNext \/ CompletenessNext \/ MrzNext \/ GalleryNext \/ ManifestNext
  \/ OrderingNext \/ LookupsNext

PlatformSpec == PlatformInit /\ [][PlatformNext]_platformVars

\* The same model values stand for the inspectors of the pool, the users and the devices,
\* and others for the files, the shots, the pictures and the orders: a run knows one of
\* each group.
Symmetry == Permutations(Tasks) \cup Permutations(Inspectors) \cup Permutations(Documents)

\* What each of the parts promises, of the runs that are of it.
In(part, P) == which = part => P
PlatformTypeOK ==
  /\ In("pool", TypeOK)
  /\ In("hands", Hands!TypeOK) /\ In("kyc", Kyc!TypeOK)
  /\ In("showroom", Showroom!TypeOK) /\ In("intake", Intake!TypeOK)
  /\ In("refunds", Refunds!TypeOK) /\ In("purchases", Purchases!TypeOK)
  /\ In("accounts", Accounts!TypeOK) /\ In("phones", Links!TypeOK)
  /\ In("contracts", Contracts!TypeOK) /\ In("pricing", Pricing!TypeOK)
  /\ In("connect", Connect!TypeOK) /\ In("staff", Staff!TypeOK)
  /\ In("notices", Notices!TypeOK) /\ In("views", Views!TypeOK)
  /\ In("queue", Queue!TypeOK) /\ In("search", Search!TypeOK)
  /\ In("receipts", Receipts!TypeOK) /\ In("boot", Boot!TypeOK)
  /\ In("completeness", Completeness!TypeOK) /\ In("mrz", Mrz!TypeOK)
  /\ In("gallery", Gallery!TypeOK) /\ In("manifest", Manifest!TypeOK)
  /\ In("ordering", Ordering!TypeOK) /\ In("lookups", Lookups!TypeOK)

\* What a row says of the object store is so: the document of an undecided application is
\* there to be read, in whichever bucket it was stored, the photos of a report and of an
\* advert, a PDF and a contract likewise, and the stamp of an advert stands for copies that
\* were made.  A contract can be made at any
\* time: one version of it is active while another is written, activated or rendered.
\* Objects go before rows when they come, after rows when they are displaced, whatever the
\* store refuses and wherever a process dies.
RowsHaveTheirObjects ==
  /\ In("kyc", Kyc!UndecidedHasDocument)
  /\ In("showroom", Showroom!RowHasObject /\ Showroom!StampIsCopied)
  /\ In("intake", Intake!UploadedHasFile)
  /\ In("contracts", Contracts!PdfIsItsContract /\ Contracts!AlwaysATemplate)
  /\ In("gallery", Gallery!GalleryHolds)
  /\ In("boot", Boot!DocumentsAreFound)

\* A device has paid one credit for each of its free reports, PRO is for no more devices than
\* its purchase may have, counted under one number of it, and an order is SUBMITTED for a
\* report of its own: whoever conflicts with whom over a code, an order or a purchase.
QuotaHolds ==
  /\ In("intake", Intake!CreditsMatch /\ Intake!ProIsBought /\ Intake!ReportsMatchOrders)
  /\ In("receipts", Receipts!OneNumberEach)

\* Money goes back once, and is never forgotten, over settlements, retries and events.
MoneyGoesBackOnce == In("refunds", Refunds!MoneyGoesBackOnce)

\* What is held on a card is in the ledger under the order it is for, and an order that
\* searches does so until a time that is known, wherever the process dies that begins it.
HoldsAreKnown == In("ordering", Ordering!OrderingHolds)

\* What somebody may open follows what was paid and what is linked.
AccessFollows ==
  /\ In("purchases", Purchases!AccessFollowsMoney)
  /\ In("phones", Links!ReportsFollowLink)

\* The price that is asked is the one that was quoted, within what the card holds, and what
\* an inspector was promised, under tariffs edited meanwhile; and what it is made from, the
\* way, the country and the settings, is what was said of them, and recently.
PricesHold ==
  /\ In("pricing", Pricing!PricesHold)
  /\ In("lookups", Lookups!PlacesHold /\ Lookups!SettingsHold)

\* What is good for one use or for so many tries is not used or tried more often, with
\* those counted that had read the counter before: the token of a letter, the code of a
\* link, the password of an account, the rendering of a contract.
OnlySoOften ==
  /\ In("accounts", Accounts!TokenUsedOnce /\ Accounts!LockHolds)
  /\ In("phones", Links!CodeUsedOnce)
  /\ In("contracts", Contracts!GivesUp)

\* The account an inspector is paid through is the one the profile describes, and was
\* completed by the inspector, whichever requests and events of Stripe overlap.
AccountIsTheirs == In("connect", Connect!OnboardedIsReal /\ Connect!RecordIsTheAccounts)

\* Preferences stand until they are chosen again, an offer's notice lives as long as the
\* offer, and a credential is not among the notices a session may list.
NoticesHold == In("notices", Notices!NoticesHold)

\* Whoever is shown an order, a place in a queue or a card of the showroom can open it, is
\* told the truth, and misses none: the lists and the pages agree, and so do the answers about
\* one car.
ShownIsTheirs ==
  /\ In("views", Views!WhatIsListedOpens /\ Views!HeldIsInOneTab)
  /\ In("queue", Queue!PlacesAreHonest)
  /\ In("search", Search!SearchHolds)
  /\ In("lookups", Lookups!VinsHold)

\* What is judged by a picture is judged by what the picture shows: a document is known
\* again by what is printed on it, if by anything, and an advert shows those photos of its
\* report that may be shown, from where they are.
PicturesAreRead ==
  /\ In("mrz", Mrz!MrzHolds)
  /\ In("manifest", Manifest!ManifestHolds)

\* A process that serves keeps identity documents apart and says what does not work; one
\* that does not was stopped by its own settings.
BootHolds == In("boot", Boot!BootHolds)

\* What was decided about somebody is not undone by a step of somebody else: an
\* inspector's refusal, a rejected application, an admin's hide, an erasure, the contract
\* of an order, the account money goes to, the one who manages the admins, the photos that an
\* erasure took out of the public bucket, the deadline of a search.
DecisionsStand ==
  [][/\ which = "pool" => AsksOnceARound
     /\ which = "kyc" => Kyc!WorksOnApproval
     /\ which = "showroom" => Showroom!OnlyAdminUnhides
     /\ which = "accounts" => Accounts!StaysErased
     /\ which = "contracts" => Contracts!KeepsItsContract
     /\ which = "connect" => Connect!KeepsLivingAccount
     /\ which = "staff" => Staff!KeepsAManager
     /\ which = "manifest" => Manifest!ErasedIsSwept
     /\ which = "ordering" => Ordering!DeadlineStays]_platformVars

\* An answer is true of what it was made from when it is given: the verdict on a purchase,
\* the contacts and the report on a page of an order, the refusal of a report that is not
\* complete, the gallery in the order that was asked for.
AnswersAreTrue ==
  [][/\ which = "receipts" => Receipts!VerdictsAreTrue
     /\ which = "views" => Views!ShownAtMost
     /\ which = "completeness" => Completeness!JudgedByItsRules
     /\ which = "gallery" => Gallery!ReorderIsWhole]_platformVars
=============================================================================
