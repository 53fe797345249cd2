# CarSalePro backend: TLA+ models and proofs

The modules in this directory model the CarSalePro backend (NestJS, Postgres through Prisma,
Redis, Stripe, object storage, cron jobs): who may move an order, what it costs, when its
money is held, taken, given back or paid out, who is asked to inspect and who is shown what,
what becomes of documents, photos, adverts and accounts, and what survives a race, a lost
answer or a crash. TLC checks them on small instances; TLAPS proves the most important safety
properties for instances of any size. Line numbers are those of the files under `src/`.

## 1. Inventory

The program is one Node process (or several). Every HTTP request, Stripe webhook and cron
tick is an async function; between two `await`s it runs alone, at an `await` anything else
may run. **No handler of the order flow opens a database transaction**: what holds them
together is the order of their statements, conditional `updateMany`s whose `count` decides
a race, unique keys (`Refund(orderId, reason)`, `Payout(orderId)`, `StripeWebhookEvent(id)`,
`OrderCounterOffer(orderId, inspectorId)`, the partial index of the one presented price), and
Stripe's idempotency keys. Transactions exist for credits, purchases, erasures, contracts.

| Component | State | Operations | Hard behaviour | What makes it correct |
|---|---|---|---|---|
| Order state machine (`orders/order-state-machine.ts`) | `Order.status` | `canTransition`; `transition` reads, checks, writes by id | the check is stale when the write lands | only edges of the table are taken |
| Placing an order | order, payment row, PaymentIntent | create, reopen the card form, authorize, expire | death between any two rows | what is held is known; a search has a deadline |
| Order escrow (`orders/orders.service.ts`) | order, payment, refund rows, intent at Stripe | accept, assign, cancel, decline, owner contact, sweeps, reconciler | some twenty entry points on one row; lost answers | assigned implies captured; the ledger never runs ahead of Stripe |
| Settlement | order, dispute, payout row, transfer | approve, auto-approve, dispute, resolve, release, park, retry, mark paid | releases overlap; a transfer comes back; the retry reuses a key | paid once; paid means moved; what is owed is tracked |
| Refund queue | `Refund` rows | settle, park, retry, operator retry | as the payout queue | money goes back once and is never forgotten |
| Webhook deduplication (`payments/payments.service.ts`) | `stripe_webhook_event` row | claim, steal, process, release, complete | deliveries overlap; a handler outlives its claim | one handler; nothing acknowledged is lost |
| Dispatch and offers | `OrderOffer` rows, `dispatchRound` | dispatch, accept, decline, expire, re-dispatch | expiry overwrites an answer | one acceptance, of the inspector who has the order; a refusal is final; the search ends |
| Counter-offers (`orders/counter-offer*.ts`) | prices, second payment | name, withdraw, present, accept, pay, abandon, expire | two holds on one order; hand-over | one price before the customer; one charge; no stray hold |
| Pricing and settings | settings, base fees, the order's columns | quote, order, offer, ask, capture | edits in between | charged what was quoted, at most what is held |
| Reports, quota, purchases of PRO | report, credit, grants, order link | create, complete, attach, remove, grant, erase | three unique keys that conflict; two devices | credits match reports; PRO is bought; one report per order |
| Completeness (`reports/report-completeness.ts`) | the payload | judge, attach | rules told from the payload alone | complete by the rules of the app it came from |
| KYC (`kyc/`) | application, documents, objects | upload, submit, review, purge; reading the machine-readable zone | objects and rows apart; a worker that hangs | undecided has its document; decided stands |
| Listings, showroom (`listings/`, `public/`) | adverts, photos, manifest, public copies | publish, hide, delete, mirror, sweep, search, cards | copies named by keys computed again | rows have objects; the hidden stays hidden; pages agree |
| Pay-per-view (`payments/`) | payments, purchases | checkout, fulfil, refund | late or repeated events | access follows the money |
| Inspector and Connect | profile, account | onboarding, change of country, account.updated | first requests overlap | the account is theirs and completed |
| Accounts and devices | user, provider accounts, tokens, login counter, link codes | register, sign in, reset, erase, link | check then use | used once; erased stays erased |
| Admin panel | roles, bans | change, ban, erase | a count read before the write | somebody manages the admins |
| Notifications | rows, preferences | notify, supersede, read | sending under way while the cause ends | a notice lives as long as its offer |
| Contracts (`legal/`) | versions, contract, PDF | activate, render, backfill | attempts, two keys | an order keeps its contract |
| Storage, configuration, self-check | settings, clients, buckets | boot, report, locate, sweep | settings differ between deployments | no start without what it needs; documents are found |
| Lookups (`geo/`, `vin/`, `settings/`) | cached routes, countries, VINs and settings | look up, keep, edit, invalidate | an edit during a load; no Redis; two that decode one VIN | an answer is of what was asked, and no older than its time |
| Scheduler | none | the cron jobs, each a call of the above | overlaps with every request | - |

Calls: webhooks and cron ticks call `OrdersService`; `PaymentsService` resolves
`OrdersService` lazily and calls `transition`, `dispatch`, `parkPayoutForFailedTransfer`;
`OrdersService` calls Stripe, `PaymentsService.markPaymentRefunded` and `settleOrderPayment`;
counter-offers share the order's claim and payment; a completed report submits its order;
almost everything notifies, and no notification throws into its caller.

## 2. Modules

| Module | Models | Checked by | Proved in |
|---|---|---|---|
| `OrderStates` | statuses, table of edges, status groups (constants) | all below | - |
| `Ordering` | an order's beginning: rows, intent, secret, hold, search window | `MCPlatform` | `Parts_proofs` |
| `OrderEscrow` | one order, its payment and PaymentIntent, up to SUBMITTED or CANCELLED | `MCEscrow`, `MCLive` | `OrderEscrow_proofs` |
| `Settlement` | the same order from SUBMITTED on: decision, dispute, payout | `MCSettlement` | `Settlement_proofs` |
| `Refunds` | money on its way back | `MCPlatform`, `MCLive`, itself | `Parts_proofs` |
| `WebhookClaim` | one Stripe event and its deliveries | `MCLive` | `WebhookClaim_proofs` |
| `Dispatch` | candidates, rounds, offers, the end of the search | `MCPlatform`, `MCLive`, `MCEscrow` | `Rows_proofs` |
| `CounterOffers` | the prices of one order: queue, presentation, answers | `MCRaces`, `MCTrade`, `MCPlatform` | `CounterOffers_proofs` |
| `CounterHandover` | the money of one price: second hold, hand-over, abandonment | `MCRaces`, `MCTrade` | `CounterHandover_proofs` |
| `Sale` | what the customer is promised (abstract) | refined by `CounterHandover` | `CounterHandover_proofs`, `CounterOffers_proofs` |
| `Queue` | the places inspectors are told | `MCPlatform` | - |
| `Pricing` | tariffs, quote, offers, capture | `MCPlatform` | - |
| `Intake` | credits, reports of orders, PRO | `MCPlatform` | `Parts_proofs` |
| `Receipts`, `Completeness` | the stores' answers; the gate of a complete report | `MCPlatform` | `Platform_proofs` |
| `Kyc` | applications, documents and their objects | `MCPlatform` | `Rows_proofs` |
| `Mrz` | the zone of a document, and sample papers | `MCPlatform`, itself | - |
| `Showroom`, `Gallery` | adverts and public copies; a seller's gallery | `MCPlatform`, `Showroom` itself | `Rows_proofs` |
| `Manifest` | what a card shows, and from where | `MCPlatform` | `Platform_proofs` |
| `Search` | the search of adverts | `MCPlatform` | - |
| `Purchases`, `Connect`, `Notices`, `Devices` | as in the inventory | `MCPlatform` | `Parts_proofs` |
| `Accounts`, `Contracts` | as in the inventory | `MCPlatform` | `Parts_proofs` |
| `Staff`, `Views`, `Boot` | as in the inventory | `MCPlatform` | `Platform_proofs` |
| `Lookups` | as in the inventory | `MCPlatform` | - |

**Tasks.** A module with concurrency has a set `Tasks` of running functions. `pc[t]` names
the await a task resumes from and `job[t]` holds its locals. An action is one SQL statement
with the code up to the next await, or one call of Stripe or of the object store. A
conditional `updateMany` is one action that tests and sets; a read followed by a write by id
is two. Callees are shared labels (`"settle"`, `AfterCapture`, ...). Modules without tasks
(`Pricing`, `Queue`, `Views` but for its readers, `Receipts`, `Boot`, `Completeness`,
`Search`, `Manifest`, `Mrz`) say in their heading what is taken as one step.

**Stripe and the stores** are external: what they know is kept apart from what our rows say,
and each call does what the code relies on: an idempotency key replays its first answer, a
captured or cancelled intent stays so, refunds never exceed the charge. Webhook events are
delivered later, in any order, again, or never.

**Faults** are a constant: an answer that is lost, a call that fails or is refused, a process
that dies between two awaits, a refund made in the dashboard, a store that refuses.

**Handlers** is the set of handlers that may start. `Alone`, `Apart`, `Together`, `Overlaps`
say which of them may not, or may, run at the same time; a constant of this kind names
a race that the code loses, and every such race is a hazard in PROJECT.json with a note.

**Composition.** `MCPlatform` puts the parts that share no row under one specification: a
behaviour chooses one part at the start (`which`), the variables of the others are off, and
every property says of each part what that part promises. `MCLive`, `MCTrade`, `MCRaces` and
`MCEscrow` do the same for liveness, for the two halves of a counter-offer, and for the four
ways in which one order is fought over: the handlers that move its money under every fault, the
customer and the operator who both cancel, the claim-first cancellations, and the functions of
`Dispatch` that answer its offers. `MCParts`, which
`MCPlatform` extends, holds the instances of the twelve parts whose proofs need more than a
page. Nothing is gained in behaviours by this, and nothing is lost: since `which` never
changes, a property of the composition is the conjunction of those of its parts. Fairness conditions are paired so that there are few of them, and each pair
says of a behaviour what its part asks for.

**Refinement.** `CounterHandover` implements `Sale` under a mapping of its rows and Stripe's
intents (`SaleKept`, in `Trade_races`): one charge at most and only while the order is open;
sold for what was charged; a cancelled order was never charged.

## 3. Runs

### Passing

| Run | Question | States |
|---|---|---|
| `Escrow` | assignment, money, cancellation and reconciliation with every fault, and both cancellations at once, two tasks each; the claim-first cancellations with three; and acceptance, assignment, refusal and cancellation over the offers, two that overlap as they like: `TypeOK`, `AssignedIsCaptured`, `LedgerIsHonest`, `OneClaimant`, `ClaimsAgree`, `OneAcceptance` | 2.2 million |
| `Settlement_release` | two handlers of one submitted order, failed and lost transfers, crashes: `NeverPaidTwice`, `PaidMeansMoved`, `DueIsEligible`, `CompletedWasPaid` | 3.8 million |
| `Settlement_serial` | every handler, one at a time, in any order and number, with reversals and forgotten keys: `OneIsPaid`, `DisputeEndsByDecision`, `OwedIsResolved` | 54 thousand |
| `Trade_races` | prices and their money under two overlapping functions: `OneAnswer`, `AnswerIsFinal`, and the refinement `SaleKept` | 2.4 million |
| `Trade_live` | the same, what must happen in the end: `AlwaysCovered`, `QueueMovesOn`, `NoStrayHold` | 52 thousand |
| `Live` | deliveries, search, hold, parked refund: `OneHandler`, `NothingIsSkipped`, `EventIsHandled`, `SearchMovesOn`, `HoldIsReleased`, `ParkedIsResolved` | 128 thousand |
| `Platform` | twenty-five parts, each with its handlers overlapping, faults and deaths where it knows them: fifteen properties, below | 1.5 million |

`Platform` checks `PlatformTypeOK` and:

| Property | Of the parts | Says |
|---|---|---|
| `RowsHaveTheirObjects` | Kyc, Showroom, Intake, Contracts, Gallery, Boot | a row names an object that is there; a stamp stands for copies that were made |
| `QuotaHolds` | Intake, Receipts | credits match reports, PRO is bought and capped under one number, a submitted order has a report of its own |
| `MoneyGoesBackOnce` | Refunds | money goes back once, is called back only when it is, and is never forgotten |
| `HoldsAreKnown` | Ordering | a held intent is in the ledger under its order; a searching order has a deadline |
| `AccessFollows` | Purchases, Devices | what may be opened is what was paid and linked |
| `PricesHold` | Pricing, Lookups | asked is quoted, within the hold, split without a remainder; a route, a country and a setting are those asked for, and recent |
| `OnlySoOften` | Accounts, Devices, Contracts | tokens and codes once, tries and renderings no more often than allowed |
| `AccountIsTheirs` | Connect | payouts go to the account the profile describes |
| `NoticesHold` | Notices | a choice stands, an offer's notice lives as long as the offer |
| `ShownIsTheirs` | Views, Queue, Search, Lookups | what is listed opens, places are honest, pages are whole, the answers about one car agree |
| `PicturesAreRead` | Mrz, Manifest | a document is known by what is printed on it or not at all; a card shows what may be shown, from where it is |
| `BootHolds` | Boot | no process serves without what it needs |
| `DecisionsStand` | Dispatch, Kyc, Showroom, Accounts, Contracts, Connect, Staff, Manifest, Ordering | no step undoes what was decided (action property) |
| `AnswersAreTrue` | Receipts, Views, Completeness, Gallery | what is answered is so when it is answered (action property) |

**Bounds.** Two tasks make every pairwise race, and the counterexamples found need two;
`ClaimsAgree` is about two claims with a third party at work and has three. Two inspectors
(users, devices) so that one can be preferred, refuse, or take what is the other's; one
order, because handlers work on one row at a time (`Ordering` has two orders for one number).
A total of 2 with a late cancellation refunding 1, so that partial refunds exist. Caps of 2
attempts: one retry and the terminal one. One re-dispatch round (`MaxRound`), as many offer
rows as two rounds need (`MaxRows`). Two versions, contracts, accounts, events, photos, three
deployments, uploads and shots: one to be replaced, one that replaces, one more where a limit
is the question. In `Platform` a refund is of a total of 1 (`Escrow` and `Live` have partial
ones), one notice is open at a time (`MaxOffers`), of two orders of one number one has a
payment (`MaxCharged`), and of the parties of a viewed order one is erased. Pricing takes three tariffs with an override of a band, of a country and of
both, and base fees around the bounds; Search all tables of two adverts out of a set chosen
so that ties, absent years, other scripts and removed reports occur, and of three where a page
turns. Lookups knows three places in two cells, so that two addresses share a key and a third
does not, two processes and one edit, and a clock that passes the time to live. Mrz reads
four papers of three formats with a mistake in any of five places. Symmetry is used
in runs without liveness properties, over model values that no `CHOOSE` tells apart.

**What is kept apart.** The property holds with the handlers that overlap in the run, and
TLC finds it violated when those named by `Alone`, `Apart` and `Overlaps` overlap too. The
most important of these:

- *Escrow*: `cancel` and `adminCancel` settle before they claim, buttons write through
  `transition`, a lost capture is given back, a process dies between a claim and the refund:
  none of them is among the handlers and faults of `ClaimsAgree`. `cancel` and `adminCancel`
  overlap in a way of their own, in which an answer is lost or a call refused.
- *Settlement*: `NeverPaidTwice` without the operator's bank transfer and without forgotten
  keys; `PaidMeansMoved` without reversals (the retry replays the dead transfer);
  `OneIsPaid` and `DisputeEndsByDecision` are about sequences: with two tasks they fail.
- *Dispatch* (`DecisionsStand`): refusals, expiry, dispatch and an operator's assignment
  write by id over each other. The search of `Live` runs with one task and without the
  operator, so nothing overlaps there either. `OneAcceptance` is where they do overlap: in
  the run `Escrow` five functions (`authorize`, `decline`, `acceptOffer`, `adminAssign`, `cancel`),
  two at a time; in its theorem all of them, any number at once. It says who has the order, and
  not that an assigned order keeps an accepted offer: a refusal sent while the operator assigns,
  or the sweep of stale offers (which writes EXPIRED by id, orders.service.ts 3515), still writes
  over the accepted row.
- *Purchases* (`AccessFollows`): the run has the deaths of handlers, and the redelivery after
  one. A refund reported before or during the completion it follows, and a session delivered
  again after it was handled (faults `overlap` and `again` of the module), are not in it.
- *Kyc, Showroom, Staff, Connect, Accounts, Devices*: read, check, write by id; two such
  handlers at once bring back what was deleted, decide twice, or use a code twice.
- *CounterOffers*: a price named anew while it is declined. In `Platform`, whose part has one
  task, only those four handlers run that `Trade_races` does not have.
- *Contracts*: two versions created, or activated, at once.

### Violations: where the code and its own comments part

| Run | What the code says | What happens |
|---|---|---|
| `OrderEscrow_cancel_vs_capture` | cancel paths protect "against transitioning with the money still taken" (orders.service.ts 3673) | cancel settles while nothing is captured, an acceptance captures, cancel moves the order: money taken, order cancelled, no Refund row |
| `Settlement_cron_vs_dispute` | "SUBMITTED orders past autoApproveAt" (4088) | the cron approves an order disputed after it was listed |
| `Refunds_skipped` | "refunded: skip, the money is already back" (4510) | a partial refund in the dashboard marks the payment refunded; the rest is never paid |
| `Showroom_erased` | "recomputed from the report manifest exactly as the mirror derived them" (listings.service.ts 1086) | a photo retaken after the copy leaves a public copy that no erasure finds |
| `Mrz_unread` | "the same three layouts cover every machine-readable travel document in the world" (mrz.ts 19) | the one-letter state D of a German document is refused, so it is never known again |

### Fairness

A started function runs to its end (`WF` of each task's steps: the event loop resumes every
settled promise). Crons come round for ever and are strongly fair, because a tick does not
wait for a free task: only the model's finite set of tasks can be full. Offers, collections
and payment windows lapse (`WF`), the search deadline passes, Stripe redelivers an event
until it has a 200, and no step of a delivery that is reached again and again fails there
every time (`SF`): a handler that always throws is never handled, by design. In
`CounterHandover` a call that is made again and again goes through at some time
(`ReleaseGoesThrough`, `HoldIsLetGo`). Customers, inspectors, operators and cards owe nobody
a step. `Settlement`'s `LiveSpec` assumes in addition that the operator's reset of the
attempts stops at some time; otherwise a row could be reset for ever and never reach the cap.
No process dies in `Trade_live`, and in the search of `Live`: a death between the EXPIRED
write and the dispatch leaves an order that waits for its window to close.

## 4. Proofs

TLAPS proves the following for every set of tasks, inspectors, payments, deliveries, handlers
and faults, and for every bound, unless a hypothesis in the statement says otherwise. A
hypothesis is a race or a fault under which TLC finds the property violated, or says that
amounts are numbers.

| Theorem (module) | Property | Hypotheses |
|---|---|---|
| `TypeCorrect`, `AssignedImpliesCaptured`, `LedgerNeverRunsAhead`, `OneClaimantAlways` (`OrderEscrow_proofs`) | `TypeOK`, `AssignedIsCaptured`, `LedgerIsHonest`, `OneClaimant` | none |
| `TypeCorrect`, `CompletedImpliesPaid`, `DueMeansEligible` (`Settlement_proofs`) | types, `CompletedWasPaid`, `DueIsEligible` | none |
| `PaidAtMostOnce` | `NeverPaidTwice` | Stripe keeps its keys, no operator wires money |
| `PaidWasMoved` | `PaidMeansMoved` | no transfer comes back |
| `DecidedOnce` | `OneIsPaid` | one handler at a time, and it does not die |
| `ExclusiveUntilStolen`, `SkippedMeansHandled` (`WebhookClaim_proofs`) | `OneHandler`, `NothingIsSkipped` | none |
| `OneAcceptanceHolds` (`Rows_proofs`) | `OneAcceptance` | none |
| `TypeCorrect`, `AnsweredOnce` (`CounterOffers_proofs`) | types, `OneAnswer` | none |
| `AnswersStay` | `AnswerIsFinal` | `~Overlaps`: no price is named anew while it is answered |
| `HandoverKeepsThePromise` (`CounterHandover_proofs`), `RacesKeepThePromise` (`CounterOffers_proofs`, of `MCRaces`) | `SaleKept` | `CapturesTell`: a capture does not fail and its answer is not lost |
| `OrderStaysCovered` (`CounterHandover_proofs`) | `AlwaysCovered` | `Calm`: of the faults, only cancels that fail |
| `RefundsTypeCorrect`, `BackOnceOrKept` (`Parts_proofs`), `MoneyIsBackOnce` (`Platform_proofs`) | `MoneyGoesBackOnce` | `Amounts`; `OneKey`: Stripe keeps the key |
| `PayoutAccountIsTheirs` (`Platform_proofs`) | `AccountIsTheirs` | none |
| `NoticesDoHold` | `NoticesHold` | none |
| `AccessDoesFollow` | `AccessFollows` | `InOrder`: deliveries of one event neither overlap nor come again; of those who link a phone one runs at a time |
| `HoldsDoStand` | `HoldsAreKnown` | `CountsDown`: numbers and times are natural |
| `ClaimsDoAgree` (`OrderEscrow_proofs`) | `ClaimsAgree` | `ClaimsOnly`: the claim-first handlers and those that assign; no death, no lost answer |
| `QuotaDoesHold` (`Platform_proofs`) | `QuotaHolds` | `IntakeCalm`: an erasure does not meet a creation or a removal, one report is attached at a time; a process does not die between a credit and its row, and a link can be signed |
| `OnlySoOftenHolds` | `OnlySoOften` | of those who spend a token, link a phone, or render the contract of the order one runs at a time (`AccountsCalm`, `ContractsCalm`) |
| `BootDoesHold` | `BootHolds` | none |
| `RowsDoHaveTheirObjects` | `RowsHaveTheirObjects` | `KycCalm`, `ShowroomCalm`: what reads, checks and writes by id does so one at a time, and no process dies between rows of an advert; `IntakeCalm`, `ContractsCalm`; `GalleryCalm`: bounds are natural |
| `AnswersDoHold` | `AnswersAreTrue` | `GalleryCalm` |
| `DecisionsDoStand` | `DecisionsStand` | `Turns`: one function of the search at a time, or one task; `~Overlaps`; `KycCalm`, `ShowroomCalm`, `AccountsCalm`, `ContractsCalm`, `CountsDown` |

Every hypothesis holds under the constants of the run that checks the property. `ClaimsDoAgree`
is stated of `OrderEscrow` itself; the third of the ways in which `Escrow` is checked is that
module under `ClaimsOnly`.

Hardly any of these properties is inductive. What each needs, and why:

**Escrow.** Between the capture and the write of ASSIGNED a task carries what it knows:
`Belief(t)` says that a task at `"capture_mark"` has captured, one at `"release_mark"` has
cancelled, one on its way to ASSIGNED has captured and the ledger says so; the events on
their way record what happened. The step lemmas rest on `Final`: captured and canceled are
final at Stripe, so a belief once true survives whatever the others do. `OneClaimant` needs
that a claimant's inspector is a real one (`ClaimantIsReal`): the claim tests
`inspectorId IS NULL`, and only the claimant of an order in the pool clears it. For
`ClaimsAgree` the invariant (`AgreeInv`) adds that of those who cancel after assignment one is
at work, on money not yet returned (`OneReturns`); that money goes back on a closed order only,
with nobody's claim outstanding (`RefundsShut`); that what is held is captured for the claimant
alone (`HeldForOne`), and a hold that is given up is dead at Stripe (`HoldIsDead`); and that a
cancelled order whose money was taken has its row or a task on its way to write it
(`Accounted`).

**Settlement.** Every transfer is made under the one key, and once the key exists no call
makes another (`OneKey`). An order is closed only after a transfer or by hand, and money sent
is never unsent: either a payout was made (`Paid`) or nothing is closed, paid, or on its way
to be (`Unpaid`). `planRetry` promises an attempt only below the cap. For `DecidedOnce` the
invariant (`SerialInv`) says that an approved order is tracked, by its row or by the release
at work (`OwedInv`), that money is sent for approved orders only (`SentInv`), that a refund
belongs to a disputed order that is about to be REFUNDED (`RefundInv`), and what a handler
knows of rows it does not read again (`Knows`).

**Webhook events.** What excludes a second handler is that the row still carries the first
one's claim (`HandlerOwnsRow`). While no delivery has met another (`MeetsNoLiveClaim`,
`RunsAlone`), a 200 is the answer to a run that finished. Both theorems are of the
composition `MCLive`, whose steps are the deliveries' or none of theirs.

**Dispatch.** The name in `Order.inspectorId` is a lock. `OneInv` says who has it: between the
conditional update and the move to ASSIGNED, or the write that gives the order back, a
function finds its own inspector there, no other function is at such a point, and of the offers
none stands as accepted but the one it is marking. The claim is only taken where there is
no name, and then no acceptance stands either, because every one that does is of the inspector
named. What a function is about to take back does not count: its own write by id, or that of
the sweep it runs, comes later. The run has two tasks; the theorem is of `Dispatch` for any
number, with every handler, and of the same definition as the run's.
`AskInv`, for `DecisionsStand`, follows a round from the choice of an inspector to the offer:
the chosen one has no live offer and has not refused (`Asking`), and as long as the order is
searched for every refusal is on an offer row (`Refusals`), which is all the code looks at when
it chooses. It needs `Turns`, because a dispatch that overlaps a refusal offers again.

**Counter-offers.** One price is presented because presenting writes only when none is
(`ScreenInv`), and one is accepted because the functions that sell exclude each other by the
claim of the order (`OneSeller`, `SellersHold`). `NamingInv`: who is about to write over a
price found it open or withdrawn.

**The hand-over of the money.** The mapping to `Sale` reads the state of the sale and the set
of charges from the rows and from Stripe. That a step of the code is a step of `Sale` or none
needs to know who sells (`SellInv`): one function at a time, on a claim of its own kind;
nothing is captured before it says so; and what it has read is still what the payment is
worth (`Worth`), because a row that is dead or cancelled is never revived and a captured
intent stays captured (`Keeps`). `OrderStaysCovered` adds what keeps a hold behind the order
(`CoverInv`): the seller's own hold is sound until it is captured (`Stands`), Stripe tells of
a hold once and nobody gives up a price that is being paid (`OneEach`), and while nobody has
the order the first hold stands (`Waits`). It fails when captures fail or a process dies over
one: the second hold is then given back when the first is gone.

**Refunds.** `RefundsInv` joins the ledger (refunded means that something went back, and a
task that is about to say so knows it did) and the queue (what is owed is with a task, with
the retries, or failed); `OnceInv`: Stripe has refunded once if it has an answer under the
key.

**Connect.** `ConnectInv`: of the onboarding forms one is at work (the module keeps them
apart), what it holds of the account is still what Stripe and the profile say (`FormOK`),
and the profile's account is one of those made (`ProfileOK`), whatever `account.updated`
events report out of order (`ReportsOK`).

**Notices.** `NoticesInv`: preferences are those chosen, with the write of a function at
`"w_write"` based on what it read; the open notices are those of open offers (`LetterOK`).

**Purchases and devices.** `BuysInv` follows a payment through the checkout, the event and
the handler that serves it (`BuyOK`, `ServeOK`): access is live when the money is paid and
told, and gone when it went back and was told. `LinkInv`: reports belong to the linked user
but while the one function that moves them is at work.

**The beginning of an order.** `OrderInv`: the row of a payment names an intent of its own
order (`RowFits`), only the intent that the row names can be paid (`CardFits`), a function
knows how far the rows have come (`StepFits`), and one function makes the rows of an order
(`OneMakes`). So a process that dies between any two of them leaves nothing held that no row
names. `DeadlineInv` adds that one task records the hold of an order (`OneRecords`) and opens a
window only where there is none: two authorizations of one hold do not move the deadline.

**Reports and credits.** `IntakeInv`: the credits of a device are its free reports and those
being made (`IntakeCredits`), whoever hits which unique key; PRO is of devices with a grant,
and grants are within the cap of their purchase (`IntakeGrants`); an order that names no
submission has a task at work on it (`IntakeFiled`); a PDF a row speaks of is stored
(`IntakeStored`). `ReceiptInv`: a request that has asked a store knows which of its
environments is not the one (`AskedRight`), and what is unlocked is under the number of the
first purchase (`NumberedRight`). `GateInv`: what passed the gate is whole by the rules of the
build it came from, and a build asks for no more than the rules it knows (`EvidenceGrows`).

**Accounts, codes, contracts.** `AccountInv`: a token that may still be spent was not
(`TokenSpent`), and a refused password has a place in the counter or a task on its way to it
(`LoginCounted`): the overshoot is bounded by the number of tasks. `DeedInv` counts in the same
way the tries of a contract (`DeedTried`), and knows under which path its PDF may lie
(`DeedKept`). `CodeInv`: a code that leads to the phone was not taken.

**Objects and rows.** `KycInv`: keys of documents are new and of one row, an upload replaces
what it has read (`KycUploading`), a review decides what it has looked at (`KycJudging`), the
purge takes decided applications only (`KycPurging`). `ShowroomInv`: a mirror that has not
failed has copied what it has not still to copy (`CopiesMade`), so that a stamp stands for
copies whatever the advert's status (`StampKept`); a key about to be dropped is not the photo's
(`PhotoUploading`); only unclaimed or closed adverts are swept (`ShowroomSweeps`).
`GalleryInv`: an upload's key is the newest and of nothing else (`KeysFresh`), what is being
deleted is not public any more (`PhotoDeleting`), and an order of photos that is about to be
written is one of those read (`PhotosPlacing`). `RollInv`: nothing without a key was copied;
that rewriting the manifest keeps its photos needs that sorting by place is a permutation,
which follows by counting, without recursion. `BootInv`: each step of the start leaves its
finding if its condition fails (`BootChecked`), the verdict is of those findings
(`BootJudged`), and a scan finds what the deployment that stored it meant (`ScansFit`).

**Views, staff, accounts to pay.** `ViewInv`: an order does not come back from where a reader
saw it (`ReadBefore`), so what a reader may see does not shrink behind its back. `StaffInv`: of
the requests that change roles one is at work, and its actor has the role it came with
(`ActsRightly`). `ReplaceInv` extends `ConnectInv`: an account is replaced only when Stripe has
told the request that it is gone.

The parts of `Platform` are proved in `Parts_proofs` and `Rows_proofs`, which see `MCParts`
only: with the instances of all twenty-five parts in view the provers are several times slower.
`Platform_proofs` has the small parts, adds that a step of the platform is one of the chosen
part (`OfOnePart`), and states the results of the platform.

Assumptions: those the modules name (`NoOneAssumption`, `AmountsAssumption`,
`FaultsAssumption`, `FirstIntentsAssumption`, `BoundsAssumption`, ...), the hypotheses above,
and the models' picture of Stripe.

**Only model-checked.** Liveness under fairness is out of the prover's reach. Of the safety
properties the runs check five are not proved: `DisputeEndsByDecision`, which is of one handler
at a time and there close to the conditions of the writes; `PlatformTypeOK`, whose types are proved part by
part as far as the invariants above need them; `PicturesAreRead`, because what the check digits
of `Mrz` are of every line is induction over data; and `PricesHold` and `ShownIsTheirs`, which
are in reach.

## 5. Not modelled

- `catalog/catalog.data.ts`, a table of makes and models (a quarter of the lines of the
  implementation) and the endpoints that list it: data without behaviour.
- The texts of notifications and of legal documents, fonts and the layout of PDFs: wording.
- The finance and statistics views: sums over rows, read only.
- DTOs, controllers, interceptors and modules: validation and wiring. The guards are in
  `Staff`, the webhook controller in `WebhookClaim`.
- Editing an advert's fields, promotions, counters of views: single writes of one row.
- Several orders in one batch of a cron job: each is modelled alone, so that an exception
  that ends a batch early (orders.service.ts 4094) is not seen.
