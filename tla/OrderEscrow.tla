---------------------------- MODULE OrderEscrow ----------------------------
(***************************************************************************)
(* One order, its one payment row and the Stripe PaymentIntent behind it,   *)
(* from the moment createOrder returns until a report is submitted or the   *)
(* order is cancelled.                                                      *)
(*                                                                          *)
(* NestJS runs every request, webhook and cron tick as an async function:   *)
(* between two awaits it runs alone, at an await anything else may run.  A  *)
(* running function is a task; pc[t] names the await it is about to resume  *)
(* from, and job[t] holds its locals.  No handler of orders.service.ts      *)
(* opens a transaction, so one action is one SQL statement (with the code   *)
(* up to the next await) or one Stripe call.                                *)
(*                                                                          *)
(* Abstracted: amounts are small integers and every capture takes the whole *)
(* hold; offers and counter-offers (an inspector may try to accept whenever *)
(* a live offer could exist); notifications, timeline events, contracts.    *)
(***************************************************************************)
EXTENDS Naturals, FiniteSets, OrderStates

CONSTANTS
  Tasks,        \* requests, webhook deliveries and cron ticks in flight
  Inspectors,
  NoOne,        \* inspectorId IS NULL
  Total,        \* order.totalCents
  Share,        \* refund reason -> the amount its caller asks back
  FirstIntents, \* how the order's intent captures: "unpaid" manual, "auto" legacy
  Handlers,     \* the handlers that may start (all of them, or a subset)
  Faults        \* what the provider and the process may do to us

Reasons == {"cancel_before_assign", "cancel_after_assign", "admin",
            "capture_failed", "search_expired", "inspector_declined",
            "owner_unreachable", "inspector_no_show"}

\* "lost": Stripe acted and the answer never arrived.  "down": it did nothing
\* and the call failed.  "refused": it declined the capture for good.
\* "crash": the process dies and every local with it.
FaultKinds == {"lost", "down", "refused", "crash"}

ASSUME NoOneAssumption == NoOne \notin Inspectors
ASSUME AmountsAssumption == Total \in Nat \ {0} /\ Share \in [Reasons -> 0 .. Total]
ASSUME FaultsAssumption == Faults \subseteq FaultKinds
ASSUME FirstIntentsAssumption == FirstIntents \subseteq {"unpaid", "auto"}

VARIABLES
  status, inspector,      \* order.status, order.inspectorId
  search, startBy,        \* searchExpiresAt, inspectionDeadlineAt: none/open/over
  contacted,              \* ownerContactConfirmedAt IS NOT NULL
  payment,                \* payment.status
  intent,                 \* the PaymentIntent, as Stripe knows it
  events,                 \* webhook events Stripe has to tell
  refunds, returned,      \* reasons Stripe refunded under, and the sum it returned
  refundRow,              \* our Refund row per (orderId, reason)
  pc, job                 \* the tasks

orderVars == <<status, inspector, search, startBy, contacted>>
stripeVars == <<intent, events, refunds, returned>>
ledgerVars == <<payment, refundRow>>
taskVars == <<pc, job>>
vars == <<orderVars, stripeVars, ledgerVars, taskVars>>

Labels == {"idle", "claim", "find", "capture", "capture_mark", "undo", "abort",
           "settle", "release", "release_mark", "refund", "refund_row",
           "refund_mark", "read", "write", "admit", "window", "close", "dispatch"}

PaymentStatuses == {"pending", "authorized", "succeeded", "failed", "cancelled",
                    "refunded"}

\* "auto" is an automatic-capture intent from before manual capture shipped;
\* "refused" is a hold whose capture Stripe declined (the idempotency key
\* capture_<paymentId> replays that answer).
IntentStates == {"unpaid", "auto", "held", "refused", "captured", "canceled"}

\* A task's locals: the handler, the inspector it acts for, the status it is
\* moving the order to, the refund reason, and (adminAssign) the status it read.
Job(op, by, to, reason) ==
  [op |-> op, by |-> by, to |-> to, reason |-> reason, seen |-> "CREATED"]

NoJob == Job("none", NoOne, "CREATED", "admin")

HandlerNames == {"acceptOffer", "adminAssign", "cancel", "adminCancel",
  "declineByInspector", "ownerReached", "ownerUnreachable",
  "sweepAbandonedInspections",
  "expireUnfilledSearches", "updateStatusByInspector", "submitReportForOrder",
  "dispatch", "authorizeOrderPayment", "settleOrderPayment",
  "cancelOrderPayment", "stranded", "payment_failed",
  "charge_refunded"}

\* The handlers whose status change is the claim, taken before the money moves.
ClaimFirst == {"declineByInspector", "ownerUnreachable",
               "sweepAbandonedInspections", "expireUnfilledSearches"}
Assigning == {"acceptOffer", "adminAssign"}

Start(t, label, j) ==
  /\ pc[t] = "idle"
  /\ j.op \in Handlers
  /\ pc' = [pc EXCEPT ![t] = label]
  /\ job' = [job EXCEPT ![t] = j]

Goto(t, label) == pc' = [pc EXCEPT ![t] = label] /\ UNCHANGED job

Return(t) == pc' = [pc EXCEPT ![t] = "idle"] /\ job' = [job EXCEPT ![t] = NoJob]

\* The handler moves the order: transition(orderId, to) is about to read it.
Transition(t, to) ==
  /\ pc' = [pc EXCEPT ![t] = "read"]
  /\ job' = [job EXCEPT ![t].to = to]

-----------------------------------------------------------------------------
\* createOrder has returned: the order is CREATED, its payment row 'pending',
\* and the customer's browser holds the client secret of an unconfirmed intent.
Init ==
  /\ status = "CREATED" /\ inspector = NoOne
  /\ search = "none" /\ startBy = "none" /\ contacted = FALSE
  /\ payment = "pending"
  /\ intent \in FirstIntents
  /\ events = {} /\ refunds = {} /\ returned = 0
  /\ refundRow = [r \in Reasons |-> "none"]
  /\ pc = [t \in Tasks |-> "idle"]
  /\ job = [t \in Tasks |-> NoJob]

TypeOK ==
  /\ status \in Statuses
  /\ inspector \in Inspectors \cup {NoOne}
  /\ search \in {"none", "open", "over"} /\ startBy \in {"none", "open", "over"}
  /\ contacted \in BOOLEAN
  /\ payment \in PaymentStatuses
  /\ intent \in IntentStates
  /\ events \subseteq {"held", "failed", "captured", "canceled", "refunded"}
  /\ refunds \subseteq Reasons
  /\ returned \in 0 .. Total
  /\ refundRow \in [Reasons -> {"none", "succeeded", "parked"}]
  /\ pc \in [Tasks -> Labels]
  /\ job \in [Tasks -> [op : HandlerNames \cup {"none"},
                        by : Inspectors \cup {NoOne}, to : Statuses,
                        reason : Reasons, seen : Statuses]]

-----------------------------------------------------------------------------
\* The customer's card and the clock: what happens outside the process.

\* The customer confirms the intent: manual capture holds, automatic takes.
Confirm ==
  /\ intent \in {"unpaid", "auto"}
  /\ intent' = IF intent = "unpaid" THEN "held" ELSE "captured"
  /\ events' = events \cup {IF intent = "unpaid" THEN "held" ELSE "captured"}
  /\ UNCHANGED <<orderVars, ledgerVars, taskVars, refunds, returned>>

\* The first card is declined; the same intent stays payable.
DeclineCard ==
  /\ intent = "unpaid"
  /\ events' = events \cup {"failed"}
  /\ UNCHANGED <<orderVars, ledgerVars, taskVars, intent, refunds, returned>>

\* An uncaptured authorization dies at Stripe, or the dashboard cancels it.
HoldLapses ==
  /\ intent \in {"held", "refused"}
  /\ intent' = "canceled"
  /\ events' = events \cup {"canceled"}
  /\ UNCHANGED <<orderVars, ledgerVars, taskVars, refunds, returned>>

\* The window lasts hours: the handler that admitted the order has returned.
SearchWindowCloses ==
  /\ search = "open"
  /\ \A t \in Tasks : job[t].op = "authorizeOrderPayment" => pc[t] = "admit"
  /\ search' = "over"
  /\ UNCHANGED <<status, inspector, startBy, contacted, ledgerVars, stripeVars,
                 taskVars>>

StartDeadlinePasses ==
  /\ startBy = "open"
  /\ startBy' = "over"
  /\ UNCHANGED <<status, inspector, search, contacted, ledgerVars, stripeVars,
                 taskVars>>

Environment ==
  Confirm \/ DeclineCard \/ HoldLapses \/ SearchWindowCloses \/ StartDeadlinePasses

-----------------------------------------------------------------------------
\* transition(orderId, to): read, check the edge, then write by id alone.

\* What the caller does once transition has returned.
AfterTransition(t) ==
  CASE job[t].op \in {"authorizeOrderPayment", "settleOrderPayment"} ->
         Goto(t, "dispatch")
    [] job[t].op = "submitReportForOrder" /\ job[t].to = "EN_ROUTE" ->
         Transition(t, "IN_PROGRESS")
    [] job[t].op = "submitReportForOrder" /\ job[t].to = "IN_PROGRESS" ->
         Transition(t, "SUBMITTED")
    [] OTHER -> Return(t)

TransitionRead(t) ==
  /\ pc[t] = "read"
  /\ \/ status = job[t].to /\ AfterTransition(t)
     \/ /\ status # job[t].to /\ CanTransition(status, job[t].to)
        /\ Goto(t, "write")
     \/ status # job[t].to /\ ~CanTransition(status, job[t].to) /\ Return(t)
  /\ UNCHANGED <<orderVars, stripeVars, ledgerVars>>

\* The UPDATE names only the id.  An order entering ASSIGNED also gets its
\* start deadline; a settings failure leaves it null.
TransitionWrite(t) ==
  /\ pc[t] = "write"
  /\ status' = job[t].to
  /\ startBy' \in IF job[t].to = "ASSIGNED" THEN {"open", startBy} ELSE {startBy}
  /\ AfterTransition(t)
  /\ UNCHANGED <<inspector, search, contacted, stripeVars, ledgerVars>>

-----------------------------------------------------------------------------
\* settleRefund: give the order's money back, whatever form it is in.

\* Where the caller goes once settleRefund has returned: the claim-first
\* handlers have moved the order already, the others move it now.
AfterSettle(t) ==
  IF job[t].op \in ClaimFirst \cup {"stranded"}
  THEN Return(t)
  ELSE Transition(t, "CANCELLED")

\* The Refund row and the live payment are read; the payment's state picks the
\* branch.  A search that expired may only ever release a hold.
SettleRefund(t) ==
  /\ pc[t] = "settle"
  /\ LET r == job[t].reason
         settled == refundRow[r] = "succeeded" \/ Share[r] = 0
     IN \/ /\ settled \/ payment \in {"pending", "failed", "cancelled", "refunded"}
           /\ AfterSettle(t)
        \/ ~settled /\ payment = "authorized" /\ Goto(t, "release")
        \/ /\ ~settled /\ payment = "succeeded"
           /\ IF r = "search_expired" THEN AfterSettle(t) ELSE Goto(t, "refund")
  /\ UNCHANGED <<orderVars, stripeVars, ledgerVars>>

\* A failed release leaves the hold 'authorized' in the ledger, and is only
\* reported; the reconciler comes back for it.
ReleaseFailsMarkedAnyway(t) == Goto(t, "release_mark")
ReleaseFails(t) == AfterSettle(t)

\* releaseAuthorization: cancelPaymentIntent with the key cancel_<paymentId>.
CancelIntent(t) ==
  /\ pc[t] = "release"
  /\ \/ /\ intent \in {"held", "refused", "canceled"}
        /\ intent' = "canceled" /\ events' = events \cup {"canceled"}
        /\ Goto(t, "release_mark")
     \/ /\ "lost" \in Faults /\ intent \in {"held", "refused"}
        /\ intent' = "canceled" /\ events' = events \cup {"canceled"}
        /\ ReleaseFails(t)
     \/ /\ intent \in {"captured", "canceled"} \/ "down" \in Faults
        /\ ReleaseFails(t)
        /\ UNCHANGED <<intent, events>>
  /\ UNCHANGED <<orderVars, ledgerVars, refunds, returned>>

MarkReleased(t) ==
  /\ pc[t] = "release_mark"
  /\ payment' = "cancelled"
  /\ AfterSettle(t)
  /\ UNCHANGED <<orderVars, stripeVars, refundRow>>

\* Stripe returns the money under the key refund_<order>_<reason>, once.
StripeRefunds(r) ==
  /\ r \notin refunds /\ intent = "captured" /\ returned + Share[r] <= Total
  /\ refunds' = refunds \cup {r}
  /\ returned' = returned + Share[r]
  /\ events' = events \cup {"refunded"}
  /\ UNCHANGED intent

\* parkRefund upserts the row whatever it held.
ParkRefundDropped(r) == UNCHANGED refundRow
ParkRefund(r) == refundRow' = [refundRow EXCEPT ![r] = "parked"]

CreateRefund(t) ==
  /\ pc[t] = "refund"
  /\ LET r == job[t].reason
         park == ParkRefund(r) /\ AfterSettle(t)
     IN \/ /\ StripeRefunds(r)
           /\ Goto(t, "refund_row") /\ UNCHANGED refundRow
        \/ /\ r \in refunds
           /\ Goto(t, "refund_row") /\ UNCHANGED <<refundRow, stripeVars>>
        \/ "lost" \in Faults /\ StripeRefunds(r) /\ park
        \/ /\ \/ "down" \in Faults
              \/ r \notin refunds /\ returned + Share[r] > Total
           /\ park /\ UNCHANGED stripeVars
  /\ UNCHANGED <<orderVars, payment>>

RecordRefund(t) ==
  /\ pc[t] = "refund_row"
  /\ refundRow' = [refundRow EXCEPT ![job[t].reason] = "succeeded"]
  /\ Goto(t, "refund_mark")
  /\ UNCHANGED <<orderVars, stripeVars, payment>>

MarkRefunded(t) ==
  /\ pc[t] = "refund_mark"
  /\ payment' = "refunded"
  /\ AfterSettle(t)
  /\ UNCHANGED <<orderVars, stripeVars, refundRow>>

-----------------------------------------------------------------------------
\* captureOrderPayment: take the held money.

AfterCapture(t) == Transition(t, "ASSIGNED")

\* "undo" answers a retryable failure, "abort" a fatal one.
CaptureFailsIgnored(t, label) == AfterCapture(t)
CaptureFails(t, label) == Goto(t, label)

FindPayment(t) ==
  /\ pc[t] = "find"
  /\ CASE payment = "succeeded" -> AfterCapture(t)
       [] payment = "authorized" -> Goto(t, "capture")
       [] payment = "pending" -> CaptureFails(t, "undo")
       [] OTHER -> CaptureFails(t, "abort")
  /\ UNCHANGED <<orderVars, stripeVars, ledgerVars>>

\* A repeated capture replays the first answer (key capture_<paymentId>), and an
\* intent found already captured counts as taken.
CaptureIntent(t) ==
  /\ pc[t] = "capture"
  /\ \/ /\ intent \in {"held", "captured"}
        /\ intent' = "captured" /\ events' = events \cup {"captured"}
        /\ Goto(t, "capture_mark")
     \/ /\ "lost" \in Faults /\ intent = "held"
        /\ intent' = "captured" /\ events' = events \cup {"captured"}
        /\ CaptureFails(t, "undo")
     \/ "down" \in Faults /\ CaptureFails(t, "undo") /\ UNCHANGED <<intent, events>>
     \/ /\ intent \in {"canceled", "refused"}
        /\ CaptureFails(t, "abort") /\ UNCHANGED <<intent, events>>
     \/ /\ "refused" \in Faults /\ intent = "held"
        /\ intent' = "refused"
        /\ CaptureFails(t, "abort") /\ UNCHANGED events
  /\ UNCHANGED <<orderVars, ledgerVars, refunds, returned>>

MarkCapturedInStripesWord(t) ==
  /\ pc[t] = "capture_mark"
  /\ payment' = "captured"
  /\ AfterCapture(t)
  /\ UNCHANGED <<orderVars, stripeVars, refundRow>>

MarkCaptured(t) ==
  /\ pc[t] = "capture_mark"
  /\ payment' = "succeeded"
  /\ AfterCapture(t)
  /\ UNCHANGED <<orderVars, stripeVars, refundRow>>

-----------------------------------------------------------------------------
\* The search: dispatch, the two ways to assign, and the search sweep.

\* dispatch found nobody and parks a PAID order.  Finding somebody only creates
\* an offer, and an order that is not PAID is left as it is: no step here.
DispatchFindsNobody(t) ==
  /\ status = "PAID"
  /\ Start(t, "read", Job("dispatch", NoOne, "UNASSIGNED", "admin"))
  /\ UNCHANGED <<orderVars, stripeVars, ledgerVars>>

\* The same call at the end of authorizeOrderPayment and settleOrderPayment.
DispatchAfterPaid(t) ==
  /\ pc[t] = "dispatch"
  /\ \/ status = "PAID" /\ Transition(t, "UNASSIGNED")
     \/ Return(t)
  /\ UNCHANGED <<orderVars, stripeVars, ledgerVars>>

\* An inspector answers a live offer; one exists only for an order in the pool.
AcceptOffer(t, i) ==
  /\ status \in Pool
  /\ Start(t, "claim", Job("acceptOffer", i, "ASSIGNED", "capture_failed"))
  /\ UNCHANGED <<orderVars, stripeVars, ledgerVars>>

AdminAssign(t, i) ==
  /\ CanTransition(status, "ASSIGNED")
  /\ Start(t, "claim", [Job("adminAssign", i, "ASSIGNED", "capture_failed") EXCEPT !.seen = status])
  /\ UNCHANGED <<orderVars, stripeVars, ledgerVars>>

\* The WHERE clause of the claim: adminAssign names the status it read,
\* acceptOffer any status of the pool.
UnclaimedByStatus(t) ==
  status \in IF job[t].op = "acceptOffer" THEN Pool ELSE {job[t].seen}
Unclaimed(t) ==
  /\ inspector = NoOne
  /\ status \in IF job[t].op = "acceptOffer" THEN Pool ELSE {job[t].seen}

\* The race is decided here, in one conditional write.
ClaimOrder(t) ==
  /\ pc[t] = "claim"
  /\ \/ Unclaimed(t) /\ inspector' = job[t].by /\ Goto(t, "find")
     \/ ~Unclaimed(t) /\ UNCHANGED inspector /\ Return(t)
  /\ UNCHANGED <<status, search, startBy, contacted, stripeVars, ledgerVars>>

\* releaseOrderClaim, guarded on our own claim and on the pool.
ReleaseClaim(t) ==
  inspector' = IF inspector = job[t].by /\ status \in Pool THEN NoOne ELSE inspector

\* Retryable: everything back as it was, and a 503.
UndoClaim(t) ==
  /\ pc[t] = "undo"
  /\ ReleaseClaim(t) /\ Return(t)
  /\ UNCHANGED <<status, search, startBy, contacted, stripeVars, ledgerVars>>

\* Fatal: the order will be cancelled, after the hold is given back.
AbortClaim(t) ==
  /\ pc[t] = "abort"
  /\ ReleaseClaim(t) /\ Goto(t, "settle")
  /\ UNCHANGED <<status, search, startBy, contacted, stripeVars, ledgerVars>>

\* A claim that is itself the status change: the order is CANCELLED from here
\* on, and the refund follows under this handler's own reason.
ClaimKeepsStatus(t, op, from, reason) ==
  /\ status \in from
  /\ Start(t, "settle", Job(op, NoOne, "CANCELLED", reason))
  /\ UNCHANGED <<orderVars, stripeVars, ledgerVars>>

ClaimCancelled(t, op, from, reason) ==
  /\ status \in from
  /\ Start(t, "settle", Job(op, NoOne, "CANCELLED", reason))
  /\ status' = "CANCELLED"
  /\ UNCHANGED <<inspector, search, startBy, contacted, stripeVars, ledgerVars>>

ExpireIgnoresClaim(t) ==
  /\ search = "over"
  /\ ClaimCancelled(t, "expireUnfilledSearches", Pool, "search_expired")

ExpireUnfilledSearches(t) ==
  /\ inspector = NoOne /\ search = "over"
  /\ ClaimCancelled(t, "expireUnfilledSearches", Pool, "search_expired")

-----------------------------------------------------------------------------
\* After assignment: the inspector, the start-deadline sweep, the report.

DeclineByInspector(t) ==
  /\ inspector # NoOne
  /\ ClaimCancelled(t, "declineByInspector", Declinable, "inspector_declined")

\* recordOwnerContact(reached = false).
OwnerUnreachable(t) ==
  /\ inspector # NoOne /\ ~contacted
  /\ ClaimCancelled(t, "ownerUnreachable", {"ASSIGNED"}, "owner_unreachable")

\* recordOwnerContact(reached = true): one conditional write.
OwnerReached ==
  /\ "ownerReached" \in Handlers
  /\ inspector # NoOne /\ status = "ASSIGNED" /\ ~contacted
  /\ contacted' = TRUE
  /\ UNCHANGED <<status, inspector, search, startBy, stripeVars, ledgerVars, taskVars>>

SweepAbandoned(t) ==
  /\ startBy = "over"
  /\ ClaimCancelled(t, "sweepAbandonedInspections", Sweepable, "inspector_no_show")

\* The assigned inspector's buttons; no trip before the owner was reached.
UpdateStatus(t, to) ==
  /\ inspector # NoOne
  /\ to = "EN_ROUTE" /\ status = "ASSIGNED" => contacted
  /\ Start(t, "read", Job("updateStatusByInspector", NoOne, to, "admin"))
  /\ UNCHANGED <<orderVars, stripeVars, ledgerVars>>

\* submitReportForOrder walks the order to SUBMITTED one transition at a time,
\* starting from the status it read.
SubmitReport(t) ==
  /\ status \in Attachable
  /\ LET first == CASE status = "ASSIGNED" -> "EN_ROUTE"
                    [] status = "EN_ROUTE" -> "IN_PROGRESS"
                    [] OTHER -> "SUBMITTED"
     IN Start(t, "read", Job("submitReportForOrder", NoOne, first, "admin"))
  /\ UNCHANGED <<orderVars, stripeVars, ledgerVars>>

-----------------------------------------------------------------------------
\* The two cancellations that settle the money before they move the order.

Cancel(t) ==
  /\ \/ /\ status \in PreAssignment
        /\ Start(t, "settle",
                 Job("cancel", NoOne, "CANCELLED", "cancel_before_assign"))
     \/ /\ status \in Sweepable
        /\ Start(t, "settle",
                 Job("cancel", NoOne, "CANCELLED", "cancel_after_assign"))
  /\ UNCHANGED <<orderVars, stripeVars, ledgerVars>>

\* A zero percentage skips the settlement altogether.
AdminCancel(t) ==
  /\ CanTransition(status, "CANCELLED")
  /\ Start(t, IF Share["admin"] > 0 THEN "settle" ELSE "read",
           Job("adminCancel", NoOne, "CANCELLED", "admin"))
  /\ UNCHANGED <<orderVars, stripeVars, ledgerVars>>

-----------------------------------------------------------------------------
\* Stripe's webhooks: any event that happened may be delivered, late, again, or
\* never.

AuthorizeOrderPayment(t) ==
  /\ "held" \in events
  /\ Start(t, "admit", Job("authorizeOrderPayment", NoOne, "PAID", "admin"))
  /\ payment' = IF payment \in {"pending", "failed"} THEN "authorized" ELSE payment
  /\ UNCHANGED <<orderVars, stripeVars, refundRow>>

SettleOrderPayment(t) ==
  /\ "captured" \in events
  /\ Start(t, "admit", Job("settleOrderPayment", NoOne, "PAID", "admin"))
  /\ payment' = "succeeded"
  /\ UNCHANGED <<orderVars, stripeVars, refundRow>>

\* A CREATED order becomes PAID.  Only a hold opens a search window.
AdmitOrder(t) ==
  /\ pc[t] = "admit"
  /\ CASE status # "CREATED" -> Return(t)
       [] status = "CREATED" /\ job[t].op = "authorizeOrderPayment" /\ search = "none"
            -> Goto(t, "window")
       [] OTHER -> Transition(t, "PAID")
  /\ UNCHANGED <<orderVars, stripeVars, ledgerVars>>

OpenSearchWindow(t) ==
  /\ pc[t] = "window"
  /\ search' = "open"
  /\ Transition(t, "PAID")
  /\ UNCHANGED <<status, inspector, startBy, contacted, stripeVars, ledgerVars>>

CancelOrderPayment(t) ==
  /\ "canceled" \in events
  /\ payment \in {"pending", "authorized", "failed"}
  /\ Start(t, "close", Job("cancelOrderPayment", NoOne, "CANCELLED", "admin"))
  /\ payment' = "cancelled"
  /\ UNCHANGED <<orderVars, stripeVars, refundRow>>

\* The hold is gone; past assignment that is an operator's question.
CloseOrder(t) ==
  /\ pc[t] = "close"
  /\ IF status \in PreAssignment THEN Transition(t, "CANCELLED") ELSE Return(t)
  /\ UNCHANGED <<orderVars, stripeVars, ledgerVars>>

PaymentFailedEvent ==
  /\ "payment_failed" \in Handlers
  /\ "failed" \in events /\ payment \in {"pending", "failed"}
  /\ payment' = "failed"
  /\ UNCHANGED <<orderVars, stripeVars, refundRow, taskVars>>

ChargeRefundedEvent ==
  /\ "charge_refunded" \in Handlers
  /\ "refunded" \in events
  /\ payment' = "refunded"
  /\ UNCHANGED <<orderVars, stripeVars, refundRow, taskVars>>

-----------------------------------------------------------------------------
\* reconcileStuckOrderPayments, every fifteen minutes.

\* A hold whose release failed, on an order that was cancelled anyway.
StrandedOnlyIfRefunded(t) ==
  /\ payment = "authorized" /\ status = "REFUNDED"
  /\ Start(t, "release", Job("stranded", NoOne, "CANCELLED", "admin"))
  /\ UNCHANGED <<orderVars, stripeVars, ledgerVars>>

ReconcileStranded(t) ==
  /\ payment = "authorized" /\ status \in {"CANCELLED", "REFUNDED"}
  /\ Start(t, "release", Job("stranded", NoOne, "CANCELLED", "admin"))
  /\ UNCHANGED <<orderVars, stripeVars, ledgerVars>>

\* The webhook was lost: Stripe is asked, and its answer runs the same handler.
\* (The reconciler's selection of orders being worked on whose payment is still
\* pending or held finds none: AssignedIsCaptured.)
ReconcileWaiting(t) ==
  /\ status \in PreAssignment
  /\ \/ payment = "authorized" /\ status = "CREATED" /\ AuthorizeOrderPayment(t)
     \/ payment = "pending" /\ intent \in {"held", "refused"} /\ AuthorizeOrderPayment(t)
     \/ payment = "pending" /\ intent = "captured" /\ SettleOrderPayment(t)

\* Stripe answers that the hold is gone: the order follows without a second look
\* at where it stands.
ReconcileCanceled(t) ==
  /\ status \in PreAssignment
  /\ payment = "pending" /\ intent = "canceled"
  /\ Start(t, "read", Job("cancelOrderPayment", NoOne, "CANCELLED", "admin"))
  /\ payment' = "cancelled"
  /\ UNCHANGED <<orderVars, stripeVars, refundRow>>

-----------------------------------------------------------------------------
\* The process dies: the task is gone, what it wrote stays.
Crash(t) ==
  /\ "crash" \in Faults
  /\ pc[t] # "idle"
  /\ Return(t)
  /\ UNCHANGED <<orderVars, stripeVars, ledgerVars>>

\* One await further in a handler that is running.
Step(t) ==
  \/ TransitionRead(t) \/ TransitionWrite(t)
  \/ SettleRefund(t) \/ CancelIntent(t) \/ MarkReleased(t)
  \/ CreateRefund(t) \/ RecordRefund(t) \/ MarkRefunded(t)
  \/ FindPayment(t) \/ CaptureIntent(t) \/ MarkCaptured(t)
  \/ ClaimOrder(t) \/ UndoClaim(t) \/ AbortClaim(t)
  \/ DispatchAfterPaid(t) \/ AdmitOrder(t) \/ OpenSearchWindow(t) \/ CloseOrder(t)

Request(t) ==
  \/ \E i \in Inspectors : AcceptOffer(t, i) \/ AdminAssign(t, i)
  \/ Cancel(t) \/ AdminCancel(t)
  \/ DeclineByInspector(t) \/ OwnerUnreachable(t)
  \/ \E to \in {"EN_ROUTE", "IN_PROGRESS"} : UpdateStatus(t, to)
  \/ SubmitReport(t) \/ DispatchFindsNobody(t)

Cron(t) ==
  \/ ExpireUnfilledSearches(t) \/ SweepAbandoned(t)
  \/ ReconcileStranded(t) \/ ReconcileWaiting(t) \/ ReconcileCanceled(t)

Webhook(t) ==
  AuthorizeOrderPayment(t) \/ SettleOrderPayment(t) \/ CancelOrderPayment(t)

Next ==
  \/ \E t \in Tasks : Step(t) \/ Request(t) \/ Cron(t) \/ Webhook(t) \/ Crash(t)
  \/ OwnerReached \/ PaymentFailedEvent \/ ChargeRefundedEvent
  \/ Environment

Spec == Init /\ [][Next]_vars

-----------------------------------------------------------------------------
\* A task that has won the order and has not yet finished assigning it.
Claimed(t) ==
  /\ job[t].op \in Assigning
  /\ \/ pc[t] \in {"find", "capture", "capture_mark", "undo", "abort"}
     \/ pc[t] \in {"read", "write"} /\ job[t].to = "ASSIGNED"

AllIdle == \A t \in Tasks : pc[t] = "idle"

\* The ledger says the money was taken, and perhaps given back since.
Taken == {"succeeded", "refunded"}

\* An order is never worked on for money that is only held: every status from
\* ASSIGNED to SUBMITTED implies Stripe has captured (captureOrderPayment's
\* "an order must never be ASSIGNED with uncaptured money") and that the ledger
\* knows, whatever races, lost answers, late webhooks or crashes came before.
AssignedIsCaptured == status \in Working => intent = "captured" /\ payment \in Taken

\* The payment row never runs ahead of Stripe: 'succeeded' and 'refunded' only
\* over captured money, 'cancelled' only over a hold Stripe has let go
\* (releaseAuthorization: "only marked released once the provider confirms").
LedgerIsHonest ==
  /\ payment \in Taken => intent = "captured"
  /\ payment = "cancelled" => intent = "canceled"

\* One winner: of all the acceptOffer and adminAssign calls in flight at most one
\* has passed the conditional claim, and the order carries its inspector.
OneClaimant ==
  \A t \in Tasks : Claimed(t) =>
    /\ inspector = job[t].by
    /\ \A u \in Tasks \ {t} : ~Claimed(u)

\* Nobody works on an order whose money went back: the claim-first handlers
\* refund only after the order is CANCELLED, and CANCELLED is not left again.
NoWorkAfterRefund == refunds # {} => status \notin Working

\* The handlers that claim before they refund pay back under one reason only,
\* although each has its own Refund key and its own Stripe idempotency key.
RefundedUnderOneReason == Cardinality({r \in Reasons : refundRow[r] # "none"}) <= 1

\* When nothing is running, a cancelled order whose money was taken has a Refund
\* row: the money went back, or the retry queue and the operators can see it.
CancelledMoneyIsAccounted ==
  AllIdle /\ status = "CANCELLED" /\ intent = "captured"
    => \E r \in Reasons : refundRow[r] # "none"

\* The search sweep never meets captured money: settleRefund calls that branch
\* unreachable because the sweep claims the order first.
ExpiredSearchHoldsNoMoney ==
  \A t \in Tasks :
    pc[t] = "settle" /\ job[t].reason = "search_expired" => payment # "succeeded"

\* What it is worth to claim the order before its money is touched.
ClaimsHold == NoWorkAfterRefund /\ RefundedUnderOneReason /\ ExpiredSearchHoldsNoMoney

-----------------------------------------------------------------------------
\* A started function runs to its end, the clock passes the search deadline, and
\* the two five-to-fifteen-minute crons come round for ever.  They are strongly
\* fair because a tick never waits for a free task: only the model's fixed set
\* of tasks can be full.  Stripe redelivers an event until it is accepted.
\* Customers, inspectors, operators, and cards owe nobody a step.
Fairness ==
  /\ \A t \in Tasks : WF_vars(Step(t))
  /\ SF_vars(SearchWindowCloses)
  /\ SF_vars(\E t \in Tasks : ExpireUnfilledSearches(t))
  /\ SF_vars(\E t \in Tasks : ReconcileStranded(t))
  /\ SF_vars(\E t \in Tasks : AuthorizeOrderPayment(t))

LiveSpec == Spec /\ Fairness

\* No hold outlives its order: the customer cancels, or the search runs out, and
\* the money on the card is free again, without waiting for Stripe to drop it,
\* also when the hold was confirmed after the cancellation had looked for it.
HoldIsReleased ==
  (status = "CANCELLED" /\ intent \in {"held", "refused"})
    ~> intent \notin {"held", "refused"}
=============================================================================
