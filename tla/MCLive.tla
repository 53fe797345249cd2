-------------------------------- MODULE MCLive --------------------------------
(* What must happen in the end, of four parts of the backend: the deliveries of one  *)
(* Stripe event, the search for an inspector, the hold on the customer's card, and     *)
(* the refunds that are parked.  A behaviour is of one of them, which is chosen at      *)
(* the start; the others stay in their initial state.                                 *)
EXTENDS Dispatch

CONSTANTS
  Deliveries, Nobody, EventFaults,
  HoldTasks, HoldInspectors, Total, FirstIntents, HoldHandlers, HoldFaults,
  Cap, RefundHandlers, RefundFaults

\* "throws": the handler throws.  "dies": the process dies in a delivery.
\* "db": the closing write is lost (both are wrapped in .catch).
ASSUME EventFaultsAssumption == EventFaults \subseteq {"throws", "dies", "db"}
ASSUME NobodyAssumption == Nobody \notin Deliveries

VARIABLES
  which,
  row, fresh, acked, eventAt, owner, stolen, overlapped, handled,
  status, inspector, search, startBy, contacted, payment, intent, events, refunds,
  returned, refundRow, holdAt, holdJob,
  debt, amount, ledger, parked, back, ours, keyed, told, refundAt, refundJob

\* A full refund for every reason but the late cancellation, which keeps half.
LiveShare == [r \in {"cancel_before_assign", "cancel_after_assign", "admin", "capture_failed",
                     "search_expired", "inspector_declined", "owner_unreachable",
                     "inspector_no_show"} |-> IF r = "cancel_after_assign" THEN 1 ELSE Total]

Events == INSTANCE WebhookClaim WITH Faults <- EventFaults, pc <- eventAt
Hold == INSTANCE OrderEscrow WITH
  Tasks <- HoldTasks, Inspectors <- HoldInspectors, Share <- LiveShare,
  Handlers <- HoldHandlers, Faults <- HoldFaults,
  pc <- holdAt, job <- holdJob
Refunds == INSTANCE Refunds WITH
  Handlers <- RefundHandlers, Faults <- RefundFaults,
  order <- debt, payment <- ledger, row <- parked, events <- told,
  pc <- refundAt, job <- refundJob

eventState == <<row, fresh, acked, eventAt, owner, stolen, overlapped, handled>>
holdState == <<status, inspector, search, startBy, contacted, payment, intent, events, refunds,
               returned, refundRow, holdAt, holdJob>>
refundState == <<debt, amount, ledger, parked, back, ours, keyed, told, refundAt, refundJob>>
liveVars == <<which, vars, eventState, holdState, refundState>>

LiveInit ==
  /\ which \in {"event", "search", "hold", "refunds"}
  /\ Init /\ Events!Init /\ Hold!Init /\ Refunds!Init
  /\ which # "search" => free = Inspectors
  /\ which # "hold" => intent = "unpaid"
  /\ which # "refunds" => amount = Total

InEvent(A) == which = "event" /\ A /\ UNCHANGED <<which, vars, holdState, refundState>>
InSearch(A) == which = "search" /\ A /\ UNCHANGED <<which, eventState, holdState, refundState>>
InHold(A) == which = "hold" /\ A /\ UNCHANGED <<which, vars, eventState, refundState>>
InRefunds(A) == which = "refunds" /\ A /\ UNCHANGED <<which, vars, eventState, holdState>>

EventNext == InEvent(Events!Next)
SearchNext == InSearch(Next)
HoldNext == InHold(Hold!Next)
RefundsNext == InRefunds(Refunds!Next)
LiveNext == EventNext \/ SearchNext \/ HoldNext \/ RefundsNext

\* The fairness of the four.  which never changes, so a condition that joins one of each
\* says of a behaviour what the part of it says that is of its kind.
SomeDelivery(A(_)) == InEvent(\E d \in Deliveries : A(d))
SomeSearch(A(_)) == InSearch(\E t \in Tasks : A(t))
SomeHold(A(_)) == InHold(\E t \in HoldTasks : A(t))
SomeRefund(A(_)) == InRefunds(\E t \in Tasks : A(t))

LiveFairness ==
  /\ SF_liveVars(\/ SomeDelivery(Events!Deliver) \/ InHold(Hold!SearchWindowCloses)
                 \/ SomeRefund(Refunds!RetryStuckRefunds))
  /\ SF_liveVars(\/ SomeDelivery(Events!InsertClaim) \/ SomeSearch(ExpireStaleOffers)
                 \/ SomeHold(Hold!ExpireUnfilledSearches))
  /\ SF_liveVars(\/ SomeDelivery(Events!StealClaim) \/ SomeSearch(Redispatch)
                 \/ SomeHold(Hold!ReconcileStranded))
  /\ SF_liveVars(\/ SomeDelivery(Events!Process) \/ SomeSearch(ExpireUnfilledSearches)
                 \/ SomeHold(Hold!AuthorizeOrderPayment))
  /\ WF_liveVars(\/ SomeDelivery(Events!Close) \/ SomeSearch(Continue)
                 \/ SomeRefund(Refunds!Continue))
  /\ \A t \in HoldTasks : WF_liveVars(InHold(Hold!Step(t)))
  /\ WF_liveVars(\/ InEvent(Events!ClaimGoesStale) \/ InSearch(OfferLapses)
                 \/ InRefunds(Refunds!BackoffElapses))

LiveTogether == LiveInit /\ [][LiveNext]_liveVars /\ LiveFairness

\* What the parts promise, besides SearchMovesOn of the search.
OneHandler == Events!OneHandler
NothingIsSkipped == Events!NothingIsSkipped
EventIsHandled == Events!EventIsHandled
HoldIsReleased == Hold!HoldIsReleased
ParkedIsResolved == Refunds!ParkedIsResolved
=============================================================================
