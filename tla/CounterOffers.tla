---------------------------- MODULE CounterOffers ----------------------------
(***************************************************************************)
(* The queue of prices inspectors name for one UNASSIGNED order: who may     *)
(* name one, which one the customer is shown, and what becomes of the rows   *)
(* when the customer answers, pays or does not, and when the order is sold,  *)
(* to whomever, or its search ends.                                          *)
(*                                                                          *)
(* A task is a running async function, one action one SQL statement, as in   *)
(* OrderEscrow.  The money of a payment is CounterHandover's: here it is in   *)
(* or it is not.  Abstracted: prices (promote takes some waiting row for the *)
(* cheapest), distances, notifications, events; an inspector's other orders  *)
(* are one bit.                                                              *)
(***************************************************************************)
EXTENDS Naturals, FiniteSets

CONSTANTS
  Tasks,
  Inspectors,
  NoOne,      \* order.inspectorId IS NULL
  Handlers,   \* the handlers that may start (all of them, or a subset)
  Overlaps    \* whether a price may be named over one of the same inspector that waits

HandlerNames == {"create", "withdraw", "accept", "decline", "finalize",
  "abandon", "sweepExpired", "acceptOffer", "adminAssign", "otherJob",
  "expireUnfilledSearches"}

ASSUME NoOneIsNobody == NoOne \notin Inspectors
ASSUME OverlapsIsFlag == Overlaps \in BOOLEAN

VARIABLES
  order,     \* its status ("open" is UNASSIGNED) and inspectorId
  search,    \* searchExpiresAt: far off, within the collection window, past
  offer,     \* the OrderCounterOffer row of each inspector
  busy,      \* the inspectors at work on another order
  pc, job

vars == <<order, search, offer, busy, pc, job>>

Stored == {"PENDING", "ACCEPTING", "ACCEPTED", "DECLINED", "EXPIRED",
           "WITHDRAWN", "SUPERSEDED"}

\* ACTIVE_COUNTER_OFFER_STATUSES, and the statuses create takes for an answer.
Answered == {"ACCEPTING", "DECLINED", "EXPIRED", "SUPERSEDED", "ACCEPTED"}

\* shown: presentedAt is set.  live: expiresAt is ahead (of a shown row: that of a
\* waiting one is not read).  paying: acceptingUntil
\* is ahead.  aged: the row is older than the collection window.
Rows == [st : Stored \cup {"none"}, shown : BOOLEAN, live : BOOLEAN,
         paying : BOOLEAN, aged : BOOLEAN]
NoRow == [st |-> "none", shown |-> FALSE, live |-> FALSE, paying |-> FALSE,
          aged |-> FALSE]

Orders == [st : {"open", "assigned", "cancelled"}, by : Inspectors \cup {NoOne}]

Open == order.st = "open"
Searching == Open /\ order.by = NoOne
With(st) == {i \in Inspectors : offer[i].st = st}
OnScreen(i) == \/ offer[i].st = "ACCEPTING"
               \/ offer[i].st = "PENDING" /\ offer[i].shown
Waiting == {i \in With("PENDING") : ~offer[i].shown}

Labels == {"idle", "upsert", "p_order", "p_screen", "p_first", "p_next",
  "p_write", "busy", "pull", "claim", "f_order", "f_busy", "f_pull", "f_claim",
  "f_capture", "f_sold", "a_read", "a_back", "a_over", "s_find", "s_write", "s_collect",
  "c_claim", "c_capture", "w_find", "w_write", "assign", "e_claim"}

\* Locals: the handler, the inspector or row it is about, the rows it selected,
\* and what it does when promote has returned.
Jobs == [op : HandlerNames \cup {"none"}, who : Inspectors \cup {NoOne},
         ids : SUBSET Inspectors, then : Labels]
Job(op, who) == [op |-> op, who |-> who, ids |-> {}, then |-> "idle"]
NoJob == Job("none", NoOne)

Begin(t, label, j) ==
  /\ pc[t] = "idle"
  /\ j.op \in Handlers
  /\ pc' = [pc EXCEPT ![t] = label]
  /\ job' = [job EXCEPT ![t] = j]

Go(t, label) == pc' = [pc EXCEPT ![t] = label] /\ UNCHANGED job
Keep(t, label, j) == pc' = [pc EXCEPT ![t] = label] /\ job' = [job EXCEPT ![t] = j]
End(t) == Keep(t, "idle", NoJob)

\* The rows of S that are in one of the states From go to the state to.  The
\* deadlines of a row that is not in play are not read, and not kept.
Answer(S, From, to) ==
  offer' = [i \in Inspectors |->
    IF i \in S /\ offer[i].st \in From
    THEN [offer[i] EXCEPT !.st = to, !.paying = FALSE, !.live = @ /\ to = "PENDING"]
    ELSE offer[i]]

-----------------------------------------------------------------------------
Init ==
  /\ order = [st |-> "open", by |-> NoOne]
  /\ search \in {"open", "closing"}
  /\ offer = [i \in Inspectors |-> NoRow]
  /\ busy = {}
  /\ pc = [t \in Tasks |-> "idle"] /\ job = [t \in Tasks |-> NoJob]

TypeOK ==
  /\ order \in Orders
  /\ search \in {"open", "closing", "over"}
  /\ offer \in [Inspectors -> Rows]
  /\ busy \subseteq Inspectors
  /\ pc \in [Tasks -> Labels] /\ job \in [Tasks -> Jobs]

-----------------------------------------------------------------------------
\* assertInspectorMayOffer, and the expiry that the search must leave.  It reads
\* the row it is going to write over.
MayOfferAgain(i) ==
  /\ Searching /\ search # "over"
  /\ offer[i].st \notin {"ACCEPTING", "SUPERSEDED", "ACCEPTED"}

MayOffer(i) == Searching /\ search # "over" /\ offer[i].st \notin Answered

Creating(i) == \E u \in Tasks : job[u].op = "create" /\ job[u].who = i

Create(t) ==
  /\ \E i \in Inspectors :
       /\ MayOffer(i)
       /\ Overlaps \/ (~Creating(i) /\ offer[i].st # "PENDING")
       /\ Begin(t, "upsert", Job("create", i))
  /\ UNCHANGED <<order, search, offer, busy>>

\* The upsert says nothing of the status it found.
Upsert(t) ==
  /\ pc[t] = "upsert"
  /\ offer' = [offer EXCEPT ![job[t].who] =
       [st |-> "PENDING", shown |-> FALSE, live |-> FALSE,
        paying |-> FALSE, aged |-> @.aged]]
  /\ Go(t, "p_order")
  /\ UNCHANGED <<order, search, busy>>

-----------------------------------------------------------------------------
\* promote, read by read.  The sweep and an assignment go on after it.
AfterPromote(t) ==
  IF job[t].then = "idle" THEN End(t)
  ELSE Keep(t, job[t].then, [job[t] EXCEPT !.then = "idle", !.ids = {}])
PromoteThen(t, label) == Keep(t, "p_order", [job[t] EXCEPT !.then = label, !.ids = {}])

PromoteOrder(t) ==
  /\ pc[t] = "p_order"
  /\ \/ Searching /\ Go(t, "p_screen")
     \/ ~Searching /\ AfterPromote(t)
  /\ UNCHANGED <<order, search, offer, busy>>

Occupied == \E i \in Inspectors : OnScreen(i) /\ (offer[i].st = "PENDING" => offer[i].live)

PromoteScreen(t) ==
  /\ pc[t] = "p_screen"
  /\ \/ Occupied /\ AfterPromote(t)
     \/ ~Occupied /\ Go(t, "p_first")
  /\ UNCHANGED <<order, search, offer, busy>>

\* collectionHoldUntil: before the first price is ever shown the others get time
\* to come in, unless the search ends before that.
Collecting ==
  /\ \A i \in Inspectors : ~offer[i].shown
  /\ With("PENDING") # {}
  /\ \A i \in With("PENDING") : ~offer[i].aged
  /\ search = "open"

PromoteFirst(t) ==
  /\ pc[t] = "p_first"
  /\ \/ Collecting /\ AfterPromote(t)
     \/ ~Collecting /\ Go(t, "p_next")
  /\ UNCHANGED <<order, search, offer, busy>>

PromoteNext(t) ==
  /\ pc[t] = "p_next"
  /\ \/ Waiting = {} /\ AfterPromote(t)
     \/ \E i \in Waiting : Keep(t, "p_write", [job[t] EXCEPT !.ids = {i}])
  /\ UNCHANGED <<order, search, offer, busy>>

\* No search left: the queue closes.  Otherwise the row goes up, unless it was
\* answered, or order_counter_offer_presented_unique has another on the screen.
CloseQueueAsClosed(t) ==
  /\ pc[t] = "p_write" /\ search = "over"
  /\ Answer(Waiting, {"PENDING"}, "CLOSED")
  /\ AfterPromote(t)
  /\ UNCHANGED <<order, search, busy>>

CloseQueue(t) ==
  /\ pc[t] = "p_write" /\ search = "over"
  /\ Answer(Waiting, {"PENDING"}, "EXPIRED")
  /\ AfterPromote(t)
  /\ UNCHANGED <<order, search, busy>>

PresentUnchecked(t) ==
  /\ pc[t] = "p_write" /\ search # "over"
  /\ offer' = [i \in Inspectors |->
       IF i \in job[t].ids /\ i \in Waiting
       THEN [offer[i] EXCEPT !.shown = TRUE, !.live = TRUE] ELSE offer[i]]
  /\ AfterPromote(t)
  /\ UNCHANGED <<order, search, busy>>

Present(t) ==
  /\ pc[t] = "p_write" /\ search # "over"
  /\ offer' = [i \in Inspectors |->
       IF i \in job[t].ids /\ i \in Waiting /\ \A k \in Inspectors : ~OnScreen(k)
       THEN [offer[i] EXCEPT !.shown = TRUE, !.live = TRUE] ELSE offer[i]]
  /\ AfterPromote(t)
  /\ UNCHANGED <<order, search, busy>>

-----------------------------------------------------------------------------
\* The inspector takes the price back; the customer declines it.
Withdraw(t) ==
  \E i \in With("PENDING") :
    /\ Begin(t, "p_order", Job("withdraw", i))
    /\ Answer({i}, {"PENDING"}, "WITHDRAWN")
    /\ UNCHANGED <<order, search, busy>>

Decline(t) ==
  \E i \in With("PENDING") :
    /\ offer[i].shown
    /\ Begin(t, "p_order", Job("decline", i))
    /\ Answer({i}, {"PENDING"}, "DECLINED")
    /\ UNCHANGED <<order, search, busy>>

\* accept: the order, then the inspector's other work, then the claim.
Accept(t) ==
  /\ \E i \in Inspectors :
       /\ offer[i].st # "none" /\ Searching
       /\ Begin(t, "busy", Job("accept", i))
  /\ UNCHANGED <<order, search, offer, busy>>

AcceptBusy(t) ==
  /\ pc[t] = "busy"
  /\ Go(t, IF job[t].who \in busy THEN "pull" ELSE "claim")
  /\ UNCHANGED <<order, search, offer, busy>>

AcceptPull(t) ==
  /\ pc[t] = "pull"
  /\ Answer({job[t].who}, {"PENDING"}, "WITHDRAWN")
  /\ Go(t, "p_order")
  /\ UNCHANGED <<order, search, busy>>

AcceptClaim(t) ==
  /\ pc[t] = "claim"
  /\ offer' = [offer EXCEPT ![job[t].who] =
       IF @.st = "PENDING" /\ @.shown /\ @.live
       THEN [@ EXCEPT !.st = "ACCEPTING", !.paying = TRUE] ELSE @]
  /\ End(t)
  /\ UNCHANGED <<order, search, busy>>

-----------------------------------------------------------------------------
\* finalizeCounterOfferPayment: the row being paid for, the order, the
\* inspector's other work, the claim, the capture, the sale.
Finalize(t) ==
  /\ \E i \in With("ACCEPTING") : Begin(t, "f_order", Job("finalize", i))
  /\ UNCHANGED <<order, search, offer, busy>>

FinalizeOrder(t) ==
  /\ pc[t] = "f_order"
  /\ \/ Open /\ Go(t, "f_busy")
     \/ ~Open /\ End(t)
  /\ UNCHANGED <<order, search, offer, busy>>

FinalizeBusy(t) ==
  /\ pc[t] = "f_busy"
  /\ Go(t, IF job[t].who \in busy THEN "f_pull" ELSE "f_claim")
  /\ UNCHANGED <<order, search, offer, busy>>

FinalizePull(t) ==
  /\ pc[t] = "f_pull"
  /\ Answer({job[t].who}, {"ACCEPTING"}, "WITHDRAWN")
  /\ Go(t, "p_order")
  /\ UNCHANGED <<order, search, busy>>

\* The claim of finalize, acceptOffer and adminAssign: one conditional update.
ClaimBlindly(t) ==
  /\ pc[t] \in {"f_claim", "c_claim"}
  /\ order' = [order EXCEPT !.by = job[t].who]
  /\ Go(t, IF pc[t] = "f_claim" THEN "f_capture" ELSE "c_capture")
  /\ UNCHANGED <<search, offer, busy>>

Claim(t) ==
  /\ pc[t] \in {"f_claim", "c_claim"}
  /\ \/ /\ Searching
        /\ order' = [order EXCEPT !.by = job[t].who]
        /\ Go(t, IF pc[t] = "f_claim" THEN "f_capture" ELSE "c_capture")
     \/ ~Searching /\ End(t) /\ UNCHANGED order
  /\ UNCHANGED <<search, offer, busy>>

\* releaseOrderClaim, when the money could not be taken.
Unclaim(t) ==
  order' = IF Open /\ order.by = job[t].who THEN [order EXCEPT !.by = NoOne] ELSE order

Capture(t) ==
  /\ pc[t] \in {"f_capture", "c_capture"}
  /\ \/ Go(t, IF pc[t] = "f_capture" THEN "f_sold" ELSE "w_find") /\ UNCHANGED order
     \/ Unclaim(t) /\ End(t)
  /\ UNCHANGED <<search, offer, busy>>

Sold(t) ==
  /\ pc[t] = "f_sold"
  /\ Answer({job[t].who}, {"ACCEPTING"}, "ACCEPTED")
  /\ Go(t, "w_find")
  /\ UNCHANGED <<order, search, busy>>

\* settleCounterOffersOnAssignment.  For a job elsewhere it takes back the price
\* its inspector has waiting here, and shows the next.
SettleFind(t) ==
  /\ pc[t] = "w_find"
  /\ Keep(t, "w_write", [job[t] EXCEPT !.ids =
       IF job[t].op = "otherJob" THEN With("PENDING") \cap {job[t].who} ELSE With("PENDING")])
  /\ UNCHANGED <<order, search, offer, busy>>

SettleWrite(t) ==
  /\ pc[t] = "w_write"
  /\ Answer(job[t].ids, {"PENDING"},
            IF job[t].op = "otherJob" THEN "WITHDRAWN" ELSE "SUPERSEDED")
  /\ IF job[t].op = "otherJob" /\ job[t].ids # {}
     THEN PromoteThen(t, "assign") ELSE Go(t, "assign")
  /\ UNCHANGED <<order, search, busy>>

\* transition to ASSIGNED, of this order or of the inspector's other one.
Assign(t) ==
  /\ pc[t] = "assign"
  /\ \/ job[t].op = "otherJob" /\ busy' = busy \cup {job[t].who} /\ UNCHANGED order
     \/ /\ job[t].op # "otherJob" /\ UNCHANGED busy
        /\ order' = IF Open THEN [order EXCEPT !.st = "assigned"] ELSE order
  /\ End(t)
  /\ UNCHANGED <<search, offer>>

-----------------------------------------------------------------------------
\* The pool takes the order at its tariff, unless the payment lock is on; the
\* admin does not ask for the lock.
PaymentLock == \E i \in With("ACCEPTING") : offer[i].paying

AcceptOffer(t) ==
  /\ ~PaymentLock
  /\ \E i \in Inspectors : Begin(t, "c_claim", Job("acceptOffer", i))
  /\ UNCHANGED <<order, search, offer, busy>>

AdminAssign(t) ==
  /\ \E i \in Inspectors : Begin(t, "c_claim", Job("adminAssign", i))
  /\ UNCHANGED <<order, search, offer, busy>>

\* An inspector takes another order, and one day has finished it.
OtherJob(t) ==
  /\ \E i \in Inspectors \ busy : Begin(t, "w_find", Job("otherJob", i))
  /\ UNCHANGED <<order, search, offer, busy>>

OtherJobDone ==
  /\ \E i \in busy : busy' = busy \ {i}
  /\ UNCHANGED <<order, search, offer, pc, job>>

-----------------------------------------------------------------------------
\* abandonCounterOfferPayment, from a webhook or from the sweep.
Abandon(t) ==
  /\ Begin(t, "a_read", Job("abandon", NoOne))
  /\ UNCHANGED <<order, search, offer, busy>>

AbandonRead(t) ==
  /\ pc[t] = "a_read"
  /\ \/ /\ With("ACCEPTING") = {}
        /\ IF job[t].op = "sweepExpired" THEN Go(t, "s_find") ELSE End(t)
     \/ \E i \in With("ACCEPTING") :
          Keep(t, IF offer[i].live THEN "a_back" ELSE "a_over", [job[t] EXCEPT !.ids = {i}])
  /\ UNCHANGED <<order, search, offer, busy>>

\* Back to the screen while its answer window lasts; else the next price goes up.
AbandonBack(t) ==
  /\ pc[t] = "a_back"
  /\ Answer(job[t].ids, {"ACCEPTING"}, "PENDING")
  /\ IF job[t].op = "sweepExpired" THEN Go(t, "s_find") ELSE End(t)
  /\ UNCHANGED <<order, search, busy>>

AbandonOver(t) ==
  /\ pc[t] = "a_over"
  /\ Answer(job[t].ids, {"ACCEPTING"}, "EXPIRED")
  /\ PromoteThen(t, IF job[t].op = "sweepExpired" THEN "s_find" ELSE "idle")
  /\ UNCHANGED <<order, search, busy>>

\* sweepExpired: the payments whose window passed, then the prices nobody
\* answered, then the orders whose collection window ended.
SweepExpired(t) ==
  /\ With("PENDING") \cup With("ACCEPTING") # {}   \* else the tick finds nothing
  /\ \/ /\ \E i \in With("ACCEPTING") : ~offer[i].paying
        /\ Begin(t, "a_read", Job("sweepExpired", NoOne))
     \/ /\ \A i \in With("ACCEPTING") : offer[i].paying
        /\ Begin(t, "s_find", Job("sweepExpired", NoOne))
  /\ UNCHANGED <<order, search, offer, busy>>

Unanswered == {i \in With("PENDING") : offer[i].shown /\ ~offer[i].live}

SweepOnlyOpen(t) ==
  /\ pc[t] = "s_find"
  /\ \/ (Unanswered = {} \/ ~Open) /\ Go(t, "s_collect")
     \/ Unanswered # {} /\ Open /\ Keep(t, "s_write", [job[t] EXCEPT !.ids = Unanswered])
  /\ UNCHANGED <<order, search, offer, busy>>

SweepFind(t) ==
  /\ pc[t] = "s_find"
  /\ \/ Unanswered = {} /\ Go(t, "s_collect")
     \/ Unanswered # {} /\ Keep(t, "s_write", [job[t] EXCEPT !.ids = Unanswered])
  /\ UNCHANGED <<order, search, offer, busy>>

\* Goes on to promote, and from there to sweepCollected.
SweepWrite(t) ==
  /\ pc[t] = "s_write"
  /\ Answer(job[t].ids, {"PENDING"}, "EXPIRED")
  /\ PromoteThen(t, "s_collect")
  /\ UNCHANGED <<order, search, busy>>

NeverCollected(t) ==
  /\ pc[t] = "s_collect"
  /\ End(t)
  /\ UNCHANGED <<order, search, offer, busy>>

SweepCollected(t) ==
  /\ pc[t] = "s_collect"
  /\ \/ /\ \E i \in Waiting : offer[i].aged
        /\ PromoteThen(t, "idle")
     \/ (\A i \in Waiting : ~offer[i].aged) /\ End(t)
  /\ UNCHANGED <<order, search, offer, busy>>

\* expireUnfilledSearches: nobody took the order in time.  The prices stay.
ExpireUnfilledSearches(t) ==
  /\ search = "over" /\ Searching
  /\ Begin(t, "e_claim", Job("expireUnfilledSearches", NoOne))
  /\ UNCHANGED <<order, search, offer, busy>>

ExpireClaim(t) ==
  /\ pc[t] = "e_claim"
  /\ order' = IF Searching THEN [order EXCEPT !.st = "cancelled"] ELSE order
  /\ End(t)
  /\ UNCHANGED <<search, offer, busy>>

-----------------------------------------------------------------------------
\* The order is cancelled: by the customer, an admin, or a capture refused for good.
CancelOrder ==
  /\ order.st # "cancelled" /\ order' = [order EXCEPT !.st = "cancelled"]
  /\ UNCHANGED <<search, offer, busy, pc, job>>

\* The clock.  No answer window outlasts the search.
OfferLapses ==
  /\ \E i \in Inspectors : offer[i].live /\ offer' = [offer EXCEPT ![i].live = FALSE]
  /\ UNCHANGED <<order, search, busy, pc, job>>

PaymentLapses ==
  /\ \E i \in Inspectors : offer[i].paying /\ offer' = [offer EXCEPT ![i].paying = FALSE]
  /\ UNCHANGED <<order, search, busy, pc, job>>

CollectionEnds ==
  /\ \E i \in Inspectors :
       offer[i].st = "PENDING" /\ ~offer[i].aged /\ offer' = [offer EXCEPT ![i].aged = TRUE]
  /\ UNCHANGED <<order, search, busy, pc, job>>

SearchRunsOut ==
  /\ \/ search = "open" /\ search' = "closing" /\ UNCHANGED offer
     \/ /\ search = "closing" /\ search' = "over"
        /\ offer' = [i \in Inspectors |-> [offer[i] EXCEPT !.live = FALSE]]
  /\ UNCHANGED <<order, busy, pc, job>>

Clock == OfferLapses \/ PaymentLapses \/ CollectionEnds \/ SearchRunsOut

Promote(t) == \/ PromoteOrder(t) \/ PromoteScreen(t) \/ PromoteFirst(t)
              \/ PromoteNext(t) \/ CloseQueue(t) \/ Present(t)

Continue(t) ==
  \/ Upsert(t) \/ Promote(t) \/ AcceptBusy(t) \/ AcceptPull(t) \/ AcceptClaim(t)
  \/ FinalizeOrder(t) \/ FinalizeBusy(t) \/ FinalizePull(t) \/ Claim(t)
  \/ Capture(t) \/ Sold(t) \/ SettleFind(t) \/ SettleWrite(t) \/ Assign(t)
  \/ AbandonRead(t) \/ AbandonBack(t) \/ AbandonOver(t) \/ SweepFind(t) \/ SweepWrite(t)
  \/ SweepCollected(t) \/ ExpireClaim(t)

Called(t) == \/ Create(t) \/ Withdraw(t) \/ Accept(t) \/ Decline(t)
             \/ Finalize(t) \/ Abandon(t) \/ AcceptOffer(t) \/ AdminAssign(t)
             \/ OtherJob(t) \/ ExpireUnfilledSearches(t)

Next == \/ \E t \in Tasks : Called(t) \/ SweepExpired(t) \/ Continue(t)
        \/ OtherJobDone \/ CancelOrder \/ Clock

Spec == Init /\ [][Next]_vars

\* A running function is resumed, time passes, and the cron ticks however many
\* requests come in: they take its task only because a model has few of them.
Fairness ==
  /\ \A t \in Tasks : WF_vars(Continue(t)) /\ SF_vars(SweepExpired(t))
  /\ WF_vars(OfferLapses) /\ WF_vars(PaymentLapses) /\ WF_vars(CollectionEnds)

FairSpec == Spec /\ Fairness

-----------------------------------------------------------------------------
\* The customer answers one question at a time: of the prices of an order at most
\* one is on the screen or being paid for, whichever of the five places that call
\* promote run at once.
OneQuestion ==
  \A i, k \in Inspectors : OnScreen(i) /\ OnScreen(k) => i = k

\* An accepted price is the sale: its inspector holds the order, and nobody's
\* claim, release or sweep takes it away again.
AcceptedHoldsOrder ==
  \A i \in Inspectors : offer[i].st = "ACCEPTED" => order.by = i

\* Of the prices of an order one is asked about at a time, and one is ever answered yes to.
OneAnswer == OneQuestion /\ AcceptedHoldsOrder

\* The customer's answer is final: a price that was declined, ran out, lost to
\* another or won is never put forward again, as create promises.
Final == {"DECLINED", "EXPIRED", "SUPERSEDED", "ACCEPTED"}
AnswerIsFinal ==
  [][\A i \in Inspectors : offer[i].st \in Final => offer'[i].st = offer[i].st]_vars

\* A queue is served: while the order is searching, a waiting price comes to the
\* screen, or its queue is emptied, though nobody answers, pays or withdraws.
QueueIsServed ==
  (Searching /\ Waiting # {}) ~>
    ((\E i \in Inspectors : OnScreen(i)) \/ Waiting = {} \/ ~Searching)

\* An order that was sold or cancelled stops asking its customer: the price on the
\* screen, which no assignment or cancellation looks at while it is being paid for,
\* goes away with its windows.
ScreenIsCleared == ~Open ~> \A i \in Inspectors : ~OnScreen(i)
=============================================================================
