------------------------------ MODULE Purchases ------------------------------
(***************************************************************************)
(* Pay-per-view: one buyer and one report, the checkouts the buyer opens,      *)
(* the money at Stripe, and the one row (userId, reportId) that gives access.  *)
(*                                                                          *)
(* A task is a running request or webhook delivery; one action is one SQL      *)
(* statement.  Reads that follow each other with no write of ours between are *)
(* taken together.                                                          *)
(***************************************************************************)
EXTENDS Naturals, FiniteSets

CONSTANTS
  Tasks,
  Payments,  \* payments the buyer may open, in one run
  NoPayment,
  Handlers,
  Faults

HandlerNames == {"createPpvCheckout", "checkoutCompleted", "chargeRefunded"}

\* "dies": a process dies and Stripe delivers the event again.  "again": Stripe delivers
\* an event again that was handled.  "overlap": two events of one payment are handled at
\* once, or out of their order.
FaultNames == {"dies", "again", "overlap"}

VARIABLES
  payment,   \* Payment: its status, and whether its intent is known
  purchase,  \* ReportPurchase: paymentId, and whether it is not revoked
  money,     \* Stripe: the session and its charge
  events,    \* Stripe: events not yet answered
  double,    \* history: a payment was made before the one before it was done with
  pc, job

rows == <<payment, purchase>>
stripe == <<money, events, double>>
vars == <<rows, stripe, pc, job>>

NoRow == [st |-> "none", pi |-> FALSE]
NoPurchase == [by |-> NoPayment, live |-> FALSE]

Labels == {"idle", "open", "c_pi", "c_pay", "c_row", "c_revive", "r_mark", "r_revoke"}
NoJob == [op |-> "none", p |-> NoPayment]
Events == [of : {"completed", "refunded"}, p : Payments]

Init ==
  /\ payment = [p \in Payments |-> NoRow]
  /\ purchase = NoPurchase
  /\ money = [p \in Payments |-> "none"] /\ events = {} /\ double = FALSE
  /\ pc = [t \in Tasks |-> "idle"] /\ job = [t \in Tasks |-> NoJob]

TypeOK ==
  /\ payment \in [Payments ->
       [st : {"none", "pending", "succeeded", "refunded"}, pi : BOOLEAN]]
  /\ purchase \in [by : Payments \cup {NoPayment}, live : BOOLEAN]
  /\ money \in [Payments -> {"none", "open", "paid", "back"}]
  /\ events \subseteq Events /\ double \in BOOLEAN
  /\ pc \in [Tasks -> Labels]
  /\ job \in [Tasks -> [op : HandlerNames \cup {"none"}, p : Payments \cup {NoPayment}]]

Begin(t, label, op, p) ==
  /\ pc[t] = "idle" /\ op \in Handlers
  /\ pc' = [pc EXCEPT ![t] = label]
  /\ job' = [job EXCEPT ![t] = [op |-> op, p |-> p]]
Go(t, label) == pc' = [pc EXCEPT ![t] = label] /\ UNCHANGED job
Stop(t) == pc' = [pc EXCEPT ![t] = "idle"] /\ job' = [job EXCEPT ![t] = NoJob]

-----------------------------------------------------------------------------
\* createPpvCheckout: a purchase that is not revoked is owned; otherwise a payment and a
\* session are made, however many are open already.
CreatePpvCheckout(t) ==
  /\ purchase.by = NoPayment \/ ~purchase.live
  /\ Begin(t, "open", "createPpvCheckout", NoPayment)
  /\ UNCHANGED <<rows, stripe>>

OpenSession(t) ==
  /\ pc[t] = "open"
  /\ \E p \in Payments :
       /\ money[p] = "none"
       /\ payment' = [payment EXCEPT ![p].st = "pending"]
       /\ money' = [money EXCEPT ![p] = "open"]
  /\ Stop(t)
  /\ UNCHANGED <<purchase, events, double>>

Settled(p) ==
  /\ \A t \in Tasks : job[t].p # p
  /\ \A e \in events : e.p # p

-----------------------------------------------------------------------------
\* Stripe (external): the buyer pays, an operator gives it back.
Pay(p) ==
  /\ money[p] = "open"
  /\ money' = [money EXCEPT ![p] = "paid"]
  /\ events' = events \cup {[of |-> "completed", p |-> p]}
  /\ double' = (double \/ \E q \in Payments : money[q] = "paid" \/ ~Settled(q))
  /\ UNCHANGED <<rows, pc, job>>

GiveBack(p) ==
  /\ money[p] = "paid"
  /\ money' = [money EXCEPT ![p] = "back"]
  /\ events' = events \cup {[of |-> "refunded", p |-> p]}
  /\ UNCHANGED <<rows, double, pc, job>>

Deliverable(e) ==
  \/ e \in events
  \/ "again" \in Faults /\ e.of = "completed" /\ money[e.p] \in {"paid", "back"}

\* The events of one payment come one at a time and in their order.
InTurn(e) ==
  \/ "overlap" \in Faults
  \/ /\ \A t \in Tasks : job[t].p # e.p
     /\ e.of = "refunded" => [of |-> "completed", p |-> e.p] \notin events

\* The event is answered when its handler ends.
Finish(t, of) ==
  /\ events' = events \ {[of |-> of, p |-> job[t].p]}
  /\ Stop(t)

-----------------------------------------------------------------------------
CheckoutCompleted(t, p) ==
  /\ LET e == [of |-> "completed", p |-> p] IN Deliverable(e) /\ InTurn(e)
  /\ Begin(t, "c_pi", "checkoutCompleted", p)
  /\ UNCHANGED <<rows, stripe>>

ForgetPaymentIntent(t) ==
  /\ pc[t] = "c_pi"
  /\ Go(t, "c_pay")
  /\ UNCHANGED <<rows, stripe>>

RecordPaymentIntent(t) ==
  /\ pc[t] = "c_pi"
  /\ payment' = [payment EXCEPT ![job[t].p].pi = TRUE]
  /\ Go(t, "c_pay")
  /\ UNCHANGED <<purchase, stripe>>

\* fulfillPurchase: whatever the payment was.
MarkSucceeded(t) ==
  /\ pc[t] = "c_pay"
  /\ payment' = [payment EXCEPT ![job[t].p].st = "succeeded"]
  /\ Go(t, "c_row")
  /\ UNCHANGED <<purchase, stripe>>

\* The row is unique: the second one is not made.
CreatePurchase(t) ==
  /\ pc[t] = "c_row"
  /\ IF purchase.by = NoPayment
     THEN /\ purchase' = [by |-> job[t].p, live |-> TRUE]
          /\ Finish(t, "completed")
     ELSE Go(t, "c_revive") /\ UNCHANGED <<purchase, events>>
  /\ UNCHANGED <<payment, money, double>>

ReviveAsPaidBefore(t) ==
  /\ pc[t] = "c_revive"
  /\ purchase' = [purchase EXCEPT !.live = TRUE]
  /\ Finish(t, "completed")
  /\ UNCHANGED <<payment, money, double>>

LeaveRevoked(t) ==
  /\ pc[t] = "c_revive"
  /\ Finish(t, "completed")
  /\ UNCHANGED <<rows, money, double>>

\* A revoked row comes back under the payment that bought it now.
Revive(t) ==
  /\ pc[t] = "c_revive"
  /\ purchase' = IF purchase.live THEN purchase ELSE [by |-> job[t].p, live |-> TRUE]
  /\ Finish(t, "completed")
  /\ UNCHANGED <<payment, money, double>>

-----------------------------------------------------------------------------
\* charge.refunded: a charge whose intent we do not know is none of ours.
ChargeRefunded(t, p) ==
  /\ LET e == [of |-> "refunded", p |-> p] IN Deliverable(e) /\ InTurn(e)
  /\ pc[t] = "idle" /\ "chargeRefunded" \in Handlers
  /\ IF payment[p].pi
     THEN Begin(t, "r_mark", "chargeRefunded", p) /\ UNCHANGED events
     ELSE events' = events \ {[of |-> "refunded", p |-> p]} /\ UNCHANGED <<pc, job>>
  /\ UNCHANGED <<rows, money, double>>

MarkRefunded(t) ==
  /\ pc[t] = "r_mark"
  /\ payment' = [payment EXCEPT ![job[t].p].st = "refunded"]
  /\ Go(t, "r_revoke")
  /\ UNCHANGED <<purchase, stripe>>

\* Only what this payment bought.
RevokeEntitlements(t) ==
  /\ pc[t] = "r_revoke"
  /\ purchase' = IF purchase.by = job[t].p THEN [purchase EXCEPT !.live = FALSE] ELSE purchase
  /\ Finish(t, "refunded")
  /\ UNCHANGED <<payment, money, double>>

\* The process dies; the event is still unanswered.
Die(t) ==
  /\ "dies" \in Faults /\ pc[t] # "idle"
  /\ Stop(t)
  /\ UNCHANGED <<rows, stripe>>

Next ==
  \/ \E t \in Tasks :
       \/ CreatePpvCheckout(t) \/ OpenSession(t)
       \/ \E p \in Payments : CheckoutCompleted(t, p) \/ ChargeRefunded(t, p)
       \/ RecordPaymentIntent(t) \/ MarkSucceeded(t) \/ CreatePurchase(t) \/ Revive(t)
       \/ MarkRefunded(t) \/ RevokeEntitlements(t) \/ Die(t)
  \/ \E p \in Payments : Pay(p) \/ GiveBack(p)

Spec == Init /\ [][Next]_vars

-----------------------------------------------------------------------------
\* "Money back, access gone": once Stripe's events of a payment have been handled, the
\* access it bought is there only as long as its money is.
AccessIsPaid ==
  purchase.live /\ Settled(purchase.by) => money[purchase.by] = "paid"

\* The ledger agrees with Stripe about what was paid and what went back.
LedgerAgrees ==
  \A p \in Payments : Settled(p) =>
    /\ money[p] = "back" <=> payment[p].st = "refunded"
    /\ money[p] = "paid" <=> payment[p].st = "succeeded"

\* Who has paid may read, and a buyer whose money went back can buy again: unless a
\* checkout was paid before the refund of the one before it was handled, since of two
\* payments at a time only the first buys anything.
BuyerIsServed ==
  ~double => \A p \in Payments :
    Settled(p) /\ money[p] = "paid" => purchase.live /\ purchase.by = p

\* One row, one ledger and one Stripe account tell the same story.
AccessFollowsMoney == AccessIsPaid /\ BuyerIsServed /\ LedgerAgrees
=============================================================================
