------------------------------- MODULE Ordering --------------------------------
(***************************************************************************)
(* How an order begins: its row, the row of its payment, the PaymentIntent at     *)
(* Stripe, the secret of it that opens the card form, the hold, and the search      *)
(* that the hold starts.  A process may die between any two of these, and the       *)
(* answer to the customer may be lost.                                        *)
(*                                                                          *)
(* Abstracted: the price (Pricing), the search itself (Dispatch), what is taken   *)
(* or given back later, and transitions that overlap (OrderEscrow): here the read   *)
(* and the write of a transition are one step.                                  *)
(***************************************************************************)
EXTENDS Naturals, Sequences

CONSTANTS
  Tasks,
  Numbers,    \* the order numbers that are drawn from
  MaxOrders,  \* bound: how many orders there are
  MaxTime,    \* bound: how far the clock goes
  Window,     \* orderSearchWindowMinutes
  Overlaps    \* whether one hold may be recorded by two tasks at once

VARIABLES
  orders,     \* the rows: number, status, searchExpiresAt (0 is null), the state of the
              \* payment row, and the PaymentIntent that it names (0 is null)
  intents,    \* at Stripe: whose, and in which state
  forms,      \* the intents whose secret a customer has
  news,       \* the holds that Stripe has yet to report, or has not been answered about
  now,
  configured, \* there is a Stripe key: without one the ledger alone holds the money
  pc, job

orderingVars == <<orders, intents, forms, news, now, configured, pc, job>>

Labels == {"idle", "c_insert", "c_payment", "c_intent", "c_link", "s_payment", "a_mark",
           "a_read", "a_window", "a_paid", "x_settle", "x_write", "e_settle"}
Statuses == {"CREATED", "PAID", "CANCELLED"}
Rows == {"none", "pending", "failed", "authorized", "cancelled"}

Job(order, intent, number) == [order |-> order, intent |-> intent, number |-> number]
NoJob == Job(0, 0, 0)
Mine(t) == orders[job[t].order]

Begin(t, label, j) ==
  /\ pc[t] = "idle"
  /\ pc' = [pc EXCEPT ![t] = label] /\ job' = [job EXCEPT ![t] = j]
Keep(t, label, j) == pc' = [pc EXCEPT ![t] = label] /\ job' = [job EXCEPT ![t] = j]
Go(t, label) == Keep(t, label, job[t])
End(t) == Keep(t, "idle", NoJob)

Authorizing(o) ==
  \E t \in Tasks : pc[t] \in {"a_mark", "a_read", "a_window", "a_paid"} /\ job[t].order = o
MayAuthorize(o) == Overlaps \/ ~Authorizing(o)

-----------------------------------------------------------------------------
Init ==
  /\ orders = <<>> /\ intents = <<>> /\ forms = {} /\ news = {} /\ now = 0
  /\ configured \in BOOLEAN
  /\ pc = [t \in Tasks |-> "idle"] /\ job = [t \in Tasks |-> NoJob]

TypeOK ==
  /\ \A o \in DOMAIN orders :
       /\ orders[o].status \in Statuses /\ orders[o].row \in Rows
       /\ orders[o].until \in 0 .. MaxTime + Window /\ orders[o].pi \in 0 .. Len(intents)
  /\ \A i \in DOMAIN intents : /\ intents[i].of \in DOMAIN orders
                               /\ intents[i].st \in {"unpaid", "held", "canceled"}
  /\ forms \cup news \subseteq DOMAIN intents
  /\ now \in 0 .. MaxTime /\ configured \in BOOLEAN
  /\ \A t \in Tasks : pc[t] \in Labels /\ job[t].order \in 0 .. MaxOrders

\* generateOrderNumber: one that no row has; if all that were drawn are taken, the clock's,
\* which stands for no number of the range.
Taken == {orders[o].number : o \in DOMAIN orders}
FreeNumbers == IF Numbers \subseteq Taken THEN {Len(orders) + 9000} ELSE Numbers \ Taken

\* createOrder, once there is a price.
CreateOrder(t) ==
  /\ \E n \in FreeNumbers : Begin(t, "c_insert", Job(0, 0, n))
  /\ Len(orders) < MaxOrders
  /\ UNCHANGED <<orders, intents, forms, news, now, configured>>

\* The number is unique: the insert throws if another order was given it meanwhile.
InsertOrder(t) ==
  /\ pc[t] = "c_insert"
  /\ IF job[t].number \in Taken \/ Len(orders) = MaxOrders THEN End(t) /\ UNCHANGED orders
     ELSE /\ orders' = Append(orders, [number |-> job[t].number, status |-> "CREATED",
                                       until |-> 0, row |-> "none", pi |-> 0])
          /\ Keep(t, "c_payment", [job[t] EXCEPT !.order = Len(orders) + 1])
  /\ UNCHANGED <<intents, forms, news, now, configured>>

CreatePayment(t) ==
  /\ pc[t] = "c_payment"
  /\ orders' = [orders EXCEPT ![job[t].order].row = "pending"]
  /\ Go(t, IF configured THEN "c_intent" ELSE "a_mark")
  /\ UNCHANGED <<intents, forms, news, now, configured>>

\* createOrderPaymentIntent: captured by hand, later; Stripe may be out of reach.
CreateIntent(t) ==
  /\ pc[t] = "c_intent"
  /\ \/ /\ intents' = Append(intents, [of |-> job[t].order, st |-> "unpaid"])
        /\ Keep(t, "c_link", [job[t] EXCEPT !.intent = Len(intents) + 1])
     \/ End(t) /\ UNCHANGED intents
  /\ UNCHANGED <<orders, forms, news, now, configured>>

\* The row names the intent before the customer has its secret.
AnswerUnlinked(t) ==
  /\ pc[t] = "c_link"
  /\ forms' \in {forms, forms \cup {job[t].intent}}
  /\ End(t)
  /\ UNCHANGED <<orders, intents, news, now, configured>>
LinkIntent(t) ==
  /\ pc[t] = "c_link"
  /\ orders' = [orders EXCEPT ![job[t].order].pi = job[t].intent]
  /\ forms' \in {forms, forms \cup {job[t].intent}}
  /\ End(t)
  /\ UNCHANGED <<intents, news, now, configured>>

-----------------------------------------------------------------------------
\* getOrderPaymentSession: the card form, opened again for an order that waits for its card.
OpenSession(t) ==
  /\ \E o \in DOMAIN orders : orders[o].status = "CREATED" /\ Begin(t, "s_payment", Job(o, 0, 0))
  /\ UNCHANGED <<orders, intents, forms, news, now, configured>>

\* The intent is retrieved, and never made again.
AnswerWithANewIntent(t) ==
  /\ pc[t] = "s_payment"
  /\ IF configured /\ Mine(t).row \in {"pending", "failed"} /\ Len(intents) < MaxOrders
     THEN /\ intents' = Append(intents, [of |-> job[t].order, st |-> "unpaid"])
          /\ forms' = forms \cup {Len(intents) + 1}
     ELSE UNCHANGED <<intents, forms>>
  /\ End(t)
  /\ UNCHANGED <<orders, news, now, configured>>
AnswerSession(t) ==
  /\ pc[t] = "s_payment"
  /\ forms' = IF configured /\ Mine(t).row \in {"pending", "failed"} /\ Mine(t).pi # 0
              THEN forms \cup {Mine(t).pi} ELSE forms
  /\ End(t)
  /\ UNCHANGED <<orders, intents, news, now, configured>>

\* The customer confirms, in any tab that still has the form: the card is held, or refused.
Confirm ==
  /\ \E i \in forms :
       /\ intents[i].st = "unpaid"
       /\ \/ /\ intents' = [intents EXCEPT ![i].st = "held"] /\ news' = news \cup {i}
             /\ UNCHANGED orders
          \/ /\ orders[intents[i].of].row \in {"pending", "failed"}
             /\ orders' = [orders EXCEPT ![intents[i].of].row = "failed"]
             /\ UNCHANGED <<intents, news>>
  /\ UNCHANGED <<forms, now, configured, pc, job>>

-----------------------------------------------------------------------------
\* authorizeOrderPayment: for the event of the hold, and for the reconciler, which finds a
\* row of the pool that is still pending, or an order that its hold has not moved.
ReportHold(t) ==
  /\ \E i \in news : /\ MayAuthorize(intents[i].of)
                     /\ Begin(t, "a_mark", Job(intents[i].of, i, 0))
  /\ UNCHANGED <<orders, intents, forms, news, now, configured>>
Reconcile(t) ==
  /\ \E o \in DOMAIN orders :
       /\ \/ orders[o].status = "CREATED" /\ orders[o].row = "authorized"
          \/ /\ orders[o].status \in {"CREATED", "PAID"} /\ orders[o].row = "pending"
             /\ orders[o].pi # 0 /\ intents[orders[o].pi].st = "held"
       /\ MayAuthorize(o)
       /\ Begin(t, "a_mark", Job(o, 0, 0))
  /\ UNCHANGED <<orders, intents, forms, news, now, configured>>

\* Whatever became of the order, the hold is in the ledger: it is there that the reconciler
\* looks for those to release.  Stripe is answered when the handler ends.
Answered(t) == news' = news \ {job[t].intent}
MarkIfCreated(t) ==
  /\ pc[t] = "a_mark"
  /\ IF Mine(t).status # "CREATED" THEN End(t) /\ Answered(t) /\ UNCHANGED orders
     ELSE /\ orders' = [orders EXCEPT ![job[t].order].row =
                          IF @ \in {"pending", "failed"} THEN "authorized" ELSE @]
          /\ Go(t, "a_read") /\ UNCHANGED news
  /\ UNCHANGED <<intents, forms, now, configured>>
MarkAuthorized(t) ==
  /\ pc[t] = "a_mark"
  /\ orders' = [orders EXCEPT ![job[t].order].row =
                  IF @ \in {"pending", "failed"} THEN "authorized" ELSE @]
  /\ Go(t, "a_read")
  /\ UNCHANGED <<intents, forms, news, now, configured>>

WindowAfresh(t) ==
  /\ pc[t] = "a_read"
  /\ IF Mine(t).status = "CREATED" THEN Go(t, "a_window") /\ UNCHANGED news
     ELSE End(t) /\ Answered(t)
  /\ UNCHANGED <<orders, intents, forms, now, configured>>
ReadOrder(t) ==
  /\ pc[t] = "a_read"
  /\ IF Mine(t).status = "CREATED"
     THEN Go(t, IF Mine(t).until = 0 THEN "a_window" ELSE "a_paid") /\ UNCHANGED news
     ELSE End(t) /\ Answered(t)
  /\ UNCHANGED <<orders, intents, forms, now, configured>>

OpenWindow(t) ==
  /\ pc[t] = "a_window"
  /\ orders' = [orders EXCEPT ![job[t].order].until = now + Window]
  /\ Go(t, "a_paid")
  /\ UNCHANGED <<intents, forms, news, now, configured>>

PaidBeforeItsWindow(t) ==
  /\ pc[t] \in {"a_window", "a_paid"}
  /\ orders' = [orders EXCEPT ![job[t].order].status = IF @ = "CREATED" THEN "PAID" ELSE @]
  /\ End(t) /\ Answered(t)
  /\ UNCHANGED <<intents, forms, now, configured>>
StartSearch(t) ==
  /\ pc[t] = "a_paid"
  /\ orders' = [orders EXCEPT ![job[t].order].status = IF @ = "CREATED" THEN "PAID" ELSE @]
  /\ End(t) /\ Answered(t)
  /\ UNCHANGED <<intents, forms, now, configured>>

-----------------------------------------------------------------------------
\* A hold is released; for a row that is not held there is nothing to give back, and the
\* intent stays as it is, payable.
Release(o) ==
  \/ /\ orders[o].row = "authorized"
     /\ intents' = IF orders[o].pi = 0 THEN intents
                   ELSE [intents EXCEPT ![orders[o].pi].st = "canceled"]
     /\ orders' = [orders EXCEPT ![o].row = "cancelled"]
  \/ UNCHANGED <<orders, intents>>

\* cancel: the money first, then the status.
Cancel(t) ==
  /\ \E o \in DOMAIN orders :
       orders[o].status \in {"CREATED", "PAID"} /\ Begin(t, "x_settle", Job(o, 0, 0))
  /\ UNCHANGED <<orders, intents, forms, news, now, configured>>
SettleCancelled(t) ==
  /\ pc[t] = "x_settle" /\ Release(job[t].order)
  /\ Go(t, "x_write")
  /\ UNCHANGED <<forms, news, now, configured>>
WriteCancelled(t) ==
  /\ pc[t] = "x_write"
  /\ orders' = [orders EXCEPT ![job[t].order].status = "CANCELLED"]
  /\ End(t)
  /\ UNCHANGED <<intents, forms, news, now, configured>>

\* expireUnfilledSearches: the claim first, then the money.
Expire(t) ==
  /\ \E o \in DOMAIN orders :
       /\ orders[o].status = "PAID" /\ orders[o].until # 0 /\ orders[o].until <= now
       /\ orders' = [orders EXCEPT ![o].status = "CANCELLED"]
       /\ Begin(t, "e_settle", Job(o, 0, 0))
  /\ UNCHANGED <<intents, forms, news, now, configured>>
SettleExpired(t) ==
  /\ pc[t] = "e_settle" /\ Release(job[t].order)
  /\ End(t)
  /\ UNCHANGED <<forms, news, now, configured>>

\* The reconciler, for a hold on an order that is cancelled.
ReleaseStranded ==
  /\ \E o \in DOMAIN orders :
       orders[o].status = "CANCELLED" /\ orders[o].row = "authorized" /\ Release(o)
  /\ UNCHANGED <<forms, news, now, configured, pc, job>>

Tick ==
  /\ now < MaxTime /\ now' = now + 1
  /\ UNCHANGED <<orders, intents, forms, news, configured, pc, job>>

Die(t) == pc[t] # "idle" /\ End(t) /\ UNCHANGED <<orders, intents, forms, news, now, configured>>

Next ==
  \/ \E t \in Tasks :
       \/ CreateOrder(t) \/ InsertOrder(t) \/ CreatePayment(t) \/ CreateIntent(t) \/ LinkIntent(t)
       \/ OpenSession(t) \/ AnswerSession(t)
       \/ ReportHold(t) \/ Reconcile(t) \/ MarkAuthorized(t) \/ ReadOrder(t) \/ OpenWindow(t)
       \/ StartSearch(t)
       \/ Cancel(t) \/ SettleCancelled(t) \/ WriteCancelled(t)
       \/ Expire(t) \/ SettleExpired(t) \/ Die(t)
  \/ Confirm \/ ReleaseStranded \/ Tick
Spec == Init /\ [][Next]_orderingVars

-----------------------------------------------------------------------------
\* Whatever is held on a card is held by the one intent that the order's payment names: the
\* form can be opened again, the hold captured or released, and nothing else is held for it.
HeldIsKnown ==
  \A i \in DOMAIN intents : intents[i].st = "held" => orders[intents[i].of].pi = i

\* A hold is in the ledger, where a cancellation or the reconciler finds it, or Stripe has
\* still to tell of it: on an order too that was cancelled while its form was open.
HoldsAreFound ==
  \A i \in DOMAIN intents :
    intents[i].st = "held" => i \in news \/ orders[intents[i].of].row = "authorized"

\* An order that searches has a time until which it does, wherever a handler died: without
\* one the sweep passes it over, and its hold stays until Stripe lets it expire.
PaidHasDeadline == \A o \in DOMAIN orders : orders[o].status = "PAID" => orders[o].until # 0

OrderingHolds == HeldIsKnown /\ HoldsAreFound /\ PaidHasDeadline

\* A deadline that counts down is not moved: by an event delivered again, by the reconciler.
DeadlineStays ==
  \A o \in DOMAIN orders : orders[o].until # 0 => orders'[o].until = orders[o].until
=============================================================================
