--------------------------- MODULE CounterHandover ---------------------------
(***************************************************************************)
(* The money of a counter-offer: the customer who accepts a dearer price pays *)
(* a second authorization, the first hold is given back, the second is        *)
(* captured, the order is sold.  Against it run the pool, which may take the  *)
(* order at its tariff, the end of the payment window, the end of the search,*)
(* and the reconciler of holds nobody needs any more.                         *)
(*                                                                          *)
(* CounterOffers shows that one price at a time is on the screen, so the row  *)
(* on the screen is all this module keeps of the queue.  One action is one    *)
(* SQL statement or one Stripe call.  Abstracted: who the expert is, the      *)
(* order's offers, notifications; a captured hold is captured whole.         *)
(***************************************************************************)
EXTENDS Naturals, FiniteSets

CONSTANTS
  Tasks,
  Replacements,  \* bound: the payments accept can open, 1 .. n in their order
  Prices,        \* what an expert may ask, more than the order's own Tariff
  Tariff,
  Handlers,      \* the handlers that may start (all of them, or a subset)
  Faults         \* what Stripe, the clock and the process may do to us

HandlerNames == {"accept", "finalize", "failed", "canceled", "sweepExpired",
  "acceptOffer", "expireUnfilledSearches", "stranded", "reconcile"}

\* "cancelFails", "captureFails", "lost": a call that did nothing, or whose
\* answer was lost.  "crossed": a payment may be finalized and abandoned
\* at the same time.
FaultKinds == {"cancelFails", "captureFails", "lost", "crossed", "crash"}

ASSUME PaymentsAssumption == Replacements \subseteq Nat \ {0}
ASSUME PricesAssumption == Tariff \in Nat /\ Prices \subseteq Nat
ASSUME FaultKindsAssumption == Faults \subseteq FaultKinds

VARIABLES
  sale,     \* its status ("open": PAID or UNASSIGNED), who claimed it, its total
  ended,    \* whether searchExpiresAt has passed
  screen,    \* the counter-offer the customer is shown or pays for
  pay,       \* the Payment rows
  intent,    \* the PaymentIntents, as Stripe knows them
  events,    \* what Stripe has to tell
  at, my

orderVars == <<sale, ended, screen>>
moneyVars == <<pay, intent, events>>
vars == <<orderVars, moneyVars, at, my>>

Base == 0
Payments == Replacements \cup {Base}

Screens == [st : {"none", "PENDING", "ACCEPTING", "ACCEPTED"},
            price : Prices \cup {Tariff}, paying : BOOLEAN]
NoScreen == [st |-> "none", price |-> Tariff, paying |-> FALSE]

\* named: stripePaymentIntentId is written.  dead: supersededAt is set.
PayRows == [st : {"none", "pending", "failed", "authorized", "succeeded", "cancelled"},
            amount : Prices \cup {Tariff}, named : BOOLEAN, dead : BOOLEAN]
NoPay == [st |-> "none", amount |-> Tariff, named |-> FALSE, dead |-> FALSE]

Intents == {"none", "unpaid", "held", "captured", "canceled"}
Events == [type : {"capturable", "failed", "canceled"}, p : Replacements]

Open == sale.st = "open"
Searching == Open /\ sale.by = "nobody"
Rows == {p \in Payments : pay[p].st # "none"}
Live == {p \in Rows : ~pay[p].dead}
Holding == {p \in Live : pay[p].st \in {"authorized", "succeeded"}}

Labels == {"idle", "claim", "row", "intent", "name", "f_screen", "f_claim",
  "f_others", "f_cancel", "f_dead", "f_mark", "find", "capture", "captured",
  "failed", "sold", "assign", "back", "back_dead", "pull", "a_screen", "a_find",
  "a_cancel", "a_dead", "c_claim", "e_claim", "r_find", "r_cancel", "r_mark",
  "stop", "h_cancel", "h_mark"}

\* Locals: the handler, the payment it is about, the payments it goes through,
\* the price it read, whether the Stripe call went through, and whether the price
\* is withdrawn in the end.
Jobs == [op : HandlerNames \cup {"none"}, p : Payments, todo : SUBSET Payments,
         price : Prices \cup {Tariff}, ok : BOOLEAN, pull : BOOLEAN]
Job(op, p) == [op |-> op, p |-> p, todo |-> {}, price |-> Tariff, ok |-> FALSE,
               pull |-> FALSE]
NoJob == Job("none", Base)

Begin(t, label, j) ==
  /\ at[t] = "idle"
  /\ j.op \in Handlers
  /\ at' = [at EXCEPT ![t] = label]
  /\ my' = [my EXCEPT ![t] = j]

Keep(t, label, j) == at' = [at EXCEPT ![t] = label] /\ my' = [my EXCEPT ![t] = j]
Go(t, label) == Keep(t, label, my[t])
End(t) == Keep(t, "idle", NoJob)

-----------------------------------------------------------------------------
Init ==
  /\ sale = [st |-> "open", by |-> "nobody", total |-> Tariff]
  /\ ended = FALSE /\ screen = NoScreen
  /\ pay = [p \in Payments |-> IF p = Base
             THEN [st |-> "authorized", amount |-> Tariff, named |-> TRUE, dead |-> FALSE]
             ELSE NoPay]
  /\ intent = [p \in Payments |-> IF p = Base THEN "held" ELSE "none"]
  /\ events = {}
  /\ at = [t \in Tasks |-> "idle"] /\ my = [t \in Tasks |-> NoJob]

TypeOK ==
  /\ sale \in [st : {"open", "assigned", "cancelled"},
                by : {"nobody", "pool", "expert"}, total : Prices \cup {Tariff}]
  /\ ended \in BOOLEAN
  /\ screen \in Screens
  /\ pay \in [Payments -> PayRows]
  /\ intent \in [Payments -> Intents]
  /\ events \subseteq Events
  /\ at \in [Tasks -> Labels] /\ my \in [Tasks -> Jobs]

-----------------------------------------------------------------------------
\* Stripe.  A cancel succeeds on an intent that was not captured, and again on one
\* it canceled under this key; it may fail and do nothing.  Either way the function
\* goes on, with ok telling which.
CancelIntent(t, p, label) ==
  \/ /\ intent[p] \in {"unpaid", "held"}
     /\ intent' = [intent EXCEPT ![p] = "canceled"]
     /\ events' = IF p = Base THEN events ELSE events \cup {[type |-> "canceled", p |-> p]}
     /\ Keep(t, label, [my[t] EXCEPT !.ok = TRUE])
  \/ /\ intent[p] = "canceled"
     /\ UNCHANGED <<intent, events>>
     /\ Keep(t, label, [my[t] EXCEPT !.ok = TRUE])
  \/ /\ intent[p] \in {"captured", "canceled"} \/ "cancelFails" \in Faults
     /\ UNCHANGED <<intent, events>>
     /\ Keep(t, label, [my[t] EXCEPT !.ok = FALSE])

\* The customer's card, at the page of payment p: it opens when accept has returned.
CustomerPays ==
  /\ \E p \in Replacements :
       /\ intent[p] = "unpaid" /\ pay[p].named
       /\ \/ /\ intent' = [intent EXCEPT ![p] = "held"]
             /\ events' = events \cup {[type |-> "capturable", p |-> p]}
          \/ /\ events' = events \cup {[type |-> "failed", p |-> p]}
             /\ UNCHANGED intent
  /\ UNCHANGED <<orderVars, pay, at, my>>

\* The queue puts a price on the screen, or the customer declines it.
Present ==
  /\ Searching /\ ~ended /\ screen.st = "none"
  /\ \E c \in Prices : screen' = [st |-> "PENDING", price |-> c, paying |-> FALSE]
  /\ UNCHANGED <<sale, ended, moneyVars, at, my>>

Decline ==
  /\ screen.st = "PENDING"
  /\ screen' = NoScreen
  /\ UNCHANGED <<sale, ended, moneyVars, at, my>>

Finalizing == \E t \in Tasks : my[t].op = "finalize"
Abandoning == \E t \in Tasks : my[t].op \in {"failed", "canceled", "sweepExpired"}

SearchEnds ==
  /\ ~ended /\ ended' = TRUE
  /\ UNCHANGED <<sale, screen, moneyVars, at, my>>

PaymentLapses ==
  /\ screen.paying /\ screen' = [screen EXCEPT !.paying = FALSE]
  /\ UNCHANGED <<sale, ended, moneyVars, at, my>>

-----------------------------------------------------------------------------
\* accept: the claim of the screen is the lock; then the row and its intent.
Accept(t) ==
  /\ Searching /\ screen.st # "none"
  /\ Begin(t, "claim", Job("accept", Base))
  /\ UNCHANGED <<orderVars, moneyVars>>

AcceptClaim(t) ==
  /\ at[t] = "claim"
  /\ IF screen.st = "PENDING"
     THEN /\ screen' = [screen EXCEPT !.st = "ACCEPTING", !.paying = TRUE]
          /\ Keep(t, "row", [my[t] EXCEPT !.price = screen.price])
     ELSE End(t) /\ UNCHANGED screen
  /\ UNCHANGED <<sale, ended, moneyVars>>

\* With no payment left under the bound, the model's process stops here.
AcceptRow(t) ==
  /\ at[t] = "row"
  /\ \/ \E p \in Replacements \ Rows :
          /\ \A q \in Replacements \ Rows : p <= q
          /\ pay' = [pay EXCEPT ![p] = [st |-> "pending", amount |-> my[t].price,
                                        named |-> FALSE, dead |-> FALSE]]
          /\ Keep(t, "intent", [my[t] EXCEPT !.p = p])
     \/ Replacements \subseteq Rows /\ End(t) /\ UNCHANGED pay
  /\ UNCHANGED <<orderVars, intent, events>>

AcceptReplaces(t) ==
  /\ at[t] = "intent"
  /\ intent' = [intent EXCEPT ![my[t].p] = "unpaid", ![Base] = "canceled"]
  /\ Go(t, "name")
  /\ UNCHANGED <<orderVars, pay, events>>

AcceptIntent(t) ==
  /\ at[t] = "intent"
  /\ intent' = [intent EXCEPT ![my[t].p] = "unpaid"]
  /\ Go(t, "name")
  /\ UNCHANGED <<orderVars, pay, events>>

AcceptName(t) ==
  /\ at[t] = "name"
  /\ pay' = [pay EXCEPT ![my[t].p].named = TRUE]
  /\ End(t)
  /\ UNCHANGED <<orderVars, intent, events>>

-----------------------------------------------------------------------------
\* finalizeCounterOfferPayment, called when Stripe says payment p is held.
Finalize(t) ==
  /\ \E e \in events :
       /\ e.type = "capturable"
       /\ events' = events \ {e}
       /\ "crossed" \in Faults \/ ~Abandoning
       /\ \/ /\ ~pay[e.p].dead /\ pay[e.p].st # "cancelled"
             /\ Begin(t, "f_screen", Job("finalize", e.p))
          \/ /\ pay[e.p].dead \/ pay[e.p].st = "cancelled"
             /\ UNCHANGED <<at, my>>
  /\ UNCHANGED <<orderVars, pay, intent>>

\* The hold is given back when it is of another price, when the order is gone,
\* or when the expert took another job meanwhile (the price is then withdrawn).
FinalizeScreen(t) ==
  /\ at[t] = "f_screen"
  /\ \/ screen.st # "ACCEPTING" /\ End(t)
     \/ /\ screen.st = "ACCEPTING" /\ Open /\ pay[my[t].p].amount = screen.price
        /\ Keep(t, "f_claim", [my[t] EXCEPT !.price = screen.price])
     \/ /\ screen.st = "ACCEPTING" /\ (~Open \/ pay[my[t].p].amount # screen.price)
        /\ Go(t, "back")
     \/ /\ screen.st = "ACCEPTING" /\ Open /\ pay[my[t].p].amount = screen.price
        /\ Keep(t, "back", [my[t] EXCEPT !.pull = TRUE])
  /\ UNCHANGED <<orderVars, moneyVars>>

\* The busy expert's price, once the hold is back.
Pull(t) ==
  /\ at[t] = "pull"
  /\ screen' = IF screen.st = "ACCEPTING" THEN NoScreen ELSE screen
  /\ End(t)
  /\ UNCHANGED <<sale, ended, moneyVars>>

\* The claim of the order: one conditional update, as in acceptOffer.
ClaimBlindly(t) ==
  /\ at[t] \in {"f_claim", "c_claim"} /\ Open
  /\ \/ /\ at[t] = "f_claim"
        /\ sale' = [sale EXCEPT !.by = "expert"] /\ Go(t, "f_others")
     \/ /\ at[t] = "c_claim"
        /\ sale' = [sale EXCEPT !.by = "pool"] /\ Go(t, "find")
  /\ UNCHANGED <<ended, screen, moneyVars>>

Claim(t) ==
  /\ at[t] \in {"f_claim", "c_claim"}
  /\ \/ /\ Searching /\ at[t] = "f_claim"
        /\ sale' = [sale EXCEPT !.by = "expert"] /\ Go(t, "f_others")
     \/ /\ Searching /\ at[t] = "c_claim"
        /\ sale' = [sale EXCEPT !.by = "pool"] /\ Go(t, "find")
     \/ ~Searching /\ at[t] = "f_claim" /\ Go(t, "back") /\ UNCHANGED sale
     \/ ~Searching /\ at[t] = "c_claim" /\ End(t) /\ UNCHANGED sale
  /\ UNCHANGED <<ended, screen, moneyVars>>

\* releaseReplacedHold: every other live payment, one by one.
FinalizeOthers(t) ==
  /\ at[t] = "f_others"
  /\ Keep(t, "f_cancel", [my[t] EXCEPT !.todo = Live \ {my[t].p}])
  /\ UNCHANGED <<orderVars, moneyVars>>

First(S) == CHOOSE q \in S : \A r \in S : q <= r

FinalizeCancel(t) ==
  /\ at[t] = "f_cancel"
  /\ \/ my[t].todo = {} /\ Go(t, "f_mark") /\ UNCHANGED <<intent, events>>
     \/ /\ my[t].todo # {} /\ pay[First(my[t].todo)].named
        /\ CancelIntent(t, First(my[t].todo), "f_dead")
     \/ /\ my[t].todo # {} /\ ~pay[First(my[t].todo)].named
        /\ Keep(t, "f_dead", [my[t] EXCEPT !.ok = FALSE])
        /\ UNCHANGED <<intent, events>>
  /\ UNCHANGED <<orderVars, pay>>

FinalizeDead(t) ==
  /\ at[t] = "f_dead"
  /\ LET q == First(my[t].todo)
     IN /\ pay' = [pay EXCEPT ![q].dead = TRUE,
                              ![q].st = IF my[t].ok THEN "cancelled" ELSE @]
        /\ Keep(t, "f_cancel", [my[t] EXCEPT !.todo = @ \ {q}, !.ok = FALSE])
  /\ UNCHANGED <<orderVars, intent, events>>

\* The ledger says the hold is in place, unless payment_active_order_unique finds
\* another one that is: that error is logged.
FinalizeMark(t) ==
  /\ at[t] = "f_mark"
  /\ pay' = IF pay[my[t].p].st \in {"pending", "failed"} /\
               (pay[my[t].p].dead \/ Holding \ {my[t].p} = {})
            THEN [pay EXCEPT ![my[t].p].st = "authorized"] ELSE pay
  /\ Go(t, "find")
  /\ UNCHANGED <<orderVars, intent, events>>

-----------------------------------------------------------------------------
\* captureOrderPayment: the payment that holds money, else the newest live one.
Active == IF Holding # {} THEN Holding
          ELSE {p \in Live : \A q \in Live : q <= p}

FindActive(t) ==
  /\ at[t] = "find"
  /\ \/ Active = {} /\ Go(t, "failed")
     \/ \E p \in Active :
          CASE pay[p].st = "succeeded" -> Go(t, "sold")
            [] pay[p].st = "authorized" /\ pay[p].named ->
                 Keep(t, "capture", [my[t] EXCEPT !.todo = {p}])
            [] OTHER -> Go(t, "failed")
  /\ UNCHANGED <<orderVars, moneyVars>>

Capture(t) ==
  /\ at[t] = "capture"
  /\ LET p == First(my[t].todo)
     IN \/ /\ intent[p] \in {"held", "captured"}
           /\ intent' = [intent EXCEPT ![p] = "captured"]
           /\ \/ Go(t, "captured")
              \/ "lost" \in Faults /\ Go(t, "failed")
        \/ /\ "captureFails" \in Faults \/ intent[p] \notin {"held", "captured"}
           /\ Go(t, "failed") /\ UNCHANGED intent
  /\ UNCHANGED <<orderVars, pay, events>>

MarkCaptured(t) ==
  /\ at[t] = "captured"
  /\ pay' = [pay EXCEPT ![First(my[t].todo)].st = "succeeded"]
  /\ Go(t, "sold")
  /\ UNCHANGED <<orderVars, intent, events>>

\* releaseOrderClaim; finalize then gives its own hold back.
Failed(t) ==
  /\ at[t] = "failed"
  /\ sale' = IF Open /\ sale.by = (IF my[t].op = "finalize" THEN "expert" ELSE "pool")
              THEN [sale EXCEPT !.by = "nobody"] ELSE sale
  /\ IF my[t].op = "finalize" THEN Go(t, "back") ELSE End(t)
  /\ UNCHANGED <<ended, screen, moneyVars>>

\* The transaction: the price is accepted and the order is worth it.  The pool
\* sells at the tariff, and only a waiting price is then superseded.
SoldAtOldTotal(t) ==
  /\ at[t] = "sold"
  /\ screen' = IF screen.st = "ACCEPTING" THEN [screen EXCEPT !.st = "ACCEPTED", !.paying = FALSE]
               ELSE screen
  /\ Go(t, "assign")
  /\ UNCHANGED <<sale, ended, moneyVars>>

Sold(t) ==
  /\ at[t] = "sold"
  /\ \/ /\ my[t].op = "finalize"
        /\ screen' = IF screen.st = "ACCEPTING"
                     THEN [screen EXCEPT !.st = "ACCEPTED", !.paying = FALSE] ELSE screen
        /\ sale' = [sale EXCEPT !.total = my[t].price]
     \/ /\ my[t].op # "finalize"
        /\ screen' = IF screen.st = "PENDING" THEN NoScreen ELSE screen
        /\ UNCHANGED sale
  /\ Go(t, "assign")
  /\ UNCHANGED <<ended, moneyVars>>

Assign(t) ==
  /\ at[t] = "assign"
  /\ sale' = IF Open THEN [sale EXCEPT !.st = "assigned"] ELSE sale
  /\ End(t)
  /\ UNCHANGED <<ended, screen, moneyVars>>

\* releaseSupersededHold: the flag says what Stripe did.
BackCancel(t) ==
  /\ at[t] = "back"
  /\ IF pay[my[t].p].named THEN CancelIntent(t, my[t].p, "back_dead")
     ELSE Keep(t, "back_dead", [my[t] EXCEPT !.ok = FALSE]) /\ UNCHANGED <<intent, events>>
  /\ UNCHANGED <<orderVars, pay>>

BackDead(t) ==
  /\ at[t] = "back_dead"
  /\ pay' = [pay EXCEPT ![my[t].p].dead = TRUE,
                        ![my[t].p].st = IF my[t].ok THEN "cancelled" ELSE @]
  /\ IF my[t].pull THEN Go(t, "pull") ELSE End(t)
  /\ UNCHANGED <<orderVars, intent, events>>

-----------------------------------------------------------------------------
\* abandonCounterOfferPayment, of the order and not of a payment: a card was
\* refused, an intent is cancelled, or the payment window is over.
Given(t, type) ==
  \E e \in events :
    /\ e.type = type
    /\ "crossed" \in Faults \/ ~Finalizing
    /\ events' = events \ {e}
    /\ Begin(t, "a_screen", Job(type, e.p))
    /\ UNCHANGED <<orderVars, pay, intent>>

PaymentFailed(t) == Given(t, "failed")
PaymentCanceled(t) == Given(t, "canceled")

SweepExpired(t) ==
  /\ screen.st = "ACCEPTING" /\ ~screen.paying
  /\ "crossed" \in Faults \/ ~Finalizing
  /\ Begin(t, "a_screen", Job("sweepExpired", Base))
  /\ UNCHANGED <<orderVars, moneyVars>>

\* Back to the customer's screen, or the price has run out.
AbandonScreen(t) ==
  /\ at[t] = "a_screen"
  /\ \/ screen.st # "ACCEPTING" /\ End(t) /\ UNCHANGED screen
     \/ /\ screen.st = "ACCEPTING" /\ Go(t, "a_find")
        /\ \/ screen' = [screen EXCEPT !.st = "PENDING", !.paying = FALSE]
           \/ screen' = NoScreen
  /\ UNCHANGED <<sale, ended, moneyVars>>

AbandonFind(t) ==
  /\ at[t] = "a_find"
  /\ Keep(t, "a_cancel", [my[t] EXCEPT !.todo =
       IF my[t].op = "canceled" THEN {} ELSE {p \in Live \ {Base} : pay[p].named}])
  /\ UNCHANGED <<orderVars, moneyVars>>

AbandonCancel(t) ==
  /\ at[t] = "a_cancel"
  /\ \/ my[t].todo = {} /\ Go(t, "a_dead") /\ UNCHANGED <<intent, events>>
     \/ LET q == First(my[t].todo)
            j == [my[t] EXCEPT !.todo = @ \ {q}]
        IN /\ my[t].todo # {}
           /\ \/ /\ intent[q] \in {"unpaid", "held"}
                 /\ intent' = [intent EXCEPT ![q] = "canceled"]
                 /\ events' = events \cup {[type |-> "canceled", p |-> q]}
              \/ /\ intent[q] \in {"captured", "canceled"} \/ "cancelFails" \in Faults
                 /\ UNCHANGED <<intent, events>>
           /\ Keep(t, "a_cancel", j)
  /\ UNCHANGED <<orderVars, pay>>

\* Whatever their status, the live rows stop being the order's.
AbandonDead(t) ==
  /\ at[t] = "a_dead"
  /\ pay' = [p \in Payments |-> IF p \in Live \ {Base}
               THEN [pay[p] EXCEPT !.st = "failed", !.dead = TRUE] ELSE pay[p]]
  /\ End(t)
  /\ UNCHANGED <<orderVars, intent, events>>

-----------------------------------------------------------------------------
\* The pool, unless somebody is paying for a price.
AcceptOffer(t) ==
  /\ ~(screen.st = "ACCEPTING" /\ screen.paying)
  /\ Begin(t, "c_claim", Job("acceptOffer", Base))
  /\ UNCHANGED <<orderVars, moneyVars>>

\* The search ends: the order is cancelled and its hold is released; a release
\* that failed is tried again.
ExpireUnfilledSearches(t) ==
  /\ ended /\ Searching
  /\ Begin(t, "e_claim", Job("expireUnfilledSearches", Base))
  /\ UNCHANGED <<orderVars, moneyVars>>

ExpireClaim(t) ==
  /\ at[t] = "e_claim"
  /\ IF Searching THEN sale' = [sale EXCEPT !.st = "cancelled"] /\ Go(t, "r_find")
     ELSE End(t) /\ UNCHANGED sale
  /\ UNCHANGED <<ended, screen, moneyVars>>

Stranded(t) ==
  /\ sale.st = "cancelled"
  /\ Base \in Holding /\ pay[Base].st = "authorized"
  /\ Begin(t, "r_find", Job("stranded", Base))
  /\ UNCHANGED <<orderVars, moneyVars>>

ReleaseFind(t) ==
  /\ at[t] = "r_find"
  /\ \/ /\ \A p \in Active : pay[p].st # "authorized" \/ ~pay[p].named
        /\ End(t)
     \/ \E p \in Active :
          /\ pay[p].st = "authorized" /\ pay[p].named
          /\ Keep(t, "r_cancel", [my[t] EXCEPT !.p = p])
  /\ UNCHANGED <<orderVars, moneyVars>>

ReleaseCancel(t) ==
  /\ at[t] = "r_cancel"
  /\ CancelIntent(t, my[t].p, "r_mark")
  /\ UNCHANGED <<orderVars, pay>>

ReleaseMarkInStripesWord(t) ==
  /\ at[t] = "r_mark"
  /\ pay' = IF my[t].ok THEN [pay EXCEPT ![my[t].p].st = "canceled"] ELSE pay
  /\ End(t)
  /\ UNCHANGED <<orderVars, intent, events>>

ReleaseMark(t) ==
  /\ at[t] = "r_mark"
  /\ pay' = IF my[t].ok THEN [pay EXCEPT ![my[t].p].st = "cancelled"] ELSE pay
  /\ End(t)
  /\ UNCHANGED <<orderVars, intent, events>>

\* reconcileAbandonedCounterOfferHolds.
AbandonedUnfailed == {p \in Rows \ {Base} :
  pay[p].dead /\ pay[p].named /\ pay[p].st \in {"pending", "authorized"}}

Abandoned == {p \in Rows \ {Base} : /\ pay[p].dead /\ pay[p].named
                                    /\ pay[p].st \in {"pending", "failed", "authorized"}}

Reconcile(t) ==
  /\ \E p \in Abandoned : Begin(t, "h_cancel", Job("reconcile", p))
  /\ UNCHANGED <<orderVars, moneyVars>>

\* An intent Stripe reports as canceled is recorded; a cancel that throws leaves
\* the row for the next pass.
HoldCancel(t) ==
  /\ at[t] = "h_cancel"
  /\ IF intent[my[t].p] = "canceled" THEN Go(t, "h_mark") /\ UNCHANGED <<intent, events>>
     ELSE \/ /\ intent[my[t].p] # "captured"
             /\ intent' = [intent EXCEPT ![my[t].p] = "canceled"]
             /\ events' = events \cup {[type |-> "canceled", p |-> my[t].p]}
             /\ Go(t, "h_mark")
          \/ /\ intent[my[t].p] = "captured" \/ "cancelFails" \in Faults
             /\ UNCHANGED <<intent, events>> /\ End(t)
  /\ UNCHANGED <<orderVars, pay>>

HoldMark(t) ==
  /\ at[t] = "h_mark"
  /\ pay' = [pay EXCEPT ![my[t].p].st = "cancelled"]
  /\ End(t)
  /\ UNCHANGED <<orderVars, intent, events>>

\* The process dies, and every local with it.  Stripe was not answered and
\* delivers the event again.
Redelivered(j) ==
  CASE j.op = "finalize" -> {[type |-> "capturable", p |-> j.p]}
    [] j.op \in {"failed", "canceled"} -> {[type |-> j.op, p |-> j.p]}
    [] OTHER -> {}

Crash(t) ==
  /\ "crash" \in Faults /\ at[t] # "idle"
  /\ End(t)
  /\ events' = events \cup Redelivered(my[t])
  /\ UNCHANGED <<orderVars, pay, intent>>

-----------------------------------------------------------------------------
FinalizeSteps(t) ==
  \/ FinalizeScreen(t) \/ FinalizeOthers(t) \/ FinalizeCancel(t) \/ FinalizeDead(t)
  \/ FinalizeMark(t) \/ BackCancel(t) \/ BackDead(t) \/ Pull(t)

Continue(t) ==
  \/ AcceptClaim(t) \/ AcceptRow(t) \/ AcceptIntent(t) \/ AcceptName(t)
  \/ FinalizeSteps(t) \/ Claim(t) \/ FindActive(t) \/ Capture(t) \/ MarkCaptured(t)
  \/ Failed(t) \/ Sold(t) \/ Assign(t) \/ AbandonScreen(t) \/ AbandonFind(t)
  \/ AbandonCancel(t) \/ AbandonDead(t) \/ ExpireClaim(t) \/ ReleaseFind(t)
  \/ ReleaseCancel(t) \/ ReleaseMark(t) \/ HoldCancel(t) \/ HoldMark(t)

Crons(t) == \/ SweepExpired(t) \/ ExpireUnfilledSearches(t) \/ Stranded(t)
            \/ Reconcile(t)

Webhooks(t) == Finalize(t) \/ PaymentFailed(t) \/ PaymentCanceled(t)

Next ==
  \/ \E t \in Tasks : \/ Accept(t) \/ AcceptOffer(t) \/ Webhooks(t) \/ Crons(t)
                      \/ Continue(t) \/ Crash(t)
  \/ CustomerPays \/ Present \/ Decline \/ SearchEnds \/ PaymentLapses

Spec == Init /\ [][Next]_vars

HoldIsLetGo(t) == HoldCancel(t) /\ at'[t] = "h_mark"
ReleaseGoesThrough(t) == ReleaseCancel(t) /\ my'[t].ok

\* Functions are resumed, events delivered, the crons tick, and Stripe is not
\* down for ever.
Fairness ==
  /\ \A t \in Tasks : /\ WF_vars(Continue(t)) /\ SF_vars(Webhooks(t))
                      /\ SF_vars(SweepExpired(t)) /\ SF_vars(ExpireUnfilledSearches(t))
                      /\ SF_vars(Stranded(t)) /\ SF_vars(Reconcile(t))
                      /\ SF_vars(HoldIsLetGo(t))
                      /\ SF_vars(ReleaseGoesThrough(t))
  /\ WF_vars(PaymentLapses)

FairSpec == Spec /\ Fairness

-----------------------------------------------------------------------------
\* The customer is charged once, while the order is being sold, for what the order is
\* then worth, and a cancelled order was never charged: the hand-over implements Sale.
\* The order is sold when its contract, invoice and payout may be made from its total.
Promise == INSTANCE Sale WITH
  Holds <- Payments, Amounts <- Prices \cup {Tariff},
  state <- CASE sale.st = "open" -> "open" [] sale.st = "assigned" -> "sold"
             [] sale.st = "cancelled" -> "cancelled",
  charged <- {[hold |-> p, amount |-> pay[p].amount] :
                p \in {q \in Payments : intent[q] = "captured"}},
  total <- sale.total
SaleKept == Promise!SaleSpec

\* The first hold is given back only for a second one: while the order is in the
\* search a hold covers it, at Stripe, if no capture has failed.
AlwaysCovered ==
  Open => \E p \in Payments : intent[p] \in {"held", "captured"}

\* No replacement hold is forgotten: what is held for an order that is sold or
\* cancelled is captured or released in the end, though cancels fail.
NoStrayHold ==
  \A p \in Replacements : (~Open /\ intent[p] = "held") ~> intent[p] # "held"
=============================================================================
