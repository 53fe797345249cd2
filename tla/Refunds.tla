------------------------------- MODULE Refunds -------------------------------
(***************************************************************************)
(* Money on its way back to the customer of one order: settleRefund of a     *)
(* captured payment, the row that parks what Stripe refused, the queue that   *)
(* tries again, the operator who does, and the webhook that says a charge     *)
(* was refunded.                                                            *)
(*                                                                          *)
(* A task is a running async function, one action one SQL statement or one    *)
(* call of Stripe.  Amounts are in units, of which the customer paid Total;   *)
(* attempts past the cap are not told apart.  Holds and the race for the      *)
(* order are OrderEscrow's.                                                 *)
(***************************************************************************)
EXTENDS Naturals, FiniteSets

CONSTANTS
  Tasks,
  Total,     \* what was captured
  Cap,       \* MONEY_RETRY_MAX_ATTEMPTS
  Handlers,
  Faults

HandlerNames == {"settle", "retryStuckRefunds", "adminRetryRefund", "chargeRefunded"}

\* "lost": Stripe acts and its answer does not arrive.  "fails": it does not act, and
\* may be asked again.  "refused": it never will.  "forgets": keys expire.
\* "dashboard": money is also given back by hand at Stripe.  "crash": a process dies.
FaultNames == {"lost", "fails", "refused", "forgets", "dashboard", "crash"}

VARIABLES
  order,     \* "open" until the cancellation or decision that owes the refund is written
  amount,    \* what is owed
  payment,   \* payment.status
  row,       \* the Refund row of (orderId, reason)
  back,      \* Stripe: what has gone back
  ours,      \* Stripe: how many refunds our calls have made
  keyed,     \* Stripe: the answer it keeps under our idempotency key
  events,    \* Stripe: charge.refunded events not yet answered
  pc, job

stripe == <<back, ours, keyed, events>>
vars == <<order, amount, payment, row, stripe, pc, job>>

\* due: nextRetryAt is null, ahead, or past.
Rows == [st : {"none", "pending", "failed", "succeeded"}, n : 0 .. Cap + 1,
         due : {"no", "later", "now"}]
NoRow == [st |-> "none", n |-> 0, due |-> "no"]

Labels == {"idle", "find", "payment", "create", "row", "mark", "p_find", "p_row",
  "close", "terminate", "reset", "w_mark"}

\* Locals: the handler, the attempts of the row it found, whether Stripe's no is final.
Jobs == [op : HandlerNames \cup {"none"}, n : 0 .. Cap + 1, fatal : BOOLEAN]
Job(op) == [op |-> op, n |-> 0, fatal |-> FALSE]
NoJob == Job("none")

Begin(t, label, op) ==
  /\ pc[t] = "idle" /\ op \in Handlers
  /\ pc' = [pc EXCEPT ![t] = label]
  /\ job' = [job EXCEPT ![t] = Job(op)]

Keep(t, label, j) == pc' = [pc EXCEPT ![t] = label] /\ job' = [job EXCEPT ![t] = j]
Go(t, label) == Keep(t, label, job[t])
End(t) == Keep(t, "idle", NoJob)

-----------------------------------------------------------------------------
Init ==
  /\ order = "open" /\ amount \in 1 .. Total /\ payment = "succeeded"
  /\ row = NoRow
  /\ back = 0 /\ ours = 0 /\ keyed = FALSE /\ events = 0
  /\ pc = [t \in Tasks |-> "idle"] /\ job = [t \in Tasks |-> NoJob]

TypeOK ==
  /\ order \in {"open", "closed"} /\ amount \in 1 .. Total
  /\ payment \in {"succeeded", "refunded"}
  /\ row \in Rows
  /\ back \in 0 .. Total /\ ours \in 0 .. Total /\ keyed \in BOOLEAN /\ events \in 0 .. Total
  /\ pc \in [Tasks -> Labels] /\ job \in [Tasks -> Jobs]

-----------------------------------------------------------------------------
\* Where the callers of settleRefund go on.  The caller who closes the order does so
\* whatever came of the money.
Return(t, outcome) ==
  \/ job[t].op = "settle" /\ Go(t, "close")
  \/ job[t].op = "retryStuckRefunds" /\ outcome = "skipped" /\ Go(t, "terminate")
  \/ job[t].op = "retryStuckRefunds" /\ outcome # "skipped" /\ End(t)
  \/ job[t].op = "adminRetryRefund" /\ End(t)

\* A cancellation, or a dispute decided for the customer.
Settle(t) ==
  /\ order = "open"
  /\ Begin(t, "find", "settle")
  /\ UNCHANGED <<order, amount, payment, row, stripe>>

\* (orderId, reason) is unique, and this one may have settled already.
Find(t) ==
  /\ pc[t] = "find"
  /\ IF row.st = "succeeded" THEN Return(t, "refunded")
     ELSE Keep(t, "payment", [job[t] EXCEPT !.n = row.n])
  /\ UNCHANGED <<order, amount, payment, row, stripe>>

ReturnIfRefunded(t) ==
  /\ pc[t] = "payment"
  /\ IF payment = "refunded" THEN End(t) ELSE Go(t, "create")
  /\ UNCHANGED <<order, amount, payment, row, stripe>>

ReadPayment(t) ==
  /\ pc[t] = "payment"
  /\ IF payment = "refunded" THEN Return(t, "skipped") ELSE Go(t, "create")
  /\ UNCHANGED <<order, amount, payment, row, stripe>>

\* Stripe does it, or has done it under this key.
Refunded ==
  \/ keyed /\ UNCHANGED stripe
  \/ /\ ~keyed /\ back + amount <= Total
     /\ back' = back + amount /\ ours' = ours + 1 /\ events' = events + 1 /\ keyed' = TRUE

Park(t, fatal) == Keep(t, "p_find", [job[t] EXCEPT !.fatal = fatal])

CreateUnkeyed(t) ==
  /\ pc[t] = "create" /\ back + amount <= Total
  /\ back' = back + amount /\ ours' = ours + 1 /\ events' = events + 1 /\ keyed' = TRUE
  /\ Go(t, "row") \/ ("lost" \in Faults /\ Park(t, FALSE))
  /\ UNCHANGED <<order, amount, payment, row>>

CreateBelievesLost(t) ==
  /\ pc[t] = "create"
  /\ \/ Refunded /\ Go(t, "row")
     \/ "fails" \in Faults /\ Go(t, "row") /\ UNCHANGED stripe
  /\ UNCHANGED <<order, amount, payment, row>>

Create(t) ==
  /\ pc[t] = "create"
  /\ \/ Refunded /\ (Go(t, "row") \/ ("lost" \in Faults /\ Park(t, FALSE)))
     \/ "fails" \in Faults /\ Park(t, FALSE) /\ UNCHANGED stripe
     \/ /\ "refused" \in Faults \/ (~keyed /\ back + amount > Total)
        /\ Park(t, TRUE) /\ UNCHANGED stripe
  /\ UNCHANGED <<order, amount, payment, row>>

Bump(n) == IF n > Cap THEN n ELSE n + 1

RecordSuccess(t) ==
  /\ pc[t] = "row"
  /\ row' = [st |-> "succeeded", n |-> Bump(job[t].n), due |-> "no"]
  /\ Go(t, "mark")
  /\ UNCHANGED <<order, amount, payment, stripe>>

\* markPaymentRefunded, which swallows the error of its write.
MarkRefunded(t) ==
  /\ pc[t] = "mark"
  /\ payment' = "refunded"
  /\ Return(t, "refunded")
  /\ UNCHANGED <<order, amount, row, stripe>>

\* parkRefund: the attempts as they are now, and the plan of the next.
ParkFind(t) ==
  /\ pc[t] = "p_find"
  /\ Keep(t, "p_row", [job[t] EXCEPT !.n = row.n])
  /\ UNCHANGED <<order, amount, payment, row, stripe>>

PlanRetryPastCap(n, fatal) ==
  [st |-> IF fatal \/ Bump(n) > Cap THEN "failed" ELSE "pending", n |-> Bump(n),
   due |-> IF fatal \/ Bump(n) > Cap THEN "no" ELSE "later"]

PlanRetry(n, fatal) ==
  [st |-> IF fatal \/ Bump(n) >= Cap THEN "failed" ELSE "pending", n |-> Bump(n),
   due |-> IF fatal \/ Bump(n) >= Cap THEN "no" ELSE "later"]

ParkRow(t) ==
  /\ pc[t] = "p_row"
  /\ row' = PlanRetry(job[t].n, job[t].fatal)
  /\ Return(t, "parked")
  /\ UNCHANGED <<order, amount, payment, stripe>>

Close(t) ==
  /\ pc[t] = "close"
  /\ order' = "closed"
  /\ End(t)
  /\ UNCHANGED <<amount, payment, row, stripe>>

-----------------------------------------------------------------------------
\* The cron takes what is due and under the cap.
RetryStuckRefunds(t) ==
  /\ row.st \in {"pending", "failed"} /\ row.due = "now" /\ row.n < Cap
  /\ Begin(t, "find", "retryStuckRefunds")
  /\ UNCHANGED <<order, amount, payment, row, stripe>>

\* terminateRefund, of a refund there is nothing left to do for.  The status stays.
Terminate(t) ==
  /\ pc[t] = "terminate"
  /\ row' = [row EXCEPT !.due = "no"]
  /\ End(t)
  /\ UNCHANGED <<order, amount, payment, stripe>>

AdminRetryRefund(t) ==
  /\ row.st \in {"pending", "failed"}
  /\ Begin(t, "reset", "adminRetryRefund")
  /\ UNCHANGED <<order, amount, payment, row, stripe>>

ResetAttempts(t) ==
  /\ pc[t] = "reset"
  /\ row' = [row EXCEPT !.n = 0, !.due = "now"]
  /\ Go(t, "find")
  /\ UNCHANGED <<order, amount, payment, stripe>>

\* The event of a refund, ours or not.  A delivery that dies is repeated.
ChargeRefunded(t) ==
  /\ events > 0
  /\ Begin(t, "w_mark", "chargeRefunded")
  /\ UNCHANGED <<order, amount, payment, row, stripe>>

WebhookMark(t) ==
  /\ pc[t] = "w_mark"
  /\ payment' = "refunded" /\ events' = IF events = 0 THEN 0 ELSE events - 1
  /\ End(t)
  /\ UNCHANGED <<order, amount, row, back, ours, keyed>>

-----------------------------------------------------------------------------
\* The clock and Stripe.
BackoffElapses ==
  /\ row.due = "later" /\ row' = [row EXCEPT !.due = "now"]
  /\ UNCHANGED <<order, amount, payment, stripe, pc, job>>

KeyExpires ==
  /\ "forgets" \in Faults /\ keyed /\ keyed' = FALSE
  /\ UNCHANGED <<order, amount, payment, row, back, ours, events, pc, job>>

RefundedByHand ==
  /\ "dashboard" \in Faults /\ back < Total
  /\ back' = back + 1 /\ events' = events + 1
  /\ UNCHANGED <<order, amount, payment, row, ours, keyed, pc, job>>

Crash(t) ==
  /\ "crash" \in Faults /\ pc[t] # "idle" /\ End(t)
  /\ UNCHANGED <<order, amount, payment, row, stripe>>

Continue(t) ==
  \/ Find(t) \/ ReadPayment(t) \/ Create(t) \/ RecordSuccess(t) \/ MarkRefunded(t)
  \/ ParkFind(t) \/ ParkRow(t) \/ Close(t) \/ Terminate(t) \/ ResetAttempts(t) \/ WebhookMark(t)

Called(t) == Settle(t) \/ AdminRetryRefund(t) \/ ChargeRefunded(t)

Next ==
  \/ \E t \in Tasks : Called(t) \/ RetryStuckRefunds(t) \/ Continue(t) \/ Crash(t)
  \/ BackoffElapses \/ KeyExpires \/ RefundedByHand

Spec == Init /\ [][Next]_vars

\* Functions are resumed, the backoff elapses, the cron ticks.
Fairness ==
  /\ \A t \in Tasks : WF_vars(Continue(t)) /\ SF_vars(RetryStuckRefunds(t))
  /\ WF_vars(BackoffElapses)

FairSpec == Spec /\ Fairness

-----------------------------------------------------------------------------
\* However many handlers settle, retry and repeat a refund whose answers are lost, the
\* customer is given it once, as long as Stripe remembers the key.
RefundedOnce == ours <= 1

\* The ledger does not say of money that it is back before it is.
RefundedMeansBack == (row.st = "succeeded" => ours > 0) /\ (payment = "refunded" => back > 0)

\* The order is over and the money is not back: the refund is in the queue, or on the
\* list of what failed and needs an operator.
OwedIsKept ==
  order = "closed" /\ back = 0 =>
    \/ row.st = "failed"
    \/ row.st = "pending" /\ (row.due # "no" /\ row.n < Cap)
    \/ \E t \in Tasks : pc[t] # "idle"

\* The money goes back once, and is the queue's or an operator's until then.
MoneyGoesBackOnce == RefundedOnce /\ RefundedMeansBack /\ OwedIsKept

\* A parked refund does not stay parked: it goes through, or leaves the queue.
ParkedIsResolved == (row.st = "pending" /\ row.due # "no") ~> (row.st # "pending" \/ row.due = "no")

\* "refunded: skip -- the money is already back" (settleRefund's table): when the order is over
\* and nobody is at work, all that was owed has gone back, or the row says it has not.
OwedInFull ==
  order = "closed" /\ (\A t \in Tasks : pc[t] = "idle") =>
    back >= amount \/ row.st = "failed" \/ (row.st = "pending" /\ row.due # "no")
=============================================================================
