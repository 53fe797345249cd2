----------------------------- MODULE Settlement -----------------------------
(***************************************************************************)
(* One submitted order from the customer's decision to the end: approval,    *)
(* dispute and its resolution, and the inspector's payout through Stripe     *)
(* Connect with its parked row, retry queue and operator actions.            *)
(*                                                                          *)
(* As in OrderEscrow a task is a running async function and one action is    *)
(* one SQL statement or one Stripe call.  Abstracted: the refund of a        *)
(* dispute is one step (OrderEscrow models settleRefund; a parked refund     *)
(* still goes out later), amounts, notifications, events.                    *)
(***************************************************************************)
EXTENDS Naturals, FiniteSets, OrderStates

CONSTANTS
  Tasks,
  MaxAttempts,   \* MONEY_RETRY_MAX_ATTEMPTS
  MaxTransfers,  \* bound: transfers Stripe makes under successive keys
  Handlers,      \* the handlers that may start (all of them, or a subset)
  Faults         \* what Stripe, the clock and the process may do to us

HandlerNames == {"approve", "autoApprove", "dispute", "resolveCustomer",
  "resolveInspector", "retryStuckPayouts", "adminRetryPayout",
  "adminMarkPayoutPaid", "failTransfer", "confirmTransfer"}

\* "down": the transfer call fails and did nothing.  "lost": it went through and
\* the answer did not.  "reversed": a transfer fails or is reversed afterwards.
\* "expiry": Stripe has forgotten the key (after a day).  "crash": process dies.
ASSUME FaultsAssumption ==
  Faults \subseteq {"down", "lost", "reversed", "expiry", "crash"}
ASSUME BoundsAssumption == MaxAttempts \in Nat \ {0} /\ MaxTransfers \in Nat \ {0}

VARIABLES
  status, overdue,  \* order.status; autoApproveAt is in the past
  dispute,          \* the Dispute row: none, open, or for whom it was resolved
  onboarded,        \* the inspector's connected account can receive funds
  payout,           \* the Payout row
  sent, failed,     \* transfers Stripe made, and those that came back
  key,              \* what the key transfer_<orderId> replays, 0 when unused
  reported,         \* transfers whose failure we have been told of
  bank, refunded,   \* paid by bank transfer; refunded to the customer
  pc, job

orderVars == <<status, overdue, dispute, onboarded>>
stripeVars == <<sent, failed, key, reported, bank, refunded>>
taskVars == <<pc, job>>
vars == <<orderVars, payout, stripeVars, taskVars>>

TransferIds == 1 .. MaxTransfers
PayoutStates == {"none", "pending", "failed", "paid"}

\* The code compares attempts with the cap alone (a customer who approves again
\* and again pushes it past), so counting stops there.
PayoutRows == [state : PayoutStates, attempts : 0 .. MaxAttempts,
               due : BOOLEAN, transfer : 0 .. MaxTransfers]
Bump(n) == IF n < MaxAttempts THEN n + 1 ELSE n
NoPayout == [state |-> "none", attempts |-> 0, due |-> FALSE, transfer |-> 0]

Labels == {"idle", "read", "write", "order", "skip", "existing", "profile",
           "transfer", "mark_find", "mark", "park_find", "park", "refund",
           "dispute_row", "close", "reset", "free", "settle", "confirm"}

\* Locals: the handler, the status it moves the order to, the payout row it read
\* last, and the transfer it made or was told of.
Job(op, to) == [op |-> op, to |-> to, saw |-> NoPayout, id |-> 0]
NoJob == Job("none", "COMPLETED")

\* The statuses a handler of this module moves an order to.
Targets == {"APPROVED", "DISPUTED", "REFUNDED", "COMPLETED"}
Jobs == [op : HandlerNames \cup {"none"}, to : Targets, saw : PayoutRows,
         id : 0 .. MaxTransfers]

Start(t, label, j) ==
  /\ pc[t] = "idle"
  /\ j.op \in Handlers
  /\ pc' = [pc EXCEPT ![t] = label]
  /\ job' = [job EXCEPT ![t] = j]

Goto(t, label) == pc' = [pc EXCEPT ![t] = label] /\ UNCHANGED job

Return(t) == pc' = [pc EXCEPT ![t] = "idle"] /\ job' = [job EXCEPT ![t] = NoJob]

Transition(t, to) ==
  /\ pc' = [pc EXCEPT ![t] = "read"]
  /\ job' = [job EXCEPT ![t].to = to]

\* Read the payout row and go on.
Look(t, label) ==
  /\ pc' = [pc EXCEPT ![t] = label]
  /\ job' = [job EXCEPT ![t].saw = payout]

-----------------------------------------------------------------------------
Init ==
  /\ status = "SUBMITTED" /\ overdue = FALSE /\ dispute = "none"
  /\ onboarded \in BOOLEAN
  /\ payout = NoPayout
  /\ sent = {} /\ failed = {} /\ key = 0 /\ reported = {}
  /\ bank = FALSE /\ refunded = FALSE
  /\ pc = [t \in Tasks |-> "idle"]
  /\ job = [t \in Tasks |-> NoJob]

TypeOK ==
  /\ status \in Statuses /\ overdue \in BOOLEAN /\ onboarded \in BOOLEAN
  /\ dispute \in {"none", "open", "customer", "inspector"}
  /\ payout \in PayoutRows
  /\ sent \subseteq TransferIds /\ failed \subseteq sent
  /\ reported \subseteq 0 .. MaxTransfers
  /\ key \in sent \cup {0}
  /\ bank \in BOOLEAN /\ refunded \in BOOLEAN
  /\ pc \in [Tasks -> Labels]
  /\ job \in [Tasks -> Jobs]

-----------------------------------------------------------------------------
\* releasePayout has returned, or thrown.
AfterRelease(t) ==
  IF job[t].op = "resolveInspector" THEN Goto(t, "close") ELSE Return(t)

\* The caller of transition goes on: an approval releases the payout, a dispute
\* writes its row, and both resolutions close it.
AfterTransition(t) ==
  CASE job[t].to = "APPROVED"  -> Goto(t, "order")
    [] job[t].to = "DISPUTED"  -> Goto(t, "dispute_row")
    [] job[t].to = "REFUNDED"  -> Goto(t, "close")
    [] job[t].to = "COMPLETED" -> AfterRelease(t)

\* resolveDispute catches the 409 and closes the dispute all the same.
Illegal(t) ==
  IF job[t].op \in {"resolveCustomer", "resolveInspector"}
  THEN Goto(t, "close") ELSE Return(t)

TransitionRead(t) ==
  /\ pc[t] = "read"
  /\ \/ status = job[t].to /\ AfterTransition(t)
     \/ status # job[t].to /\ CanTransition(status, job[t].to) /\ Goto(t, "write")
     \/ status # job[t].to /\ ~CanTransition(status, job[t].to) /\ Illegal(t)
  /\ UNCHANGED <<orderVars, payout, stripeVars>>

TransitionWrite(t) ==
  /\ pc[t] = "write"
  /\ status' = job[t].to
  /\ AfterTransition(t)
  /\ UNCHANGED <<overdue, dispute, onboarded, payout, stripeVars>>

-----------------------------------------------------------------------------
\* releasePayout, statement by statement.

ReadOrder(t) ==
  /\ pc[t] = "order"
  /\ Goto(t, IF status \in {"APPROVED", "COMPLETED"} THEN "existing" ELSE "skip")
  /\ UNCHANGED <<orderVars, payout, stripeVars>>

\* No payout is owed: an unpaid row leaves the retry queue.
SkipPayout(t) ==
  /\ pc[t] = "skip"
  /\ payout' = [payout EXCEPT !.due = @ /\ payout.state = "paid"]
  /\ AfterRelease(t)
  /\ UNCHANGED <<orderVars, stripeVars>>

ReturnIfParked(t) ==
  /\ pc[t] = "existing"
  /\ \/ payout.state # "none" /\ AfterRelease(t)
     \/ payout.state = "none" /\ Goto(t, "profile")
  /\ UNCHANGED <<orderVars, payout, stripeVars>>

ReadPayout(t) ==
  /\ pc[t] = "existing"
  /\ \/ payout.state = "paid" /\ AfterRelease(t)
     \/ payout.state # "paid" /\ Goto(t, "profile")
  /\ UNCHANGED <<orderVars, payout, stripeVars>>

ReadProfile(t) ==
  /\ pc[t] = "profile"
  /\ Goto(t, IF onboarded THEN "transfer" ELSE "park_find")
  /\ UNCHANGED <<orderVars, payout, stripeVars>>

\* Stripe makes a transfer for a key it has not seen.
NewTransfer ==
  \E n \in TransferIds \ sent :
    /\ sent' = sent \cup {n} /\ key' = n
    /\ UNCHANGED <<failed, reported, bank, refunded>>

\* The same key replays the same transfer: what became of it since is not said.
UnkeyedTransfer(t) ==
  /\ pc[t] = "transfer"
  /\ NewTransfer
  /\ pc' = [pc EXCEPT ![t] = "mark_find"]
  /\ job' = [job EXCEPT ![t].id = key']
  /\ UNCHANGED <<orderVars, payout>>

TransferErrorIgnored(t) ==
  /\ pc[t] = "transfer"
  /\ \/ /\ key = 0 /\ NewTransfer
        /\ pc' = [pc EXCEPT ![t] = "mark_find"]
        /\ job' = [job EXCEPT ![t].id = key']
     \/ "down" \in Faults /\ UNCHANGED stripeVars /\ Goto(t, "mark_find")
  /\ UNCHANGED <<orderVars, payout>>

CreateTransfer(t) ==
  /\ pc[t] = "transfer"
  /\ \/ /\ key = 0 /\ NewTransfer
        /\ pc' = [pc EXCEPT ![t] = "mark_find"]
        /\ job' = [job EXCEPT ![t].id = key']
     \/ /\ key # 0 /\ UNCHANGED stripeVars
        /\ pc' = [pc EXCEPT ![t] = "mark_find"]
        /\ job' = [job EXCEPT ![t].id = key]
     \/ "lost" \in Faults /\ key = 0 /\ NewTransfer /\ Goto(t, "park_find")
     \/ "down" \in Faults /\ UNCHANGED stripeVars /\ Goto(t, "park_find")
  /\ UNCHANGED <<orderVars, payout>>

\* markPayoutPaid: a row that is paid already is reported, and left alone.
FindBeforeMark(t) ==
  /\ pc[t] = "mark_find"
  /\ \/ payout.state = "paid" /\ AfterRelease(t)
     \/ payout.state # "paid" /\ Look(t, "mark")
  /\ UNCHANGED <<orderVars, payout, stripeVars>>

\* The upsert names only the order.  A row inserted since the read may make it
\* an update, or a P2002 that counts as already paid.
MarkPayoutPaid(t) ==
  /\ pc[t] = "mark"
  /\ \/ /\ payout' = [state |-> "paid", attempts |-> Bump(job[t].saw.attempts),
                      due |-> FALSE, transfer |-> job[t].id]
        /\ Transition(t, "COMPLETED")
     \/ /\ job[t].saw.state = "none" /\ payout.state # "none"
        /\ AfterRelease(t) /\ UNCHANGED payout
  /\ UNCHANGED <<orderVars, stripeVars>>

FindBeforePark(t) ==
  /\ pc[t] = "park_find"
  /\ Look(t, "park")
  /\ UNCHANGED <<orderVars, payout, stripeVars>>

\* planRetry: the attempt that just failed, whether it was the last, and whether
\* another is scheduled.
PlanRetryPastCap(row) ==
  [row EXCEPT !.attempts = Bump(@), !.state = "pending", !.due = TRUE]

PlanRetryNeverFails(row) ==
  LET n == Bump(row.attempts)
  IN [row EXCEPT !.attempts = n, !.due = n < MaxAttempts, !.state = "pending"]

PlanRetry(row) ==
  LET n == Bump(row.attempts)
  IN IF n < MaxAttempts
     THEN [row EXCEPT !.attempts = n, !.due = TRUE, !.state = "pending"]
     ELSE [row EXCEPT !.attempts = n, !.due = FALSE, !.state = "failed"]

\* parkPayout: upserted from the row it read; the transfer id is never touched.
ParkPayout(t) ==
  /\ pc[t] = "park"
  /\ payout' = [PlanRetry(job[t].saw) EXCEPT !.transfer = payout.transfer]
  /\ AfterRelease(t)
  /\ UNCHANGED <<orderVars, stripeVars>>

-----------------------------------------------------------------------------
\* The customer, the hourly cron, and the admin who resolves a dispute.

Approve(t) ==
  /\ Start(t, "read", Job("approve", "APPROVED"))
  /\ UNCHANGED <<orderVars, payout, stripeVars>>

\* A batch: the order was SUBMITTED when the cron listed it.
AutoApproveAnyOverdue(t) ==
  /\ overdue
  /\ Start(t, "read", Job("autoApprove", "APPROVED"))
  /\ UNCHANGED <<orderVars, payout, stripeVars>>

AutoApprove(t) ==
  /\ status = "SUBMITTED" /\ overdue
  /\ Start(t, "read", Job("autoApprove", "APPROVED"))
  /\ UNCHANGED <<orderVars, payout, stripeVars>>

Dispute(t) ==
  /\ Start(t, "read", Job("dispute", "DISPUTED"))
  /\ UNCHANGED <<orderVars, payout, stripeVars>>

\* The upsert creates the row once and never touches it again.
WriteDispute(t) ==
  /\ pc[t] = "dispute_row"
  /\ dispute' = IF dispute = "none" THEN "open" ELSE dispute
  /\ Return(t)
  /\ UNCHANGED <<status, overdue, onboarded, payout, stripeVars>>

ResolveUndisputed(t) ==
  /\ Start(t, "refund", Job("resolveCustomer", "REFUNDED"))
  /\ UNCHANGED <<orderVars, payout, stripeVars>>

\* A zero percentage refunds nothing.
ResolveCustomer(t) ==
  /\ status = "DISPUTED"
  /\ \E label \in {"refund", "read"} :
       Start(t, label, Job("resolveCustomer", "REFUNDED"))
  /\ UNCHANGED <<orderVars, payout, stripeVars>>

RefundDispute(t) ==
  /\ pc[t] = "refund"
  /\ refunded' = TRUE
  /\ Transition(t, "REFUNDED")
  /\ UNCHANGED <<orderVars, payout, sent, failed, key, reported, bank>>

ResolveInspector(t) ==
  /\ status = "DISPUTED"
  /\ Start(t, "read", Job("resolveInspector", "APPROVED"))
  /\ UNCHANGED <<orderVars, payout, stripeVars>>

\* closeDispute: by orderId alone, and an error is only logged.
CloseDispute(t) ==
  /\ pc[t] = "close"
  /\ dispute' = IF dispute = "none" THEN "none"
                ELSE IF job[t].op = "resolveCustomer" THEN "customer" ELSE "inspector"
  /\ Return(t)
  /\ UNCHANGED <<status, overdue, onboarded, payout, stripeVars>>

-----------------------------------------------------------------------------
\* The payout queue: the cron, and two buttons of the operator.

RetryStuckPayouts(t) ==
  /\ payout.state \in {"pending", "failed"} /\ payout.due
  /\ payout.attempts < MaxAttempts
  /\ Start(t, "order", Job("retryStuckPayouts", "COMPLETED"))
  /\ UNCHANGED <<orderVars, payout, stripeVars>>

AdminRetryPayout(t) ==
  /\ payout.state \in {"pending", "failed"}
  /\ Start(t, "reset", Job("adminRetryPayout", "COMPLETED"))
  /\ UNCHANGED <<orderVars, payout, stripeVars>>

ResetAttempts(t) ==
  /\ pc[t] = "reset"
  /\ payout' = [payout EXCEPT !.attempts = 0, !.due = TRUE]
  /\ Goto(t, "order")
  /\ UNCHANGED <<orderVars, stripeVars>>

\* The operator wires the money of a row shown unpaid, and records it.
AdminMarkPayoutPaid(t) ==
  /\ payout.state # "none"
  /\ Start(t, "settle", Job("adminMarkPayoutPaid", "COMPLETED"))
  /\ bank' = (bank \/ payout.state # "paid")
  /\ UNCHANGED <<orderVars, payout, sent, failed, key, reported, refunded>>

SettleByHandAsSettled(t) ==
  /\ pc[t] = "settle"
  /\ payout' = [payout EXCEPT !.state = "settled", !.due = FALSE]
  /\ Transition(t, "COMPLETED")
  /\ UNCHANGED <<orderVars, stripeVars>>

SettleByHand(t) ==
  /\ pc[t] = "settle"
  /\ payout' = [payout EXCEPT !.state = "paid", !.due = FALSE]
  /\ Transition(t, "COMPLETED")
  /\ UNCHANGED <<orderVars, stripeVars>>

-----------------------------------------------------------------------------
\* Transfer webhooks.  A row that does not carry the transfer's id is not found,
\* and the event is spent all the same.  One delivery at a time (WebhookClaim);
\* a handler that dies before the id is freed leaves the event to come again.

FailTransfer(t) ==
  \E n \in failed \ reported :
    /\ \/ /\ payout.transfer = n
          /\ \A u \in Tasks : job[u].op # "failTransfer"
          /\ Start(t, "free", [Job("failTransfer", "COMPLETED") EXCEPT !.id = n])
          /\ UNCHANGED reported
       \/ /\ payout.transfer # n
          /\ pc[t] = "idle" /\ "failTransfer" \in Handlers
          /\ reported' = reported \cup {n} /\ UNCHANGED taskVars
    /\ UNCHANGED <<orderVars, payout, sent, failed, key, bank, refunded>>

FreeTransferId(t) ==
  /\ pc[t] = "free"
  /\ payout' = [payout EXCEPT !.transfer = 0]
  /\ reported' = reported \cup {job[t].id}
  /\ Goto(t, "park_find")
  /\ UNCHANGED <<orderVars, sent, failed, key, bank, refunded>>

ConfirmTransfer(t) ==
  /\ payout.transfer \in sent /\ payout.state # "paid"
  /\ Start(t, "confirm", Job("confirmTransfer", "COMPLETED"))
  /\ UNCHANGED <<orderVars, payout, stripeVars>>

WriteConfirmed(t) ==
  /\ pc[t] = "confirm"
  /\ payout' = [payout EXCEPT !.state = "paid"]
  /\ Return(t)
  /\ UNCHANGED <<orderVars, stripeVars>>

-----------------------------------------------------------------------------
\* The world: the review period ends, onboarding moves (account.updated), a
\* transfer comes back, Stripe forgets a key, the process dies.

ReviewEnds ==
  /\ ~overdue
  /\ overdue' = TRUE
  /\ UNCHANGED <<status, dispute, onboarded, payout, stripeVars, taskVars>>

AccountUpdated ==
  /\ onboarded' = ~onboarded
  /\ UNCHANGED <<status, overdue, dispute, payout, stripeVars, taskVars>>

TransferComesBack ==
  /\ "reversed" \in Faults
  /\ \E n \in sent \ failed : failed' = failed \cup {n}
  /\ UNCHANGED <<orderVars, payout, sent, key, reported, bank, refunded, taskVars>>

KeyExpires ==
  /\ "expiry" \in Faults /\ key # 0
  /\ key' = 0
  /\ UNCHANGED <<orderVars, payout, sent, failed, reported, bank, refunded, taskVars>>

Crash(t) ==
  /\ "crash" \in Faults /\ pc[t] # "idle"
  /\ Return(t)
  /\ UNCHANGED <<orderVars, payout, stripeVars>>

Step(t) ==
  \/ TransitionRead(t) \/ TransitionWrite(t)
  \/ ReadOrder(t) \/ SkipPayout(t) \/ ReadPayout(t) \/ ReadProfile(t)
  \/ CreateTransfer(t) \/ FindBeforeMark(t) \/ MarkPayoutPaid(t)
  \/ FindBeforePark(t) \/ ParkPayout(t)
  \/ WriteDispute(t) \/ RefundDispute(t) \/ CloseDispute(t)
  \/ ResetAttempts(t) \/ SettleByHand(t) \/ FreeTransferId(t) \/ WriteConfirmed(t)

StartHandler(t) ==
  \/ Approve(t) \/ AutoApprove(t) \/ Dispute(t)
  \/ ResolveCustomer(t) \/ ResolveInspector(t)
  \/ RetryStuckPayouts(t) \/ AdminRetryPayout(t) \/ AdminMarkPayoutPaid(t)
  \/ FailTransfer(t) \/ ConfirmTransfer(t)

World == ReviewEnds \/ AccountUpdated \/ TransferComesBack \/ KeyExpires

Next ==
  \/ \E t \in Tasks : Step(t) \/ StartHandler(t) \/ Crash(t)
  \/ World

Spec == Init /\ [][Next]_vars

\* A handler that runs goes on, the payout retry comes round for ever and may find
\* every task busy for a while, and the operator stops resetting the attempts.
LiveSpec ==
  /\ Spec
  /\ \A t \in Tasks : WF_vars(Step(t)) /\ SF_vars(RetryStuckPayouts(t))
  /\ <>[][\A t \in Tasks : ~ResetAttempts(t)]_vars

-----------------------------------------------------------------------------
\* Whether an amount is with the inspector: a transfer that stayed, or the bank.
Held == sent \ failed

\* "two concurrent releases of the same payout pay the inspector once" (the key
\* of createTransfer): through Stripe, and by hand after that, once.
NeverPaidTwice == Cardinality(Held) + (IF bank THEN 1 ELSE 0) <= 1

\* A payout the ledger calls paid is money the inspector has, or whose return we
\* have yet to hear of or to record (markPayoutPaid, confirmTransfer, failTransfer:
\* "money is owed and it is no longer moving").
PaidMeansMoved ==
  payout.state = "paid"
    => \/ Held # {} \/ bank
       \/ failed \ reported # {}
       \/ \E t \in Tasks : job[t].op = "failTransfer"

\* An order is closed as COMPLETED only after its payout was sent
\* (releasePayout, adminMarkPayoutPaid): no race closes it unpaid.
CompletedWasPaid == status = "COMPLETED" => sent # {} \/ bank

\* A row that names a next attempt is one the cron's query selects: never past
\* the cap and silently owed (planRetry, retryStuckPayouts).
DueIsEligible ==
  payout.state \in {"pending", "failed"} /\ payout.due
    => payout.attempts < MaxAttempts

\* "Money that fails becomes a task": with no handler running, what an approved
\* order owes is paid, in the retry queue, or failed and before an operator.
OwedIsTracked ==
  (\A t \in Tasks : pc[t] = "idle") /\ status \in {"APPROVED", "COMPLETED"}
    => \/ payout.state \in {"paid", "failed"}
       \/ payout.state = "pending" /\ payout.due

\* A disputed order is approved by its customer or by the admin, never by the
\* passing of time (autoApproveOverdue: "SUBMITTED orders past autoApproveAt").
DisputeEndsByDecision ==
  [][status = "DISPUTED" /\ status' = "APPROVED"
       => \E t \in Tasks : job[t].op \in {"approve", "resolveInspector"}]_vars

\* What the customer got back was not paid out too (resolveDispute, approve).
NotRefundedAndPaid == ~(refunded /\ Held # {})

\* What was decided is done once, for one of the two: it is tracked until then.
OneIsPaid == OwedIsTracked /\ NotRefundedAndPaid

\* What an approved order owes is paid in the end, or failed at the cap and
\* handed to an operator (retryStuckPayouts).
OwedIsResolved == status = "APPROVED" ~> payout.state \in {"paid", "failed"}
=============================================================================
