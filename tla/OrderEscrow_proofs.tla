------------------------ MODULE OrderEscrow_proofs ------------------------
(***************************************************************************)
(* The theorems of OrderEscrow, for any number of concurrent handlers and   *)
(* inspectors, any amounts, any set of handlers and any set of faults; the  *)
(* last one for the handlers and faults of the third way of MCEscrow.       *)
(***************************************************************************)
EXTENDS MCEscrow, FiniteSetTheorems, TLAPS

Jobs == [op : HandlerNames \cup {"none"}, by : Inspectors \cup {NoOne},
         to : Statuses, reason : Reasons, seen : Statuses]

\* The part of TypeOK about the tasks, and the part about everything else.
LocalsOK == pc \in [Tasks -> Labels] /\ job \in [Tasks -> Jobs]

SharedOK ==
  /\ status \in Statuses
  /\ inspector \in Inspectors \cup {NoOne}
  /\ search \in {"none", "open", "over"} /\ startBy \in {"none", "open", "over"}
  /\ contacted \in BOOLEAN
  /\ payment \in PaymentStatuses
  /\ intent \in IntentStates
  /\ events \subseteq {"held", "failed", "captured", "canceled", "refunded"}
  /\ refunds \subseteq Reasons
  /\ returned \in 0 .. Total
  /\ refundRow \in [Reasons -> {"none", "succeeded", "parked"}]

-----------------------------------------------------------------------------
\* TypeOK is those two parts and nothing else.
LEMMA TypeParts == TypeOK <=> SharedOK /\ LocalsOK
  BY DEF TypeOK, SharedOK, LocalsOK, Jobs

\* Constant jobs: the locals a handler starts with, and those of an idle task.
LEMMA JobTyped ==
  ASSUME NEW op \in HandlerNames, NEW by \in Inspectors \cup {NoOne},
         NEW to \in Statuses, NEW reason \in Reasons
  PROVE  /\ Job(op, by, to, reason) \in Jobs
         /\ NoJob \in Jobs
  BY DEF Job, NoJob, Jobs, Statuses, Reasons

\* The three ways a task moves keep the locals in their types.
LEMMA MovesTyped ==
  ASSUME LocalsOK, NEW t \in Tasks
  PROVE  /\ \A l \in Labels : Goto(t, l) => LocalsOK'
         /\ Return(t) => LocalsOK'
         /\ \A s \in Statuses : Transition(t, s) => LocalsOK'
<1>1. ASSUME NEW l \in Labels, Goto(t, l) PROVE LocalsOK'
  BY <1>1 DEF LocalsOK, Goto
<1>2. ASSUME Return(t) PROVE LocalsOK'
  <2>1. NoJob \in Jobs
    BY DEF NoJob, Job, Jobs, Statuses, Reasons
  <2> QED BY <1>2, <2>1 DEF LocalsOK, Return, Labels
<1>3. ASSUME NEW s \in Statuses, Transition(t, s) PROVE LocalsOK'
  BY <1>3 DEF LocalsOK, Transition, Labels, Jobs
<1> QED BY <1>1, <1>2, <1>3

\* What a handler does when one of its callees returns is one of those moves.
LEMMA ReturnsTyped ==
  ASSUME LocalsOK, NEW t \in Tasks
  PROVE  /\ AfterTransition(t) => LocalsOK'
         /\ AfterSettle(t) => LocalsOK'
         /\ AfterCapture(t) => LocalsOK'
         /\ \A l \in Labels : CaptureFails(t, l) => LocalsOK'
<1>1. AfterTransition(t) => LocalsOK'
  BY MovesTyped DEF AfterTransition, Labels, Statuses
<1>2. AfterSettle(t) => LocalsOK'
  BY MovesTyped DEF AfterSettle, Statuses
<1>3. AfterCapture(t) => LocalsOK'
  BY MovesTyped DEF AfterCapture, Statuses
<1>4. ASSUME NEW l \in Labels, CaptureFails(t, l) PROVE LocalsOK'
  BY <1>4, MovesTyped DEF CaptureFails
<1> QED BY <1>1, <1>2, <1>3, <1>4

LEMMA StartTyped ==
  ASSUME LocalsOK, NEW t \in Tasks, NEW l \in Labels, NEW j \in Jobs,
         Start(t, l, j)
  PROVE  LocalsOK'
  BY DEF LocalsOK, Start

-----------------------------------------------------------------------------
\* The initial state has the declared types.
LEMMA TypeInit == Init => TypeOK
<1> SUFFICES ASSUME Init PROVE SharedOK /\ LocalsOK
  BY TypeParts
<1>1. SharedOK
  <2>1. intent \in IntentStates
    BY FirstIntentsAssumption DEF Init, IntentStates
  <2>2. returned \in 0 .. Total
    BY AmountsAssumption DEF Init
  <2>3. refundRow \in [Reasons -> {"none", "succeeded", "parked"}]
    BY DEF Init
  <2> QED BY <2>1, <2>2, <2>3 DEF Init, SharedOK, Statuses, PaymentStatuses
<1>2. NoJob \in Jobs
  BY DEF NoJob, Job, Jobs, Statuses, Reasons
<1>3. LocalsOK
  BY <1>2 DEF Init, LocalsOK, Labels
<1> QED BY <1>1, <1>3

\* A refund under a reason not used before fits in what is left of the total.
LEMMA RefundTyped ==
  ASSUME SharedOK, NEW r \in Reasons, StripeRefunds(r)
  PROVE  /\ intent' \in IntentStates /\ refunds' \subseteq Reasons
         /\ returned' \in 0 .. Total
         /\ events' \subseteq {"held", "failed", "captured", "canceled", "refunded"}
<1>1. Share[r] \in 0 .. Total /\ Total \in Nat
  BY AmountsAssumption
<1> QED BY <1>1 DEF SharedOK, StripeRefunds

\* Every step inside a running handler keeps the types.
LEMMA TypeStep ==
  ASSUME TypeOK, NEW t \in Tasks, Step(t)
  PROVE  TypeOK'
<1> SharedOK /\ LocalsOK
  BY TypeParts
<1> SUFFICES SharedOK' /\ LocalsOK'
  BY TypeParts DEF TypeOK, SharedOK, LocalsOK, Jobs
<1> job[t] \in Jobs
  BY DEF LocalsOK
<1> job[t].to \in Statuses /\ job[t].reason \in Reasons
    /\ job[t].by \in Inspectors \cup {NoOne}
  BY DEF Jobs
<1> USE DEF orderVars, stripeVars, ledgerVars
<1>1. CASE TransitionRead(t)
  <2>1. LocalsOK'
    BY <1>1, MovesTyped, ReturnsTyped DEF TransitionRead, Labels
  <2> QED BY <1>1, <2>1 DEF TransitionRead, SharedOK
<1>2. CASE TransitionWrite(t)
  <2>1. LocalsOK'
    BY <1>2, ReturnsTyped DEF TransitionWrite
  <2> QED BY <1>2, <2>1 DEF TransitionWrite, SharedOK
<1>3. CASE SettleRefund(t)
  <2>1. LocalsOK'
    BY <1>3, MovesTyped, ReturnsTyped DEF SettleRefund, Labels
  <2> QED BY <1>3, <2>1 DEF SettleRefund, SharedOK
<1>4. CASE CancelIntent(t)
  <2>1. LocalsOK'
    BY <1>4, MovesTyped, ReturnsTyped DEF CancelIntent, ReleaseFails, Labels
  <2> QED BY <1>4, <2>1 DEF CancelIntent, SharedOK, IntentStates
<1>5. CASE MarkReleased(t)
  <2>1. LocalsOK'
    BY <1>5, ReturnsTyped DEF MarkReleased
  <2> QED BY <1>5, <2>1 DEF MarkReleased, SharedOK, PaymentStatuses
<1>6. CASE CreateRefund(t)
  <2>1. LocalsOK'
    BY <1>6, MovesTyped, ReturnsTyped DEF CreateRefund, Labels
  <2>2. refundRow' \in [Reasons -> {"none", "succeeded", "parked"}]
    BY <1>6 DEF CreateRefund, ParkRefund, SharedOK
  <2> QED BY <1>6, <2>1, <2>2, RefundTyped DEF CreateRefund, SharedOK
<1>7. CASE RecordRefund(t)
  <2>1. LocalsOK'
    BY <1>7, MovesTyped DEF RecordRefund, Labels
  <2> QED BY <1>7, <2>1 DEF RecordRefund, SharedOK
<1>8. CASE MarkRefunded(t)
  <2>1. LocalsOK'
    BY <1>8, ReturnsTyped DEF MarkRefunded
  <2> QED BY <1>8, <2>1 DEF MarkRefunded, SharedOK, PaymentStatuses
<1>9. CASE FindPayment(t)
  <2>1. LocalsOK'
    BY <1>9, MovesTyped, ReturnsTyped DEF FindPayment, Labels
  <2> QED BY <1>9, <2>1 DEF FindPayment, SharedOK
<1>10. CASE CaptureIntent(t)
  <2>1. LocalsOK'
    BY <1>10, MovesTyped, ReturnsTyped DEF CaptureIntent, Labels
  <2> QED BY <1>10, <2>1 DEF CaptureIntent, SharedOK, IntentStates
<1>11. CASE MarkCaptured(t)
  <2>1. LocalsOK'
    BY <1>11, ReturnsTyped DEF MarkCaptured
  <2> QED BY <1>11, <2>1 DEF MarkCaptured, SharedOK, PaymentStatuses
<1>12. CASE ClaimOrder(t)
  <2>1. LocalsOK'
    BY <1>12, MovesTyped DEF ClaimOrder, Labels
  <2> QED BY <1>12, <2>1 DEF ClaimOrder, SharedOK
<1>13. CASE UndoClaim(t)
  <2>1. LocalsOK'
    BY <1>13, MovesTyped DEF UndoClaim
  <2> QED BY <1>13, <2>1 DEF UndoClaim, ReleaseClaim, SharedOK
<1>14. CASE AbortClaim(t)
  <2>1. LocalsOK'
    BY <1>14, MovesTyped DEF AbortClaim, Labels
  <2> QED BY <1>14, <2>1 DEF AbortClaim, ReleaseClaim, SharedOK
<1>15. CASE DispatchAfterPaid(t)
  <2>1. LocalsOK'
    BY <1>15, MovesTyped DEF DispatchAfterPaid, Statuses
  <2> QED BY <1>15, <2>1 DEF DispatchAfterPaid, SharedOK
<1>16. CASE AdmitOrder(t)
  <2>1. LocalsOK'
    BY <1>16, MovesTyped DEF AdmitOrder, Statuses, Labels
  <2> QED BY <1>16, <2>1 DEF AdmitOrder, SharedOK
<1>17. CASE OpenSearchWindow(t)
  <2>1. LocalsOK'
    BY <1>17, MovesTyped DEF OpenSearchWindow, Statuses
  <2> QED BY <1>17, <2>1 DEF OpenSearchWindow, SharedOK
<1>18. CASE CloseOrder(t)
  <2>1. LocalsOK'
    BY <1>18, MovesTyped DEF CloseOrder, Statuses
  <2> QED BY <1>18, <2>1 DEF CloseOrder, SharedOK
<1> QED
  BY <1>1, <1>2, <1>3, <1>4, <1>5, <1>6, <1>7, <1>8, <1>9, <1>10, <1>11,
     <1>12, <1>13, <1>14, <1>15, <1>16, <1>17, <1>18 DEF Step

\* Every request, cron tick or webhook that starts keeps the types.
LEMMA TypeStart ==
  ASSUME TypeOK, NEW t \in Tasks, Request(t) \/ Cron(t) \/ Webhook(t)
  PROVE  TypeOK'
<1> SharedOK /\ LocalsOK
  BY TypeParts
<1> SUFFICES SharedOK' /\ LocalsOK'
  BY TypeParts DEF TypeOK, SharedOK, LocalsOK, Jobs
<1> USE DEF orderVars, stripeVars, ledgerVars
<1> DEFINE Started == \E l \in Labels, j \in Jobs : Start(t, l, j)
<1>1. Started => LocalsOK'
  BY StartTyped
<1>2. \A op \in HandlerNames, by \in Inspectors \cup {NoOne}, to \in Statuses,
         reason \in Reasons : Job(op, by, to, reason) \in Jobs
  BY JobTyped
<1> HIDE DEF Started
<1>3. ASSUME NEW i \in Inspectors, AcceptOffer(t, i) PROVE SharedOK' /\ Started
  BY <1>3, <1>2 DEF AcceptOffer, SharedOK, Started, Labels, HandlerNames, Statuses, Reasons
<1>4. ASSUME NEW i \in Inspectors, AdminAssign(t, i) PROVE SharedOK' /\ Started
  <2>1. Job("adminAssign", i, "ASSIGNED", "capture_failed") \in Jobs
    BY <1>2 DEF HandlerNames, Statuses, Reasons
  <2>2. status \in Statuses
    BY DEF SharedOK
  <2>3. [Job("adminAssign", i, "ASSIGNED", "capture_failed") EXCEPT !.seen = status] \in Jobs
    BY <2>1, <2>2 DEF Jobs
  <2> QED BY <1>4, <2>3 DEF AdminAssign, SharedOK, Started, Labels
<1>5. ASSUME NEW op \in HandlerNames, NEW from, NEW reason \in Reasons,
             ClaimCancelled(t, op, from, reason)
      PROVE  SharedOK' /\ Started
  <2>1. Job(op, NoOne, "CANCELLED", reason) \in Jobs
    BY <1>2 DEF Statuses
  <2> QED BY <1>5, <2>1 DEF ClaimCancelled, SharedOK, Started, Labels, Statuses
<1>6. CASE Request(t)
  <2>1. Cancel(t) => SharedOK' /\ Started
    BY <1>2 DEF Cancel, SharedOK, Started, Labels, HandlerNames, Statuses, Reasons
  <2>2. AdminCancel(t) => SharedOK' /\ Started
    BY <1>2 DEF AdminCancel, SharedOK, Started, Labels, HandlerNames, Statuses, Reasons
  <2>3. DeclineByInspector(t) => SharedOK' /\ Started
    BY <1>5 DEF DeclineByInspector, HandlerNames, Reasons
  <2>4. OwnerUnreachable(t) => SharedOK' /\ Started
    BY <1>5 DEF OwnerUnreachable, HandlerNames, Reasons
  <2>5. ASSUME NEW to \in {"EN_ROUTE", "IN_PROGRESS"}, UpdateStatus(t, to)
        PROVE  SharedOK' /\ Started
    BY <2>5, <1>2 DEF UpdateStatus, SharedOK, Started, Labels, HandlerNames, Statuses, Reasons
  <2>6. SubmitReport(t) => SharedOK' /\ Started
    BY <1>2 DEF SubmitReport, SharedOK, Started, Labels, HandlerNames, Statuses, Reasons
  <2>7. DispatchFindsNobody(t) => SharedOK' /\ Started
    BY <1>2 DEF DispatchFindsNobody, SharedOK, Started, Labels, HandlerNames, Statuses, Reasons
  <2> QED BY <1>1, <1>3, <1>4, <1>6, <2>1, <2>2, <2>3, <2>4, <2>5, <2>6, <2>7 DEF Request
<1>7. AuthorizeOrderPayment(t) => SharedOK' /\ Started
  BY <1>2 DEF AuthorizeOrderPayment, SharedOK, Started, Labels, HandlerNames,
              Statuses, Reasons, PaymentStatuses
<1>8. SettleOrderPayment(t) => SharedOK' /\ Started
  BY <1>2 DEF SettleOrderPayment, SharedOK, Started, Labels, HandlerNames,
              Statuses, Reasons, PaymentStatuses
<1>9. CancelOrderPayment(t) => SharedOK' /\ Started
  BY <1>2 DEF CancelOrderPayment, SharedOK, Started, Labels, HandlerNames,
              Statuses, Reasons, PaymentStatuses
<1>10. CASE Webhook(t)
  BY <1>1, <1>7, <1>8, <1>9, <1>10 DEF Webhook
<1>11. CASE Cron(t)
  <2>1. ExpireUnfilledSearches(t) => SharedOK' /\ Started
    BY <1>5 DEF ExpireUnfilledSearches, HandlerNames, Reasons
  <2>2. SweepAbandoned(t) => SharedOK' /\ Started
    BY <1>5 DEF SweepAbandoned, HandlerNames, Reasons
  <2>3. ReconcileStranded(t) => SharedOK' /\ Started
    BY <1>2 DEF ReconcileStranded, SharedOK, Started, Labels, HandlerNames, Statuses, Reasons
  <2>4. ReconcileCanceled(t) => SharedOK' /\ Started
    BY <1>2 DEF ReconcileCanceled, SharedOK, Started, Labels, HandlerNames, Statuses,
                Reasons, PaymentStatuses
  <2> QED BY <1>1, <1>7, <1>8, <1>9, <1>11, <2>1, <2>2, <2>3, <2>4
          DEF Cron, ReconcileWaiting
<1> QED BY <1>6, <1>10, <1>11

\* The steps no task takes: the environment, and the one-statement handlers.
LEMMA TypeOther ==
  ASSUME TypeOK, Environment \/ OwnerReached \/ PaymentFailedEvent
                 \/ ChargeRefundedEvent \/ UNCHANGED vars
  PROVE  TypeOK'
<1> SUFFICES SharedOK' /\ LocalsOK'
  BY TypeParts DEF TypeOK, SharedOK, LocalsOK, Jobs
<1> USE DEF orderVars, stripeVars, ledgerVars, taskVars, LocalsOK
<1> SharedOK /\ LocalsOK
  BY TypeParts
<1>1. CASE Environment
  BY <1>1 DEF Environment, Confirm, DeclineCard, HoldLapses, SearchWindowCloses,
              StartDeadlinePasses, SharedOK, IntentStates
<1>2. CASE OwnerReached
  BY <1>2 DEF OwnerReached, SharedOK
<1>3. CASE PaymentFailedEvent
  BY <1>3 DEF PaymentFailedEvent, SharedOK, PaymentStatuses
<1>4. CASE ChargeRefundedEvent
  BY <1>4 DEF ChargeRefundedEvent, SharedOK, PaymentStatuses
<1>5. CASE UNCHANGED vars
  BY <1>5 DEF vars, SharedOK
<1> QED BY <1>1, <1>2, <1>3, <1>4, <1>5

LEMMA TypeNext == TypeOK /\ [Next]_vars => TypeOK'
<1> SUFFICES ASSUME TypeOK, [Next]_vars PROVE TypeOK'
  OBVIOUS
<1>1. ASSUME NEW t \in Tasks, Crash(t) PROVE TypeOK'
  <2>1. SharedOK /\ LocalsOK
    BY TypeParts
  <2>2. LocalsOK'
    BY <1>1, <2>1, MovesTyped DEF Crash
  <2>3. SharedOK'
    BY <1>1, <2>1 DEF Crash, SharedOK, orderVars, stripeVars, ledgerVars
  <2> QED BY <2>2, <2>3 DEF TypeOK, SharedOK, LocalsOK, Jobs
<1> QED BY <1>1, TypeStep, TypeStart, TypeOther DEF Next

\* Every variable keeps its declared type, whatever handlers run together.
THEOREM TypeCorrect == Spec => []TypeOK
  BY TypeInit, TypeNext, PTL DEF Spec

-----------------------------------------------------------------------------
(***************************************************************************)
(* AssignedIsCaptured and LedgerIsHonest.  Neither is inductive: a handler   *)
(* that resumes from an await acts on what it read before, so the invariant  *)
(* must say that every such belief is still true.  It is, because "captured" *)
(* and "canceled" are final at Stripe: a belief in either never goes stale,  *)
(* while a belief in a status or in a hold may, and is not relied on.        *)
(***************************************************************************)

\* What the payment row, the webhook events and the refunds say of the intent.
RecordsAgree ==
  /\ LedgerIsHonest
  /\ "captured" \in events \/ "refunded" \in events \/ refunds # {}
       => intent = "captured"
  /\ "canceled" \in events => intent = "canceled"

\* What a suspended handler believes of the intent from where it stands.
Belief(t) ==
  /\ pc[t] \in {"capture_mark", "refund_row", "refund_mark"} => intent = "captured"
  /\ pc[t] = "release_mark" => intent = "canceled"
  /\ pc[t] \in {"read", "write"} /\ job[t].to = "ASSIGNED"
       => intent = "captured" /\ payment \in Taken
  /\ pc[t] = "write" /\ job[t].to \in Working
       => intent = "captured" /\ payment \in Taken

MoneyInv ==
  TypeOK /\ RecordsAgree /\ AssignedIsCaptured /\ \A t \in Tasks : Belief(t)

\* Where a task stands after each kind of move; no other task moves with it.
LEMMA MovedTo ==
  ASSUME LocalsOK, NEW t \in Tasks
  PROVE  /\ \A l : Goto(t, l) => pc'[t] = l /\ job'[t] = job[t]
         /\ Return(t) => pc'[t] = "idle" /\ job'[t] = NoJob
         /\ \A s : Transition(t, s) =>
              /\ pc'[t] = "read" /\ job'[t].to = s
              /\ job'[t].op = job[t].op /\ job'[t].by = job[t].by
         /\ \A l, j : Start(t, l, j) => pc[t] = "idle" /\ pc'[t] = l /\ job'[t] = j
<1> job[t] \in Jobs
  BY DEF LocalsOK
<1>1. \A s : Transition(t, s) =>
         /\ pc'[t] = "read" /\ job'[t].to = s
         /\ job'[t].op = job[t].op /\ job'[t].by = job[t].by
  BY DEF LocalsOK, Transition, Jobs
<1> QED BY <1>1 DEF LocalsOK, Goto, Return, Start

LEMMA OthersStay ==
  ASSUME LocalsOK, NEW t \in Tasks, NEW u \in Tasks \ {t}
  PROVE  /\ \A l : Goto(t, l) => pc'[u] = pc[u] /\ job'[u] = job[u]
         /\ Return(t) => pc'[u] = pc[u] /\ job'[u] = job[u]
         /\ \A s : Transition(t, s) => pc'[u] = pc[u] /\ job'[u] = job[u]
         /\ \A l, j : Start(t, l, j) => pc'[u] = pc[u] /\ job'[u] = job[u]
  BY DEF LocalsOK, Goto, Return, Transition, Start

\* The same for what a handler does when one of its callees returns.
LEMMA OthersStayOnReturn ==
  ASSUME LocalsOK, NEW t \in Tasks, NEW u \in Tasks \ {t}
  PROVE  /\ AfterTransition(t) => pc'[u] = pc[u] /\ job'[u] = job[u]
         /\ AfterSettle(t) => pc'[u] = pc[u] /\ job'[u] = job[u]
         /\ AfterCapture(t) => pc'[u] = pc[u] /\ job'[u] = job[u]
         /\ \A l : CaptureFails(t, l) => pc'[u] = pc[u] /\ job'[u] = job[u]
  BY OthersStay DEF AfterTransition, AfterSettle, AfterCapture, CaptureFails

\* A step of one handler leaves the locals of every other handler alone.
LEMMA StepIsLocal ==
  ASSUME TypeOK, NEW t \in Tasks, Step(t), NEW u \in Tasks \ {t}
  PROVE  pc'[u] = pc[u] /\ job'[u] = job[u]
<1> LocalsOK
  BY TypeParts
<1> USE OthersStay, OthersStayOnReturn
<1>1. TransitionRead(t) \/ TransitionWrite(t) \/ SettleRefund(t)
      => pc'[u] = pc[u] /\ job'[u] = job[u]
  BY DEF TransitionRead, TransitionWrite, SettleRefund
<1>2. CancelIntent(t) \/ MarkReleased(t) => pc'[u] = pc[u] /\ job'[u] = job[u]
  BY DEF CancelIntent, ReleaseFails, MarkReleased
<1>3. CreateRefund(t) \/ RecordRefund(t) \/ MarkRefunded(t)
      => pc'[u] = pc[u] /\ job'[u] = job[u]
  BY DEF CreateRefund, RecordRefund, MarkRefunded
<1>4. FindPayment(t) \/ CaptureIntent(t) \/ MarkCaptured(t)
      => pc'[u] = pc[u] /\ job'[u] = job[u]
  BY DEF FindPayment, CaptureIntent, MarkCaptured
<1>5. ClaimOrder(t) \/ UndoClaim(t) \/ AbortClaim(t)
      => pc'[u] = pc[u] /\ job'[u] = job[u]
  BY DEF ClaimOrder, UndoClaim, AbortClaim
<1>6. DispatchAfterPaid(t) \/ AdmitOrder(t) \/ OpenSearchWindow(t) \/ CloseOrder(t)
      => pc'[u] = pc[u] /\ job'[u] = job[u]
  BY DEF DispatchAfterPaid, AdmitOrder, OpenSearchWindow, CloseOrder
<1> QED BY <1>1, <1>2, <1>3, <1>4, <1>5, <1>6 DEF Step

\* A handler that starts was idle, touches no other's locals, and leaves the
\* intent and what is recorded of the refunds alone.
StartsAs(t) == Request(t) \/ Cron(t) \/ Webhook(t)

LEMMA StartIsLocal ==
  ASSUME TypeOK, NEW t \in Tasks, StartsAs(t), NEW u \in Tasks \ {t}
  PROVE  pc'[u] = pc[u] /\ job'[u] = job[u]
<1> LocalsOK
  BY TypeParts
<1> USE OthersStay
<1>1. Webhook(t) => pc'[u] = pc[u] /\ job'[u] = job[u]
  BY DEF Webhook, AuthorizeOrderPayment, SettleOrderPayment, CancelOrderPayment
<1>2. Cron(t) => pc'[u] = pc[u] /\ job'[u] = job[u]
  BY <1>1 DEF Cron, ExpireUnfilledSearches, SweepAbandoned, ClaimCancelled,
         ReconcileStranded, ReconcileWaiting, ReconcileCanceled, Webhook
<1>3. Request(t) => pc'[u] = pc[u] /\ job'[u] = job[u]
  BY DEF Request, AcceptOffer, AdminAssign, Cancel, AdminCancel,
         DeclineByInspector, OwnerUnreachable, ClaimCancelled, UpdateStatus,
         SubmitReport, DispatchFindsNobody
<1> QED BY <1>1, <1>2, <1>3 DEF StartsAs

\* Captured and canceled are final at Stripe, and taken is in the ledger: the fact
\* every belief rests on.
Final == /\ intent = "captured" => intent' = "captured"
         /\ intent = "canceled" => intent' = "canceled"
         /\ payment \in Taken => payment' \in Taken

LEMMA StepKeepsFinal ==
  ASSUME MoneyInv, NEW t \in Tasks, Step(t)
  PROVE  Final
<1> USE DEF stripeVars, ledgerVars, Final, Taken
<1>1. TransitionRead(t) \/ TransitionWrite(t) \/ SettleRefund(t) => Final
  BY DEF TransitionRead, TransitionWrite, SettleRefund
<1>2. CancelIntent(t) \/ MarkReleased(t) => Final
  BY DEF CancelIntent, MarkReleased, MoneyInv, RecordsAgree, LedgerIsHonest, Belief
<1>3. CreateRefund(t) \/ RecordRefund(t) \/ MarkRefunded(t) => Final
  BY DEF CreateRefund, StripeRefunds, RecordRefund, MarkRefunded
<1>4. FindPayment(t) \/ CaptureIntent(t) \/ MarkCaptured(t) => Final
  BY DEF FindPayment, CaptureIntent, MarkCaptured
<1>5. ClaimOrder(t) \/ UndoClaim(t) \/ AbortClaim(t) => Final
  BY DEF ClaimOrder, UndoClaim, AbortClaim
<1>6. DispatchAfterPaid(t) \/ AdmitOrder(t) \/ OpenSearchWindow(t) \/ CloseOrder(t)
      => Final
  BY DEF DispatchAfterPaid, AdmitOrder, OpenSearchWindow, CloseOrder
<1> QED BY <1>1, <1>2, <1>3, <1>4, <1>5, <1>6 DEF Step

\* What is left to show of a step of t once its peers are dealt with.
LEMMA PeersBelieve ==
  ASSUME MoneyInv, NEW t \in Tasks, Final, Belief(t)',
         \A u \in Tasks \ {t} : pc'[u] = pc[u] /\ job'[u] = job[u]
  PROVE  \A u \in Tasks : Belief(u)'
<1> SUFFICES ASSUME NEW u \in Tasks \ {t} PROVE Belief(u)'
  OBVIOUS
<1> QED BY DEF MoneyInv, Belief, Final

\* A task that rests at a label that believes nothing, or reads for an
\* unassigning move, has nothing to show.
LEMMA NoBelief ==
  ASSUME NEW t \in Tasks,
         \/ pc'[t] \notin {"capture_mark", "refund_row", "refund_mark", "release_mark",
                           "read", "write"}
         \/ pc'[t] = "read" /\ job'[t].to # "ASSIGNED"
  PROVE  Belief(t)'
  BY DEF Belief

\* After transition has returned, the caller is idle, dispatching, or reading
\* again on the way to a status other than ASSIGNED.
LEMMA AfterTransitionBelieves ==
  ASSUME LocalsOK, NEW t \in Tasks, AfterTransition(t)
  PROVE  Belief(t)'
  BY MovedTo, NoBelief DEF AfterTransition

LEMMA AfterSettleBelieves ==
  ASSUME LocalsOK, NEW t \in Tasks, AfterSettle(t)
  PROVE  Belief(t)'
  BY MovedTo, NoBelief DEF AfterSettle

LEMMA CaptureFailsBelieves ==
  ASSUME LocalsOK, NEW t \in Tasks, CaptureFails(t, "undo") \/ CaptureFails(t, "abort")
  PROVE  Belief(t)'
  BY MovedTo, NoBelief DEF CaptureFails

\* The one place a belief is acquired for assigning: the money is captured.
LEMMA AfterCaptureBelieves ==
  ASSUME LocalsOK, NEW t \in Tasks, AfterCapture(t), intent' = "captured",
         payment' \in Taken
  PROVE  Belief(t)'
  BY MovedTo DEF AfterCapture, Belief

\* Every step inside a running handler keeps the money invariant.
LEMMA MoneyStep ==
  ASSUME MoneyInv, NEW t \in Tasks, Step(t)
  PROVE  MoneyInv'
<1> LocalsOK
  BY TypeParts DEF MoneyInv
<1>1. TypeOK'
  BY TypeStep DEF MoneyInv
<1>2. Final
  BY StepKeepsFinal
<1>3. \A u \in Tasks \ {t} : pc'[u] = pc[u] /\ job'[u] = job[u]
  BY StepIsLocal DEF MoneyInv
<1> SUFFICES Belief(t)' /\ RecordsAgree' /\ AssignedIsCaptured'
  BY <1>1, <1>2, <1>3, PeersBelieve DEF MoneyInv
<1> USE DEF orderVars, stripeVars, ledgerVars, Taken
<1>4. UNCHANGED <<ledgerVars, events, refunds>> => RecordsAgree'
  BY <1>2 DEF MoneyInv, RecordsAgree, LedgerIsHonest, Final
<1>5. UNCHANGED status => AssignedIsCaptured'
  BY <1>2 DEF MoneyInv, AssignedIsCaptured, Final
<1>6. CASE TransitionRead(t)
  <2>1. ASSUME Goto(t, "write"), CanTransition(status, job[t].to)
        PROVE  Belief(t)'
    <3>1. pc'[t] = "write" /\ job'[t] = job[t] /\ pc[t] = "read"
      BY <1>6, <2>1, MovedTo DEF TransitionRead
    <3>2. CASE job[t].to = "ASSIGNED"
      BY <3>1, <3>2, <1>2 DEF MoneyInv, Belief, Final
    <3>3. CASE job[t].to # "ASSIGNED" /\ job[t].to \in Working
      <4>1. CanTransition(status, job[t].to) /\ status \in Statuses
        BY <2>1 DEF MoneyInv, TypeOK
      <4>2. status \in Working
        BY <4>1, <3>3 DEF CanTransition, OrderTransitions, Working, Statuses
      <4> QED BY <4>2, <3>1, <3>3, <1>2 DEF MoneyInv, AssignedIsCaptured, Belief, Final
    <3>4. CASE job[t].to \notin Working
      BY <3>1, <3>4 DEF Belief, Working
    <3> QED BY <3>2, <3>3, <3>4
  <2>2. AfterTransition(t) => Belief(t)'
    BY AfterTransitionBelieves
  <2>3. Return(t) => Belief(t)'
    BY MovedTo, NoBelief
  <2> QED BY <1>4, <1>5, <1>6, <2>1, <2>2, <2>3 DEF TransitionRead
<1>7. CASE TransitionWrite(t)
  <2>1. AssignedIsCaptured'
    BY <1>7, <1>2 DEF TransitionWrite, MoneyInv, Belief, AssignedIsCaptured, Final
  <2> QED BY <1>4, <1>7, <2>1, AfterTransitionBelieves DEF TransitionWrite
<1>8. CASE SettleRefund(t)
  <2>1. Belief(t)'
    BY <1>8, AfterSettleBelieves, MovedTo, NoBelief DEF SettleRefund
  <2> QED BY <1>4, <1>5, <1>8, <2>1 DEF SettleRefund
<1>9. CASE CancelIntent(t)
  <2>1. Belief(t)'
    BY <1>9, AfterSettleBelieves, MovedTo DEF CancelIntent, ReleaseFails, Belief
  <2>2. RecordsAgree'
    BY <1>9, <1>2 DEF CancelIntent, MoneyInv, RecordsAgree, LedgerIsHonest, Final
  <2> QED BY <1>5, <1>9, <2>1, <2>2 DEF CancelIntent
<1>10. CASE MarkReleased(t)
  <2>1. RecordsAgree'
    BY <1>10, <1>2 DEF MarkReleased, MoneyInv, Belief, RecordsAgree, LedgerIsHonest, Final
  <2> QED BY <1>5, <1>10, <2>1, AfterSettleBelieves DEF MarkReleased
<1>11. CASE CreateRefund(t)
  <2>1. job[t].reason \in refunds => intent = "captured"
    BY DEF MoneyInv, RecordsAgree
  <2>2. Belief(t)'
    BY <1>11, <2>1, AfterSettleBelieves, MovedTo
       DEF CreateRefund, StripeRefunds, Belief
  <2>3. RecordsAgree'
    BY <1>11, <1>2 DEF CreateRefund, StripeRefunds, MoneyInv, RecordsAgree, LedgerIsHonest, Final
  <2> QED BY <1>5, <1>11, <2>2, <2>3 DEF CreateRefund
<1>12. CASE RecordRefund(t)
  <2>1. Belief(t)'
    BY <1>12, MovedTo DEF RecordRefund, MoneyInv, Belief
  <2>2. RecordsAgree'
    BY <1>12, <1>2 DEF RecordRefund, MoneyInv, RecordsAgree, LedgerIsHonest, Final
  <2> QED BY <1>5, <1>12, <2>1, <2>2 DEF RecordRefund
<1>13. CASE MarkRefunded(t)
  <2>1. RecordsAgree'
    BY <1>13, <1>2 DEF MarkRefunded, MoneyInv, Belief, RecordsAgree, LedgerIsHonest, Final
  <2> QED BY <1>5, <1>13, <2>1, AfterSettleBelieves DEF MarkRefunded
<1>14. CASE FindPayment(t)
  <2>1. payment = "succeeded" => intent' = "captured"
    BY <1>2 DEF MoneyInv, RecordsAgree, LedgerIsHonest, Final
  <2>2. Belief(t)'
    BY <1>14, <2>1, AfterCaptureBelieves, CaptureFailsBelieves, MovedTo, NoBelief
       DEF FindPayment
  <2> QED BY <1>4, <1>5, <1>14, <2>2 DEF FindPayment
<1>15. CASE CaptureIntent(t)
  <2>1. Belief(t)'
    BY <1>15, CaptureFailsBelieves, MovedTo DEF CaptureIntent, Belief
  <2>2. RecordsAgree'
    BY <1>15, <1>2 DEF CaptureIntent, MoneyInv, RecordsAgree, LedgerIsHonest, Final
  <2> QED BY <1>5, <1>15, <2>1, <2>2 DEF CaptureIntent
<1>16. CASE MarkCaptured(t)
  <2>1. intent' = "captured"
    BY <1>16, <1>2 DEF MarkCaptured, MoneyInv, Belief, Final
  <2>2. RecordsAgree'
    BY <1>16, <2>1, <1>2 DEF MarkCaptured, MoneyInv, RecordsAgree, LedgerIsHonest, Final
  <2> QED BY <1>5, <1>16, <2>1, <2>2, AfterCaptureBelieves DEF MarkCaptured
<1>17. CASE ClaimOrder(t) \/ UndoClaim(t) \/ AbortClaim(t)
  <2>1. Belief(t)'
    BY <1>17, MovedTo, NoBelief DEF ClaimOrder, UndoClaim, AbortClaim
  <2> QED BY <1>4, <1>5, <1>17, <2>1 DEF ClaimOrder, UndoClaim, AbortClaim
<1>18. CASE DispatchAfterPaid(t) \/ AdmitOrder(t) \/ OpenSearchWindow(t) \/ CloseOrder(t)
  <2>1. Belief(t)'
    BY <1>18, MovedTo, NoBelief
       DEF DispatchAfterPaid, AdmitOrder, OpenSearchWindow, CloseOrder
  <2> QED BY <1>4, <1>5, <1>18, <2>1
             DEF DispatchAfterPaid, AdmitOrder, OpenSearchWindow, CloseOrder
<1> QED
  BY <1>6, <1>7, <1>8, <1>9, <1>10, <1>11, <1>12, <1>13, <1>14, <1>15, <1>16,
     <1>17, <1>18 DEF Step

\* A request, tick or webhook that starts keeps it: a webhook writes the row only
\* from an event that says what the intent is.
LEMMA MoneyStart ==
  ASSUME MoneyInv, NEW t \in Tasks, StartsAs(t)
  PROVE  MoneyInv'
<1> LocalsOK
  BY TypeParts DEF MoneyInv
<1>1. TypeOK'
  BY TypeStart DEF MoneyInv, StartsAs
<1>2. \A u \in Tasks \ {t} : pc'[u] = pc[u] /\ job'[u] = job[u]
  BY StartIsLocal DEF MoneyInv
<1> USE DEF orderVars, stripeVars, ledgerVars, Taken, Final
<1> DEFINE Kept == Final /\ AssignedIsCaptured' /\ RecordsAgree' /\ Belief(t)'
<1>3. SUFFICES Kept
  BY <1>1, <1>2, PeersBelieve DEF MoneyInv, Final
<1>4. UNCHANGED <<status, stripeVars, ledgerVars>> => AssignedIsCaptured' /\ RecordsAgree'
  BY DEF MoneyInv, AssignedIsCaptured, RecordsAgree, LedgerIsHonest
<1>5. \A l, j : /\ Start(t, l, j)
                /\ \/ l \in {"claim", "find", "settle", "release", "admit", "close"}
                   \/ l = "read" /\ j.to # "ASSIGNED"
                => Belief(t)'
  BY MovedTo, NoBelief
<1>6. ASSUME NEW op, NEW from, NEW reason, ClaimCancelled(t, op, from, reason) PROVE Kept
  <2>1. AssignedIsCaptured' /\ RecordsAgree'
    BY <1>6 DEF ClaimCancelled, AssignedIsCaptured, Working, MoneyInv, RecordsAgree,
                LedgerIsHonest
  <2> QED BY <1>5, <1>6, <2>1 DEF ClaimCancelled
<1>7. CASE Request(t)
  <2>1. ASSUME NEW i \in Inspectors, AcceptOffer(t, i) \/ AdminAssign(t, i) PROVE Kept
    BY <2>1, <1>4, <1>5 DEF AcceptOffer, AdminAssign
  <2>2. Cancel(t) \/ AdminCancel(t) => Kept
    BY <1>4, <1>5 DEF Cancel, AdminCancel, Job
  <2>3. DeclineByInspector(t) \/ OwnerUnreachable(t) => Kept
    BY <1>6 DEF DeclineByInspector, OwnerUnreachable
  <2>4. ASSUME NEW to \in {"EN_ROUTE", "IN_PROGRESS"}, UpdateStatus(t, to) PROVE Kept
    BY <2>4, <1>4, <1>5 DEF UpdateStatus, Job
  <2>5. SubmitReport(t) \/ DispatchFindsNobody(t) => Kept
    BY <1>4, <1>5 DEF SubmitReport, DispatchFindsNobody, Job
  <2> QED BY <1>7, <2>1, <2>2, <2>3, <2>4, <2>5 DEF Request
<1>8. AuthorizeOrderPayment(t) => Kept
  BY <1>5 DEF AuthorizeOrderPayment, MoneyInv, AssignedIsCaptured, RecordsAgree, LedgerIsHonest
<1>9. SettleOrderPayment(t) => Kept
  BY <1>5 DEF SettleOrderPayment, MoneyInv, AssignedIsCaptured, RecordsAgree, LedgerIsHonest
<1>10. CancelOrderPayment(t) => Kept
  BY <1>5 DEF CancelOrderPayment, MoneyInv, AssignedIsCaptured, RecordsAgree, LedgerIsHonest
<1>11. CASE Webhook(t)
  BY <1>8, <1>9, <1>10, <1>11 DEF Webhook
<1>12. CASE Cron(t)
  <2>1. ExpireUnfilledSearches(t) \/ SweepAbandoned(t) => Kept
    BY <1>6 DEF ExpireUnfilledSearches, SweepAbandoned
  <2>2. ReconcileStranded(t) => Kept
    BY <1>4, <1>5 DEF ReconcileStranded
  <2>3. ReconcileCanceled(t) => Kept
    BY <1>5 DEF ReconcileCanceled, Job, MoneyInv, AssignedIsCaptured, RecordsAgree,
                LedgerIsHonest
  <2> QED BY <1>8, <1>9, <1>12, <2>1, <2>2, <2>3 DEF Cron, ReconcileWaiting
<1> QED BY <1>7, <1>11, <1>12 DEF StartsAs

\* The customer, the clock and the one-statement handlers keep it: a hold that
\* lapses was not captured, and charge.refunded tells of a refund of taken money.
LEMMA MoneyOther ==
  ASSUME MoneyInv, Environment \/ OwnerReached \/ PaymentFailedEvent
                   \/ ChargeRefundedEvent \/ UNCHANGED vars
  PROVE  MoneyInv'
<1>1. TypeOK'
  BY TypeOther DEF MoneyInv
<1> USE DEF orderVars, stripeVars, ledgerVars, taskVars, MoneyInv, Taken
<1>2. Final /\ UNCHANGED taskVars /\ UNCHANGED status
  <2>1. Environment => Final /\ UNCHANGED taskVars /\ UNCHANGED status
    BY DEF Environment, Confirm, DeclineCard, HoldLapses, SearchWindowCloses,
           StartDeadlinePasses, Final
  <2> QED BY <2>1 DEF OwnerReached, PaymentFailedEvent, ChargeRefundedEvent, vars, Final
<1>3. \A t \in Tasks : Belief(t)'
  BY <1>2 DEF Belief, Final
<1>4. AssignedIsCaptured'
  BY <1>2 DEF AssignedIsCaptured, Final
<1>5. RecordsAgree'
  <2>1. Environment => RecordsAgree'
    BY DEF Environment, Confirm, DeclineCard, HoldLapses, SearchWindowCloses,
           StartDeadlinePasses, RecordsAgree, LedgerIsHonest
  <2> QED BY <2>1 DEF OwnerReached, PaymentFailedEvent, ChargeRefundedEvent, vars,
                      RecordsAgree, LedgerIsHonest
<1> QED BY <1>1, <1>3, <1>4, <1>5

LEMMA MoneyInit == Init => MoneyInv
<1> SUFFICES ASSUME Init PROVE MoneyInv
  OBVIOUS
<1>1. TypeOK
  BY TypeInit
<1>2. RecordsAgree /\ AssignedIsCaptured
  BY DEF Init, RecordsAgree, LedgerIsHonest, AssignedIsCaptured, Working, Taken
<1>3. \A t \in Tasks : Belief(t)
  BY DEF Init, Belief
<1> QED BY <1>1, <1>2, <1>3 DEF MoneyInv

LEMMA MoneySteps == MoneyInv /\ [Next]_vars => MoneyInv'
<1> SUFFICES ASSUME MoneyInv, [Next]_vars PROVE MoneyInv'
  OBVIOUS
<1>1. ASSUME NEW t \in Tasks, Crash(t) PROVE MoneyInv'
  <2> LocalsOK
    BY TypeParts DEF MoneyInv
  <2>1. TypeOK'
    BY TypeNext, <1>1 DEF Next, MoneyInv
  <2>2. Belief(t)' /\ \A u \in Tasks \ {t} : pc'[u] = pc[u] /\ job'[u] = job[u]
    BY <1>1, MovedTo, OthersStay, NoBelief DEF Crash
  <2>3. Final /\ RecordsAgree' /\ AssignedIsCaptured'
    BY <1>1 DEF Crash, orderVars, stripeVars, ledgerVars, MoneyInv, RecordsAgree,
                LedgerIsHonest, AssignedIsCaptured, Final
  <2> QED BY <2>1, <2>2, <2>3, PeersBelieve DEF MoneyInv
<1> QED BY <1>1, MoneyStep, MoneyStart, MoneyOther DEF Next, StartsAs

LEMMA MoneyAlways == Spec => []MoneyInv
  BY MoneyInit, MoneySteps, PTL DEF Spec

\* An order somebody works on has been captured, whatever fails or races.
THEOREM AssignedImpliesCaptured == Spec => []AssignedIsCaptured
<1>1. MoneyInv => AssignedIsCaptured
  BY DEF MoneyInv
<1> QED BY <1>1, MoneyAlways, PTL

\* The payment row never claims more than Stripe has done.
THEOREM LedgerNeverRunsAhead == Spec => []LedgerIsHonest
<1>1. MoneyInv => LedgerIsHonest
  BY DEF MoneyInv, RecordsAgree
<1> QED BY <1>1, MoneyAlways, PTL

-----------------------------------------------------------------------------
(***************************************************************************)
(* OneClaimant.  The claim is the only write of inspectorId that needs       *)
(* inspectorId to be null, and its release is guarded on the claimant, so a  *)
(* claim in flight is never overwritten.  Inductively this needs that a      *)
(* claimant acts for a real inspector (a null would leave the order free)    *)
(* and that only claimants release.                                          *)
(***************************************************************************)
Claiming == {"claim", "find", "capture", "capture_mark", "undo", "abort"}

ClaimantIsReal(t) ==
  /\ job[t].op \in Assigning => job[t].by \in Inspectors
  /\ pc[t] \in Claiming => job[t].op \in Assigning

ClaimInv == TypeOK /\ OneClaimant /\ \A t \in Tasks : ClaimantIsReal(t)

\* A handler that returns from transition or from settling holds no claim.
LEMMA ReturnsUnclaimed ==
  ASSUME LocalsOK, NEW t \in Tasks, ClaimantIsReal(t)
  PROVE  /\ AfterTransition(t) => ~Claimed(t)' /\ ClaimantIsReal(t)'
         /\ AfterSettle(t) => ~Claimed(t)' /\ ClaimantIsReal(t)'
         /\ Return(t) => ~Claimed(t)' /\ ClaimantIsReal(t)'
         /\ \A l \in {"write", "settle", "release", "release_mark", "refund", "refund_row",
                      "refund_mark", "window"} : Goto(t, l) => ClaimantIsReal(t)'
         /\ \A l \in {"settle", "release", "release_mark", "refund", "refund_row",
                      "refund_mark", "window"} : Goto(t, l) => ~Claimed(t)'
         /\ \A s : Transition(t, s) => ClaimantIsReal(t)' /\ (s # "ASSIGNED" => ~Claimed(t)')
<1> USE DEF Claimed, ClaimantIsReal, Claiming
<1>1. Return(t) => ~Claimed(t)' /\ ClaimantIsReal(t)'
  BY MovedTo DEF NoJob, Job, Assigning
<1>2. \A s : Transition(t, s) => ClaimantIsReal(t)' /\ (s # "ASSIGNED" => ~Claimed(t)')
  BY MovedTo
<1>3. AfterSettle(t) => ~Claimed(t)' /\ ClaimantIsReal(t)'
  BY <1>1, <1>2 DEF AfterSettle
<1>4. AfterTransition(t) => ~Claimed(t)' /\ ClaimantIsReal(t)'
  BY <1>1, <1>2, MovedTo DEF AfterTransition, Assigning
<1>5. \A l \in {"write", "settle", "release", "release_mark", "refund", "refund_row",
                "refund_mark", "window"} : Goto(t, l) => ClaimantIsReal(t)'
  BY MovedTo
<1>6. \A l \in {"settle", "release", "release_mark", "refund", "refund_row",
                "refund_mark", "window"} : Goto(t, l) => ~Claimed(t)'
  BY MovedTo
<1> QED BY <1>1, <1>2, <1>3, <1>4, <1>5, <1>6

\* A step that takes no new claim and leaves inspectorId alone keeps the rest.
LEMMA NoNewClaim ==
  ASSUME ClaimInv, NEW t \in Tasks, UNCHANGED inspector,
         Claimed(t)' => Claimed(t) /\ job'[t].by = job[t].by, ClaimantIsReal(t)',
         \A u \in Tasks \ {t} : pc'[u] = pc[u] /\ job'[u] = job[u]
  PROVE  OneClaimant' /\ \A u \in Tasks : ClaimantIsReal(u)'
<1>1. \A u \in Tasks \ {t} : ClaimantIsReal(u)' /\ (Claimed(u)' <=> Claimed(u))
  BY DEF ClaimInv, ClaimantIsReal, Claimed
<1>2. OneClaimant'
  BY <1>1 DEF ClaimInv, OneClaimant
<1> QED BY <1>1, <1>2

LEMMA ClaimStep ==
  ASSUME ClaimInv, NEW t \in Tasks, Step(t)
  PROVE  ClaimInv'
<1> LocalsOK
  BY TypeParts DEF ClaimInv
<1> ClaimantIsReal(t)
  BY DEF ClaimInv
<1>1. TypeOK'
  BY TypeStep DEF ClaimInv
<1>2. \A u \in Tasks \ {t} : pc'[u] = pc[u] /\ job'[u] = job[u]
  BY StepIsLocal DEF ClaimInv
<1> USE DEF orderVars, Claiming
<1> DEFINE Keeps == UNCHANGED inspector /\ ClaimantIsReal(t)'
                    /\ (Claimed(t)' => Claimed(t) /\ job'[t].by = job[t].by)
<1>3. Keeps => ClaimInv'
  BY <1>1, <1>2, NoNewClaim DEF ClaimInv
<1>4. TransitionRead(t) => Keeps
  BY ReturnsUnclaimed, MovedTo DEF TransitionRead, Claimed
<1>5. TransitionWrite(t) \/ SettleRefund(t) \/ CancelIntent(t) \/ MarkReleased(t) => Keeps
  BY ReturnsUnclaimed DEF TransitionWrite, SettleRefund, CancelIntent, ReleaseFails, MarkReleased
<1>6. CreateRefund(t) \/ RecordRefund(t) \/ MarkRefunded(t) => Keeps
  BY ReturnsUnclaimed DEF CreateRefund, RecordRefund, MarkRefunded
<1>7. ASSUME pc[t] \in {"find", "capture", "capture_mark"},
             \/ AfterCapture(t)
             \/ CaptureFails(t, "undo") \/ CaptureFails(t, "abort")
             \/ Goto(t, "capture") \/ Goto(t, "capture_mark")
      PROVE  ClaimantIsReal(t)' /\ (Claimed(t)' => Claimed(t) /\ job'[t].by = job[t].by)
  BY <1>7, ReturnsUnclaimed, MovedTo DEF AfterCapture, CaptureFails, Claimed, ClaimantIsReal
<1>8. FindPayment(t) \/ CaptureIntent(t) \/ MarkCaptured(t) => Keeps
  BY <1>7 DEF FindPayment, CaptureIntent, MarkCaptured
<1>9. DispatchAfterPaid(t) \/ AdmitOrder(t) \/ OpenSearchWindow(t) \/ CloseOrder(t) => Keeps
  BY ReturnsUnclaimed DEF DispatchAfterPaid, AdmitOrder, OpenSearchWindow, CloseOrder
<1>10. CASE ClaimOrder(t)
  <2>1. ~Unclaimed(t) /\ UNCHANGED inspector /\ Return(t) => Keeps
    BY ReturnsUnclaimed
  <2>2. ASSUME Unclaimed(t), inspector' = job[t].by, Goto(t, "find") PROVE ClaimInv'
    <3>1. \A u \in Tasks : ~Claimed(u)
      BY <2>2, NoOneAssumption DEF Unclaimed, ClaimInv, OneClaimant, Claimed, ClaimantIsReal
    <3>2. \A u \in Tasks \ {t} : ~Claimed(u)' /\ ClaimantIsReal(u)'
      BY <3>1, <1>2 DEF Claimed, ClaimInv, ClaimantIsReal
    <3>3. pc'[t] = "find" /\ job'[t] = job[t]
      BY <2>2, MovedTo
    <3>4. ClaimantIsReal(t)' /\ inspector' = job'[t].by
      BY <1>10, <2>2, <3>3 DEF ClaimOrder, ClaimantIsReal
    <3> QED BY <1>1, <3>2, <3>4 DEF ClaimInv, OneClaimant
  <2> QED BY <1>3, <1>10, <2>1, <2>2 DEF ClaimOrder
<1>11. CASE UndoClaim(t) \/ AbortClaim(t)
  <2>1. Claimed(t)
    BY <1>11 DEF UndoClaim, AbortClaim, Claimed, ClaimantIsReal
  <2>2. ~Claimed(t)' /\ ClaimantIsReal(t)'
    BY <1>11, ReturnsUnclaimed DEF UndoClaim, AbortClaim
  <2>3. \A u \in Tasks : ~Claimed(u)' /\ ClaimantIsReal(u)'
    BY <1>2, <2>1, <2>2 DEF ClaimInv, OneClaimant, Claimed, ClaimantIsReal
  <2> QED BY <1>1, <2>3 DEF ClaimInv, OneClaimant
<1> QED BY <1>3, <1>4, <1>5, <1>6, <1>8, <1>9, <1>10, <1>11 DEF Step

\* A handler that starts acts for the inspector it names, and claims nothing yet.
LEMMA ClaimStart ==
  ASSUME ClaimInv, NEW t \in Tasks, StartsAs(t)
  PROVE  ClaimInv'
<1> LocalsOK
  BY TypeParts DEF ClaimInv
<1>1. TypeOK'
  BY TypeStart DEF ClaimInv, StartsAs
<1>2. \A u \in Tasks \ {t} : pc'[u] = pc[u] /\ job'[u] = job[u]
  BY StartIsLocal DEF ClaimInv
<1> USE DEF orderVars, Claiming
<1> DEFINE Keeps == UNCHANGED inspector /\ ClaimantIsReal(t)' /\ ~Claimed(t)'
<1>3. SUFFICES Keeps
  BY <1>1, <1>2, NoNewClaim DEF ClaimInv
<1>4. \A l, j : Start(t, l, j) /\ l \notin Claiming /\ j.op \notin Assigning
                  => ClaimantIsReal(t)' /\ ~Claimed(t)'
  BY MovedTo DEF ClaimantIsReal, Claimed
<1>5. \A j : Start(t, "claim", j) /\ j.by \in Inspectors /\ j.op \in Assigning
        => ClaimantIsReal(t)' /\ ~Claimed(t)'
  BY MovedTo DEF ClaimantIsReal, Claimed
<1>6. ASSUME NEW op, op \notin Assigning, NEW from, NEW reason,
             ClaimCancelled(t, op, from, reason)
      PROVE  Keeps
  BY <1>4, <1>6 DEF ClaimCancelled, Job
<1>7. Webhook(t) => Keeps
  BY <1>4 DEF Webhook, AuthorizeOrderPayment, SettleOrderPayment, CancelOrderPayment,
              Job, Assigning
<1>8. Cron(t) => Keeps
  BY <1>4, <1>6, <1>7 DEF Cron, ExpireUnfilledSearches, SweepAbandoned, ReconcileStranded,
              ReconcileWaiting, ReconcileCanceled, Webhook, Job, Assigning
<1>9. CASE Request(t)
  <2>1. ASSUME NEW i \in Inspectors, AcceptOffer(t, i) PROVE Keeps
    BY <2>1, <1>5 DEF AcceptOffer, Job, Assigning
  <2>2. ASSUME NEW i \in Inspectors, AdminAssign(t, i) PROVE Keeps
    BY <2>2, <1>5 DEF AdminAssign, Job, Assigning
  <2>3. Cancel(t) \/ AdminCancel(t) => Keeps
    BY <1>4 DEF Cancel, AdminCancel, Job, Assigning
  <2>4. DeclineByInspector(t) \/ OwnerUnreachable(t) => Keeps
    BY <1>6 DEF DeclineByInspector, OwnerUnreachable, Assigning
  <2>5. ASSUME NEW to \in {"EN_ROUTE", "IN_PROGRESS"}, UpdateStatus(t, to) PROVE Keeps
    BY <2>5, <1>4 DEF UpdateStatus, Job, Assigning
  <2>6. SubmitReport(t) \/ DispatchFindsNobody(t) => Keeps
    BY <1>4 DEF SubmitReport, DispatchFindsNobody, Job, Assigning
  <2> QED BY <1>9, <2>1, <2>2, <2>3, <2>4, <2>5, <2>6 DEF Request
<1> QED BY <1>7, <1>8, <1>9 DEF StartsAs

LEMMA ClaimNext == ClaimInv /\ [Next]_vars => ClaimInv'
<1> SUFFICES ASSUME ClaimInv, [Next]_vars PROVE ClaimInv'
  OBVIOUS
<1>1. TypeOK'
  BY TypeNext DEF ClaimInv
<1>2. ASSUME NEW t \in Tasks, Crash(t) PROVE ClaimInv'
  <2> LocalsOK /\ ClaimantIsReal(t)
    BY TypeParts DEF ClaimInv
  <2> QED BY <1>1, <1>2, ReturnsUnclaimed, OthersStay, NoNewClaim
             DEF Crash, orderVars, ClaimInv
<1>3. ASSUME UNCHANGED <<inspector, pc, job>> PROVE ClaimInv'
  BY <1>1, <1>3 DEF ClaimInv, OneClaimant, Claimed, ClaimantIsReal
<1>4. Environment \/ OwnerReached \/ PaymentFailedEvent \/ ChargeRefundedEvent
        \/ UNCHANGED vars => UNCHANGED <<inspector, pc, job>>
  BY DEF Environment, Confirm, DeclineCard, HoldLapses, SearchWindowCloses,
         StartDeadlinePasses, OwnerReached, PaymentFailedEvent, ChargeRefundedEvent,
         vars, orderVars, taskVars
<1> QED BY <1>2, <1>3, <1>4, ClaimStep, ClaimStart DEF Next, StartsAs

LEMMA ClaimInit == Init => ClaimInv
<1> SUFFICES ASSUME Init PROVE ClaimInv
  OBVIOUS
<1>1. \A t \in Tasks : ClaimantIsReal(t) /\ ~Claimed(t)
  BY DEF Init, ClaimantIsReal, Claimed, Claiming, NoJob, Job, Assigning
<1> QED BY <1>1, TypeInit DEF ClaimInv, OneClaimant

\* However many accept at once, and whatever fails in between, one of them holds
\* the order and the order is theirs.
THEOREM OneClaimantAlways == Spec => []OneClaimant
<1>1. ClaimInv => OneClaimant
  BY DEF ClaimInv
<1> QED BY <1>1, ClaimInit, ClaimNext, PTL DEF Spec

-----------------------------------------------------------------------------
(***************************************************************************)
(* ClaimsAgree.  Who claims before they refund meets nobody: an order is    *)
(* worked on only for an inspector whose acceptance is over, so that the    *)
(* claim that cancels it ends every other handler's say, and the money of a *)
(* search that ran out was never taken.                                     *)
(***************************************************************************)

\* The handlers whose cancellation comes after assignment, and their reasons.
LateOps == {"declineByInspector", "ownerUnreachable", "sweepAbandonedInspections"}
LateReasons == {"inspector_declined", "owner_unreachable", "inspector_no_show"}
IsLate(t) == job[t].op \in LateOps

\* The two webhooks that open the search.
Opening == {"authorizeOrderPayment", "settleOrderPayment"}

\* The third way of MCEscrow, for any tasks, amounts and inspectors: those who
\* claim to cancel give something back, nobody dies, and Stripe answers.
ClaimsOnly ==
  /\ Handlers \subseteq ClaimsHandlers
  /\ "lost" \notin Faults /\ "crash" \notin Faults
  /\ \A r \in LateReasons : Share[r] > 0

\* Where each of these handlers can stand, and what it then holds.
Answering(t) ==
  /\ job[t].op \in Assigning /\ job[t].reason = "capture_failed"
  /\ job[t].op = "adminAssign" => job[t].seen \in Pool
  /\ \/ pc[t] \in Claiming \cup {"settle", "release", "release_mark"}
     \/ pc[t] \in {"read", "write"} /\ job[t].to \in {"ASSIGNED", "CANCELLED"}
Expiring(t) ==
  /\ job[t].op = "expireUnfilledSearches" /\ job[t].reason = "search_expired"
  /\ pc[t] \in {"settle", "release", "release_mark"}
Refunding(t) ==
  /\ IsLate(t) /\ job[t].reason \in LateReasons
  /\ pc[t] \in {"settle", "refund", "refund_row", "refund_mark"}
Admitting(t) ==
  /\ job[t].op \in Opening
  /\ \/ pc[t] \in {"admit", "dispatch"}
     \/ pc[t] = "window" /\ job[t].op = "authorizeOrderPayment"
     \/ pc[t] \in {"read", "write"} /\ job[t].to \in {"PAID", "UNASSIGNED"}
Closing(t) ==
  /\ job[t].op = "cancelOrderPayment"
  /\ pc[t] = "close" \/ (pc[t] \in {"read", "write"} /\ job[t].to = "CANCELLED")
Releasing(t) == job[t].op = "stranded" /\ pc[t] \in {"release", "release_mark"}

InPlace(t) ==
  \/ pc[t] = "idle" /\ job[t] = NoJob
  \/ Answering(t) \/ Expiring(t) \/ Refunding(t)
  \/ Admitting(t) \/ Closing(t) \/ Releasing(t)

InPlaces ==
  /\ status \in {"CREATED", "ASSIGNED", "CANCELLED"} \cup Pool
  /\ \A t \in Tasks : InPlace(t)

\* An order that was taken, and that nobody works on or will again.
Shut ==
  inspector # NoOne /\ status \notin Working /\ \A t \in Tasks : ~Claimed(t)
HasRow == \E r \in Reasons : refundRow[r] # "none"

\* Money goes back on such an order only; who works has finished accepting.
RefundsShut ==
  /\ payment = "refunded" \/ "refunded" \in events => refunds # {}
  /\ \A t \in Tasks : pc[t] \in {"refund_row", "refund_mark"} => refunds # {}
  /\ refunds # {} \/ HasRow => Shut
  /\ status \in Working => inspector # NoOne /\ \A t \in Tasks : ~Claimed(t)

\* Of those who cancel after assignment one is at work, on money not yet returned.
OneReturns ==
  /\ \A t \in Tasks : IsLate(t) =>
       /\ Shut
       /\ \A u \in Tasks \ {t} : ~IsLate(u)
       /\ pc[t] \in {"settle", "refund"} => refunds = {} /\ ~HasRow /\ payment = "succeeded"
       /\ \A r \in Reasons : refundRow[r] # "none" => r = job[t].reason
  /\ \A r1, r2 \in Reasons : refundRow[r1] # "none" /\ refundRow[r2] # "none" => r1 = r2

\* Who opens or takes the order knows of its payment; before that nobody runs.
PaymentKnown ==
  /\ \/ \E t \in Tasks : job[t].op \in Opening \/ Claimed(t)
     \/ status \notin {"CREATED", "CANCELLED"}
     => payment \notin {"pending", "failed"}
  /\ intent \in {"unpaid", "auto"} =>
       /\ status = "CREATED" /\ events \subseteq {"failed"}
       /\ payment \in {"pending", "failed"} /\ search = "none"
       /\ \A t \in Tasks : pc[t] = "idle"

\* Who gives up, and who finishes a claim of a cancelled order, has met a dead hold.
GivesUp(t) ==
  \/ pc[t] = "abort"
  \/ job[t].op \in Assigning /\ pc[t] \in {"settle", "release", "release_mark"}
  \/ job[t].op \in Assigning /\ pc[t] \in {"read", "write"} /\ job[t].to = "CANCELLED"
  \/ job[t].op = "cancelOrderPayment"
HoldIsDead ==
  \A t \in Tasks : GivesUp(t) \/ (status = "CANCELLED" /\ Claimed(t))
    => intent \in {"refused", "canceled"}

\* What was held is captured for the claimant alone, who then assigns the order.
HeldForOne ==
  /\ search # "none" => "held" \in events
  /\ "held" \in events => intent \notin {"unpaid", "auto"}
  /\ \A t \in Tasks : /\ job[t].op = "authorizeOrderPayment" => "held" \in events
                      /\ job[t].op = "settleOrderPayment" => intent = "captured"
  /\ "held" \in events /\ intent = "captured" =>
       /\ inspector # NoOne
       /\ \A t \in Tasks : Claimed(t) => pc[t] \in {"capture_mark", "read", "write"}

\* A search is over when nobody is still opening it; who expires it has the order.
Opens(t) ==
  /\ job[t].op = "authorizeOrderPayment"
  /\ pc[t] \in {"read", "write"} /\ job[t].to = "PAID"
SearchEnds ==
  /\ search = "over" =>
       /\ status # "CREATED"
       /\ \A t \in Tasks : job[t].op = "authorizeOrderPayment" => pc[t] = "admit"
  /\ search = "open" /\ status = "CREATED" => \E t \in Tasks : Opens(t)
  /\ \A t \in Tasks : job[t].op = "expireUnfilledSearches" =>
       /\ status = "CANCELLED" /\ inspector = NoOne
       /\ search = "over" /\ intent # "captured"

\* A cancelled order whose money was taken has a row, or who is to write one.
Accounted ==
  status = "CANCELLED" /\ intent = "captured" =>
    HasRow \/ \E t \in Tasks : IsLate(t) /\ pc[t] \in {"settle", "refund", "refund_row"}

AgreeInv ==
  /\ MoneyInv /\ ClaimInv
  /\ InPlaces /\ RefundsShut /\ OneReturns /\ PaymentKnown
  /\ HoldIsDead /\ HeldForOne /\ SearchEnds /\ Accounted

LEMMA AgreeInit == Init => AgreeInv
<1> SUFFICES ASSUME Init PROVE AgreeInv
  OBVIOUS
<1>1. MoneyInv /\ ClaimInv
  BY MoneyInit, ClaimInit
<1>2. \A t \in Tasks : pc[t] = "idle" /\ job[t] = NoJob /\ ~Claimed(t)
  BY DEF Init, Claimed
<1>3. \A t \in Tasks : job[t].op = "none"
  BY <1>2 DEF NoJob, Job
<1>4. intent \in {"unpaid", "auto"}
  BY FirstIntentsAssumption DEF Init
<1>5. InPlaces
  BY <1>2 DEF Init, InPlaces, InPlace
<1>6. RefundsShut /\ OneReturns
  BY <1>2, <1>3 DEF Init, RefundsShut, OneReturns, HasRow, Working, IsLate, LateOps
<1>7. PaymentKnown /\ HoldIsDead /\ Accounted
  BY <1>2, <1>3, <1>4 DEF Init, PaymentKnown, HoldIsDead, GivesUp, Accounted, Opening, Assigning
<1>8. HeldForOne /\ SearchEnds
  BY <1>2, <1>3, <1>4 DEF Init, HeldForOne, SearchEnds
<1> QED BY <1>1, <1>5, <1>6, <1>7, <1>8 DEF AgreeInv

\* What the invariant is for: the three promises of a claim, and the refund row.
LEMMA AgreeHolds == AgreeInv => ClaimsHold /\ CancelledMoneyIsAccounted
<1> SUFFICES ASSUME AgreeInv PROVE ClaimsHold /\ CancelledMoneyIsAccounted
  OBVIOUS
<1>1. NoWorkAfterRefund
  BY DEF AgreeInv, RefundsShut, Shut, NoWorkAfterRefund
<1>2. RefundedUnderOneReason
  <2> DEFINE Rows == {r \in Reasons : refundRow[r] # "none"}
  <2>1. \A r1, r2 \in Rows : r1 = r2
    BY DEF AgreeInv, OneReturns
  <2>2. CASE Rows = {}
    BY <2>2, FS_EmptySet DEF RefundedUnderOneReason
  <2>3. CASE Rows # {}
    <3>1. PICK r \in Rows : Rows = {r}
      BY <2>1, <2>3
    <3>2. Cardinality(Rows) = 1
      BY <3>1, FS_Singleton
    <3> QED BY <3>2 DEF RefundedUnderOneReason
  <2> QED BY <2>2, <2>3
<1>3. ExpiredSearchHoldsNoMoney
  <2> SUFFICES ASSUME NEW t \in Tasks, pc[t] = "settle", job[t].reason = "search_expired"
               PROVE  payment # "succeeded"
    BY DEF ExpiredSearchHoldsNoMoney
  <2>1. Expiring(t)
    BY DEF AgreeInv, InPlaces, InPlace, Answering, Refunding, Admitting, Closing, Releasing,
       LateReasons
  <2>2. intent # "captured"
    BY <2>1 DEF AgreeInv, SearchEnds, Expiring
  <2> QED BY <2>2 DEF AgreeInv, MoneyInv, RecordsAgree, LedgerIsHonest, Taken
<1>4. CancelledMoneyIsAccounted
  BY DEF AgreeInv, Accounted, HasRow, CancelledMoneyIsAccounted, AllIdle
<1> QED BY <1>1, <1>2, <1>3, <1>4 DEF ClaimsHold

-----------------------------------------------------------------------------
\* A function that moves on keeps what it holds, but for where it takes the order.
LEMMA KeptOnMove ==
  ASSUME LocalsOK, NEW t \in Tasks
  PROVE  \A s : Transition(t, s) =>
           /\ pc'[t] = "read" /\ job'[t].to = s
           /\ job'[t].op = job[t].op /\ job'[t].by = job[t].by
           /\ job'[t].reason = job[t].reason /\ job'[t].seen = job[t].seen
<1> job[t] \in Jobs
  BY DEF LocalsOK
<1> QED BY DEF LocalsOK, Transition, Jobs

\* What all steps of one task have in common: the others stand where they stood.
Alone(t) == \A u \in Tasks \ {t} : pc'[u] = pc[u] /\ job'[u] = job[u]

\* A task that moves without writing: it goes on with what it holds, or returns.
Moves(t) ==
  /\ Alone(t) /\ InPlace(t)'
  /\ UNCHANGED <<status, inspector, search, payment, intent, events, refunds, refundRow>>
  /\ pc[t] # "idle"
  /\ \/ job'[t] = NoJob /\ pc'[t] = "idle"
     \/ job'[t].op = job[t].op /\ job'[t].reason = job[t].reason
  /\ Claimed(t)' => /\ Claimed(t)
                    /\ "held" \in events /\ intent = "captured"
                         => pc'[t] \in {"capture_mark", "read", "write"}
  /\ GivesUp(t)' => intent \in {"refused", "canceled"}
  /\ Opens(t) /\ status = "CREATED" => Opens(t)'
  /\ job'[t].op = "authorizeOrderPayment" => search # "over"
  /\ pc'[t] \in {"refund_row", "refund_mark"} => refunds # {}
  /\ IsLate(t) => /\ pc'[t] \in {"settle", "refund"} => pc[t] \in {"settle", "refund"}
                  /\ pc[t] \in {"settle", "refund", "refund_row"} =>
                       IsLate(t)' /\ pc'[t] \in {"refund", "refund_row"}

LEMMA MovesAgree ==
  ASSUME AgreeInv, NEW t \in Tasks, Moves(t), MoneyInv', ClaimInv'
  PROVE  AgreeInv'
<1> USE DEF Moves, Alone, AgreeInv
<1>1. InPlaces'
  BY DEF InPlaces, InPlace, Answering, Expiring, Refunding, Admitting, Closing, Releasing, IsLate
<1>2. RefundsShut'
  BY DEF RefundsShut, Shut, HasRow, Claimed
<1>3. OneReturns'
  BY DEF OneReturns, Shut, HasRow, Claimed, NoJob, Job, IsLate, LateOps
<1>4. PaymentKnown'
  BY DEF PaymentKnown, Claimed, NoJob, Job, Opening
<1>5. HoldIsDead'
  BY DEF HoldIsDead, GivesUp, Claimed
<1>6. HeldForOne'
  BY DEF HeldForOne, Claimed, NoJob, Job
<1>7. SearchEnds'
  BY DEF SearchEnds, Opens, NoJob, Job
<1>8. Accounted'
  BY DEF Accounted, HasRow, IsLate
<1> QED BY <1>1, <1>2, <1>3, <1>4, <1>5, <1>6, <1>7, <1>8

\* The steps that write nothing.
LEMMA QuietAgrees ==
  ASSUME ClaimsOnly, AgreeInv, NEW t \in Tasks,
         \/ TransitionRead(t) \/ SettleRefund(t) \/ FindPayment(t)
         \/ DispatchAfterPaid(t) \/ AdmitOrder(t) \/ CloseOrder(t)
  PROVE  Moves(t)
<1> LocalsOK
  BY TypeParts DEF AgreeInv, MoneyInv
<1>1. Alone(t)
  BY StepIsLocal DEF AgreeInv, MoneyInv, Step, Alone
<1>2. UNCHANGED <<status, inspector, search, payment, intent, events, refunds, refundRow>>
  BY DEF TransitionRead, SettleRefund, FindPayment, DispatchAfterPaid, AdmitOrder, CloseOrder,
     orderVars, stripeVars, ledgerVars
<1>3. InPlace(t)
  BY DEF AgreeInv, InPlaces
<1> USE DEF Assigning, Claiming, IsLate, LateOps, LateReasons, Opening
<1>4. CASE TransitionRead(t)
  <2>1. \/ job'[t] = job[t] /\ pc'[t] = "write" /\ CanTransition(status, job[t].to)
        \/ job'[t] = job[t] /\ pc'[t] = "dispatch" /\ job[t].op \in Opening
           /\ status = job[t].to
        \/ /\ job'[t] = NoJob /\ pc'[t] = "idle"
           /\ status = job[t].to \/ ~CanTransition(status, job[t].to)
    BY <1>3, <1>4, MovedTo DEF TransitionRead, AfterTransition, InPlace, Answering, Expiring,
       Refunding, Admitting, Closing, Releasing
  <2>2. InPlace(t)'
    BY <1>2, <1>3, <1>4, <2>1 DEF TransitionRead, InPlace, Answering, Expiring, Refunding,
       Admitting, Closing, Releasing
  <2>3. GivesUp(t)' => intent \in {"refused", "canceled"}
    BY <1>4, <2>1 DEF TransitionRead, AgreeInv, HoldIsDead, GivesUp, NoJob, Job
  <2>4. Opens(t) /\ status = "CREATED" => Opens(t)'
    BY <1>4, <2>1 DEF TransitionRead, Opens, CanTransition, OrderTransitions, Statuses
  <2>5. Claimed(t)' => Claimed(t) /\ pc'[t] = "write"
    BY <1>4, <2>1 DEF TransitionRead, Claimed, NoJob, Job
  <2>6. job'[t].op = "authorizeOrderPayment" => search # "over"
    BY <1>4, <2>1 DEF TransitionRead, AgreeInv, SearchEnds, NoJob, Job
  <2> QED BY <1>1, <1>2, <1>3, <1>4, <2>1, <2>2, <2>3, <2>4, <2>5, <2>6
             DEF Moves, TransitionRead, InPlace, Answering, Expiring, Refunding, Admitting,
                 Closing, Releasing
<1>5. CASE SettleRefund(t)
  <2>1. CASE IsLate(t)
    <3>1. job[t].reason \in LateReasons /\ pc[t] = "settle"
      BY <1>3, <1>5, <2>1 DEF SettleRefund, InPlace, Answering, Expiring, Refunding, Admitting,
         Closing, Releasing, NoJob, Job
    <3>2. Share[job[t].reason] # 0 /\ job[t].reason \in Reasons
      BY <3>1, AmountsAssumption DEF ClaimsOnly, Reasons
    <3>3. payment = "succeeded" /\ refundRow[job[t].reason] = "none"
      BY <2>1, <3>1, <3>2 DEF AgreeInv, OneReturns, HasRow
    <3>4. pc'[t] = "refund" /\ job'[t] = job[t]
      BY <1>5, <3>1, <3>2, <3>3, MovedTo DEF SettleRefund
    <3>5. InPlace(t)'
      BY <2>1, <3>1, <3>4 DEF InPlace, Refunding
    <3> QED BY <1>1, <1>2, <1>3, <2>1, <3>1, <3>4, <3>5 DEF Moves, Claimed, GivesUp, Opens
  <2>2. CASE job[t].op \in Assigning
    <3>1. Answering(t) /\ pc[t] = "settle" /\ intent \in {"refused", "canceled"}
      BY <1>3, <1>5, <2>2 DEF SettleRefund, InPlace, Answering, Expiring, Refunding, Admitting,
         Closing, Releasing, NoJob, Job, AgreeInv, HoldIsDead, GivesUp
    <3>2. payment # "succeeded"
      BY <3>1 DEF AgreeInv, MoneyInv, RecordsAgree, LedgerIsHonest, Taken
    <3>3. \/ pc'[t] = "release" /\ job'[t] = job[t]
          \/ /\ pc'[t] = "read" /\ job'[t].to = "CANCELLED" /\ job'[t].op = job[t].op
             /\ job'[t].reason = job[t].reason /\ job'[t].seen = job[t].seen
      BY <1>5, <2>2, <3>2, MovedTo, KeptOnMove DEF SettleRefund, AfterSettle, ClaimFirst
    <3>4. InPlace(t)'
      BY <3>1, <3>3 DEF InPlace, Answering
    <3> QED BY <1>1, <1>2, <2>2, <3>1, <3>3, <3>4 DEF Moves, Claimed, GivesUp, Opens
  <2>3. CASE job[t].op = "expireUnfilledSearches"
    <3>1. pc[t] = "settle" /\ job[t].reason = "search_expired"
      BY <1>3, <1>5, <2>3 DEF SettleRefund, InPlace, Answering, Expiring, Refunding, Admitting,
         Closing, Releasing, NoJob, Job
    <3>2. \/ pc'[t] = "release" /\ job'[t] = job[t]
          \/ pc'[t] = "idle" /\ job'[t] = NoJob
      BY <1>5, <2>3, <3>1, MovedTo DEF SettleRefund, AfterSettle, ClaimFirst
    <3>3. InPlace(t)'
      BY <2>3, <3>1, <3>2 DEF InPlace, Expiring
    <3> QED BY <1>1, <1>2, <2>3, <3>1, <3>2, <3>3 DEF Moves, Claimed, GivesUp, Opens, NoJob, Job
  <2> QED BY <1>3, <1>5, <2>1, <2>2, <2>3 DEF SettleRefund, InPlace, Answering, Expiring,
             Refunding, Admitting, Closing, Releasing
<1>6. CASE FindPayment(t)
  <2>1. Answering(t) /\ Claimed(t) /\ pc[t] = "find"
    BY <1>3, <1>6 DEF FindPayment, InPlace, Answering, Expiring, Refunding, Admitting, Closing,
       Releasing, Claimed, NoJob, Job
  <2>2. payment # "failed" /\ payment # "refunded"
    BY <2>1 DEF AgreeInv, PaymentKnown, RefundsShut, Shut
  <2>3. payment = "cancelled" => intent = "canceled"
    BY DEF AgreeInv, MoneyInv, RecordsAgree, LedgerIsHonest
  <2>4. payment = "pending" => FALSE
    BY <2>1 DEF AgreeInv, PaymentKnown
  <2>5. \/ pc'[t] = "read" /\ job'[t].to = "ASSIGNED" /\ job'[t].op = job[t].op
           /\ job'[t].reason = job[t].reason /\ job'[t].seen = job[t].seen
        \/ pc'[t] = "capture" /\ job'[t] = job[t] /\ payment = "authorized"
        \/ pc'[t] = "abort" /\ job'[t] = job[t] /\ intent = "canceled"
    BY <1>6, <2>2, <2>3, <2>4, MovedTo, KeptOnMove DEF FindPayment, AfterCapture, CaptureFails,
       AgreeInv, MoneyInv, TypeOK, PaymentStatuses
  <2>6. InPlace(t)'
    BY <2>1, <2>5 DEF InPlace, Answering
  <2>7. Claimed(t)' /\ (GivesUp(t)' => intent = "canceled")
    BY <2>1, <2>5 DEF Claimed, GivesUp
  <2>8. "held" \in events => intent # "captured"
    BY <2>1 DEF AgreeInv, HeldForOne
  <2> QED BY <1>1, <1>2, <2>1, <2>5, <2>6, <2>7, <2>8 DEF Moves, Opens, Answering
<1>7. CASE DispatchAfterPaid(t)
  <2>1. Admitting(t) /\ pc[t] = "dispatch"
    BY <1>3, <1>7 DEF DispatchAfterPaid, InPlace, Answering, Expiring, Refunding, Admitting,
       Closing, Releasing, NoJob, Job
  <2>2. \/ pc'[t] = "read" /\ job'[t].to = "UNASSIGNED" /\ job'[t].op = job[t].op
           /\ job'[t].reason = job[t].reason
        \/ pc'[t] = "idle" /\ job'[t] = NoJob
    BY <1>7, MovedTo, KeptOnMove DEF DispatchAfterPaid
  <2>3. InPlace(t)'
    BY <2>1, <2>2 DEF InPlace, Admitting
  <2>4. job[t].op = "authorizeOrderPayment" => search # "over"
    BY <2>1 DEF AgreeInv, SearchEnds
  <2> QED BY <1>1, <1>2, <2>1, <2>2, <2>3, <2>4 DEF Moves, Claimed, GivesUp, Opens, Admitting,
             NoJob, Job
<1>8. CASE AdmitOrder(t)
  <2>1. Admitting(t) /\ pc[t] = "admit"
    BY <1>3, <1>8 DEF AdmitOrder, InPlace, Answering, Expiring, Refunding, Admitting, Closing,
       Releasing, NoJob, Job
  <2>2. \/ pc'[t] = "read" /\ job'[t].to = "PAID" /\ job'[t].op = job[t].op
           /\ job'[t].reason = job[t].reason /\ status = "CREATED"
        \/ /\ pc'[t] = "window" /\ job'[t] = job[t] /\ job[t].op = "authorizeOrderPayment"
           /\ status = "CREATED"
        \/ pc'[t] = "idle" /\ job'[t] = NoJob
    BY <1>8, MovedTo, KeptOnMove DEF AdmitOrder
  <2>3. InPlace(t)'
    BY <2>1, <2>2 DEF InPlace, Admitting
  <2>4. status = "CREATED" => search # "over"
    BY <2>1 DEF AgreeInv, SearchEnds
  <2> QED BY <1>1, <1>2, <2>1, <2>2, <2>3, <2>4 DEF Moves, Claimed, GivesUp, Opens, Admitting,
             NoJob, Job
<1>9. CASE CloseOrder(t)
  <2>1. Closing(t) /\ pc[t] = "close"
    BY <1>3, <1>9 DEF CloseOrder, InPlace, Answering, Expiring, Refunding, Admitting, Closing,
       Releasing, NoJob, Job
  <2>2. \/ pc'[t] = "read" /\ job'[t].to = "CANCELLED" /\ job'[t].op = job[t].op
           /\ job'[t].reason = job[t].reason
        \/ pc'[t] = "idle" /\ job'[t] = NoJob
    BY <1>9, MovedTo, KeptOnMove DEF CloseOrder
  <2>3. InPlace(t)' /\ intent \in {"refused", "canceled"}
    BY <2>1, <2>2 DEF InPlace, Closing, AgreeInv, HoldIsDead, GivesUp
  <2> QED BY <1>1, <1>2, <2>1, <2>2, <2>3 DEF Moves, Claimed, GivesUp, Opens, Closing, NoJob, Job
<1> QED BY <1>4, <1>5, <1>6, <1>7, <1>8, <1>9

\* Who stands where.
LEMMA Roles ==
  ASSUME AgreeInv, NEW t \in Tasks
  PROVE  /\ pc[t] \in {"refund", "refund_row", "refund_mark"} => Refunding(t)
         /\ pc[t] \in Claiming => Answering(t) /\ (pc[t] # "claim" => Claimed(t))
         /\ pc[t] \in {"release", "release_mark"} => Answering(t) \/ Expiring(t) \/ Releasing(t)
         /\ pc[t] \in {"read", "write"} => Answering(t) \/ Admitting(t) \/ Closing(t)
         /\ pc[t] = "window" => Admitting(t) /\ job[t].op = "authorizeOrderPayment"
<1> InPlace(t)
  BY DEF AgreeInv, InPlaces
<1> QED BY DEF InPlace, Answering, Expiring, Refunding, Admitting, Closing, Releasing, Claimed,
           Claiming, NoJob, Job

LEMMA WriteAgrees ==
  ASSUME ClaimsOnly, AgreeInv, NEW t \in Tasks, TransitionWrite(t), MoneyInv', ClaimInv'
  PROVE  AgreeInv'
<1> LocalsOK
  BY TypeParts DEF AgreeInv, MoneyInv
<1> USE DEF Assigning, IsLate, LateOps, Opening
<1>1. Alone(t)
  BY StepIsLocal DEF AgreeInv, MoneyInv, Step, Alone
<1>2. /\ UNCHANGED <<inspector, search, payment, intent, events, refunds, refundRow>>
      /\ pc[t] = "write" /\ status' = job[t].to
  BY DEF TransitionWrite, stripeVars, ledgerVars
<1>3. Answering(t) \/ Admitting(t) \/ Closing(t)
  BY <1>2, Roles
<1>4. \/ job'[t] = job[t] /\ pc'[t] = "dispatch" /\ job[t].op \in Opening
      \/ job'[t] = NoJob /\ pc'[t] = "idle" /\ job[t].op \notin Opening
  BY <1>3, MovedTo DEF TransitionWrite, AfterTransition, Answering, Admitting, Closing
<1>5. \/ status' \in Pool /\ Admitting(t)
      \/ status' = "ASSIGNED" /\ Claimed(t) /\ Answering(t)
      \/ status' = "CANCELLED" /\ intent \in {"refused", "canceled"} /\ ~Claimed(t)
  BY <1>2, <1>3 DEF Answering, Claiming, Admitting, Closing, Claimed, Pool, AgreeInv,
     HoldIsDead, GivesUp
<1>6. status' = "ASSIGNED" => /\ inspector # NoOne /\ ~Shut /\ intent = "captured"
                              /\ \A u \in Tasks : ~Claimed(u)'
  <2> SUFFICES ASSUME status' = "ASSIGNED" 
               PROVE  /\ inspector # NoOne /\ ~Shut /\ intent = "captured"
                      /\ \A u \in Tasks : ~Claimed(u)'
    OBVIOUS
  <2>1. Claimed(t) /\ inspector = job[t].by /\ job[t].by \in Inspectors
    BY <1>5 DEF Answering, AgreeInv, ClaimInv, OneClaimant, ClaimantIsReal, Pool
  <2>2. intent = "captured"
    BY <1>2 DEF AgreeInv, MoneyInv, Belief
  <2>3. \A u \in Tasks \ {t} : ~Claimed(u)
    BY <2>1 DEF AgreeInv, ClaimInv, OneClaimant
  <2>4. \A u \in Tasks : ~Claimed(u)'
    BY <1>1, <1>4, <2>3 DEF Alone, Claimed, NoJob, Job
  <2> QED BY <2>1, <2>2, <2>4, NoOneAssumption DEF Shut
<1> USE DEF AgreeInv, Alone
<1>7. InPlaces'
  BY <1>1, <1>2, <1>3, <1>4, <1>5 DEF InPlaces, InPlace, Answering, Expiring, Refunding,
     Admitting, Closing, Releasing
<1>8. RefundsShut'
  BY <1>1, <1>2, <1>4, <1>5, <1>6 DEF RefundsShut, Shut, HasRow, Claimed, NoJob, Job, Working, Pool
<1>9. OneReturns'
  BY <1>1, <1>2, <1>3, <1>4, <1>5, <1>6 DEF OneReturns, Shut, HasRow, Claimed, NoJob, Job,
     Working, Pool
<1>10. PaymentKnown'
  BY <1>1, <1>2, <1>3, <1>4, <1>5 DEF PaymentKnown, Claimed, NoJob, Job, Answering, Admitting,
     Closing
<1>11. HoldIsDead'
  BY <1>1, <1>2, <1>4, <1>5 DEF HoldIsDead, GivesUp, Claimed, NoJob, Job, Pool
<1>12. HeldForOne'
  BY <1>1, <1>2, <1>4 DEF HeldForOne, Claimed, NoJob, Job
<1>13. SearchEnds'
  <2>1. search' = "over" =>
          /\ status' # "CREATED"
          /\ \A u \in Tasks : job'[u].op = "authorizeOrderPayment" => pc'[u] = "admit"
    BY <1>1, <1>2, <1>4, <1>5 DEF SearchEnds, NoJob, Job, Pool
  <2>2. status' # "CREATED"
    BY <1>5 DEF Pool
  <2>3. ASSUME NEW u \in Tasks, job'[u].op = "expireUnfilledSearches" PROVE status' = "CANCELLED"
    <3>1. u # t /\ job[u].op = "expireUnfilledSearches"
      BY <1>1, <1>3, <1>4, <2>3 DEF NoJob, Job, Answering, Admitting, Closing
    <3>2. search = "over" /\ intent # "captured"
      BY <3>1 DEF SearchEnds
    <3>3. ~Admitting(t)
      BY <1>2, <3>2 DEF Admitting, SearchEnds, HeldForOne
    <3> QED BY <1>5, <1>6, <3>2, <3>3
  <2>4. \A u \in Tasks : job'[u].op = "expireUnfilledSearches" =>
          job[u].op = "expireUnfilledSearches"
    BY <1>1, <1>4 DEF NoJob, Job
  <2> QED BY <1>2, <2>1, <2>2, <2>3, <2>4 DEF SearchEnds
<1>14. Accounted'
  BY <1>1, <1>2, <1>4, <1>5 DEF Accounted, HasRow, NoJob, Job, Pool
<1> QED BY <1>7, <1>8, <1>9, <1>10, <1>11, <1>12, <1>13, <1>14

\* After its settlement an assignment cancels the order; the others return.
LEMMA SettledAgrees ==
  ASSUME AgreeInv, NEW t \in Tasks, AfterSettle(t),
         Answering(t) \/ Expiring(t) \/ Releasing(t) \/ Refunding(t)
  PROVE  /\ InPlace(t)' /\ ~Claimed(t)' /\ ~IsLate(t)'
         /\ \/ /\ Answering(t) /\ pc'[t] = "read" /\ job'[t].to = "CANCELLED"
               /\ job'[t].op = job[t].op /\ job'[t].reason = job[t].reason
            \/ ~Answering(t) /\ pc'[t] = "idle" /\ job'[t] = NoJob
<1> LocalsOK
  BY TypeParts DEF AgreeInv, MoneyInv
<1>1. \/ /\ Answering(t) /\ pc'[t] = "read" /\ job'[t].to = "CANCELLED"
         /\ job'[t].op = job[t].op /\ job'[t].reason = job[t].reason /\ job'[t].seen = job[t].seen
      \/ ~Answering(t) /\ pc'[t] = "idle" /\ job'[t] = NoJob
  BY MovedTo, KeptOnMove DEF AfterSettle, Answering, Expiring, Releasing, Refunding, IsLate,
     LateOps, ClaimFirst, Assigning
<1> QED BY <1>1 DEF InPlace, Answering, Claimed, IsLate, LateOps, NoJob, Job, Assigning

LEMMA ReleaseAgrees ==
  ASSUME ClaimsOnly, AgreeInv, NEW t \in Tasks, CancelIntent(t), MoneyInv', ClaimInv'
  PROVE  AgreeInv'
<1> LocalsOK
  BY TypeParts DEF AgreeInv, MoneyInv
<1> USE DEF Assigning, IsLate, LateOps, Opening
<1>1. Alone(t)
  BY StepIsLocal DEF AgreeInv, MoneyInv, Step, Alone
<1>2. /\ UNCHANGED <<status, inspector, search, payment, refunds, refundRow>>
      /\ pc[t] = "release"
  BY DEF CancelIntent, orderVars, ledgerVars
<1>3. Answering(t) \/ Expiring(t) \/ Releasing(t)
  BY <1>2, Roles
<1>4. ~Claimed(t) /\ job[t].op \notin Opening \cup LateOps /\ ~Opens(t)
  BY <1>2, <1>3 DEF Claimed, Answering, Expiring, Releasing, Opens
<1>5. CASE AfterSettle(t) /\ UNCHANGED <<intent, events>>
  <2>1. GivesUp(t)' => intent \in {"refused", "canceled"}
    BY <1>2, <1>3, <1>5, SettledAgrees DEF GivesUp, AgreeInv, HoldIsDead, Answering, NoJob, Job
  <2>2. Moves(t)
    BY <1>1, <1>2, <1>3, <1>4, <1>5, <2>1, SettledAgrees DEF Moves, Answering, NoJob, Job
  <2> QED BY <2>2, MovesAgree
<1>6. CASE /\ intent \in {"held", "refused", "canceled"} /\ intent' = "canceled"
           /\ events' = events \cup {"canceled"} /\ Goto(t, "release_mark")
  <2> USE DEF AgreeInv, Alone
  <2>1. pc'[t] = "release_mark" /\ job'[t] = job[t]
    BY <1>6, MovedTo
  <2>2. InPlaces'
    BY <1>1, <1>2, <1>3, <2>1 DEF InPlaces, InPlace, Answering, Expiring, Refunding, Admitting,
       Closing, Releasing
  <2>3. RefundsShut'
    BY <1>1, <1>2, <1>6, <2>1 DEF RefundsShut, Shut, HasRow, Claimed
  <2>4. OneReturns'
    BY <1>1, <1>2, <1>4, <2>1 DEF OneReturns, Shut, HasRow, Claimed
  <2>5. PaymentKnown'
    BY <1>1, <1>2, <1>6, <2>1 DEF PaymentKnown, Claimed
  <2>6. HoldIsDead' /\ Accounted'
    BY <1>6 DEF HoldIsDead, Accounted
  <2>7. HeldForOne'
    BY <1>1, <1>2, <1>6, <2>1 DEF HeldForOne, Claimed
  <2>8. SearchEnds'
    BY <1>1, <1>2, <1>4, <1>6, <2>1 DEF SearchEnds, Opens
  <2> QED BY <2>2, <2>3, <2>4, <2>5, <2>6, <2>7, <2>8
<1> QED BY <1>5, <1>6 DEF CancelIntent, ClaimsOnly, ReleaseFails

LEMMA ReleasedAgrees ==
  ASSUME ClaimsOnly, AgreeInv, NEW t \in Tasks, MarkReleased(t), MoneyInv', ClaimInv'
  PROVE  AgreeInv'
<1> LocalsOK
  BY TypeParts DEF AgreeInv, MoneyInv
<1> USE DEF Assigning, IsLate, LateOps, Opening
<1>1. Alone(t)
  BY StepIsLocal DEF AgreeInv, MoneyInv, Step, Alone
<1>2. /\ UNCHANGED <<status, inspector, search, intent, events, refunds, refundRow>>
      /\ pc[t] = "release_mark" /\ payment' = "cancelled" /\ AfterSettle(t)
  BY DEF MarkReleased, orderVars, stripeVars
<1>3. Answering(t) \/ Expiring(t) \/ Releasing(t)
  BY <1>2, Roles
<1>4. ~Claimed(t) /\ job[t].op \notin Opening \cup LateOps /\ ~Opens(t)
  BY <1>2, <1>3 DEF Claimed, Answering, Expiring, Releasing, Opens
<1>5. intent = "canceled" /\ payment # "succeeded"
  BY <1>2 DEF AgreeInv, MoneyInv, Belief, RecordsAgree, LedgerIsHonest, Taken
<1>6. /\ InPlace(t)' /\ ~Claimed(t)' /\ ~IsLate(t)'
      /\ \/ /\ Answering(t) /\ pc'[t] = "read" /\ job'[t].to = "CANCELLED"
            /\ job'[t].op = job[t].op /\ job'[t].reason = job[t].reason
         \/ ~Answering(t) /\ pc'[t] = "idle" /\ job'[t] = NoJob
  BY <1>2, <1>3, SettledAgrees
<1> USE DEF AgreeInv, Alone
<1>7. InPlaces'
  BY <1>1, <1>2, <1>6 DEF InPlaces, InPlace, Answering, Expiring, Refunding, Admitting, Closing,
     Releasing
<1>8. RefundsShut'
  BY <1>1, <1>2, <1>6 DEF RefundsShut, Shut, HasRow, Claimed
<1>9. OneReturns'
  BY <1>1, <1>2, <1>4, <1>5, <1>6 DEF OneReturns, Shut, HasRow, Claimed, NoJob, Job
<1>10. PaymentKnown'
  BY <1>2, <1>5 DEF PaymentKnown
<1>11. HoldIsDead' /\ Accounted'
  BY <1>2, <1>5 DEF HoldIsDead, Accounted
<1>12. HeldForOne'
  BY <1>1, <1>2, <1>5, <1>6 DEF HeldForOne, NoJob, Job
<1>13. SearchEnds'
  BY <1>1, <1>2, <1>4, <1>6 DEF SearchEnds, Opens, NoJob, Job
<1> QED BY <1>7, <1>8, <1>9, <1>10, <1>11, <1>12, <1>13

\* Stripe gives the money back, or the refund is parked: one of those who cancel
\* after assignment does this, on an order that nobody will work on again.
LEMMA RefundAgrees ==
  ASSUME ClaimsOnly, AgreeInv, NEW t \in Tasks, CreateRefund(t), MoneyInv', ClaimInv'
  PROVE  AgreeInv'
<1> LocalsOK /\ SharedOK
  BY TypeParts DEF AgreeInv, MoneyInv
<1> USE DEF Assigning, IsLate, LateOps, Opening
<1>1. Alone(t)
  BY StepIsLocal DEF AgreeInv, MoneyInv, Step, Alone
<1>2. UNCHANGED <<status, inspector, search, payment>> /\ pc[t] = "refund"
  BY DEF CreateRefund, orderVars
<1>3. /\ Refunding(t) /\ ~Answering(t) /\ ~Claimed(t)
      /\ job[t].op \in LateOps /\ job[t].reason \in Reasons
  BY <1>2, Roles DEF Refunding, Claimed, Answering, LateReasons, Reasons
<1>4. Shut /\ refunds = {} /\ ~HasRow /\ \A u \in Tasks \ {t} : ~IsLate(u)
  BY <1>2, <1>3 DEF AgreeInv, OneReturns
<1>5. intent = "captured" /\ UNCHANGED intent
  <2>1. intent = "captured"
    BY <1>2, <1>3 DEF AgreeInv, OneReturns, MoneyInv, RecordsAgree, LedgerIsHonest, Taken
  <2> QED BY <2>1, <1>4 DEF CreateRefund, StripeRefunds, ClaimsOnly, stripeVars
<1>6. \/ /\ refunds' = {job[t].reason} /\ events' = events \cup {"refunded"}
         /\ UNCHANGED refundRow /\ pc'[t] = "refund_row" /\ job'[t] = job[t]
      \/ /\ UNCHANGED <<refunds, events>> /\ pc'[t] = "idle" /\ job'[t] = NoJob
         /\ refundRow' = [refundRow EXCEPT ![job[t].reason] = "parked"]
  BY <1>2, <1>3, <1>4, MovedTo, SettledAgrees DEF CreateRefund, StripeRefunds, ParkRefund,
     ClaimsOnly, stripeVars
<1>7. \A r \in Reasons : refundRow'[r] # "none" => r = job[t].reason
  BY <1>3, <1>4, <1>6 DEF HasRow, SharedOK
<1>8. pc'[t] = "idle" => HasRow'
  BY <1>3, <1>6 DEF HasRow, SharedOK
<1> USE DEF AgreeInv, Alone
<1>9. InPlaces'
  BY <1>1, <1>2, <1>3, <1>6 DEF InPlaces, InPlace, Answering, Expiring, Refunding, Admitting,
     Closing, Releasing
<1>10. ~Claimed(t)' /\ Shut'
  BY <1>1, <1>2, <1>3, <1>4, <1>6 DEF Shut, Claimed, NoJob, Job
<1>11. RefundsShut'
  BY <1>1, <1>2, <1>3, <1>4, <1>6, <1>10 DEF RefundsShut, Shut
<1>12. OneReturns'
  <2>1. ASSUME NEW u \in Tasks, IsLate(u)' PROVE u = t /\ pc'[t] = "refund_row" /\ job'[t] = job[t]
    BY <1>1, <1>4, <1>6, <2>1 DEF NoJob, Job
  <2> QED BY <1>7, <1>10, <2>1 DEF OneReturns
<1>13. PaymentKnown'
  BY <1>1, <1>2, <1>3, <1>5, <1>6 DEF PaymentKnown, Claimed, NoJob, Job
<1>14. HoldIsDead'
  BY <1>1, <1>2, <1>5, <1>6 DEF HoldIsDead, GivesUp, Claimed, NoJob, Job
<1>15. HeldForOne'
  BY <1>1, <1>2, <1>5, <1>6, <1>10 DEF HeldForOne, Claimed, NoJob, Job
<1>16. SearchEnds'
  BY <1>1, <1>2, <1>3, <1>5, <1>6 DEF SearchEnds, Opens, NoJob, Job
<1>17. Accounted'
  BY <1>3, <1>6, <1>8 DEF Accounted
<1> QED BY <1>9, <1>11, <1>12, <1>13, <1>14, <1>15, <1>16, <1>17

LEMMA RecordedAgrees ==
  ASSUME ClaimsOnly, AgreeInv, NEW t \in Tasks, RecordRefund(t) \/ MarkRefunded(t),
         MoneyInv', ClaimInv'
  PROVE  AgreeInv'
<1> LocalsOK /\ SharedOK
  BY TypeParts DEF AgreeInv, MoneyInv
<1> USE DEF Assigning, IsLate, LateOps, Opening
<1>1. Alone(t)
  BY StepIsLocal DEF AgreeInv, MoneyInv, Step, Alone
<1>2. /\ UNCHANGED <<status, inspector, search, intent, events, refunds>>
      /\ pc[t] \in {"refund_row", "refund_mark"}
  BY DEF RecordRefund, MarkRefunded, orderVars, stripeVars
<1>3. /\ Refunding(t) /\ ~Answering(t) /\ ~Claimed(t)
      /\ job[t].op \in LateOps /\ job[t].reason \in Reasons
  BY <1>2, Roles DEF Refunding, Claimed, Answering, LateReasons, Reasons
<1>4. Shut /\ refunds # {} /\ \A u \in Tasks \ {t} : ~IsLate(u)
  BY <1>2, <1>3 DEF AgreeInv, OneReturns, RefundsShut
<1>5. intent = "captured"
  BY <1>2 DEF AgreeInv, MoneyInv, Belief
<1>6. \/ /\ refundRow' = [refundRow EXCEPT ![job[t].reason] = "succeeded"] /\ UNCHANGED payment
         /\ pc'[t] = "refund_mark" /\ job'[t] = job[t]
      \/ /\ UNCHANGED refundRow /\ payment' = "refunded" 
         /\ pc'[t] = "idle" /\ job'[t] = NoJob /\ pc[t] = "refund_mark"
  BY <1>3, MovedTo, SettledAgrees DEF RecordRefund, MarkRefunded
<1>7. \A r \in Reasons : refundRow'[r] # "none" => r = job[t].reason
  BY <1>3, <1>6 DEF AgreeInv, OneReturns, SharedOK
<1>8. HasRow => HasRow'
  BY <1>3, <1>6 DEF HasRow, SharedOK
<1>9. pc'[t] = "refund_mark" => HasRow'
  BY <1>3, <1>6 DEF HasRow, SharedOK
<1> USE DEF AgreeInv, Alone
<1>10. InPlaces'
  BY <1>1, <1>2, <1>3, <1>6 DEF InPlaces, InPlace, Answering, Expiring, Refunding, Admitting,
     Closing, Releasing
<1>11. ~Claimed(t)' /\ Shut'
  BY <1>1, <1>2, <1>3, <1>4, <1>6 DEF Shut, Claimed, NoJob, Job
<1>12. RefundsShut'
  BY <1>1, <1>2, <1>3, <1>4, <1>6, <1>11 DEF RefundsShut, Shut
<1>13. OneReturns'
  <2>1. ASSUME NEW u \in Tasks, IsLate(u)' PROVE u = t /\ pc'[t] = "refund_mark" /\ job'[t] = job[t]
    BY <1>1, <1>4, <1>6, <2>1 DEF NoJob, Job
  <2> QED BY <1>7, <1>11, <2>1 DEF OneReturns
<1>14. PaymentKnown'
  BY <1>1, <1>2, <1>3, <1>5, <1>6 DEF PaymentKnown, Claimed, NoJob, Job
<1>15. HoldIsDead'
  BY <1>1, <1>2, <1>5, <1>6 DEF HoldIsDead, GivesUp, Claimed, NoJob, Job
<1>16. HeldForOne'
  BY <1>1, <1>2, <1>5, <1>6, <1>11 DEF HeldForOne, Claimed, NoJob, Job
<1>17. SearchEnds'
  BY <1>1, <1>2, <1>3, <1>5, <1>6 DEF SearchEnds, Opens, NoJob, Job
<1>18. Accounted'
  BY <1>1, <1>2, <1>3, <1>4, <1>6, <1>8, <1>9 DEF Accounted
<1> QED BY <1>10, <1>12, <1>13, <1>14, <1>15, <1>16, <1>17, <1>18

\* A claimant at work: nothing was given back, and nobody else cancels or expires.
LEMMA ClaimedMeets ==
  ASSUME AgreeInv, NEW t \in Tasks, Claimed(t)
  PROVE  /\ inspector = job[t].by /\ inspector # NoOne
         /\ status \notin Working /\ refunds = {} /\ ~HasRow
         /\ \A u \in Tasks : ~IsLate(u) /\ job[u].op # "expireUnfilledSearches"
         /\ \A u \in Tasks \ {t} : ~Claimed(u)
         /\ payment \notin {"pending", "failed", "refunded"}
<1>1. inspector = job[t].by /\ \A u \in Tasks \ {t} : ~Claimed(u)
  BY DEF AgreeInv, ClaimInv, OneClaimant
<1>2. job[t].by \in Inspectors
  BY DEF Claimed, AgreeInv, ClaimInv, ClaimantIsReal
<1>3. inspector # NoOne
  BY <1>1, <1>2, NoOneAssumption
<1>4. ~Shut
  BY DEF Shut
<1>5. status \notin Working /\ refunds = {} /\ ~HasRow /\ \A u \in Tasks : ~IsLate(u)
  BY <1>4 DEF AgreeInv, RefundsShut, OneReturns
<1>6. payment \notin {"pending", "failed", "refunded"}
  BY <1>5 DEF AgreeInv, RefundsShut, PaymentKnown
<1> QED BY <1>1, <1>3, <1>5, <1>6 DEF AgreeInv, SearchEnds

LEMMA CaptureAgrees ==
  ASSUME ClaimsOnly, AgreeInv, NEW t \in Tasks, CaptureIntent(t), MoneyInv', ClaimInv'
  PROVE  AgreeInv'
<1> LocalsOK
  BY TypeParts DEF AgreeInv, MoneyInv
<1> USE DEF Assigning, IsLate, LateOps, Opening, Claiming
<1>1. Alone(t)
  BY StepIsLocal DEF AgreeInv, MoneyInv, Step, Alone
<1>2. /\ UNCHANGED <<status, inspector, search, payment, refunds, refundRow>>
      /\ pc[t] = "capture"
  BY DEF CaptureIntent, orderVars, ledgerVars
<1>3. Answering(t) /\ Claimed(t) /\ job[t].op \in Assigning
  BY <1>2, Roles DEF Answering
<1>4. "held" \in events => intent # "captured"
  BY <1>2, <1>3 DEF AgreeInv, HeldForOne
<1>5. CASE UNCHANGED <<intent, events>> /\ pc'[t] \in {"undo", "abort"} /\ job'[t] = job[t]
           /\ (pc'[t] = "abort" => intent \in {"refused", "canceled"})
  <2>1. InPlace(t)'
    BY <1>3, <1>5 DEF InPlace, Answering
  <2>2. Moves(t)
    BY <1>1, <1>2, <1>3, <1>4, <1>5, <2>1 DEF Moves, Claimed, GivesUp, Opens
  <2> QED BY <2>2, MovesAgree
<1>6. CASE /\ \/ /\ intent \in {"held", "captured"} /\ intent' = "captured"
                 /\ events' = events \cup {"captured"} /\ pc'[t] = "capture_mark"
              \/ /\ intent = "held" /\ intent' = "refused"
                 /\ UNCHANGED events /\ pc'[t] = "abort"
           /\ job'[t] = job[t]
  <2> USE DEF AgreeInv, Alone
  <2>1. Claimed(t)' /\ Answering(t)'
    BY <1>3, <1>6 DEF Claimed, Answering
  <2>2. status # "CANCELLED"
    BY <1>3, <1>6 DEF HoldIsDead
  <2>3. InPlaces'
    BY <1>1, <1>2, <2>1 DEF InPlaces, InPlace, Answering, Expiring, Refunding, Admitting,
       Closing, Releasing
  <2>4. RefundsShut'
    BY <1>1, <1>2, <1>3, <1>6, ClaimedMeets DEF RefundsShut, HasRow
  <2>5. OneReturns'
    BY <1>1, <1>2, <1>3, <1>6, ClaimedMeets DEF OneReturns, HasRow
  <2>6. PaymentKnown'
    BY <1>2, <1>3, <1>6, ClaimedMeets DEF PaymentKnown
  <2>7. HoldIsDead'
    BY <1>1, <1>2, <1>3, <1>6, <2>2 DEF HoldIsDead, GivesUp, Claimed
  <2>8. HeldForOne'
    BY <1>1, <1>2, <1>3, <1>6, ClaimedMeets DEF HeldForOne, Claimed
  <2>9. SearchEnds'
    BY <1>1, <1>2, <1>3, <1>6, ClaimedMeets DEF SearchEnds, Opens
  <2>10. Accounted'
    BY <1>2, <2>2 DEF Accounted
  <2> QED BY <2>3, <2>4, <2>5, <2>6, <2>7, <2>8, <2>9, <2>10
<1> QED BY <1>5, <1>6, MovedTo DEF CaptureIntent, CaptureFails, ClaimsOnly

LEMMA CapturedAgrees ==
  ASSUME ClaimsOnly, AgreeInv, NEW t \in Tasks, MarkCaptured(t), MoneyInv', ClaimInv'
  PROVE  AgreeInv'
<1> LocalsOK
  BY TypeParts DEF AgreeInv, MoneyInv
<1> USE DEF Assigning, IsLate, LateOps, Opening, Claiming
<1>1. Alone(t)
  BY StepIsLocal DEF AgreeInv, MoneyInv, Step, Alone
<1>2. /\ UNCHANGED <<status, inspector, search, intent, events, refunds, refundRow>>
      /\ pc[t] = "capture_mark" /\ payment' = "succeeded"
  BY DEF MarkCaptured, orderVars, stripeVars
<1>3. Answering(t) /\ Claimed(t) /\ job[t].op \in Assigning /\ intent = "captured"
  BY <1>2, Roles DEF Answering, AgreeInv, MoneyInv, Belief
<1>4. /\ pc'[t] = "read" /\ job'[t].to = "ASSIGNED" /\ job'[t].op = job[t].op
      /\ job'[t].reason = job[t].reason /\ job'[t].seen = job[t].seen
  BY KeptOnMove DEF MarkCaptured, AfterCapture
<1>5. Claimed(t)' /\ Answering(t)'
  BY <1>3, <1>4 DEF Claimed, Answering
<1> USE DEF AgreeInv, Alone
<1>6. InPlaces'
  BY <1>1, <1>2, <1>5 DEF InPlaces, InPlace, Answering, Expiring, Refunding, Admitting, Closing,
     Releasing
<1>7. RefundsShut'
  BY <1>1, <1>2, <1>3, <1>4, ClaimedMeets DEF RefundsShut, HasRow
<1>8. OneReturns'
  BY <1>1, <1>2, <1>3, <1>4, ClaimedMeets DEF OneReturns, HasRow
<1>9. PaymentKnown'
  BY <1>2, <1>3 DEF PaymentKnown
<1>10. HoldIsDead'
  BY <1>1, <1>2, <1>3, <1>4 DEF HoldIsDead, GivesUp, Claimed
<1>11. HeldForOne'
  BY <1>1, <1>2, <1>3, <1>4 DEF HeldForOne, Claimed
<1>12. SearchEnds'
  BY <1>1, <1>2, <1>3, <1>4, ClaimedMeets DEF SearchEnds, Opens
<1>13. Accounted'
  BY <1>2, <1>3 DEF Accounted, HoldIsDead
<1> QED BY <1>6, <1>7, <1>8, <1>9, <1>10, <1>11, <1>12, <1>13

\* The claim is taken on an order that no money of anybody's refund is about.
LEMMA ClaimAgrees ==
  ASSUME ClaimsOnly, AgreeInv, NEW t \in Tasks, ClaimOrder(t), MoneyInv', ClaimInv'
  PROVE  AgreeInv'
<1> LocalsOK
  BY TypeParts DEF AgreeInv, MoneyInv
<1> USE DEF Assigning, IsLate, LateOps, Opening, Claiming
<1>1. Alone(t)
  BY StepIsLocal DEF AgreeInv, MoneyInv, Step, Alone
<1>2. /\ UNCHANGED <<status, search, payment, intent, events, refunds, refundRow>>
      /\ pc[t] = "claim"
  BY DEF ClaimOrder, stripeVars, ledgerVars
<1>3. Answering(t) /\ ~Claimed(t) /\ job[t].op \in Assigning
  BY <1>2, Roles DEF Answering, Claimed
<1>4. CASE UNCHANGED inspector /\ Return(t)
  <2>1. pc'[t] = "idle" /\ job'[t] = NoJob
    BY <1>4, MovedTo
  <2>2. Moves(t)
    BY <1>1, <1>2, <1>3, <1>4, <2>1 DEF Moves, InPlace, Claimed, GivesUp, Opens, NoJob, Job
  <2> QED BY <2>2, MovesAgree
<1>5. CASE Unclaimed(t) /\ inspector' = job[t].by /\ Goto(t, "find")
  <2>1. pc'[t] = "find" /\ job'[t] = job[t]
    BY <1>5, MovedTo
  <2>2. Claimed(t)' /\ Answering(t)'
    BY <1>3, <2>1 DEF Claimed, Answering
  <2>3. inspector = NoOne /\ status \in Pool
    BY <1>3, <1>5 DEF Unclaimed, Answering
  <2>4. /\ ~Shut /\ \A u \in Tasks : ~Claimed(u)
        /\ inspector' # NoOne
    BY <1>2, <1>3, <1>5, <2>3, NoOneAssumption DEF Shut, AgreeInv, ClaimInv, OneClaimant,
       ClaimantIsReal, Claimed
  <2> USE DEF AgreeInv, Alone
  <2>5. refunds = {} /\ ~HasRow /\ \A u \in Tasks : ~IsLate(u)
    BY <2>4 DEF RefundsShut, OneReturns
  <2>6. InPlaces'
    BY <1>1, <1>2, <2>2 DEF InPlaces, InPlace, Answering, Expiring, Refunding, Admitting,
       Closing, Releasing
  <2>7. RefundsShut'
    BY <1>1, <1>2, <2>1, <2>3, <2>5 DEF RefundsShut, HasRow, Pool, Working
  <2>8. OneReturns'
    BY <1>1, <1>2, <2>1, <2>5 DEF OneReturns, HasRow
  <2>9. PaymentKnown'
    BY <1>2, <2>3 DEF PaymentKnown, Pool
  <2>10. HoldIsDead'
    BY <1>1, <1>2, <1>3, <2>1, <2>3 DEF HoldIsDead, GivesUp, Pool
  <2>11. HeldForOne'
    BY <1>1, <1>2, <1>3, <2>1, <2>3, <2>4 DEF HeldForOne, Claimed
  <2>12. SearchEnds'
    BY <1>1, <1>2, <1>3, <2>1, <2>3 DEF SearchEnds, Opens, Pool
  <2>13. Accounted'
    BY <1>2, <2>3 DEF Accounted, Pool
  <2> QED BY <2>6, <2>7, <2>8, <2>9, <2>10, <2>11, <2>12, <2>13
<1> QED BY <1>4, <1>5 DEF ClaimOrder

\* The claim is given up on money that was not taken.
LEMMA UnclaimAgrees ==
  ASSUME ClaimsOnly, AgreeInv, NEW t \in Tasks, UndoClaim(t) \/ AbortClaim(t),
         MoneyInv', ClaimInv'
  PROVE  AgreeInv'
<1> LocalsOK
  BY TypeParts DEF AgreeInv, MoneyInv
<1> USE DEF Assigning, IsLate, LateOps, Opening, Claiming
<1>1. Alone(t)
  BY StepIsLocal DEF AgreeInv, MoneyInv, Step, Alone
<1>2. /\ UNCHANGED <<status, search, payment, intent, events, refunds, refundRow>>
      /\ pc[t] \in {"undo", "abort"}
  BY DEF UndoClaim, AbortClaim, stripeVars, ledgerVars
<1>3. Answering(t) /\ Claimed(t) /\ job[t].op \in Assigning
  BY <1>2, Roles DEF Answering
<1>4. /\ pc[t] = "abort" => intent \in {"refused", "canceled"}
      /\ "held" \in events => intent # "captured"
  BY <1>2, <1>3 DEF AgreeInv, HoldIsDead, GivesUp, HeldForOne
<1>5. \/ pc'[t] = "idle" /\ job'[t] = NoJob
      \/ pc[t] = "abort" /\ pc'[t] = "settle" /\ job'[t] = job[t]
  BY MovedTo DEF UndoClaim, AbortClaim
<1>6. ~Claimed(t)' /\ InPlace(t)'
  BY <1>3, <1>5 DEF Claimed, InPlace, Answering, NoJob, Job
<1> USE DEF AgreeInv, Alone
<1>7. InPlaces'
  BY <1>1, <1>2, <1>6 DEF InPlaces, InPlace, Answering, Expiring, Refunding, Admitting, Closing,
     Releasing
<1>8. RefundsShut'
  BY <1>1, <1>2, <1>3, <1>5, ClaimedMeets DEF RefundsShut, HasRow
<1>9. OneReturns'
  BY <1>1, <1>2, <1>3, <1>5, ClaimedMeets DEF OneReturns, HasRow, NoJob, Job
<1>10. PaymentKnown'
  BY <1>2, <1>3, ClaimedMeets DEF PaymentKnown
<1>11. HoldIsDead'
  BY <1>1, <1>2, <1>4, <1>5, <1>6 DEF HoldIsDead, GivesUp, Claimed, NoJob, Job
<1>12. HeldForOne'
  BY <1>1, <1>2, <1>4, <1>5 DEF HeldForOne, NoJob, Job
<1>13. SearchEnds'
  BY <1>1, <1>2, <1>3, <1>5, ClaimedMeets DEF SearchEnds, Opens, NoJob, Job
<1>14. Accounted'
  BY <1>1, <1>2, <1>3, <1>5, ClaimedMeets DEF Accounted, HasRow, NoJob, Job, HoldIsDead
<1> QED BY <1>7, <1>8, <1>9, <1>10, <1>11, <1>12, <1>13, <1>14

LEMMA OpenAgrees ==
  ASSUME ClaimsOnly, AgreeInv, NEW t \in Tasks, OpenSearchWindow(t), MoneyInv', ClaimInv'
  PROVE  AgreeInv'
<1> LocalsOK
  BY TypeParts DEF AgreeInv, MoneyInv
<1> USE DEF Assigning, IsLate, LateOps, Opening
<1>1. Alone(t)
  BY StepIsLocal DEF AgreeInv, MoneyInv, Step, Alone
<1>2. /\ UNCHANGED <<status, inspector, payment, intent, events, refunds, refundRow>>
      /\ pc[t] = "window" /\ search' = "open"
  BY DEF OpenSearchWindow, stripeVars, ledgerVars
<1>3. Admitting(t) /\ job[t].op = "authorizeOrderPayment"
  BY <1>2, Roles
<1>4. /\ pc'[t] = "read" /\ job'[t].to = "PAID" /\ job'[t].op = job[t].op
      /\ job'[t].reason = job[t].reason
  BY KeptOnMove DEF OpenSearchWindow
<1>5. Opens(t)' /\ Admitting(t)' /\ ~Claimed(t) /\ ~Claimed(t)'
  BY <1>3, <1>4 DEF Opens, Admitting, Claimed
<1> USE DEF AgreeInv, Alone
<1>6. search # "over" /\ "held" \in events
  BY <1>2, <1>3 DEF SearchEnds, HeldForOne
<1>7. InPlaces'
  BY <1>1, <1>2, <1>5 DEF InPlaces, InPlace, Answering, Expiring, Refunding, Admitting, Closing,
     Releasing
<1>8. RefundsShut'
  BY <1>1, <1>2, <1>4, <1>5 DEF RefundsShut, Shut, HasRow, Claimed
<1>9. OneReturns'
  BY <1>1, <1>2, <1>3, <1>4, <1>5 DEF OneReturns, Shut, HasRow, Claimed
<1>10. PaymentKnown'
  BY <1>2, <1>3, <1>6 DEF PaymentKnown, HeldForOne
<1>11. HoldIsDead'
  BY <1>1, <1>2, <1>3, <1>4, <1>5 DEF HoldIsDead, GivesUp, Claimed
<1>12. HeldForOne'
  BY <1>1, <1>2, <1>3, <1>4, <1>5, <1>6 DEF HeldForOne, Claimed
<1>13. SearchEnds'
  BY <1>1, <1>2, <1>3, <1>4, <1>5, <1>6 DEF SearchEnds
<1>14. Accounted'
  BY <1>1, <1>2, <1>3, <1>4 DEF Accounted, HasRow
<1> QED BY <1>7, <1>8, <1>9, <1>10, <1>11, <1>12, <1>13, <1>14

-----------------------------------------------------------------------------
\* Of the handlers that start, one cancels under a claim and the others write the
\* payment row at most.  First those: an assignment, a webhook, the reconciler.
Begins(t) ==
  /\ Alone(t) /\ InPlace(t)' /\ pc[t] = "idle"
  /\ UNCHANGED <<status, inspector, search, intent, events, refunds, refundRow>>
  /\ ~Claimed(t)' /\ ~IsLate(t)' /\ job'[t].op # "expireUnfilledSearches"
  /\ intent \notin {"unpaid", "auto"}
  /\ GivesUp(t)' => intent \in {"refused", "canceled"}
  /\ job'[t].op \in Opening => payment' \notin {"pending", "failed"}
  /\ job'[t].op = "authorizeOrderPayment" => pc'[t] = "admit" /\ "held" \in events
  /\ job'[t].op = "settleOrderPayment" => intent = "captured"
  /\ pc'[t] \notin {"refund_row", "refund_mark"}
  /\ payment' = "refunded" => payment = "refunded"
  /\ payment' \in {"pending", "failed"} => UNCHANGED payment
  /\ payment = "succeeded" => UNCHANGED payment

LEMMA BeginsAgree ==
  ASSUME AgreeInv, NEW t \in Tasks, Begins(t), MoneyInv', ClaimInv'
  PROVE  AgreeInv'
<1> USE DEF Begins, Alone, AgreeInv
<1>1. InPlace(t) /\ job[t] = NoJob /\ ~Claimed(t)
  BY DEF InPlaces, InPlace, Answering, Expiring, Refunding, Admitting, Closing, Releasing,
     Claiming, Claimed
<1>2. InPlaces'
  BY DEF InPlaces, InPlace, Answering, Expiring, Refunding, Admitting, Closing, Releasing, IsLate
<1>3. RefundsShut'
  BY DEF RefundsShut, Shut, HasRow, Claimed
<1>4. OneReturns'
  BY DEF OneReturns, Shut, HasRow, Claimed, IsLate
<1>5. PaymentKnown'
  BY DEF PaymentKnown, Claimed
<1>6. HoldIsDead'
  BY DEF HoldIsDead, GivesUp, Claimed
<1>7. HeldForOne'
  BY DEF HeldForOne, Claimed
<1>8. SearchEnds'
  BY DEF SearchEnds, Opens
<1>9. Accounted'
  BY DEF Accounted, HasRow, IsLate
<1> QED BY <1>2, <1>3, <1>4, <1>5, <1>6, <1>7, <1>8, <1>9

LEMMA RequestBegins ==
  ASSUME ClaimsOnly, AgreeInv, NEW t \in Tasks,
         \/ \E i \in Inspectors : AcceptOffer(t, i) \/ AdminAssign(t, i)
         \/ ReconcileStranded(t) \/ ReconcileCanceled(t) \/ Webhook(t)
  PROVE  Begins(t)
<1> LocalsOK
  BY TypeParts DEF AgreeInv, MoneyInv
<1> USE DEF Assigning, IsLate, LateOps, Opening, Claiming, orderVars, stripeVars, ledgerVars
<1>1. Alone(t)
  BY StartIsLocal DEF AgreeInv, MoneyInv, StartsAs, Request, Cron, Alone
<1>2. intent \in {"unpaid", "auto"} => /\ status = "CREATED" /\ events \subseteq {"failed"}
                                       /\ payment \in {"pending", "failed"}
  BY DEF AgreeInv, PaymentKnown
<1>3. /\ "captured" \in events => intent = "captured"
      /\ "canceled" \in events => intent = "canceled"
      /\ "held" \in events => intent \notin {"unpaid", "auto"}
  BY DEF AgreeInv, MoneyInv, RecordsAgree, HeldForOne
<1>4. ASSUME NEW i \in Inspectors, AcceptOffer(t, i) \/ AdminAssign(t, i) PROVE Begins(t)
  <2>1. status \in Pool
    BY <1>4 DEF AcceptOffer, AdminAssign, CanTransition, OrderTransitions, Statuses, Pool,
       AgreeInv, InPlaces
  <2>2. /\ pc[t] = "idle" /\ pc'[t] = "claim" /\ job'[t].op \in {"acceptOffer", "adminAssign"}
        /\ job'[t].reason = "capture_failed"
        /\ job'[t].op = "adminAssign" => job'[t].seen = status
    BY <1>4, MovedTo DEF AcceptOffer, AdminAssign, Job
  <2>3. InPlace(t)'
    BY <2>1, <2>2 DEF InPlace, Answering
  <2>4. UNCHANGED <<status, inspector, search, payment, intent, events, refunds, refundRow>>
    BY <1>4 DEF AcceptOffer, AdminAssign
  <2> QED BY <1>1, <1>2, <2>1, <2>2, <2>3, <2>4 DEF Begins, Claimed, GivesUp, Pool
<1>5. CASE ReconcileStranded(t)
  <2>1. pc[t] = "idle" /\ pc'[t] = "release" /\ job'[t].op = "stranded" /\ payment = "authorized"
    BY <1>5, MovedTo DEF ReconcileStranded, Job
  <2>2. UNCHANGED <<status, inspector, search, payment, intent, events, refunds, refundRow>>
    BY <1>5 DEF ReconcileStranded
  <2> QED BY <1>1, <1>2, <2>1, <2>2 DEF Begins, Claimed, GivesUp, InPlace, Releasing
<1>6. CASE AuthorizeOrderPayment(t)
  <2>1. /\ pc[t] = "idle" /\ pc'[t] = "admit" /\ job'[t].op = "authorizeOrderPayment"
        /\ "held" \in events
        /\ payment' = IF payment \in {"pending", "failed"} THEN "authorized" ELSE payment
    BY <1>6, MovedTo DEF AuthorizeOrderPayment, Job
  <2>2. UNCHANGED <<status, inspector, search, intent, events, refunds, refundRow>>
    BY <1>6 DEF AuthorizeOrderPayment
  <2> QED BY <1>1, <1>3, <2>1, <2>2 DEF Begins, Claimed, GivesUp, InPlace, Admitting
<1>7. CASE SettleOrderPayment(t)
  <2>1. /\ pc[t] = "idle" /\ pc'[t] = "admit" /\ job'[t].op = "settleOrderPayment"
        /\ "captured" \in events /\ payment' = "succeeded"
    BY <1>7, MovedTo DEF SettleOrderPayment, Job
  <2>2. UNCHANGED <<status, inspector, search, intent, events, refunds, refundRow>>
    BY <1>7 DEF SettleOrderPayment
  <2> QED BY <1>1, <1>3, <2>1, <2>2 DEF Begins, Claimed, GivesUp, InPlace, Admitting
<1>8. CASE CancelOrderPayment(t) \/ ReconcileCanceled(t)
  <2>1. /\ pc[t] = "idle" /\ job'[t].op = "cancelOrderPayment" /\ job'[t].to = "CANCELLED"
        /\ pc'[t] \in {"close", "read"} /\ intent = "canceled"
        /\ payment' = "cancelled" /\ payment # "succeeded"
    BY <1>3, <1>8, MovedTo DEF CancelOrderPayment, ReconcileCanceled, Job
  <2>2. UNCHANGED <<status, inspector, search, intent, events, refunds, refundRow>>
    BY <1>8 DEF CancelOrderPayment, ReconcileCanceled
  <2> QED BY <1>1, <2>1, <2>2 DEF Begins, Claimed, GivesUp, InPlace, Closing
<1> QED BY <1>4, <1>5, <1>6, <1>7, <1>8 DEF Webhook

\* The handlers that claim to cancel: the order is CANCELLED with their first write.
LEMMA CancelledAgrees ==
  ASSUME ClaimsOnly, AgreeInv, NEW t \in Tasks, MoneyInv', ClaimInv',
         \/ ExpireUnfilledSearches(t) \/ SweepAbandoned(t)
         \/ DeclineByInspector(t) \/ OwnerUnreachable(t)
  PROVE  AgreeInv'
<1> LocalsOK
  BY TypeParts DEF AgreeInv, MoneyInv
<1> USE DEF Assigning, IsLate, LateOps, Opening, Claiming
<1>1. Alone(t)
  BY StartIsLocal DEF AgreeInv, MoneyInv, StartsAs, Request, Cron, Alone
<1>2. \/ /\ inspector = NoOne /\ search = "over" /\ status \in Pool
         /\ job'[t].op = "expireUnfilledSearches" /\ job'[t].reason = "search_expired"
      \/ /\ status = "ASSIGNED" /\ IsLate(t)' /\ job'[t].reason \in LateReasons
  BY MovedTo DEF ExpireUnfilledSearches, SweepAbandoned, DeclineByInspector, OwnerUnreachable,
     ClaimCancelled, Job, LateReasons, Declinable, Sweepable, AgreeInv, InPlaces, Pool
<1>3. /\ UNCHANGED <<inspector, search, payment, intent, events, refunds, refundRow>>
      /\ status' = "CANCELLED" /\ pc[t] = "idle" /\ pc'[t] = "settle"
  BY MovedTo DEF ExpireUnfilledSearches, SweepAbandoned, DeclineByInspector, OwnerUnreachable,
     ClaimCancelled, stripeVars, ledgerVars
<1> USE DEF AgreeInv, Alone
<1>4. ~Claimed(t) /\ ~Claimed(t)' /\ InPlace(t)'
  BY <1>2, <1>3 DEF Claimed, InPlace, Expiring, Refunding
<1>5. \A u \in Tasks : ~Claimed(u)
  BY <1>2, NoOneAssumption DEF RefundsShut, Working, ClaimInv, OneClaimant, ClaimantIsReal, Claimed
<1>6. /\ ~Shut \/ status \in Pool
      /\ status = "ASSIGNED" => inspector # NoOne
      /\ inspector = NoOne => ~Shut
  BY <1>2 DEF Shut, Working, RefundsShut
<1>7. refunds = {} /\ ~HasRow /\ \A u \in Tasks : ~IsLate(u)
  BY <1>2, <1>6 DEF RefundsShut, OneReturns, Shut, Working
<1>8. \A u \in Tasks : job[u].op # "expireUnfilledSearches"
  BY <1>2 DEF SearchEnds, Pool
<1>9. payment \notin {"pending", "failed"} /\ intent \notin {"unpaid", "auto"}
  BY <1>2 DEF PaymentKnown, Pool
<1>10. InPlaces'
  BY <1>1, <1>3, <1>4 DEF InPlaces, InPlace, Answering, Expiring, Refunding, Admitting, Closing,
     Releasing
<1>11. RefundsShut'
  BY <1>1, <1>3, <1>7 DEF RefundsShut, HasRow, Working
<1>12. OneReturns'
  <2>1. ASSUME NEW u \in Tasks, IsLate(u)' PROVE u = t /\ status = "ASSIGNED"
    BY <1>1, <1>2, <1>7, <2>1
  <2>2. status = "ASSIGNED" => Shut' /\ payment' = "succeeded"
    BY <1>1, <1>3, <1>4, <1>5, <1>6, <1>7 DEF Shut, Working, Claimed, MoneyInv,
       AssignedIsCaptured, Taken, RefundsShut
  <2> QED BY <1>3, <1>7, <2>1, <2>2 DEF OneReturns, HasRow
<1>13. PaymentKnown'
  BY <1>3, <1>9 DEF PaymentKnown
<1>14. HoldIsDead'
  BY <1>1, <1>2, <1>3, <1>4, <1>5 DEF HoldIsDead, GivesUp, Claimed
<1>15. HeldForOne'
  BY <1>1, <1>2, <1>3, <1>4 DEF HeldForOne, Claimed
<1>16. SearchEnds'
  BY <1>1, <1>2, <1>3, <1>8 DEF SearchEnds, HeldForOne
<1>17. Accounted'
  BY <1>2, <1>3 DEF Accounted, SearchEnds, HeldForOne
<1> QED BY <1>10, <1>11, <1>12, <1>13, <1>14, <1>15, <1>16, <1>17

\* The customer, the clock, and the handlers of one statement.
LEMMA OthersAgree ==
  ASSUME AgreeInv, Environment \/ OwnerReached \/ PaymentFailedEvent
                   \/ ChargeRefundedEvent \/ UNCHANGED vars,
         MoneyInv', ClaimInv'
  PROVE  AgreeInv'
<1> USE DEF orderVars, stripeVars, ledgerVars, taskVars, AgreeInv
<1>1. UNCHANGED <<status, inspector, refunds, refundRow, pc, job>>
  BY DEF Environment, Confirm, DeclineCard, HoldLapses, SearchWindowCloses, StartDeadlinePasses,
     OwnerReached, PaymentFailedEvent, ChargeRefundedEvent, vars
<1>2. InPlaces'
  BY <1>1 DEF InPlaces, InPlace, Answering, Expiring, Refunding, Admitting, Closing, Releasing,
     IsLate
<1>3. CASE Confirm
  <2>1. /\ \A t \in Tasks : pc[t] = "idle" /\ job[t] = NoJob
        /\ status = "CREATED" /\ search = "none" /\ events \subseteq {"failed"}
        /\ payment \in {"pending", "failed"}
    BY <1>3 DEF Confirm, PaymentKnown, InPlaces, InPlace, Answering, Expiring, Refunding,
       Admitting, Closing, Releasing, Claiming
  <2>2. \A t \in Tasks : ~Claimed(t)' /\ ~IsLate(t)' /\ ~GivesUp(t)' /\ job'[t].op = "none"
    BY <1>1, <2>1 DEF Claimed, IsLate, LateOps, GivesUp, NoJob, Job, Assigning
  <2>3. /\ UNCHANGED <<search, payment>> /\ intent' \in {"held", "captured"}
        /\ "held" \in events' => intent' = "held"
        /\ "held" \notin events' => intent' = "captured"
        /\ "refunded" \notin events'
    BY <1>3, <2>1 DEF Confirm
  <2>4. RefundsShut'
    BY <1>1, <2>1, <2>3 DEF RefundsShut, Shut, HasRow, Working, Claimed
  <2>5. OneReturns'
    BY <1>1, <2>2 DEF OneReturns
  <2>6. PaymentKnown'
    BY <1>1, <2>1, <2>2, <2>3 DEF PaymentKnown, Opening
  <2>7. HoldIsDead' /\ HeldForOne'
    BY <2>1, <2>2, <2>3 DEF HoldIsDead, HeldForOne
  <2>8. SearchEnds' /\ Accounted'
    BY <1>1, <2>1, <2>2, <2>3 DEF SearchEnds, Accounted
  <2> QED BY <1>2, <2>4, <2>5, <2>6, <2>7, <2>8
<1>4. CASE SearchWindowCloses
  <2>1. UNCHANGED <<payment, intent, events>> /\ search = "open" /\ search' = "over"
    BY <1>4 DEF SearchWindowCloses
  <2>2. /\ status # "CREATED"
        /\ \A t \in Tasks : job[t].op = "authorizeOrderPayment" => pc[t] = "admit"
    BY <1>4 DEF SearchWindowCloses, SearchEnds, Opens
  <2>3. RefundsShut' /\ OneReturns'
    BY <1>1, <2>1 DEF RefundsShut, OneReturns, Shut, HasRow, Claimed, IsLate
  <2>4. PaymentKnown' /\ HoldIsDead' /\ HeldForOne' /\ Accounted'
    BY <1>1, <2>1, <2>2 DEF PaymentKnown, HoldIsDead, HeldForOne, Accounted, HasRow, Claimed,
       GivesUp, IsLate
  <2>5. SearchEnds'
    BY <1>1, <2>1, <2>2 DEF SearchEnds
  <2> QED BY <1>2, <2>3, <2>4, <2>5
<1>5. CASE DeclineCard \/ HoldLapses \/ StartDeadlinePasses \/ OwnerReached
           \/ PaymentFailedEvent \/ ChargeRefundedEvent \/ UNCHANGED vars
  <2>1. /\ UNCHANGED search
        /\ \/ intent = "unpaid" /\ UNCHANGED <<intent, payment>>
              /\ events' = events \cup {"failed"}
           \/ intent \in {"held", "refused"} /\ intent' = "canceled" /\ UNCHANGED payment
              /\ events' = events \cup {"canceled"}
           \/ /\ UNCHANGED <<intent, events>>
              /\ \/ UNCHANGED payment
                 \/ payment' = "refunded" /\ "refunded" \in events
                 \/ payment' = "failed" /\ payment \in {"pending", "failed"}
    BY <1>5 DEF DeclineCard, HoldLapses, StartDeadlinePasses, OwnerReached, PaymentFailedEvent,
       ChargeRefundedEvent, vars
  <2>2. RefundsShut'
    BY <1>1, <2>1 DEF RefundsShut, Shut, HasRow, Claimed
  <2>3. OneReturns'
    BY <1>1, <2>1 DEF OneReturns, RefundsShut, Shut, HasRow, Claimed, IsLate
  <2>4. PaymentKnown'
    BY <1>1, <2>1 DEF PaymentKnown, Claimed, MoneyInv, RecordsAgree, RefundsShut
  <2>5. HoldIsDead' /\ HeldForOne'
    BY <1>1, <2>1 DEF HoldIsDead, HeldForOne, Claimed, GivesUp, PaymentKnown
  <2>6. SearchEnds' /\ Accounted'
    BY <1>1, <2>1 DEF SearchEnds, Accounted, Opens, HasRow, IsLate
  <2> QED BY <1>2, <2>2, <2>3, <2>4, <2>5, <2>6
<1> QED BY <1>3, <1>4, <1>5 DEF Environment

LEMMA AgreeNext == ClaimsOnly /\ AgreeInv /\ [Next]_vars => AgreeInv'
<1> SUFFICES ASSUME ClaimsOnly, AgreeInv, [Next]_vars PROVE AgreeInv'
  OBVIOUS
<1>1. MoneyInv' /\ ClaimInv'
  BY MoneySteps, ClaimNext DEF AgreeInv
<1>2. ASSUME NEW t \in Tasks, Step(t) PROVE AgreeInv'
  <2>1. CASE \/ TransitionRead(t) \/ SettleRefund(t) \/ FindPayment(t)
             \/ DispatchAfterPaid(t) \/ AdmitOrder(t) \/ CloseOrder(t)
    BY <1>1, <2>1, QuietAgrees, MovesAgree
  <2> QED BY <1>1, <1>2, <2>1, WriteAgrees, ReleaseAgrees, ReleasedAgrees, RefundAgrees,
             RecordedAgrees, CaptureAgrees, CapturedAgrees, ClaimAgrees, UnclaimAgrees,
             OpenAgrees DEF Step
<1>3. ASSUME NEW t \in Tasks, StartsAs(t) PROVE AgreeInv'
  <2>1. \A l, j : Start(t, l, j) => j.op \in ClaimsHandlers
    BY DEF Start, ClaimsOnly
  <2>2. ~Cancel(t) /\ ~AdminCancel(t) /\ ~SubmitReport(t) /\ ~DispatchFindsNobody(t)
    BY <2>1 DEF Cancel, AdminCancel, SubmitReport, DispatchFindsNobody, Job, ClaimsHandlers
  <2>3. \A to : ~UpdateStatus(t, to)
    BY <2>1 DEF UpdateStatus, Job, ClaimsHandlers
  <2>4. CASE \/ \E i \in Inspectors : AcceptOffer(t, i) \/ AdminAssign(t, i)
             \/ ReconcileStranded(t) \/ ReconcileCanceled(t) \/ Webhook(t)
    BY <1>1, <2>4, RequestBegins, BeginsAgree
  <2>5. ReconcileWaiting(t) => Webhook(t)
    BY DEF ReconcileWaiting, Webhook
  <2> QED BY <1>1, <1>3, <2>2, <2>3, <2>4, <2>5, CancelledAgrees DEF StartsAs, Request, Cron
<1>4. \A t \in Tasks : ~Crash(t)
  BY DEF Crash, ClaimsOnly
<1> QED BY <1>1, <1>2, <1>3, <1>4, OthersAgree DEF Next, StartsAs

\* What OrderEscrow says of its handlers it says of those of the third way.
LEMMA AsClaims == ClaimsHold /\ CancelledMoneyIsAccounted => ClaimsAgree
<1>1. \A S : Claims!Cardinality(S) = Cardinality(S)
  BY DEF Claims!Cardinality, Cardinality
<1> QED BY <1>1 DEF ClaimsAgree, ClaimsHold, CancelledMoneyIsAccounted, NoWorkAfterRefund,
           RefundedUnderOneReason, ExpiredSearchHoldsNoMoney, AllIdle, Working, Reasons,
           Claims!ClaimsHold, Claims!CancelledMoneyIsAccounted, Claims!NoWorkAfterRefund,
           Claims!RefundedUnderOneReason, Claims!ExpiredSearchHoldsNoMoney, Claims!AllIdle,
           Claims!Working, Claims!Reasons

\* Whoever claims to cancel pays back once, under nobody working, and leaves a row
\* behind, however many handlers overlap.
THEOREM ClaimsDoAgree ==
  ASSUME ClaimsOnly
  PROVE  Spec => [](ClaimsHold /\ CancelledMoneyIsAccounted /\ ClaimsAgree)
<1>1. Init => AgreeInv
  BY AgreeInit
<1>2. AgreeInv /\ [Next]_vars => AgreeInv'
  BY AgreeNext
<1>3. AgreeInv => ClaimsHold /\ CancelledMoneyIsAccounted /\ ClaimsAgree
  BY AgreeHolds, AsClaims
<1> QED BY <1>1, <1>2, <1>3, PTL DEF Spec
=============================================================================
