------------------------------ MODULE MCEscrow ------------------------------
(* OrderEscrow on small instances, in three ways, one of them a behaviour: two handlers  *)
(* that assign, take the money and reconcile, under every fault; two, where the customer *)
(* and the operator both cancel; and three that cancel under a claim, which are to agree *)
(* about the money, while the process lives and Stripe answers.  A fourth is of Dispatch: *)
(* two functions that answer the offers of one order, overlapping as they like.          *)
EXTENDS OrderEscrow, TLC

CONSTANTS t1, t2, t3, i1, i2

\* A full refund for every reason but the late cancellation, which keeps half.
MCShare == [r \in Reasons |-> IF r = "cancel_after_assign" THEN 1 ELSE 2]

\* The handlers that assign, take the money, cancel before or after that, work
\* or reconcile: the operator's cancellation is that of the second way, the claim-first
\* cancellations after assignment and the failure events are those of the third.
MoneyHandlers == HandlerNames \ {"adminCancel", "declineByInspector", "ownerReached",
  "ownerUnreachable", "sweepAbandonedInspections", "cancelOrderPayment",
  "payment_failed", "charge_refunded"}

MCSymmetry == Permutations(Tasks) \cup Permutations(Inspectors)

VARIABLES which, order, over, locked, free, offers, refused, poolAt, poolJob

OfficeHandlers == {"acceptOffer", "cancel", "adminCancel", "authorizeOrderPayment",
  "settleOrderPayment", "stranded"}

Office == INSTANCE OrderEscrow WITH Handlers <- OfficeHandlers, Faults <- {"lost", "refused"}

ClaimsHandlers == {"acceptOffer", "adminAssign", "expireUnfilledSearches",
  "authorizeOrderPayment", "settleOrderPayment", "stranded", "declineByInspector",
  "ownerReached", "ownerUnreachable", "sweepAbandonedInspections", "cancelOrderPayment",
  "payment_failed", "charge_refunded"}

Claims == INSTANCE OrderEscrow WITH Handlers <- ClaimsHandlers, Faults <- {"down", "refused"}

PoolHandlers == {"authorize", "decline", "acceptOffer", "adminAssign", "cancel"}

Answers == INSTANCE Dispatch WITH Handlers <- PoolHandlers, Alone <- {},
  MaxRound <- 1, MaxRows <- 2, pc <- poolAt, job <- poolJob

poolState == <<order, over, locked, free, offers, refused, poolAt, poolJob>>

\* Two at a time of the three tasks run in every way but the claims.
AtMostTwo(labels) == Cardinality({t \in Tasks : labels[t] # "idle"}) <= 2

EscrowInit ==
  /\ which \in {"money", "office", "claims", "answers"}
  /\ Init /\ Answers!Init
  /\ which # "answers" => free = Inspectors
  /\ which = "answers" => intent = "unpaid"
MoneyNext == which = "money" /\ Next /\ AtMostTwo(pc') /\ UNCHANGED <<which, poolState>>
OfficeNext ==
  which = "office" /\ Office!Next /\ AtMostTwo(pc') /\ UNCHANGED <<which, poolState>>
ClaimsNext == which = "claims" /\ Claims!Next /\ UNCHANGED <<which, poolState>>
AnswersNext ==
  which = "answers" /\ Answers!Next /\ AtMostTwo(poolAt') /\ UNCHANGED <<which, vars>>
EscrowSpec ==
  /\ EscrowInit
  /\ [][MoneyNext \/ OfficeNext \/ ClaimsNext \/ AnswersNext]_<<which, vars, poolState>>

\* What the claim-first cancellations promise, where no process dies between its claim and
\* its settlement: work, refunds and searches agree, and the customer's money is accounted
\* for in the refund rows once the order is CANCELLED.
ClaimsAgree == which = "claims" => Claims!ClaimsHold /\ Claims!CancelledMoneyIsAccounted

\* What the functions that answer offers promise.
OneAcceptance == which = "answers" => Answers!OneAcceptance
=============================================================================
