------------------------- MODULE Settlement_proofs -------------------------
(***************************************************************************)
(* The theorems of Settlement, for any number of concurrent handlers, any   *)
(* cap, any set of handlers and any set of faults.                          *)
(***************************************************************************)
EXTENDS Settlement, FiniteSetTheorems, TLAPS

\* The part of TypeOK about the tasks, and the part about everything else.
LocalsOK == pc \in [Tasks -> Labels] /\ job \in [Tasks -> Jobs]

SharedOK ==
  /\ status \in Statuses /\ overdue \in BOOLEAN /\ onboarded \in BOOLEAN
  /\ dispute \in {"none", "open", "customer", "inspector"}
  /\ payout \in PayoutRows
  /\ sent \subseteq TransferIds /\ failed \subseteq sent
  /\ reported \subseteq 0 .. MaxTransfers
  /\ key \in sent \cup {0}
  /\ bank \in BOOLEAN /\ refunded \in BOOLEAN

LEMMA TypeParts == TypeOK <=> SharedOK /\ LocalsOK
  BY DEF TypeOK, SharedOK, LocalsOK

-----------------------------------------------------------------------------
\* The constant row and the jobs a handler starts with.
LEMMA NoPayoutTyped == NoPayout \in PayoutRows
  BY BoundsAssumption DEF NoPayout, PayoutRows, PayoutStates

LEMMA JobTyped ==
  ASSUME NEW op \in HandlerNames \cup {"none"}, NEW to \in Targets
  PROVE  Job(op, to) \in Jobs
  BY NoPayoutTyped, BoundsAssumption DEF Job, Jobs

LEMMA NoJobTyped == NoJob \in Jobs
  BY JobTyped DEF NoJob, Targets

\* Counting an attempt stays within the cap.
LEMMA BumpTyped ==
  ASSUME NEW n \in 0 .. MaxAttempts
  PROVE  Bump(n) \in 0 .. MaxAttempts
  BY BoundsAssumption DEF Bump

\* planRetry leaves a row a row, and never one that waits for a retry past the cap.
LEMMA PlanRetryTyped ==
  ASSUME NEW row \in PayoutRows
  PROVE  /\ PlanRetry(row) \in PayoutRows
         /\ PlanRetry(row).state # "paid"
         /\ PlanRetry(row).due => PlanRetry(row).attempts < MaxAttempts
<1>1. Bump(row.attempts) \in 0 .. MaxAttempts
  BY BumpTyped DEF PayoutRows
<1>2. CASE Bump(row.attempts) < MaxAttempts
  BY <1>1, <1>2 DEF PlanRetry, PayoutRows, PayoutStates
<1>3. CASE ~(Bump(row.attempts) < MaxAttempts)
  BY <1>1, <1>3 DEF PlanRetry, PayoutRows, PayoutStates
<1> QED BY <1>2, <1>3

\* Every way a task moves keeps the locals in their types.
LEMMA MovesTyped ==
  ASSUME LocalsOK, NEW t \in Tasks
  PROVE  /\ \A l \in Labels : Goto(t, l) => LocalsOK'
         /\ Return(t) => LocalsOK'
         /\ \A s \in Targets : Transition(t, s) => LocalsOK'
         /\ \A l \in Labels, j \in Jobs : Start(t, l, j) => LocalsOK'
<1>1. ASSUME NEW l \in Labels, Goto(t, l) PROVE LocalsOK'
  BY <1>1 DEF LocalsOK, Goto
<1>2. ASSUME Return(t) PROVE LocalsOK'
  BY <1>2, NoJobTyped DEF LocalsOK, Return, Labels
<1>3. ASSUME NEW s \in Targets, Transition(t, s) PROVE LocalsOK'
  BY <1>3 DEF LocalsOK, Transition, Labels, Jobs
<1>4. ASSUME NEW l \in Labels, NEW j \in Jobs, Start(t, l, j) PROVE LocalsOK'
  BY <1>4 DEF LocalsOK, Start
<1> QED BY <1>1, <1>2, <1>3, <1>4

\* What a handler does when one of its callees returns is one of those moves.
LEMMA ReturnsTyped ==
  ASSUME LocalsOK, NEW t \in Tasks
  PROVE  /\ AfterRelease(t) => LocalsOK'
         /\ Illegal(t) => LocalsOK'
         /\ AfterTransition(t) => LocalsOK'
<1>1. AfterRelease(t) => LocalsOK'
  BY MovesTyped DEF AfterRelease, Labels
<1>2. Illegal(t) => LocalsOK'
  BY MovesTyped DEF Illegal, Labels
<1>3. ASSUME AfterTransition(t) PROVE LocalsOK'
  <2>1. job[t].to \in Targets
    BY DEF LocalsOK, Jobs
  <2> QED BY <1>1, <1>3, <2>1, MovesTyped DEF AfterTransition, Labels, Targets
<1> QED BY <1>1, <1>2, <1>3

\* Nothing outside the tasks changes.
LEMMA SharedStays ==
  ASSUME SharedOK, UNCHANGED <<orderVars, payout, stripeVars>>
  PROVE  SharedOK'
  BY DEF SharedOK, orderVars, stripeVars

\* Only the payout row changes, to another row.
LEMMA PayoutChanges ==
  ASSUME SharedOK, payout' \in PayoutRows, UNCHANGED <<orderVars, stripeVars>>
  PROVE  SharedOK'
  BY DEF SharedOK, orderVars, stripeVars

-----------------------------------------------------------------------------
LEMMA InitTyped == Init => TypeOK
<1> SUFFICES ASSUME Init PROVE TypeOK
  OBVIOUS
<1>1. SharedOK
  <2>1. status \in Statuses /\ overdue \in BOOLEAN /\ onboarded \in BOOLEAN
        /\ dispute \in {"none", "open", "customer", "inspector"}
    BY DEF Init, Statuses
  <2>2. payout \in PayoutRows
    BY NoPayoutTyped DEF Init
  <2>3. /\ sent \subseteq TransferIds /\ failed \subseteq sent
        /\ reported \subseteq 0 .. MaxTransfers
        /\ key \in sent \cup {0} /\ bank \in BOOLEAN /\ refunded \in BOOLEAN
    BY DEF Init
  <2> QED BY <2>1, <2>2, <2>3 DEF SharedOK
<1>2. LocalsOK
  <2>1. pc \in [Tasks -> Labels]
    BY DEF Init, Labels
  <2>2. job \in [Tasks -> Jobs]
    BY NoJobTyped DEF Init
  <2> QED BY <2>1, <2>2 DEF LocalsOK
<1> QED BY <1>1, <1>2, TypeParts

\* A statement of a running handler.
LEMMA StepTyped ==
  ASSUME SharedOK, LocalsOK, NEW t \in Tasks, Step(t)
  PROVE  SharedOK' /\ LocalsOK'
<1>0. LocalsOK /\ SharedOK
  OBVIOUS
<1>a. /\ job[t] \in Jobs
      /\ job[t].to \in Targets /\ job[t].saw \in PayoutRows
      /\ job[t].id \in 0 .. MaxTransfers
  BY <1>0 DEF LocalsOK, Jobs
<1>b. payout \in PayoutRows
  BY <1>0 DEF SharedOK
<1>1. CASE TransitionRead(t)
  BY <1>0, <1>1, SharedStays, MovesTyped, ReturnsTyped DEF TransitionRead, Labels
<1>2. CASE TransitionWrite(t)
  <2>1. SharedOK'
    BY <1>0, <1>2, <1>a DEF TransitionWrite, SharedOK, Targets, Statuses, stripeVars
  <2> QED BY <1>0, <1>2, <2>1, ReturnsTyped DEF TransitionWrite
<1>3. CASE ReadOrder(t)
  BY <1>0, <1>3, SharedStays, MovesTyped DEF ReadOrder, Labels
<1>4. CASE SkipPayout(t)
  <2>1. payout' \in PayoutRows
    BY <1>b, <1>4 DEF SkipPayout, PayoutRows
  <2> QED BY <1>0, <1>4, <2>1, PayoutChanges, ReturnsTyped DEF SkipPayout
<1>5. CASE ReadPayout(t)
  BY <1>0, <1>5, SharedStays, MovesTyped, ReturnsTyped DEF ReadPayout, Labels
<1>6. CASE ReadProfile(t)
  BY <1>0, <1>6, SharedStays, MovesTyped DEF ReadProfile, Labels
<1>7. CASE CreateTransfer(t)
  <2>1. SharedOK' /\ key' \in 0 .. MaxTransfers
    BY <1>0, <1>7, BoundsAssumption
       DEF CreateTransfer, NewTransfer, SharedOK, TransferIds, orderVars, stripeVars
  <2>2. LocalsOK'
    <3>1. CASE Goto(t, "park_find")
      BY <1>0, <3>1, MovesTyped DEF Labels
    <3>2. CASE /\ pc' = [pc EXCEPT ![t] = "mark_find"]
               /\ \E n \in 0 .. MaxTransfers : job' = [job EXCEPT ![t].id = n]
      BY <1>0, <3>2 DEF LocalsOK, Labels, Jobs
    <3>3. key \in 0 .. MaxTransfers
      BY <1>0, BoundsAssumption DEF SharedOK, TransferIds
    <3> QED BY <1>7, <2>1, <3>1, <3>2, <3>3 DEF CreateTransfer
  <2> QED BY <2>1, <2>2
<1>8. CASE FindBeforeMark(t)
  <2>1. Look(t, "mark") => LocalsOK'
    BY <1>0, <1>b DEF Look, LocalsOK, Labels, Jobs
  <2> QED BY <1>0, <1>8, <2>1, SharedStays, ReturnsTyped DEF FindBeforeMark
<1>9. CASE MarkPayoutPaid(t)
  <2>1. payout' \in PayoutRows
    <3>1. Bump(job[t].saw.attempts) \in 0 .. MaxAttempts
      BY <1>a, BumpTyped DEF PayoutRows
    <3>2. \/ payout' = payout
          \/ payout' = [state |-> "paid", attempts |-> Bump(job[t].saw.attempts),
                        due |-> FALSE, transfer |-> job[t].id]
      BY <1>9 DEF MarkPayoutPaid
    <3>3. \A n \in 0 .. MaxAttempts, i \in 0 .. MaxTransfers :
            [state |-> "paid", attempts |-> n, due |-> FALSE, transfer |-> i] \in PayoutRows
      BY DEF PayoutRows, PayoutStates
    <3> QED BY <1>a, <1>b, <3>1, <3>2, <3>3
  <2>2. LocalsOK'
    BY <1>0, <1>9, MovesTyped, ReturnsTyped DEF MarkPayoutPaid, Targets
  <2> QED BY <1>0, <1>9, <2>1, <2>2, PayoutChanges DEF MarkPayoutPaid
<1>10. CASE FindBeforePark(t)
  <2>1. LocalsOK'
    BY <1>0, <1>b, <1>10 DEF FindBeforePark, Look, LocalsOK, Labels, Jobs
  <2> QED BY <1>0, <1>10, <2>1, SharedStays DEF FindBeforePark
<1>11. CASE ParkPayout(t)
  <2>1. payout' \in PayoutRows
    <3>1. PlanRetry(job[t].saw) \in PayoutRows
      BY <1>a, PlanRetryTyped
    <3>2. payout.transfer \in 0 .. MaxTransfers
      BY <1>b DEF PayoutRows
    <3> QED BY <1>11, <3>1, <3>2 DEF ParkPayout, PayoutRows
  <2> QED BY <1>0, <1>11, <2>1, PayoutChanges, ReturnsTyped DEF ParkPayout
<1>12. CASE WriteDispute(t)
  <2>1. SharedOK'
    BY <1>0, <1>12 DEF WriteDispute, SharedOK, stripeVars
  <2> QED BY <1>0, <1>12, <2>1, MovesTyped DEF WriteDispute
<1>13. CASE RefundDispute(t)
  <2>1. SharedOK'
    BY <1>0, <1>13 DEF RefundDispute, SharedOK, orderVars
  <2> QED BY <1>0, <1>13, <2>1, MovesTyped DEF RefundDispute, Targets
<1>14. CASE CloseDispute(t)
  <2>1. SharedOK'
    BY <1>0, <1>14 DEF CloseDispute, SharedOK, stripeVars
  <2> QED BY <1>0, <1>14, <2>1, MovesTyped DEF CloseDispute
<1>15. CASE ResetAttempts(t)
  <2>1. payout' \in PayoutRows
    <3>1. payout' = [payout EXCEPT !.attempts = 0, !.due = TRUE] /\ 0 \in 0 .. MaxAttempts
      BY <1>15, BoundsAssumption DEF ResetAttempts
    <3> QED BY <1>b, <3>1 DEF PayoutRows
  <2> QED BY <1>0, <1>15, <2>1, PayoutChanges, MovesTyped DEF ResetAttempts, Labels
<1>16. CASE SettleByHand(t)
  <2>1. payout' \in PayoutRows
    BY <1>b, <1>16 DEF SettleByHand, PayoutRows, PayoutStates
  <2> QED BY <1>0, <1>16, <2>1, PayoutChanges, MovesTyped DEF SettleByHand, Targets
<1>17. CASE FreeTransferId(t)
  <2>1. payout' \in PayoutRows
    BY <1>b, <1>17, BoundsAssumption DEF FreeTransferId, PayoutRows
  <2>2. LocalsOK'
    BY <1>0, <1>17, MovesTyped DEF FreeTransferId, Labels
  <2>3. reported' \subseteq 0 .. MaxTransfers
    BY <1>0, <1>a, <1>17 DEF FreeTransferId, SharedOK
  <2> QED BY <1>0, <1>17, <2>1, <2>2, <2>3 DEF FreeTransferId, SharedOK, orderVars
<1>18. CASE WriteConfirmed(t)
  <2>1. payout' \in PayoutRows
    BY <1>b, <1>18 DEF WriteConfirmed, PayoutRows, PayoutStates
  <2> QED BY <1>0, <1>18, <2>1, PayoutChanges, MovesTyped DEF WriteConfirmed
<1> QED BY <1>1, <1>2, <1>3, <1>4, <1>5, <1>6, <1>7, <1>8, <1>9, <1>10, <1>11,
           <1>12, <1>13, <1>14, <1>15, <1>16, <1>17, <1>18 DEF Step

\* A request, a tick of a cron or a webhook that starts.
LEMMA StartTyped ==
  ASSUME SharedOK, LocalsOK, NEW t \in Tasks, StartHandler(t)
  PROVE  SharedOK' /\ LocalsOK'
<1>1. \A op \in HandlerNames, to \in Targets, l \in Labels :
        Start(t, l, Job(op, to)) => LocalsOK'
  BY JobTyped, MovesTyped
<1>2. Approve(t) \/ AutoApprove(t) \/ Dispute(t) => SharedOK' /\ LocalsOK'
  BY <1>1, SharedStays DEF Approve, AutoApprove, Dispute, HandlerNames, Targets, Labels
<1>3. ResolveCustomer(t) \/ ResolveInspector(t) => SharedOK' /\ LocalsOK'
  BY <1>1, SharedStays DEF ResolveCustomer, ResolveInspector, HandlerNames, Targets, Labels
<1>4. RetryStuckPayouts(t) \/ AdminRetryPayout(t) \/ ConfirmTransfer(t)
        => SharedOK' /\ LocalsOK'
  BY <1>1, SharedStays
     DEF RetryStuckPayouts, AdminRetryPayout, ConfirmTransfer, HandlerNames, Targets, Labels
<1>5. CASE AdminMarkPayoutPaid(t)
  <2>1. SharedOK'
    BY <1>5 DEF AdminMarkPayoutPaid, SharedOK, orderVars
  <2> QED BY <1>1, <1>5, <2>1 DEF AdminMarkPayoutPaid, HandlerNames, Targets, Labels
<1>6. CASE FailTransfer(t)
  <2>1. PICK n \in failed \ reported :
          /\ \/ /\ Start(t, "free", [Job("failTransfer", "COMPLETED") EXCEPT !.id = n])
                /\ UNCHANGED reported
             \/ reported' = reported \cup {n} /\ UNCHANGED taskVars
          /\ UNCHANGED <<orderVars, payout, sent, failed, key, bank, refunded>>
    BY <1>6 DEF FailTransfer
  <2>2. n \in 0 .. MaxTransfers
    BY <2>1, BoundsAssumption DEF SharedOK, TransferIds
  <2>3. SharedOK'
    BY <2>1, <2>2 DEF SharedOK, orderVars
  <2>4. [Job("failTransfer", "COMPLETED") EXCEPT !.id = n] \in Jobs
    BY <2>2, JobTyped DEF Jobs, HandlerNames, Targets
  <2>5. LocalsOK'
    <3>1. UNCHANGED taskVars => LocalsOK'
      BY DEF LocalsOK, taskVars
    <3>2. Start(t, "free", [Job("failTransfer", "COMPLETED") EXCEPT !.id = n]) => LocalsOK'
      BY <2>4, MovesTyped DEF Labels
    <3> QED BY <2>1, <3>1, <3>2
  <2> QED BY <2>3, <2>5
<1> QED BY <1>2, <1>3, <1>4, <1>5, <1>6 DEF StartHandler

LEMMA TypeNext == SharedOK /\ LocalsOK /\ [Next]_vars => (SharedOK /\ LocalsOK)'
<1> SUFFICES ASSUME SharedOK, LocalsOK, [Next]_vars PROVE SharedOK' /\ LocalsOK'
  OBVIOUS
<1>1. ASSUME NEW t \in Tasks, Crash(t) PROVE SharedOK' /\ LocalsOK'
  BY <1>1, SharedStays, MovesTyped DEF Crash
<1>2. CASE World
  <2>1. LocalsOK'
    BY <1>2 DEF World, ReviewEnds, AccountUpdated, TransferComesBack, KeyExpires,
                LocalsOK, taskVars
  <2>2. SharedOK'
    BY <1>2 DEF World, ReviewEnds, AccountUpdated, TransferComesBack, KeyExpires,
                SharedOK, orderVars, stripeVars
  <2> QED BY <2>1, <2>2
<1>3. CASE UNCHANGED vars
  BY <1>3, SharedStays DEF vars, LocalsOK, taskVars
<1> QED BY <1>1, <1>2, <1>3, StepTyped, StartTyped DEF Next

\* Whatever is resolved, retried, reversed, settled by hand or lost in between,
\* the order, its payout row and every running handler keep their types: in
\* particular the attempts never pass the cap and every transfer on record was made.
THEOREM TypeCorrect == Spec => []TypeOK
<1>1. Init => SharedOK /\ LocalsOK
  BY InitTyped, TypeParts
<1>2. SharedOK /\ LocalsOK => TypeOK
  BY TypeParts
<1> QED BY <1>1, <1>2, TypeNext, PTL DEF Spec

-----------------------------------------------------------------------------
(***************************************************************************)
(* NeverPaidTwice.  Every release sends the same key, so as long as Stripe   *)
(* remembers it the only transfer ever made is the one the key replays; and  *)
(* without the operator's bank transfer there is no other way to pay.        *)
(***************************************************************************)
OneKey == sent = (IF key = 0 THEN {} ELSE {key}) /\ bank = FALSE

\* Handlers other than the one that transfers leave the transfers alone.
LEMMA OneKeyNext ==
  ASSUME "expiry" \notin Faults, "adminMarkPayoutPaid" \notin Handlers
  PROVE  OneKey /\ [Next]_vars => OneKey'
<1> SUFFICES ASSUME OneKey, [Next]_vars PROVE OneKey'
  OBVIOUS
<1> USE DEF stripeVars
<1>1. UNCHANGED <<sent, key, bank>> => OneKey'
  BY DEF OneKey
<1>2. ASSUME NEW t \in Tasks, Step(t) PROVE OneKey'
  <2>1. CASE CreateTransfer(t)
    <3>1. ASSUME key = 0, NewTransfer PROVE OneKey'
      <4>1. PICK n \in TransferIds : sent' = sent \cup {n} /\ key' = n /\ UNCHANGED bank
        BY <3>1 DEF NewTransfer
      <4> QED BY <3>1, <4>1 DEF OneKey, TransferIds
    <3> QED BY <1>1, <2>1, <3>1 DEF CreateTransfer
  <2>2. TransitionRead(t) \/ TransitionWrite(t) \/ ReadOrder(t) \/ SkipPayout(t)
          \/ ReadPayout(t) \/ ReadProfile(t) => OneKey'
    BY <1>1 DEF TransitionRead, TransitionWrite, ReadOrder, SkipPayout, ReadPayout, ReadProfile
  <2>3. FindBeforeMark(t) \/ MarkPayoutPaid(t) \/ FindBeforePark(t) \/ ParkPayout(t)
          => OneKey'
    BY <1>1 DEF FindBeforeMark, MarkPayoutPaid, FindBeforePark, ParkPayout
  <2>4. WriteDispute(t) \/ RefundDispute(t) \/ CloseDispute(t) => OneKey'
    BY <1>1 DEF WriteDispute, RefundDispute, CloseDispute
  <2>5. ResetAttempts(t) \/ SettleByHand(t) \/ FreeTransferId(t) \/ WriteConfirmed(t)
          => OneKey'
    BY <1>1 DEF ResetAttempts, SettleByHand, FreeTransferId, WriteConfirmed
  <2> QED BY <1>2, <2>1, <2>2, <2>3, <2>4, <2>5 DEF Step
<1>3. ASSUME NEW t \in Tasks, StartHandler(t) PROVE OneKey'
  <2>1. ~AdminMarkPayoutPaid(t)
    <3>1. Job("adminMarkPayoutPaid", "COMPLETED").op = "adminMarkPayoutPaid"
      BY DEF Job
    <3> QED BY <3>1 DEF AdminMarkPayoutPaid, Start
  <2> QED BY <1>1, <1>3, <2>1
             DEF StartHandler, Approve, AutoApprove, Dispute, ResolveCustomer,
                 ResolveInspector, RetryStuckPayouts, AdminRetryPayout, FailTransfer,
                 ConfirmTransfer
<1>4. ASSUME NEW t \in Tasks, Crash(t) PROVE OneKey'
  BY <1>1, <1>4 DEF Crash
<1>5. World => OneKey'
  BY <1>1 DEF World, ReviewEnds, AccountUpdated, TransferComesBack, KeyExpires
<1>6. UNCHANGED vars => OneKey'
  BY <1>1 DEF vars
<1> QED BY <1>2, <1>3, <1>4, <1>5, <1>6 DEF Next

\* As long as Stripe has not forgotten the key and nobody pays by bank transfer,
\* any number of concurrent releases, retries and crashes pays the inspector once.
THEOREM PaidAtMostOnce ==
  ASSUME "expiry" \notin Faults, "adminMarkPayoutPaid" \notin Handlers
  PROVE  Spec => []NeverPaidTwice
<1>1. Init => OneKey
  BY DEF Init, OneKey
<1>2. OneKey => NeverPaidTwice
  <2> SUFFICES ASSUME OneKey PROVE NeverPaidTwice
    OBVIOUS
  <2>1. Held = {} \/ Held = {key}
    BY DEF Held, OneKey
  <2>2. Cardinality(Held) \in {0, 1}
    BY <2>1, FS_EmptySet, FS_Singleton
  <2>3. bank = FALSE
    BY DEF OneKey
  <2> QED BY <2>2, <2>3 DEF NeverPaidTwice
<1>3. OneKey /\ [Next]_vars => OneKey'
  BY OneKeyNext
<1> QED BY <1>1, <1>2, <1>3, PTL DEF Spec

-----------------------------------------------------------------------------
(***************************************************************************)
(* CompletedWasPaid.  What was sent stays sent, so it is enough to follow    *)
(* who may write COMPLETED or 'paid' before anything was: a task past the    *)
(* transfer, or past the operator's bank transfer, knows that it happened.   *)
(***************************************************************************)
Paid == sent # {} \/ bank

\* On its way to record a payment, or to close the order over one.
Closing(t) ==
  \/ pc[t] \in {"mark_find", "mark", "settle", "confirm"}
  \/ pc[t] \in {"read", "write"} /\ job[t].to = "COMPLETED"

\* What may not be, nor be under way, before the payout.
Unpaid ==
  status # "COMPLETED" /\ payout.state # "paid" /\ \A t \in Tasks : ~Closing(t)

CloseInv == SharedOK /\ LocalsOK /\ (Paid \/ Unpaid)

\* A move elsewhere closes nothing, and no other task moves with it.
LEMMA MovesAway ==
  ASSUME LocalsOK, NEW t \in Tasks, \A u \in Tasks : ~Closing(u)
  PROVE  /\ \A l : Goto(t, l) /\ l \notin {"mark_find", "mark", "settle", "confirm"}
                     /\ (l \in {"read", "write"} => job[t].to # "COMPLETED")
                   => \A u \in Tasks : ~Closing(u)'
         /\ Return(t) => \A u \in Tasks : ~Closing(u)'
         /\ \A s : Transition(t, s) /\ s # "COMPLETED" => \A u \in Tasks : ~Closing(u)'
         /\ \A l, j : Start(t, l, j) /\ l \notin {"mark_find", "mark", "settle", "confirm"}
                        /\ (l \in {"read", "write"} => j.to # "COMPLETED")
                      => \A u \in Tasks : ~Closing(u)'
<1> USE DEF Closing
<1>1. ASSUME NEW l, Goto(t, l), l \notin {"mark_find", "mark", "settle", "confirm"},
             l \in {"read", "write"} => job[t].to # "COMPLETED"
      PROVE  \A u \in Tasks : ~Closing(u)'
  BY <1>1 DEF Goto, LocalsOK
<1>2. ASSUME Return(t) PROVE \A u \in Tasks : ~Closing(u)'
  BY <1>2 DEF Return, LocalsOK
<1>3. ASSUME NEW s, Transition(t, s), s # "COMPLETED" PROVE \A u \in Tasks : ~Closing(u)'
  <2>1. job'[t].to = s /\ \A u \in Tasks \ {t} : job'[u] = job[u] /\ pc'[u] = pc[u]
    BY <1>3 DEF Transition, LocalsOK, Jobs
  <2>2. pc'[t] = "read"
    BY <1>3 DEF Transition, LocalsOK
  <2> QED BY <1>3, <2>1, <2>2
<1>4. ASSUME NEW l, NEW j, Start(t, l, j),
             l \notin {"mark_find", "mark", "settle", "confirm"},
             l \in {"read", "write"} => j.to # "COMPLETED"
      PROVE  \A u \in Tasks : ~Closing(u)'
  BY <1>4 DEF Start, LocalsOK
<1> QED BY <1>1, <1>2, <1>3, <1>4

\* Before anything is paid, a step of a handler either pays or closes nothing.
LEMMA UnpaidStep ==
  ASSUME SharedOK, LocalsOK, ~Paid, Unpaid, NEW t \in Tasks, Step(t)
  PROVE  Paid' \/ Unpaid'
<1> DEFINE NoneCloses == \A u \in Tasks : ~Closing(u)'
<1>0. ~Closing(t) /\ \A u \in Tasks : ~Closing(u)
  BY DEF Unpaid
<1>a. /\ \A l : Goto(t, l) /\ l \notin {"mark_find", "mark", "settle", "confirm"}
                  /\ (l \in {"read", "write"} => job[t].to # "COMPLETED") => NoneCloses
      /\ Return(t) => NoneCloses
      /\ \A s : Transition(t, s) /\ s # "COMPLETED" => NoneCloses
  BY <1>0, MovesAway
<1>b. AfterRelease(t) => NoneCloses
  BY <1>a DEF AfterRelease
<1>c. AfterTransition(t) => NoneCloses
  <2>1. job[t].to \in Targets
    BY DEF LocalsOK, Jobs
  <2> QED BY <1>a, <1>b, <2>1 DEF AfterTransition, Targets
<1>d. Illegal(t) => NoneCloses
  BY <1>a DEF Illegal
<1>e. UNCHANGED <<status, payout>> /\ NoneCloses => Unpaid'
  BY DEF Unpaid
<1> USE DEF orderVars
<1>1. CASE TransitionRead(t)
  <2>1. job[t].to # "COMPLETED"
    BY <1>0, <1>1 DEF TransitionRead, Closing
  <2> QED BY <1>1, <1>a, <1>c, <1>d, <1>e, <2>1 DEF TransitionRead
<1>2. CASE TransitionWrite(t)
  <2>1. status' # "COMPLETED"
    BY <1>0, <1>2 DEF TransitionWrite, Closing
  <2> QED BY <1>2, <1>c, <2>1 DEF TransitionWrite, Unpaid
<1>3. ReadOrder(t) \/ ReadPayout(t) \/ ReadProfile(t) => Unpaid'
  BY <1>a, <1>b, <1>e DEF ReadOrder, ReadPayout, ReadProfile
<1>4. CASE SkipPayout(t)
  <2>1. payout'.state # "paid"
    BY <1>4 DEF SkipPayout, Unpaid, SharedOK, PayoutRows
  <2> QED BY <1>4, <1>b, <2>1 DEF SkipPayout, Unpaid
<1>5. CASE CreateTransfer(t)
  <2>1. key = 0
    BY DEF SharedOK, Paid
  <2>2. NewTransfer => Paid'
    BY DEF NewTransfer, Paid
  <2> QED BY <1>5, <1>a, <1>e, <2>1, <2>2 DEF CreateTransfer
<1>6. ~FindBeforeMark(t) /\ ~MarkPayoutPaid(t) /\ ~SettleByHand(t) /\ ~WriteConfirmed(t)
  BY <1>0 DEF FindBeforeMark, MarkPayoutPaid, SettleByHand, WriteConfirmed, Closing
<1>7. CASE FindBeforePark(t)
  <2>1. NoneCloses
    BY <1>0, <1>7 DEF FindBeforePark, Look, Closing, LocalsOK
  <2> QED BY <1>7, <1>e, <2>1 DEF FindBeforePark
<1>8. CASE ParkPayout(t)
  <2>1. PlanRetry(job[t].saw) \in PayoutRows /\ PlanRetry(job[t].saw).state # "paid"
    BY PlanRetryTyped DEF LocalsOK, Jobs
  <2>2. payout'.state # "paid"
    BY <1>8, <2>1 DEF ParkPayout, PayoutRows
  <2> QED BY <1>8, <1>b, <2>2 DEF ParkPayout, Unpaid
<1>9. WriteDispute(t) \/ CloseDispute(t) => Unpaid'
  BY <1>a, <1>e DEF WriteDispute, CloseDispute
<1>10. RefundDispute(t) => Unpaid'
  BY <1>a, <1>e DEF RefundDispute
<1>11. CASE ResetAttempts(t)
  <2>1. payout'.state # "paid"
    BY <1>11 DEF ResetAttempts, Unpaid, SharedOK, PayoutRows
  <2> QED BY <1>11, <1>a, <2>1 DEF ResetAttempts, Unpaid
<1>12. CASE FreeTransferId(t)
  <2>1. payout'.state # "paid"
    BY <1>12 DEF FreeTransferId, Unpaid, SharedOK, PayoutRows
  <2> QED BY <1>12, <1>a, <2>1 DEF FreeTransferId, Unpaid
<1> QED BY <1>1, <1>2, <1>3, <1>4, <1>5, <1>6, <1>7, <1>8, <1>9, <1>10, <1>11, <1>12
        DEF Step

\* A handler that starts is on its way elsewhere, or finds a transfer on record,
\* or starts with the operator's bank transfer.
LEMMA UnpaidStart ==
  ASSUME SharedOK, LocalsOK, ~Paid, Unpaid, NEW t \in Tasks, StartHandler(t)
  PROVE  Paid' \/ Unpaid'
<1> DEFINE NoneCloses == \A u \in Tasks : ~Closing(u)'
<1>1. \A op, to, l : Start(t, l, Job(op, to))
                       /\ l \notin {"mark_find", "mark", "settle", "confirm"}
                       /\ (l \in {"read", "write"} => to # "COMPLETED")
                     => NoneCloses
  <2>1. \A op, to : Job(op, to).to = to
    BY DEF Job
  <2> QED BY <2>1, MovesAway DEF Unpaid
<1>2. UNCHANGED <<status, payout>> /\ NoneCloses => Unpaid'
  BY DEF Unpaid
<1> USE DEF orderVars
<1>3. Approve(t) \/ AutoApprove(t) \/ Dispute(t) => Unpaid'
  BY <1>1, <1>2 DEF Approve, AutoApprove, Dispute
<1>4. ResolveCustomer(t) \/ ResolveInspector(t) => Unpaid'
  BY <1>1, <1>2 DEF ResolveCustomer, ResolveInspector
<1>5. RetryStuckPayouts(t) \/ AdminRetryPayout(t) => Unpaid'
  BY <1>1, <1>2 DEF RetryStuckPayouts, AdminRetryPayout
<1>6. AdminMarkPayoutPaid(t) => Paid'
  BY DEF AdminMarkPayoutPaid, Paid, Unpaid
<1>7. ~ConfirmTransfer(t)
  BY DEF ConfirmTransfer, Paid
<1>8. ~FailTransfer(t)
  BY DEF FailTransfer, Paid, SharedOK
<1> QED BY <1>3, <1>4, <1>5, <1>6, <1>7, <1>8 DEF StartHandler

\* What was sent stays sent, and what was wired stays wired.
LEMMA PaidStays == Paid /\ [Next]_vars => Paid'
<1> SUFFICES ASSUME Paid, [Next]_vars PROVE sent \subseteq sent' /\ (bank => bank')
  BY DEF Paid
<1> USE DEF stripeVars
<1>1. ASSUME NEW t \in Tasks, Step(t) PROVE sent \subseteq sent' /\ (bank => bank')
  <2>1. TransitionRead(t) \/ TransitionWrite(t) \/ ReadOrder(t) \/ SkipPayout(t)
          \/ ReadPayout(t) \/ ReadProfile(t) => UNCHANGED <<sent, bank>>
    BY DEF TransitionRead, TransitionWrite, ReadOrder, SkipPayout, ReadPayout, ReadProfile
  <2>2. CreateTransfer(t) => sent \subseteq sent' /\ UNCHANGED bank
    BY DEF CreateTransfer, NewTransfer
  <2>3. FindBeforeMark(t) \/ MarkPayoutPaid(t) \/ FindBeforePark(t) \/ ParkPayout(t)
          => UNCHANGED <<sent, bank>>
    BY DEF FindBeforeMark, MarkPayoutPaid, FindBeforePark, ParkPayout
  <2>4. WriteDispute(t) \/ RefundDispute(t) \/ CloseDispute(t) => UNCHANGED <<sent, bank>>
    BY DEF WriteDispute, RefundDispute, CloseDispute
  <2>5. ResetAttempts(t) \/ SettleByHand(t) \/ FreeTransferId(t) \/ WriteConfirmed(t)
          => UNCHANGED <<sent, bank>>
    BY DEF ResetAttempts, SettleByHand, FreeTransferId, WriteConfirmed
  <2> QED BY <1>1, <2>1, <2>2, <2>3, <2>4, <2>5 DEF Step
<1>2. ASSUME NEW t \in Tasks, StartHandler(t) PROVE sent \subseteq sent' /\ (bank => bank')
  <2>1. Approve(t) \/ AutoApprove(t) \/ Dispute(t) => UNCHANGED <<sent, bank>>
    BY DEF Approve, AutoApprove, Dispute
  <2>2. ResolveCustomer(t) \/ ResolveInspector(t) => UNCHANGED <<sent, bank>>
    BY DEF ResolveCustomer, ResolveInspector
  <2>3. RetryStuckPayouts(t) \/ AdminRetryPayout(t) => UNCHANGED <<sent, bank>>
    BY DEF RetryStuckPayouts, AdminRetryPayout
  <2>4. AdminMarkPayoutPaid(t) => UNCHANGED sent /\ (bank => bank')
    BY DEF AdminMarkPayoutPaid
  <2>5. FailTransfer(t) \/ ConfirmTransfer(t) => UNCHANGED <<sent, bank>>
    BY DEF FailTransfer, ConfirmTransfer
  <2> QED BY <1>2, <2>1, <2>2, <2>3, <2>4, <2>5 DEF StartHandler
<1>3. ASSUME NEW t \in Tasks, Crash(t) PROVE UNCHANGED <<sent, bank>>
  BY <1>3 DEF Crash
<1>4. World => UNCHANGED <<sent, bank>>
  BY DEF World, ReviewEnds, AccountUpdated, TransferComesBack, KeyExpires
<1> QED BY <1>1, <1>2, <1>3, <1>4 DEF Next, vars

LEMMA CloseNext == CloseInv /\ [Next]_vars => CloseInv'
<1> SUFFICES ASSUME CloseInv, [Next]_vars, ~Paid, Unpaid PROVE Paid' \/ Unpaid'
  BY TypeNext, PaidStays DEF CloseInv
<1> SharedOK /\ LocalsOK
  BY DEF CloseInv
<1>1. ASSUME NEW t \in Tasks, Crash(t) PROVE Unpaid'
  <2>1. \A u \in Tasks : ~Closing(u)'
    BY <1>1, MovesAway DEF Crash, Unpaid
  <2> QED BY <1>1, <2>1 DEF Crash, Unpaid, orderVars
<1>2. World => UNCHANGED <<status, payout, pc, job>>
  BY DEF World, ReviewEnds, AccountUpdated, TransferComesBack, KeyExpires, orderVars, taskVars
<1>3. UNCHANGED vars => UNCHANGED <<status, payout, pc, job>>
  BY DEF vars, orderVars, taskVars
<1>4. UNCHANGED <<status, payout, pc, job>> => Unpaid'
  BY DEF Unpaid, Closing
<1> QED BY <1>1, <1>2, <1>3, <1>4, UnpaidStep, UnpaidStart DEF Next

\* No race, retry or crash closes an order as COMPLETED before its payout was sent.
THEOREM CompletedImpliesPaid == Spec => []CompletedWasPaid
<1>1. Init => CloseInv
  <2>1. Init => Unpaid
    BY DEF Init, Unpaid, Closing, NoPayout
  <2> QED BY <2>1, InitTyped, TypeParts DEF CloseInv
<1>2. CloseInv => CompletedWasPaid
  BY DEF CloseInv, Unpaid, Paid, CompletedWasPaid
<1> QED BY <1>1, <1>2, CloseNext, PTL DEF Spec

-----------------------------------------------------------------------------
\* The five writes that may leave a row unpaid keep a row with a next attempt
\* below the cap; every other write of it says paid.
LEMMA DueStep ==
  ASSUME SharedOK, LocalsOK, DueIsEligible, NEW t \in Tasks, Step(t)
  PROVE  DueIsEligible'
<1> payout \in PayoutRows
  BY DEF SharedOK
<1> USE DEF DueIsEligible
<1>1. UNCHANGED payout => DueIsEligible'
  OBVIOUS
<1>2. TransitionRead(t) \/ TransitionWrite(t) \/ ReadOrder(t) \/ ReadPayout(t)
        \/ ReadProfile(t) \/ CreateTransfer(t) \/ FindBeforeMark(t) \/ FindBeforePark(t)
        => UNCHANGED payout
  BY DEF TransitionRead, TransitionWrite, ReadOrder, ReadPayout, ReadProfile,
         CreateTransfer, FindBeforeMark, FindBeforePark
<1>3. WriteDispute(t) \/ RefundDispute(t) \/ CloseDispute(t) => UNCHANGED payout
  BY DEF WriteDispute, RefundDispute, CloseDispute
<1>4. SkipPayout(t) => DueIsEligible'
  BY DEF SkipPayout, PayoutRows
<1>5. CASE MarkPayoutPaid(t)
  <2>1. payout' = payout \/ payout'.state = "paid"
    BY <1>5 DEF MarkPayoutPaid
  <2> QED BY <2>1
<1>6. CASE ParkPayout(t)
  <2>1. /\ PlanRetry(job[t].saw) \in PayoutRows
        /\ PlanRetry(job[t].saw).due => PlanRetry(job[t].saw).attempts < MaxAttempts
    BY PlanRetryTyped DEF LocalsOK, Jobs
  <2>2. /\ payout'.due = PlanRetry(job[t].saw).due
        /\ payout'.attempts = PlanRetry(job[t].saw).attempts
    BY <1>6, <2>1 DEF ParkPayout, PayoutRows
  <2> QED BY <2>1, <2>2
<1>7. CASE ResetAttempts(t)
  <2>1. payout'.attempts = 0
    BY <1>7 DEF ResetAttempts, PayoutRows
  <2> QED BY <2>1, BoundsAssumption
<1>8. SettleByHand(t) \/ WriteConfirmed(t) => payout'.state = "paid"
  BY DEF SettleByHand, WriteConfirmed, PayoutRows
<1>9. FreeTransferId(t) => DueIsEligible'
  BY DEF FreeTransferId, PayoutRows
<1> QED BY <1>1, <1>2, <1>3, <1>4, <1>5, <1>6, <1>7, <1>8, <1>9 DEF Step

\* A row that promises another attempt is one the cron will select, whatever
\* parks, resets, frees or settles it, and in whatever order.
THEOREM DueMeansEligible == Spec => []DueIsEligible
<1> DEFINE Inv == SharedOK /\ LocalsOK /\ DueIsEligible
<1>1. Init => Inv
  BY InitTyped, TypeParts DEF Init, NoPayout, DueIsEligible
<1>2. Inv /\ [Next]_vars => Inv'
  <2> SUFFICES ASSUME Inv, [Next]_vars PROVE DueIsEligible'
    BY TypeNext
  <2>1. ASSUME NEW t \in Tasks, StartHandler(t) \/ Crash(t) PROVE UNCHANGED payout
    BY <2>1 DEF StartHandler, Approve, AutoApprove, Dispute, ResolveCustomer,
                ResolveInspector, RetryStuckPayouts, AdminRetryPayout,
                AdminMarkPayoutPaid, FailTransfer, ConfirmTransfer, Crash
  <2>2. World \/ UNCHANGED vars => UNCHANGED payout
    BY DEF World, ReviewEnds, AccountUpdated, TransferComesBack, KeyExpires, vars
  <2>3. UNCHANGED payout => DueIsEligible'
    BY DEF DueIsEligible
  <2> QED BY <2>1, <2>2, <2>3, DueStep DEF Next
<1>3. Inv => DueIsEligible
  OBVIOUS
<1> QED BY <1>1, <1>2, <1>3, PTL DEF Spec

-----------------------------------------------------------------------------
(***************************************************************************)
(* PaidMeansMoved.  With no transfer that comes back, what was sent is with   *)
(* the inspector, and CloseInv says that nothing is called paid before.       *)
(***************************************************************************)
LEMMA NothingComesBack ==
  ASSUME "reversed" \notin Faults, failed = {}, [Next]_vars
  PROVE  failed' = {}
<1> USE DEF stripeVars
<1>1. ASSUME NEW t \in Tasks, Step(t) PROVE failed' = failed
  BY <1>1 DEF Step, TransitionRead, TransitionWrite, ReadOrder, SkipPayout, ReadPayout, ReadProfile,
    CreateTransfer, NewTransfer, FindBeforeMark, MarkPayoutPaid, FindBeforePark, ParkPayout,
    WriteDispute, RefundDispute, CloseDispute, ResetAttempts, SettleByHand, FreeTransferId,
    WriteConfirmed
<1>2. ASSUME NEW t \in Tasks, StartHandler(t) \/ Crash(t) PROVE failed' = failed
  BY <1>2 DEF StartHandler, Approve, AutoApprove, Dispute, ResolveCustomer, ResolveInspector,
    RetryStuckPayouts, AdminRetryPayout, AdminMarkPayoutPaid, FailTransfer, ConfirmTransfer, Crash
<1>3. World \/ UNCHANGED vars => failed' = failed
  BY DEF World, ReviewEnds, AccountUpdated, TransferComesBack, KeyExpires, vars
<1> QED BY <1>1, <1>2, <1>3 DEF Next

\* While no transfer is reversed, a payout the ledger calls paid was sent or wired, whichever
\* of release, retry, webhook and operator wrote it, and whatever died in between.
THEOREM PaidWasMoved ==
  ASSUME "reversed" \notin Faults
  PROVE  Spec => []PaidMeansMoved
<1> DEFINE Inv == CloseInv /\ failed = {}
<1>1. Init => Inv
  <2>1. Init => Unpaid
    BY DEF Init, Unpaid, Closing, NoPayout
  <2> QED BY <2>1, InitTyped, TypeParts DEF CloseInv, Init
<1>2. Inv /\ [Next]_vars => Inv'
  BY CloseNext, NothingComesBack
<1>3. Inv => PaidMeansMoved
  BY DEF CloseInv, Paid, Unpaid, PaidMeansMoved, Held
<1> QED BY <1>1, <1>2, <1>3, PTL DEF Spec

-----------------------------------------------------------------------------
(***************************************************************************)
(* What holds of one handler at a time: each then acts on what it has read.  *)
(***************************************************************************)
OneAtATime == \A t, u \in Tasks : t = u

\* The next label of a task, and what stays of its job.
LEMMA LocalMoves ==
  ASSUME LocalsOK, NEW t \in Tasks
  PROVE  /\ \A l : Goto(t, l) => pc'[t] = l /\ job'[t] = job[t]
         /\ Return(t) => pc'[t] = "idle" /\ job'[t] = NoJob
         /\ \A s : Transition(t, s) => /\ pc'[t] = "read" /\ job'[t].to = s
                                      /\ job'[t].op = job[t].op
         /\ \A l : Look(t, l) => /\ pc'[t] = l /\ job'[t].saw = payout
                                 /\ job'[t].to = job[t].to /\ job'[t].op = job[t].op
         /\ \A l, j : Start(t, l, j) => pc[t] = "idle" /\ pc'[t] = l /\ job'[t] = j
<1>1. job[t] \in Jobs
  BY DEF LocalsOK
<1>2. \A l : Goto(t, l) => pc'[t] = l /\ job'[t] = job[t]
  BY DEF Goto, LocalsOK
<1>3. Return(t) => pc'[t] = "idle" /\ job'[t] = NoJob
  BY DEF Return, LocalsOK
<1>4. ASSUME NEW s, Transition(t, s)
      PROVE  pc'[t] = "read" /\ job'[t].to = s /\ job'[t].op = job[t].op
  <2>1. job'[t] = [job[t] EXCEPT !.to = s] /\ pc'[t] = "read"
    BY <1>4 DEF Transition, LocalsOK
  <2> QED BY <1>1, <2>1 DEF Jobs
<1>5. ASSUME NEW l, Look(t, l)
      PROVE  /\ pc'[t] = l /\ job'[t].saw = payout
             /\ job'[t].to = job[t].to /\ job'[t].op = job[t].op
  <2>1. job'[t] = [job[t] EXCEPT !.saw = payout] /\ pc'[t] = l
    BY <1>5 DEF Look, LocalsOK
  <2> QED BY <1>1, <2>1 DEF Jobs
<1>6. \A l, j : Start(t, l, j) => pc[t] = "idle" /\ pc'[t] = l /\ job'[t] = j
  BY DEF Start, LocalsOK
<1> QED BY <1>2, <1>3, <1>4, <1>5, <1>6

-----------------------------------------------------------------------------
(***************************************************************************)
(* OneIsPaid, of one handler at a time that does not die.  The order is       *)
(* approved from the write of its status on, or from none; what it owes is    *)
(* then tracked, but for the time in which releasePayout is at it; and the     *)
(* two decisions exclude one another by the edges between the statuses.       *)
(***************************************************************************)
Approved == status \in {"APPROVED", "COMPLETED"}

Tracked ==
  \/ payout.state \in {"paid", "failed"}
  \/ payout.state = "pending" /\ payout.due

Releases == {"order", "existing", "profile", "transfer", "mark_find", "mark", "park_find", "park"}
Releasing(t) == pc[t] \in Releases

Refunding(t) == pc[t] \in {"refund", "read", "write"} /\ job[t].to = "REFUNDED"

\* What a handler knows of the rows it does not read again.
Knows(t) ==
  /\ pc[t] = "skip" => ~Approved
  /\ pc[t] \in {"existing", "profile", "transfer", "mark_find", "mark"} => Approved
  /\ pc[t] = "mark" => job[t].saw = payout /\ payout.state # "paid"
  /\ pc[t] = "write" => CanTransition(status, job[t].to)
  /\ Refunding(t) => status = "DISPUTED"
  /\ pc[t] \in {"read", "write"} /\ job[t].to = "COMPLETED" => payout.state = "paid"
  /\ pc[t] = "refund" => job[t].to = "REFUNDED"

OwedInv == Approved => Tracked \/ \E t \in Tasks : Releasing(t)
SentInv == sent # {} => Approved
RefundInv ==
  refunded => \/ status = "REFUNDED"
              \/ \E t \in Tasks : Refunding(t) /\ pc[t] # "refund"

SerialInv == SharedOK /\ LocalsOK /\ OwedInv /\ SentInv /\ RefundInv /\ \A t \in Tasks : Knows(t)

\* With one handler, what it leaves is all there is to check.
LEMMA OneDecides ==
  ASSUME OneAtATime, NEW t \in Tasks
  PROVE  /\ OwedInv <=> (Approved => Tracked \/ Releasing(t))
         /\ RefundInv <=> (refunded => status = "REFUNDED" \/ (Refunding(t) /\ pc[t] # "refund"))
         /\ (\A u \in Tasks : Knows(u)) <=> Knows(t)
BY DEF OneAtATime, OwedInv, RefundInv

\* A decision that is final is not left again.
LEMMA ApprovedStays ==
  ASSUME NEW to, CanTransition(status, to), status \in Statuses
  PROVE  /\ Approved => to = "COMPLETED"
         /\ status # "REFUNDED"
         /\ to \in {"APPROVED", "COMPLETED"} => status \in {"APPROVED", "DISPUTED", "SUBMITTED"}
         /\ status = "DISPUTED" => to \in {"APPROVED", "COMPLETED", "REFUNDED"}
BY DEF CanTransition, OrderTransitions, Statuses, Approved

Here(t) ==
  /\ Approved => Tracked \/ Releasing(t)
  /\ SentInv
  /\ refunded => status = "REFUNDED" \/ (Refunding(t) /\ pc[t] # "refund")
  /\ Knows(t)

LEMMA SerialHere ==
  ASSUME OneAtATime, NEW t \in Tasks, SharedOK, LocalsOK
  PROVE  SerialInv <=> Here(t)
BY OneDecides DEF SerialInv, Here

\* Where a handler is done, or has yet to look.
Quiet == {"idle", "close", "dispute_row", "reset", "free", "settle", "confirm"}

LEMMA QuietHere ==
  ASSUME NEW t \in Tasks, pc'[t] \in Quiet, Approved' => Tracked', SentInv',
         refunded' => status' = "REFUNDED"
  PROVE  Here(t)'
BY DEF Here, Knows, Refunding, Releasing, Quiet

LEMMA ReturnsQuiet ==
  ASSUME LocalsOK, NEW t \in Tasks
  PROVE  /\ AfterRelease(t) => pc'[t] \in Quiet
         /\ Illegal(t) => pc'[t] \in Quiet
         /\ AfterTransition(t) =>
              /\ job[t].to = "APPROVED" => pc'[t] = "order"
              /\ job[t].to # "APPROVED" => pc'[t] \in Quiet
<1>1. (AfterRelease(t) => pc'[t] \in Quiet) /\ (Illegal(t) => pc'[t] \in Quiet)
  BY LocalMoves DEF AfterRelease, Illegal, Quiet
<1>2. ASSUME AfterTransition(t)
      PROVE  /\ job[t].to = "APPROVED" => pc'[t] = "order"
             /\ job[t].to # "APPROVED" => pc'[t] \in Quiet
  <2>1. job[t].to \in Targets
    BY DEF LocalsOK, Jobs
  <2>2. \/ job[t].to = "APPROVED" /\ Goto(t, "order")
        \/ job[t].to # "APPROVED" /\ AfterRelease(t)
        \/ job[t].to # "APPROVED" /\ \E l \in {"dispute_row", "close"} : Goto(t, l)
    BY <1>2, <2>1 DEF AfterTransition, Targets
  <2> QED BY <1>1, <2>2, LocalMoves DEF Quiet
<1> QED BY <1>1, <1>2

LEMMA SerialStepHere ==
  ASSUME SharedOK, LocalsOK, NEW t \in Tasks, Here(t), Step(t)
  PROVE  Here(t)'
<1> USE DEF orderVars, stripeVars
<1>0. /\ job[t] \in Jobs /\ job[t].to \in Targets /\ payout \in PayoutRows /\ status \in Statuses
  BY DEF LocalsOK, SharedOK, Jobs
<1>a. UNCHANGED <<status, payout>> => (Approved' <=> Approved) /\ (Tracked' <=> Tracked)
  BY DEF Approved, Tracked
<1>b. UNCHANGED <<status, sent>> => SentInv'
  BY DEF Here, SentInv, Approved
<1>c. UNCHANGED <<status, payout, sent, refunded>> /\ pc'[t] \in Quiet /\ (Approved => Tracked)
        /\ (refunded => status = "REFUNDED") => Here(t)'
  BY <1>a, <1>b, QuietHere
<1>1. CASE TransitionRead(t)
  <2>0. pc[t] = "read" /\ UNCHANGED <<status, payout, sent, refunded>> /\ (Approved => Tracked)
    BY <1>1 DEF TransitionRead, Here, Releasing, Releases
  <2>1. CASE status = job[t].to /\ AfterTransition(t)
    <3>1. refunded => status = "REFUNDED"
      BY <2>0, <2>1 DEF Here, Knows, Refunding
    <3>2. CASE job[t].to = "APPROVED"
      <4>1. pc'[t] = "order"
        BY <2>1, <3>2, ReturnsQuiet
      <4> QED BY <1>a, <1>b, <2>0, <3>1, <4>1 DEF Here, Knows, Refunding, Releasing, Releases
    <3> QED BY <1>c, <2>0, <2>1, <3>1, <3>2, ReturnsQuiet
  <2>2. CASE CanTransition(status, job[t].to) /\ Goto(t, "write")
    <3>1. pc'[t] = "write" /\ job'[t] = job[t]
      BY <2>2, LocalMoves
    <3> QED BY <1>a, <1>b, <2>0, <2>2, <3>1 DEF Here, Knows, Refunding
  <2>3. CASE ~CanTransition(status, job[t].to) /\ Illegal(t)
    <3>1. refunded => status = "REFUNDED"
      <4>1. CanTransition("DISPUTED", "REFUNDED")
        BY DEF CanTransition, OrderTransitions, Statuses
      <4> QED BY <2>3, <4>1 DEF Here, Knows, Refunding
    <3> QED BY <1>c, <2>0, <2>3, <3>1, ReturnsQuiet
  <2> QED BY <1>1, <2>1, <2>2, <2>3 DEF TransitionRead
<1>2. CASE TransitionWrite(t)
  <2>0. /\ pc[t] = "write" /\ status' = job[t].to /\ UNCHANGED <<payout, sent, refunded>>
        /\ CanTransition(status, job[t].to)
    BY <1>2 DEF TransitionWrite, Here, Knows
  <2>1. SentInv'
    BY <1>0, <2>0, ApprovedStays DEF Here, SentInv, Approved
  <2>2. refunded => status' = "REFUNDED"
    BY <1>0, <2>0, ApprovedStays DEF Here, Refunding
  <2>3. CASE job[t].to = "APPROVED"
    <3>1. pc'[t] = "order"
      BY <1>2, <2>3, ReturnsQuiet DEF TransitionWrite
    <3> QED BY <2>0, <2>1, <2>2, <3>1 DEF Here, Knows, Refunding, Releasing, Releases
  <2>4. CASE job[t].to # "APPROVED"
    <3>1. pc'[t] \in Quiet
      BY <1>2, <2>4, ReturnsQuiet DEF TransitionWrite
    <3>2. Approved' => Tracked'
      BY <2>0, <2>4 DEF Here, Knows, Approved, Tracked
    <3> QED BY <2>0, <2>1, <2>2, <3>1, <3>2, QuietHere
  <2> QED BY <2>3, <2>4
<1>d. pc[t] \notin {"read", "write"} => (refunded => status = "REFUNDED")
  BY DEF Here, Refunding
<1>3. CASE ReadOrder(t)
  <2>1. pc'[t] = (IF Approved THEN "existing" ELSE "skip") /\ UNCHANGED <<status, payout, sent, refunded>>
    BY <1>3, LocalMoves DEF ReadOrder, Approved
  <2>2. refunded => status = "REFUNDED"
    BY <1>3, <1>d DEF ReadOrder
  <2> QED BY <1>a, <1>b, <2>1, <2>2 DEF Here, Knows, Refunding, Releasing, Releases
<1>4. CASE SkipPayout(t)
  <2>1. ~Approved /\ UNCHANGED <<status, sent, refunded>> /\ pc'[t] \in Quiet
        /\ (refunded => status = "REFUNDED")
    BY <1>4, <1>d, ReturnsQuiet DEF SkipPayout, Here, Knows
  <2> QED BY <1>b, <2>1, QuietHere DEF Approved
<1>5. CASE ReadPayout(t)
  <2>0. pc[t] = "existing" /\ Approved /\ UNCHANGED <<status, payout, sent, refunded>>
        /\ (refunded => status = "REFUNDED")
    BY <1>5, <1>d DEF ReadPayout, Here, Knows
  <2>1. CASE payout.state = "paid" /\ AfterRelease(t)
    BY <1>c, <2>0, <2>1, ReturnsQuiet DEF Tracked
  <2>2. CASE Goto(t, "profile")
    BY <1>a, <1>b, <2>0, <2>2, LocalMoves DEF Here, Knows, Refunding, Releasing, Releases
  <2> QED BY <1>5, <2>1, <2>2 DEF ReadPayout
<1>6. CASE ReadProfile(t)
  <2>0. Approved /\ UNCHANGED <<status, payout, sent, refunded>> /\ pc'[t] \in {"transfer", "park_find"}
        /\ (refunded => status = "REFUNDED")
    BY <1>6, <1>d, LocalMoves DEF ReadProfile, Here, Knows
  <2> QED BY <1>a, <1>b, <2>0 DEF Here, Knows, Refunding, Releasing, Releases
<1>7. CASE CreateTransfer(t)
  <2>0. Approved /\ UNCHANGED <<status, payout, refunded>> /\ (refunded => status = "REFUNDED")
    BY <1>7, <1>d DEF CreateTransfer, NewTransfer, Here, Knows
  <2>1. pc'[t] \in {"mark_find", "park_find"}
    BY <1>7, LocalMoves DEF CreateTransfer, LocalsOK
  <2>2. SentInv'
    BY <1>a, <2>0 DEF SentInv
  <2> QED BY <1>a, <2>0, <2>1, <2>2 DEF Here, Knows, Refunding, Releasing, Releases
<1>8. CASE FindBeforeMark(t)
  <2>0. Approved /\ UNCHANGED <<status, payout, sent, refunded>> /\ (refunded => status = "REFUNDED")
    BY <1>8, <1>d DEF FindBeforeMark, Here, Knows
  <2>1. CASE payout.state = "paid" /\ AfterRelease(t)
    BY <1>c, <2>0, <2>1, ReturnsQuiet DEF Tracked
  <2>2. CASE payout.state # "paid" /\ Look(t, "mark")
    BY <1>a, <1>b, <2>0, <2>2, LocalMoves DEF Here, Knows, Refunding, Releasing, Releases
  <2> QED BY <1>8, <2>1, <2>2 DEF FindBeforeMark
<1>9. CASE MarkPayoutPaid(t)
  <2>0. /\ Approved /\ UNCHANGED <<status, sent, refunded>> /\ (refunded => status = "REFUNDED")
        /\ job[t].saw = payout
    BY <1>9, <1>d DEF MarkPayoutPaid, Here, Knows
  <2>1. payout'.state = "paid" /\ Transition(t, "COMPLETED")
    BY <1>9, <2>0 DEF MarkPayoutPaid
  <2>2. pc'[t] = "read" /\ job'[t].to = "COMPLETED"
    BY <2>1, LocalMoves
  <2> QED BY <1>b, <2>0, <2>1, <2>2 DEF Here, Knows, Refunding, Tracked
<1>10. CASE FindBeforePark(t)
  <2>0. UNCHANGED <<status, payout, sent, refunded>> /\ pc'[t] = "park" /\ (refunded => status = "REFUNDED")
    BY <1>10, <1>d, LocalMoves DEF FindBeforePark
  <2> QED BY <1>a, <1>b, <2>0 DEF Here, Knows, Refunding, Releasing, Releases
<1>11. CASE ParkPayout(t)
  <2>0. UNCHANGED <<status, sent, refunded>> /\ pc'[t] \in Quiet /\ (refunded => status = "REFUNDED")
    BY <1>11, <1>d, ReturnsQuiet DEF ParkPayout
  <2>1. PlanRetry(job[t].saw) \in PayoutRows
    BY <1>0, PlanRetryTyped DEF Jobs
  <2>2. /\ payout'.state = PlanRetry(job[t].saw).state
        /\ payout'.due = PlanRetry(job[t].saw).due
    BY <1>11, <2>1 DEF ParkPayout, PayoutRows
  <2>3. \/ PlanRetry(job[t].saw).state = "failed"
        \/ PlanRetry(job[t].saw).state = "pending" /\ PlanRetry(job[t].saw).due
    BY <1>0 DEF PlanRetry, PayoutRows, Jobs
  <2> QED BY <1>b, <2>0, <2>2, <2>3, QuietHere DEF Tracked
<1>12. CASE WriteDispute(t)
  <2>0. UNCHANGED <<status, payout, sent, refunded>> /\ pc'[t] \in Quiet /\ pc[t] = "dispute_row"
    BY <1>12, LocalMoves DEF WriteDispute, Quiet
  <2> QED BY <1>c, <1>d, <2>0 DEF Here, Releasing, Releases
<1>13. CASE RefundDispute(t)
  <2>0. /\ UNCHANGED <<status, payout, sent>> /\ pc[t] = "refund" /\ pc'[t] = "read"
        /\ job'[t].to = "REFUNDED" /\ job[t].to = "REFUNDED"
    BY <1>13, LocalMoves DEF RefundDispute, Here, Knows
  <2>1. status = "DISPUTED"
    BY <2>0 DEF Here, Knows, Refunding
  <2> QED BY <1>b, <2>0, <2>1 DEF Here, Knows, Refunding, Approved
<1>14. CASE CloseDispute(t)
  <2>0. UNCHANGED <<status, payout, sent, refunded>> /\ pc'[t] \in Quiet /\ pc[t] = "close"
    BY <1>14, LocalMoves DEF CloseDispute, Quiet
  <2> QED BY <1>c, <1>d, <2>0 DEF Here, Releasing, Releases
<1>15. CASE ResetAttempts(t)
  <2>0. UNCHANGED <<status, sent, refunded>> /\ pc'[t] = "order" /\ (refunded => status = "REFUNDED")
    BY <1>15, <1>d, LocalMoves DEF ResetAttempts
  <2> QED BY <1>b, <2>0 DEF Here, Knows, Refunding, Releasing, Releases
<1>16. CASE SettleByHand(t)
  <2>0. /\ UNCHANGED <<status, sent, refunded>> /\ (refunded => status = "REFUNDED")
        /\ pc'[t] = "read" /\ job'[t].to = "COMPLETED"
    BY <1>16, <1>d, LocalMoves DEF SettleByHand
  <2>1. payout'.state = "paid"
    BY <1>0, <1>16 DEF SettleByHand, PayoutRows
  <2> QED BY <1>b, <2>0, <2>1 DEF Here, Knows, Refunding, Tracked
<1>17. CASE FreeTransferId(t)
  <2>0. UNCHANGED <<status, sent, refunded>> /\ pc'[t] = "park_find" /\ (refunded => status = "REFUNDED")
    BY <1>17, <1>d, LocalMoves DEF FreeTransferId
  <2> QED BY <1>b, <2>0 DEF Here, Knows, Refunding, Releasing, Releases
<1>18. CASE WriteConfirmed(t)
  <2>0. UNCHANGED <<status, sent, refunded>> /\ pc'[t] \in Quiet /\ (refunded => status = "REFUNDED")
    BY <1>18, <1>d, LocalMoves DEF WriteConfirmed, Quiet
  <2>1. payout'.state = "paid"
    BY <1>0, <1>18 DEF WriteConfirmed, PayoutRows
  <2> QED BY <1>b, <2>0, <2>1, QuietHere DEF Tracked
<1> QED BY <1>1, <1>2, <1>3, <1>4, <1>5, <1>6, <1>7, <1>8, <1>9, <1>10, <1>11, <1>12, <1>13,
        <1>14, <1>15, <1>16, <1>17, <1>18 DEF Step

LEMMA SerialStartHere ==
  ASSUME SharedOK, LocalsOK, NEW t \in Tasks, Here(t), StartHandler(t)
  PROVE  Here(t)'
<1> USE DEF orderVars, stripeVars
<1>0. \A op, to : Job(op, to).op = op /\ Job(op, to).to = to
  BY DEF Job
<1>1. CASE FailTransfer(t) /\ UNCHANGED taskVars
  BY <1>1 DEF FailTransfer, taskVars, Here, Knows, Refunding, Releasing, Approved, Tracked, SentInv
<1>2. ~(FailTransfer(t) /\ UNCHANGED taskVars) => pc[t] = "idle"
  BY LocalMoves DEF StartHandler, Approve, AutoApprove, Dispute, ResolveCustomer, ResolveInspector,
    RetryStuckPayouts, AdminRetryPayout, AdminMarkPayoutPaid, FailTransfer, ConfirmTransfer
<1>3. UNCHANGED <<status, payout, sent, refunded>>
  BY DEF StartHandler, Approve, AutoApprove, Dispute, ResolveCustomer, ResolveInspector,
    RetryStuckPayouts, AdminRetryPayout, AdminMarkPayoutPaid, FailTransfer, ConfirmTransfer
<1>4. (Approved' <=> Approved) /\ (Tracked' <=> Tracked) /\ SentInv'
  BY <1>3 DEF Approved, Tracked, SentInv, Here
<1>5. pc[t] = "idle" => (Approved => Tracked) /\ (refunded => status = "REFUNDED")
  BY DEF Here, Releasing, Releases, Refunding
<1>6. pc[t] = "idle" /\ pc'[t] \in Quiet \cup {"order"} => Here(t)'
  BY <1>3, <1>4, <1>5, QuietHere DEF Here, Knows, Refunding, Releasing, Releases
<1>7. CASE Approve(t) \/ AutoApprove(t) \/ Dispute(t) \/ ResolveInspector(t)
  <2>1. pc[t] = "idle" /\ pc'[t] = "read" /\ job'[t].to \in {"APPROVED", "DISPUTED"}
    BY <1>0, <1>7, LocalMoves DEF Approve, AutoApprove, Dispute, ResolveInspector
  <2> QED BY <1>3, <1>4, <1>5, <2>1 DEF Here, Knows, Refunding
<1>8. CASE ResolveCustomer(t)
  <2>1. /\ pc[t] = "idle" /\ pc'[t] \in {"refund", "read"} /\ job'[t].to = "REFUNDED"
        /\ status = "DISPUTED"
    BY <1>0, <1>8, LocalMoves DEF ResolveCustomer
  <2> QED BY <1>3, <1>4, <1>5, <2>1 DEF Here, Knows, Refunding
<1>9. CASE RetryStuckPayouts(t) \/ AdminRetryPayout(t) \/ AdminMarkPayoutPaid(t) \/ ConfirmTransfer(t)
  <2>1. pc[t] = "idle" /\ pc'[t] \in Quiet \cup {"order"}
    BY <1>9, LocalMoves DEF RetryStuckPayouts, AdminRetryPayout, AdminMarkPayoutPaid, ConfirmTransfer, Quiet
  <2> QED BY <1>6, <2>1
<1>10. CASE FailTransfer(t) /\ ~UNCHANGED taskVars
  <2>1. pc[t] = "idle" /\ pc'[t] \in Quiet
    BY <1>10, LocalMoves DEF FailTransfer, Quiet
  <2> QED BY <1>6, <2>1
<1> QED BY <1>1, <1>7, <1>8, <1>9, <1>10 DEF StartHandler

\* What is owed is paid, or in the queue, or before an operator; and what was refunded was
\* not paid out: of decisions, releases, retries and webhooks that do not overlap or die.
THEOREM DecidedOnce ==
  ASSUME OneAtATime, "crash" \notin Faults
  PROVE  Spec => []OneIsPaid
<1>1. Init => SerialInv
  <2> SUFFICES ASSUME Init PROVE OwedInv /\ SentInv /\ RefundInv /\ \A t \in Tasks : Knows(t)
    BY InitTyped, TypeParts DEF SerialInv
  <2> QED BY DEF Init, OwedInv, SentInv, RefundInv, Knows, Refunding, Approved
<1>2. SerialInv /\ [Next]_vars => SerialInv'
  <2> SUFFICES ASSUME SerialInv, [Next]_vars PROVE SerialInv'
    OBVIOUS
  <2>1. SharedOK /\ LocalsOK /\ SharedOK' /\ LocalsOK'
    BY TypeNext DEF SerialInv
  <2>2. ASSUME NEW t \in Tasks, Step(t) \/ StartHandler(t) PROVE SerialInv'
    <3>1. Here(t)
      BY <2>1, SerialHere
    <3>2. Here(t)'
      BY <2>1, <2>2, <3>1, SerialStepHere, SerialStartHere
    <3> HIDE DEF SerialInv
    <3>3. SerialInv' <=> Here(t)'
      BY <2>1 DEF SerialInv, Here, OneAtATime, OwedInv, RefundInv
    <3> QED BY <3>2, <3>3
  <2>3. World \/ UNCHANGED vars => UNCHANGED <<status, payout, sent, refunded, pc, job>>
    BY DEF World, ReviewEnds, AccountUpdated, TransferComesBack, KeyExpires, vars, orderVars,
      stripeVars, taskVars
  <2>4. UNCHANGED <<status, payout, sent, refunded, pc, job>> => SerialInv'
    BY <2>1 DEF SerialInv, OwedInv, SentInv, RefundInv, Knows, Refunding, Approved, Tracked, Releasing
  <2>5. \A t \in Tasks : ~Crash(t)
    BY DEF Crash
  <2> QED BY <2>2, <2>3, <2>4, <2>5 DEF Next
<1>3. SerialInv => OneIsPaid
  <2> SUFFICES ASSUME SerialInv PROVE OwedIsTracked /\ NotRefundedAndPaid
    BY DEF OneIsPaid
  <2>1. OwedIsTracked
    BY DEF SerialInv, OwedInv, Approved, Tracked, Releasing, Releases, OwedIsTracked
  <2>2. NotRefundedAndPaid
    BY DEF SerialInv, SentInv, RefundInv, Knows, Refunding, Approved, NotRefundedAndPaid, Held
  <2> QED BY <2>1, <2>2
<1> QED BY <1>1, <1>2, <1>3, PTL DEF Spec
=============================================================================
