------------------------------ MODULE Parts_proofs ------------------------------
(***************************************************************************)
(* What is proved of the parts of MCParts, each by itself.                  *)
(***************************************************************************)
EXTENDS MCParts, FiniteSetTheorems, SequenceTheorems, WellFoundedInduction, TLAPS

-----------------------------------------------------------------------------
(***************************************************************************)
(* Money on its way back, for any number of overlapping settlements, retries,  *)
(* operators and webhooks, any amounts and any cap.                          *)
(***************************************************************************)
\* Money is counted in natural numbers, and a retry may be made.
Amounts == Total \in Nat \ {0} /\ Cap \in Nat \ {0}

-----------------------------------------------------------------------------
\* Types.  What Stripe counts is bounded by what it has given back.
RefundCounts == ours <= back /\ told <= back
RefundsTyped == Refunds!TypeOK /\ RefundCounts

LEMMA RefundsJobs ==
  ASSUME Amounts
  PROVE  /\ \A op \in Refunds!HandlerNames \cup {"none"} : Refunds!Job(op) \in Refunds!Jobs
         /\ \A j \in Refunds!Jobs, n \in 0 .. Cap + 1 : [j EXCEPT !.n = n] \in Refunds!Jobs
         /\ \A j \in Refunds!Jobs, b \in BOOLEAN : [j EXCEPT !.fatal = b] \in Refunds!Jobs
<1>1. 0 \in 0 .. Cap + 1
  BY DEF Amounts
<1> QED BY <1>1 DEF Refunds!Job, Refunds!Jobs

LEMMA RefundsRows ==
  ASSUME Amounts, NEW n \in 0 .. Cap + 1, NEW fatal \in BOOLEAN
  PROVE  /\ Refunds!Bump(n) \in 0 .. Cap + 1 /\ Refunds!Bump(n) \in Nat
         /\ [st |-> "succeeded", n |-> Refunds!Bump(n), due |-> "no"] \in Refunds!Rows
         /\ Refunds!PlanRetry(n, fatal) \in Refunds!Rows
<1>1. Refunds!Bump(n) \in 0 .. Cap + 1 /\ Refunds!Bump(n) \in Nat
  BY DEF Refunds!Bump, Amounts
<1>2. Refunds!PlanRetry(n, fatal) \in Refunds!Rows
  <2>1. CASE fatal \/ Refunds!Bump(n) >= Cap
    BY <1>1, <2>1 DEF Refunds!PlanRetry, Refunds!Rows
  <2>2. CASE ~(fatal \/ Refunds!Bump(n) >= Cap)
    BY <1>1, <2>2 DEF Refunds!PlanRetry, Refunds!Rows
  <2> QED BY <2>1, <2>2
<1>3. [st |-> "succeeded", n |-> Refunds!Bump(n), due |-> "no"] \in Refunds!Rows
  BY <1>1 DEF Refunds!Rows
<1> QED BY <1>1, <1>2, <1>3

RefundsLocals == at \in [Tasks -> Refunds!Labels] /\ my \in [Tasks -> Refunds!Jobs]

LEMMA RefundsMovesTyped ==
  ASSUME Amounts, RefundsLocals, NEW t \in Tasks, NEW l \in Refunds!Labels
  PROVE  /\ \A j \in Refunds!Jobs : Refunds!Keep(t, l, j) => RefundsLocals'
         /\ Refunds!Go(t, l) => RefundsLocals'
         /\ Refunds!End(t) => RefundsLocals'
         /\ \A op \in Refunds!HandlerNames : Refunds!Begin(t, l, op) => RefundsLocals'
         /\ \A fatal \in BOOLEAN : Refunds!Park(t, fatal) => RefundsLocals'
         /\ \A o \in {"refunded", "skipped", "parked"} : Refunds!Return(t, o) => RefundsLocals'
<1>1. \A j \in Refunds!Jobs : Refunds!Keep(t, l, j) => RefundsLocals'
  BY DEF Refunds!Keep, RefundsLocals
<1>2. \A k \in Refunds!Labels : Refunds!Go(t, k) => RefundsLocals'
  BY DEF Refunds!Go, Refunds!Keep, RefundsLocals
<1>3. Refunds!End(t) => RefundsLocals'
  <2>1. Refunds!NoJob \in Refunds!Jobs /\ "idle" \in Refunds!Labels
    BY RefundsJobs DEF Refunds!NoJob, Refunds!Labels
  <2> QED BY <2>1 DEF Refunds!End, Refunds!Keep, RefundsLocals
<1>4. \A op \in Refunds!HandlerNames : Refunds!Begin(t, l, op) => RefundsLocals'
  BY RefundsJobs DEF Refunds!Begin, RefundsLocals
<1>5. \A fatal \in BOOLEAN : Refunds!Park(t, fatal) => RefundsLocals'
  <2> TAKE fatal \in BOOLEAN
  <2>1. [my[t] EXCEPT !.fatal = fatal] \in Refunds!Jobs /\ "p_find" \in Refunds!Labels
    BY RefundsJobs DEF RefundsLocals, Refunds!Labels
  <2> QED BY <2>1 DEF Refunds!Park, Refunds!Keep, RefundsLocals
<1>6. \A o \in {"refunded", "skipped", "parked"} : Refunds!Return(t, o) => RefundsLocals'
  <2>1. "close" \in Refunds!Labels /\ "terminate" \in Refunds!Labels
    BY DEF Refunds!Labels
  <2> QED BY <1>2, <1>3, <2>1 DEF Refunds!Return
<1> QED BY <1>1, <1>2, <1>3, <1>4, <1>5, <1>6

LEMMA RefundsTypedInit == Amounts /\ Refunds!Init => RefundsTyped
<1> SUFFICES ASSUME Amounts, Refunds!Init PROVE RefundsTyped
  OBVIOUS
<1>1. at \in [Tasks -> Refunds!Labels]
  BY DEF Refunds!Init, Refunds!Labels
<1>2. my \in [Tasks -> Refunds!Jobs]
  BY RefundsJobs DEF Refunds!Init, Refunds!NoJob
<1>3. parked \in Refunds!Rows
  BY DEF Refunds!Init, Refunds!Rows, Refunds!NoRow, Amounts
<1>4. amount \in 1 .. Total /\ back \in 0 .. Total /\ ours \in 0 .. Total /\ told \in 0 .. Total
  BY DEF Refunds!Init, Amounts
<1>5. RefundCounts
  BY DEF Refunds!Init, RefundCounts
<1>6. debt \in {"open", "closed"} /\ ledger \in {"succeeded", "refunded"} /\ keyed \in BOOLEAN
  BY DEF Refunds!Init
<1> QED BY <1>1, <1>2, <1>3, <1>4, <1>5, <1>6 DEF RefundsTyped, Refunds!TypeOK

RefundState == <<debt, amount, ledger, parked, Refunds!stripe>>
RefundsShared ==
  /\ debt \in {"open", "closed"} /\ amount \in 1 .. Total
  /\ ledger \in {"succeeded", "refunded"} /\ parked \in Refunds!Rows
  /\ back \in 0 .. Total /\ ours \in 0 .. Total /\ keyed \in BOOLEAN /\ told \in 0 .. Total
  /\ RefundCounts

LEMMA RefundsParts == RefundsTyped <=> RefundsShared /\ RefundsLocals
  BY DEF RefundsTyped, Refunds!TypeOK, RefundsShared, RefundsLocals

LEMMA RefundsStay == RefundsShared /\ UNCHANGED RefundState => RefundsShared'
  BY DEF RefundsShared, RefundState, RefundCounts, Refunds!stripe

LEMMA RefundsRowChanges ==
  RefundsShared /\ parked' \in Refunds!Rows /\ UNCHANGED <<debt, amount, ledger, Refunds!stripe>>
    => RefundsShared'
  BY DEF RefundsShared, RefundCounts, Refunds!stripe

LEMMA StripeRefunds ==
  RefundsShared /\ Amounts /\ Refunds!Refunded /\ UNCHANGED <<debt, amount, ledger, parked>>
    => RefundsShared'
<1> SUFFICES ASSUME RefundsShared, Amounts, Refunds!Refunded, UNCHANGED <<debt, amount, ledger, parked>>
             PROVE  RefundsShared'
  OBVIOUS
<1>1. CASE keyed /\ UNCHANGED Refunds!stripe
  BY <1>1, RefundsStay DEF RefundState
<1>2. CASE ~keyed /\ ~UNCHANGED Refunds!stripe
  <2>1. keyed' \in BOOLEAN
    BY <1>2 DEF Refunds!Refunded
  <2>2. /\ back + amount <= Total /\ back' = back + amount
        /\ ours' = ours + 1 /\ told' = told + 1
    BY <1>2 DEF Refunds!Refunded
  <2>3. /\ amount \in 1 .. Total /\ back \in 0 .. Total
        /\ ours \in 0 .. Total /\ told \in 0 .. Total /\ ours <= back /\ told <= back
    BY DEF RefundsShared, RefundCounts
  <2>4. back' \in 0 .. Total /\ ours' \in 0 .. Total /\ told' \in 0 .. Total /\ RefundCounts'
    BY <2>2, <2>3 DEF Amounts, RefundCounts
  <2> QED BY <2>1, <2>4 DEF RefundsShared
<1>3. CASE UNCHANGED Refunds!stripe
  BY <1>3, RefundsStay DEF RefundState
<1> QED BY <1>1, <1>2, <1>3 DEF Refunds!Refunded

LEMMA RefundsTypedStep == Amounts /\ RefundsTyped /\ [Refunds!Next]_Refunds!vars => RefundsTyped'
<1> SUFFICES ASSUME Amounts, RefundsTyped, [Refunds!Next]_Refunds!vars PROVE RefundsShared'
                    /\ RefundsLocals'
  BY DEF RefundsTyped, Refunds!TypeOK, RefundsShared, RefundsLocals, RefundCounts
<1>0. RefundsShared /\ RefundsLocals
  BY RefundsParts
<1>s. ASSUME UNCHANGED RefundState PROVE RefundsShared'
  BY <1>0, <1>s, RefundsStay
<1>r. ASSUME parked' \in Refunds!Rows, UNCHANGED <<debt, amount, ledger, Refunds!stripe>>
             PROVE RefundsShared'
  BY <1>0, <1>r, RefundsRowChanges
<1>j. \A t \in Tasks : my[t] \in Refunds!Jobs /\ my[t].n \in 0 .. Cap + 1 /\ my[t].fatal \in BOOLEAN
  BY <1>0 DEF RefundsLocals, Refunds!Jobs
<1>1. ASSUME NEW t \in Tasks, Refunds!Called(t) \/ Refunds!RetryStuckRefunds(t) PROVE RefundsShared'
             /\ RefundsLocals'
  BY <1>0, <1>1, <1>s, RefundsMovesTyped DEF Refunds!Called, Refunds!Settle,
     Refunds!AdminRetryRefund, Refunds!ChargeRefunded, Refunds!RetryStuckRefunds, RefundState,
     Refunds!HandlerNames, Refunds!Labels
<1>2. ASSUME NEW t \in Tasks, Refunds!Find(t) \/ Refunds!ReadPayment(t) PROVE RefundsShared'
             /\ RefundsLocals'
  <2>1. \A n \in 0 .. Cap + 1 : [my[t] EXCEPT !.n = n] \in Refunds!Jobs
    BY <1>j, RefundsJobs
  <2>2. parked.n \in 0 .. Cap + 1
    BY <1>0 DEF RefundsShared, Refunds!Rows
  <2>3. UNCHANGED RefundState
    BY <1>2 DEF Refunds!Find, Refunds!ReadPayment, RefundState
  <2>4. RefundsLocals'
    BY <1>0, <1>2, <2>1, <2>2, RefundsMovesTyped DEF Refunds!Find, Refunds!ReadPayment,
       Refunds!Labels
  <2> QED BY <1>s, <2>3, <2>4
<1>3. ASSUME NEW t \in Tasks, Refunds!Create(t) PROVE RefundsShared' /\ RefundsLocals'
  <2>1. RefundsLocals'
    BY <1>0, <1>3, RefundsMovesTyped DEF Refunds!Create, Refunds!Labels
  <2>2. RefundsShared'
    BY <1>0, <1>3, <1>s, StripeRefunds DEF Refunds!Create, RefundState
  <2> QED BY <2>1, <2>2
<1>4. ASSUME NEW t \in Tasks, Refunds!RecordSuccess(t) PROVE RefundsShared' /\ RefundsLocals'
  BY <1>0, <1>4, <1>r, <1>j, RefundsRows, RefundsMovesTyped DEF Refunds!RecordSuccess,
     Refunds!Labels
<1>5. ASSUME NEW t \in Tasks, Refunds!MarkRefunded(t) PROVE RefundsShared' /\ RefundsLocals'
  <2>1. RefundsLocals'
    BY <1>0, <1>5, RefundsMovesTyped DEF Refunds!MarkRefunded, Refunds!Labels
  <2> QED BY <1>0, <1>5, <2>1 DEF Refunds!MarkRefunded, RefundsShared, RefundCounts,
             Refunds!stripe
<1>6. ASSUME NEW t \in Tasks, Refunds!ParkFind(t) PROVE RefundsShared' /\ RefundsLocals'
  <2>1. [my[t] EXCEPT !.n = parked.n] \in Refunds!Jobs
    BY <1>0, <1>j, RefundsJobs DEF RefundsShared, Refunds!Rows
  <2> QED BY <1>0, <1>6, <1>s, <2>1, RefundsMovesTyped DEF Refunds!ParkFind, RefundState,
             Refunds!Labels
<1>7. ASSUME NEW t \in Tasks, Refunds!ParkRow(t) PROVE RefundsShared' /\ RefundsLocals'
  <2>1. parked' \in Refunds!Rows
    BY <1>7, <1>j, RefundsRows DEF Refunds!ParkRow
  <2>2. RefundsLocals'
    BY <1>0, <1>7, RefundsMovesTyped DEF Refunds!ParkRow, Refunds!Labels
  <2> QED BY <1>7, <1>r, <2>1, <2>2 DEF Refunds!ParkRow
<1>8. ASSUME NEW t \in Tasks, Refunds!Close(t) PROVE RefundsShared' /\ RefundsLocals'
  <2>1. RefundsLocals'
    BY <1>0, <1>8, RefundsMovesTyped DEF Refunds!Close, Refunds!Labels
  <2> QED BY <1>0, <1>8, <2>1 DEF Refunds!Close, RefundsShared, RefundCounts, Refunds!stripe
<1>9. ASSUME NEW t \in Tasks, Refunds!Terminate(t) \/ Refunds!ResetAttempts(t) PROVE RefundsShared'
             /\ RefundsLocals'
  <2>1. parked' \in Refunds!Rows
    <3>1. parked \in Refunds!Rows
      BY <1>0 DEF RefundsShared
    <3>2. [parked EXCEPT !.due = "no"] \in Refunds!Rows
      BY <3>1 DEF Refunds!Rows
    <3>a. 0 \in 0 .. Cap + 1
      BY DEF Amounts
    <3>3. [parked EXCEPT !.n = 0, !.due = "now"] \in Refunds!Rows
      BY <3>1, <3>a DEF Refunds!Rows
    <3> QED BY <1>9, <3>2, <3>3 DEF Refunds!Terminate, Refunds!ResetAttempts
  <2>2. RefundsLocals'
    BY <1>0, <1>9, RefundsMovesTyped DEF Refunds!Terminate, Refunds!ResetAttempts, Refunds!Labels
  <2> QED BY <1>9, <1>r, <2>1, <2>2 DEF Refunds!Terminate, Refunds!ResetAttempts
<1>10. ASSUME NEW t \in Tasks, Refunds!WebhookMark(t) PROVE RefundsShared' /\ RefundsLocals'
  <2>1. RefundsLocals'
    BY <1>0, <1>10, RefundsMovesTyped DEF Refunds!WebhookMark, Refunds!Labels
  <2>2. told' \in 0 .. Total /\ told' <= back
    BY <1>0, <1>10 DEF Refunds!WebhookMark, RefundsShared, RefundCounts, Amounts
  <2>3. ledger' = "refunded" /\ UNCHANGED <<debt, amount, parked, back, ours, keyed>>
    BY <1>10 DEF Refunds!WebhookMark
  <2> QED BY <1>0, <2>1, <2>2, <2>3 DEF RefundsShared, RefundCounts
<1>11. ASSUME NEW t \in Tasks, Refunds!Crash(t) PROVE RefundsShared' /\ RefundsLocals'
  BY <1>0, <1>11, <1>s, RefundsMovesTyped DEF Refunds!Crash, RefundState, Refunds!Labels
<1>12. CASE Refunds!BackoffElapses
  <2>1. parked' \in Refunds!Rows
    BY <1>0, <1>12 DEF Refunds!BackoffElapses, RefundsShared, Refunds!Rows
  <2> QED BY <1>0, <1>12, <1>r, <2>1 DEF Refunds!BackoffElapses, RefundsLocals
<1>13. CASE Refunds!KeyExpires
  BY <1>0, <1>13 DEF Refunds!KeyExpires, RefundsShared, RefundsLocals, RefundCounts
<1>14. CASE Refunds!RefundedByHand
  <2>1. /\ back' \in 0 .. Total /\ told' \in 0 .. Total /\ ours <= back' /\ told' <= back'
    BY <1>0, <1>14 DEF Refunds!RefundedByHand, RefundsShared, RefundCounts, Amounts
  <2>2. UNCHANGED <<debt, amount, ledger, parked, ours, keyed, at, my>>
    BY <1>14 DEF Refunds!RefundedByHand
  <2> QED BY <1>0, <2>1, <2>2 DEF RefundsShared, RefundsLocals, RefundCounts
<1>15. CASE UNCHANGED Refunds!vars
  BY <1>0, <1>15, <1>s DEF Refunds!vars, RefundState, RefundsLocals
<1> QED
  BY <1>1, <1>2, <1>3, <1>4, <1>5, <1>6, <1>7, <1>8, <1>9, <1>10, <1>11, <1>12, <1>13, <1>14,
     <1>15 DEF Refunds!Next, Refunds!Continue

\* The declared types hold, whoever overlaps with whom.
THEOREM RefundsTypeCorrect == ASSUME Amounts PROVE Refunds!Spec => []Refunds!TypeOK
<1>1. Refunds!Init => RefundsTyped
  BY RefundsTypedInit
<1>2. RefundsTyped /\ [Refunds!Next]_Refunds!vars => RefundsTyped'
  BY RefundsTypedStep
<1>3. RefundsTyped => Refunds!TypeOK
  BY DEF RefundsTyped
<1> QED BY <1>1, <1>2, <1>3, PTL DEF Refunds!Spec

-----------------------------------------------------------------------------
\* The ledger.  A function on its way to say that the money is back has seen Stripe say so,
\* and one that skips a refund has seen the ledger say so.
SaysSo(t) ==
  /\ at[t] \in {"row", "mark"} => ours > 0
  /\ at[t] \in {"terminate", "w_mark"} => back > 0
LedgerInv ==
  /\ parked.st = "succeeded" => ours > 0
  /\ ledger = "refunded" => back > 0
  /\ keyed => ours > 0
  /\ \A t \in Tasks : SaysSo(t)

\* The queue.  While nothing is back, the row is in it or failed, from the moment on that
\* the order's caller goes on to close it.
Kept == parked.st = "failed" \/ (parked.st = "pending" /\ parked.due # "no" /\ parked.n < Cap)
QueueInv ==
  back = 0 =>
    /\ parked.st \in {"none", "pending", "failed"}
    /\ parked.st = "pending" => parked.due # "no" /\ parked.n < Cap
    /\ debt = "closed" => Kept
    /\ \A t \in Tasks : at[t] = "close" => Kept

RefundsInv == RefundsTyped /\ LedgerInv /\ QueueInv

LEMMA RefundsInit == Amounts /\ Refunds!Init => RefundsInv
  BY RefundsTypedInit DEF Refunds!Init, RefundsInv, LedgerInv, QueueInv, SaysSo, Refunds!NoRow

\* Where a step of t leaves the other tasks, and itself.
LEMMA RefundsMove ==
  ASSUME Refunds!TypeOK, NEW t \in Tasks, NEW l \in Refunds!Labels, NEW s \in Tasks
  PROVE  /\ \A j \in Refunds!Jobs : Refunds!Keep(t, l, j) => at'[s] = IF s = t THEN l ELSE at[s]
         /\ Refunds!Go(t, l) => at'[s] = IF s = t THEN l ELSE at[s]
         /\ Refunds!End(t) => at'[s] = IF s = t THEN "idle" ELSE at[s]
         /\ \A op \in Refunds!HandlerNames : Refunds!Begin(t, l, op) => at'[s] = IF s = t THEN l
            ELSE at[s]
         /\ \A f \in BOOLEAN : Refunds!Park(t, f) => at'[s] = IF s = t THEN "p_find" ELSE at[s]
         /\ \A o \in {"refunded", "parked"} :
              Refunds!Return(t, o) => at'[s] = at[s] \/ (s = t /\ at'[s] \in {"idle", "close"})
         /\ Refunds!Return(t, "skipped") => at'[s] = at[s]
            \/ (s = t /\ at'[s] \in {"idle", "close", "terminate"})
  BY DEF Refunds!TypeOK, Refunds!Keep, Refunds!Go, Refunds!End, Refunds!Begin, Refunds!Park,
     Refunds!Return

LEMMA RefundsStep == Amounts /\ RefundsInv /\ [Refunds!Next]_Refunds!vars => RefundsInv'
<1> SUFFICES ASSUME Amounts, RefundsInv, [Refunds!Next]_Refunds!vars PROVE LedgerInv' /\ QueueInv'
  BY RefundsTypedStep DEF RefundsInv
<1>0. /\ Refunds!TypeOK /\ parked \in Refunds!Rows /\ back \in Nat /\ ours \in Nat /\ told \in Nat
      /\ ours <= back /\ told <= back /\ amount \in Nat \ {0}
  BY DEF RefundsInv, RefundsTyped, Refunds!TypeOK, RefundCounts
<1>t. /\ parked' \in Refunds!Rows /\ back' \in Nat /\ ours' \in Nat /\ ours' <= back'
  BY RefundsTypedStep DEF RefundsInv, RefundsTyped, Refunds!TypeOK, RefundCounts
<1>j. \A t \in Tasks : my[t] \in Refunds!Jobs /\ my[t].n \in 0 .. Cap + 1 /\ my[t].fatal \in BOOLEAN
  BY <1>0 DEF Refunds!TypeOK, Refunds!Jobs
<1>e. \A t \in Tasks, n \in 0 .. Cap + 1 : [my[t] EXCEPT !.n = n] \in Refunds!Jobs
  BY <1>j, RefundsJobs
<1> USE DEF RefundsInv, LedgerInv, QueueInv, SaysSo, Kept, Refunds!stripe
<1>1. ASSUME NEW t \in Tasks, Refunds!Called(t) \/ Refunds!RetryStuckRefunds(t) PROVE LedgerInv'
             /\ QueueInv'
  BY <1>0, <1>1, RefundsMove DEF Refunds!Called, Refunds!Settle, Refunds!AdminRetryRefund,
     Refunds!ChargeRefunded, Refunds!RetryStuckRefunds, Refunds!HandlerNames, Refunds!Labels
<1>2. ASSUME NEW t \in Tasks, Refunds!Find(t) PROVE LedgerInv' /\ QueueInv'
  BY <1>0, <1>2, <1>e, RefundsMove DEF Refunds!Find, Refunds!Labels, Refunds!Rows
<1>3. ASSUME NEW t \in Tasks, Refunds!ReadPayment(t) PROVE LedgerInv' /\ QueueInv'
  BY <1>0, <1>3, RefundsMove DEF Refunds!ReadPayment, Refunds!Labels
<1>4. ASSUME NEW t \in Tasks, Refunds!Create(t) PROVE LedgerInv' /\ QueueInv'
  <2>a. Refunds!Refunded => ours' > 0 /\ ours' >= ours /\ back' >= back
    <3>1. ASSUME keyed, UNCHANGED Refunds!stripe PROVE ours' > 0 /\ ours' >= ours /\ back' >= back
      BY <1>0, <3>1
    <3>2. ASSUME back' = back + amount, ours' = ours + 1 PROVE ours' > 0 /\ ours' >= ours
                 /\ back' >= back
      BY <1>0, <3>2
    <3> QED BY <3>1, <3>2 DEF Refunds!Refunded
  <2>b. \/ Refunds!Refunded /\ (Refunds!Go(t, "row") \/ Refunds!Park(t, FALSE))
        \/ UNCHANGED Refunds!stripe /\ \E f \in BOOLEAN : Refunds!Park(t, f)
    BY <1>4 DEF Refunds!Create
  <2>1. ours' >= ours /\ back' >= back /\ (keyed' => ours' > 0)
    <3>1. UNCHANGED Refunds!stripe => ours' >= ours /\ back' >= back /\ (keyed' => ours' > 0)
      BY <1>0
    <3> QED BY <2>a, <2>b, <3>1
  <2>2. \A s \in Tasks : at'[s] = at[s] \/ at'[s] = "p_find" \/ (at'[s] = "row" /\ ours' > 0)
    <3> TAKE s \in Tasks
    <3>1. Refunds!Go(t, "row") => at'[s] = IF s = t THEN "row" ELSE at[s]
      BY <1>0, RefundsMove DEF Refunds!Labels
    <3>2. \A f \in BOOLEAN : Refunds!Park(t, f) => at'[s] = IF s = t THEN "p_find" ELSE at[s]
      BY <1>0, RefundsMove DEF Refunds!Labels
    <3> QED BY <2>a, <2>b, <3>1, <3>2
  <2>3. UNCHANGED <<debt, ledger, parked>>
    BY <1>4 DEF Refunds!Create
  <2> QED BY <1>0, <1>t, <2>1, <2>2, <2>3
<1>5. ASSUME NEW t \in Tasks, Refunds!RecordSuccess(t) PROVE LedgerInv' /\ QueueInv'
  BY <1>0, <1>5, RefundsMove DEF Refunds!RecordSuccess, Refunds!Labels
<1>6. ASSUME NEW t \in Tasks, Refunds!MarkRefunded(t) PROVE LedgerInv' /\ QueueInv'
  BY <1>0, <1>6, RefundsMove DEF Refunds!MarkRefunded, Refunds!Labels
<1>7. ASSUME NEW t \in Tasks, Refunds!ParkFind(t) PROVE LedgerInv' /\ QueueInv'
  BY <1>0, <1>7, <1>e, RefundsMove DEF Refunds!ParkFind, Refunds!Labels, Refunds!Rows
<1>8. ASSUME NEW t \in Tasks, Refunds!ParkRow(t) PROVE LedgerInv' /\ QueueInv'
  <2>1. Kept'
    <3>1. parked' = Refunds!PlanRetry(my[t].n, my[t].fatal) /\ Refunds!Bump(my[t].n) \in Nat
      BY <1>8, <1>j, RefundsRows DEF Refunds!ParkRow
    <3>2. CASE my[t].fatal \/ Refunds!Bump(my[t].n) >= Cap
      BY <3>1, <3>2 DEF Refunds!PlanRetry
    <3>3. CASE ~(my[t].fatal \/ Refunds!Bump(my[t].n) >= Cap)
      <4>1. parked'.st = "pending" /\ parked'.n = Refunds!Bump(my[t].n) /\ parked'.due = "later"
        BY <3>1, <3>3 DEF Refunds!PlanRetry
      <4> QED BY <3>1, <3>3, <4>1 DEF Amounts
    <3> QED BY <3>2, <3>3
  <2>2. parked'.st \in {"pending", "failed"}
    BY <1>8 DEF Refunds!ParkRow, Refunds!PlanRetry
  <2>3. \A s \in Tasks : at'[s] = at[s] \/ at'[s] \in {"idle", "close"}
    BY <1>0, <1>8, RefundsMove DEF Refunds!ParkRow, Refunds!Labels
  <2>4. UNCHANGED <<debt, ledger, Refunds!stripe>>
    BY <1>8 DEF Refunds!ParkRow
  <2> QED BY <1>0, <2>1, <2>2, <2>3, <2>4
<1>9. ASSUME NEW t \in Tasks, Refunds!Close(t) PROVE LedgerInv' /\ QueueInv'
  BY <1>0, <1>9, RefundsMove DEF Refunds!Close, Refunds!Labels
<1>10. ASSUME NEW t \in Tasks, Refunds!Terminate(t) PROVE LedgerInv' /\ QueueInv'
  BY <1>0, <1>10, RefundsMove DEF Refunds!Terminate, Refunds!Labels, Refunds!Rows
<1>11. ASSUME NEW t \in Tasks, Refunds!ResetAttempts(t) PROVE LedgerInv' /\ QueueInv'
  BY <1>0, <1>11, RefundsMove DEF Refunds!ResetAttempts, Refunds!Labels, Refunds!Rows, Amounts
<1>12. ASSUME NEW t \in Tasks, Refunds!WebhookMark(t) PROVE LedgerInv' /\ QueueInv'
  BY <1>0, <1>12, RefundsMove DEF Refunds!WebhookMark, Refunds!Labels
<1>13. ASSUME NEW t \in Tasks, Refunds!Crash(t) PROVE LedgerInv' /\ QueueInv'
  BY <1>0, <1>13, RefundsMove DEF Refunds!Crash, Refunds!Labels
<1>14. CASE Refunds!BackoffElapses
  BY <1>0, <1>14 DEF Refunds!BackoffElapses, Refunds!Rows
<1>15. CASE Refunds!KeyExpires
  BY <1>0, <1>15 DEF Refunds!KeyExpires
<1>16. CASE Refunds!RefundedByHand
  BY <1>0, <1>16 DEF Refunds!RefundedByHand
<1>17. CASE UNCHANGED Refunds!vars
  BY <1>0, <1>17 DEF Refunds!vars
<1> QED
  BY <1>1, <1>2, <1>3, <1>4, <1>5, <1>6, <1>7, <1>8, <1>9, <1>10, <1>11, <1>12, <1>13, <1>14,
     <1>15, <1>16, <1>17 DEF Refunds!Next, Refunds!Continue

-----------------------------------------------------------------------------
\* Stripe.  While it remembers the key, it has refunded once if it has an answer under it.
OneKey == "forgets" \notin Faults
OnceInv == ours = IF keyed THEN 1 ELSE 0

LEMMA RefundsOnce == OneKey /\ OnceInv /\ [Refunds!Next]_Refunds!vars => OnceInv'
<1> SUFFICES ASSUME OneKey, OnceInv, [Refunds!Next]_Refunds!vars PROVE OnceInv'
  OBVIOUS
<1>1. CASE \E t \in Tasks : Refunds!Create(t)
  <2>1. \/ UNCHANGED <<ours, keyed>>
        \/ ~keyed /\ ours' = ours + 1 /\ keyed' = TRUE
    BY <1>1 DEF Refunds!Create, Refunds!Refunded, Refunds!stripe
  <2>2. CASE ~keyed /\ ours' = ours + 1 /\ keyed' = TRUE
    BY <2>2 DEF OnceInv
  <2> QED BY <2>1, <2>2 DEF OnceInv
<1>2. CASE UNCHANGED <<ours, keyed>>
  BY <1>2 DEF OnceInv
<1>3. Refunds!KeyExpires => FALSE
  BY DEF Refunds!KeyExpires, OneKey
<1>4. \/ \E t \in Tasks : Refunds!Create(t)
      \/ UNCHANGED <<ours, keyed>>
  <2>1. ASSUME NEW t \in Tasks, Refunds!Called(t) \/ Refunds!RetryStuckRefunds(t) \/ Refunds!Crash(t)
        PROVE UNCHANGED <<ours, keyed>>
    BY <2>1 DEF Refunds!Called, Refunds!Settle, Refunds!AdminRetryRefund, Refunds!ChargeRefunded,
       Refunds!RetryStuckRefunds, Refunds!Crash, Refunds!stripe
  <2>2. ASSUME NEW t \in Tasks, Refunds!Continue(t), ~Refunds!Create(t) PROVE UNCHANGED <<ours, keyed>>
    BY <2>2 DEF Refunds!Continue, Refunds!Find, Refunds!ReadPayment, Refunds!RecordSuccess,
       Refunds!MarkRefunded, Refunds!ParkFind, Refunds!ParkRow, Refunds!Close, Refunds!Terminate,
       Refunds!ResetAttempts, Refunds!WebhookMark, Refunds!stripe
  <2> QED BY <2>1, <2>2, <1>3 DEF Refunds!Next, Refunds!BackoffElapses, Refunds!RefundedByHand,
             Refunds!vars, Refunds!stripe
<1> QED BY <1>1, <1>2, <1>4

LEMMA OnceInit == Refunds!Init => OnceInv
BY DEF Refunds!Init, OnceInv

LEMMA RefundsHold == RefundsInv /\ OnceInv => Refunds!MoneyGoesBackOnce
<1> SUFFICES ASSUME RefundsInv, OnceInv PROVE Refunds!MoneyGoesBackOnce
  OBVIOUS
<1>1. back \in Nat /\ ours \in Nat /\ ours <= back
  BY DEF RefundsInv, RefundsTyped, Refunds!TypeOK, RefundCounts
<1>2. Refunds!RefundedOnce
  BY DEF OnceInv, Refunds!RefundedOnce
<1>3. Refunds!RefundedMeansBack
  BY <1>1 DEF RefundsInv, LedgerInv, Refunds!RefundedMeansBack
<1>4. Refunds!OwedIsKept
  BY DEF RefundsInv, QueueInv, Kept, Refunds!OwedIsKept
<1> QED BY <1>2, <1>3, <1>4 DEF Refunds!MoneyGoesBackOnce

\* The customer is given the money once; the ledger says so when it has gone and not before;
\* and until then it is in the queue or on the list of what failed: for any number of
\* settlements, retries and webhooks at once, lost answers, refusals, refunds by hand and
\* dying processes, as long as Stripe remembers the key.
THEOREM BackOnceOrKept ==
  ASSUME Amounts, OneKey
  PROVE  Refunds!Spec => []Refunds!MoneyGoesBackOnce
<1>1. Refunds!Init => RefundsInv /\ OnceInv
  BY RefundsInit, OnceInit
<1>2. RefundsInv /\ OnceInv /\ [Refunds!Next]_Refunds!vars => RefundsInv' /\ OnceInv'
  BY RefundsStep, RefundsOnce
<1>3. RefundsInv /\ OnceInv => Refunds!MoneyGoesBackOnce
  BY RefundsHold
<1> QED BY <1>1, <1>2, <1>3, PTL DEF Refunds!Spec

-----------------------------------------------------------------------------
(***************************************************************************)
(* Payout accounts.  Of the inspector's requests for the form one runs at a   *)
(* time (Connect's Alone); phones and Stripe's events come in between.        *)
(***************************************************************************)
Form == "startStripeOnboarding"
Known == DOMAIN accounts
AccountRows == [country : {"DE", "PL"}, kind : {"company", "unset"}, alive : BOOLEAN,
                ready : BOOLEAN, was : BOOLEAN]
Forms == [op : Connect!HandlerNames \cup {"none"}, country : {"DE", "PL", "unset"},
          kind : {"company", "unset"}, stored : Nat, made : Nat, ready : BOOLEAN]
ConnectTyped ==
  /\ profile \in [exists : BOOLEAN, acct : Nat, onboarded : BOOLEAN,
                  country : {"DE", "PL", "unset"}, kind : {"company", "unset"}]
  /\ accounts \in [Known -> AccountRows]
  /\ \E n \in Nat : Known = 1 .. n
  /\ at \in [Tasks -> Connect!Labels] /\ my \in [Tasks -> Forms]

\* The profile names an account that is there, in the country it is in, and what it says of
\* it was true.
ProfileOK ==
  /\ profile.acct \in Known \cup {0}
  /\ ~profile.exists => profile.acct = 0
  /\ profile.onboarded => profile.acct # 0 /\ accounts[profile.acct].was
  /\ profile.acct # 0 => accounts[profile.acct].country = profile.country
  /\ profile.acct # 0 /\ (\A t \in Tasks : at[t] # "n_mark")
       => accounts[profile.acct].kind = profile.kind
ReportsOK == \A r \in reports :
  r.acct \in Known /\ r.ready \in BOOLEAN /\ (r.ready => accounts[r.acct].was)

\* What a request knows of the accounts.
Filling == {"n_create", "n_store", "n_kind", "n_mark", "n_link", "n_reset", "n_again", "n_restore",
            "n_last"}
FormOK(t) ==
  /\ at[t] \in Filling \cup {"n_find", "n_insert"} => my[t].op = Form
  /\ my[t].stored \in Known \cup {0} /\ my[t].made \in Known \cup {0}
  /\ at[t] \in Filling => profile.exists /\ my[t].country # "unset"
  /\ at[t] \in {"n_create", "n_store", "n_again", "n_restore"} => profile.acct = 0
  /\ at[t] \in {"n_store", "n_restore"} =>
       /\ my[t].made # 0 /\ accounts[my[t].made].country = my[t].country
       /\ accounts[my[t].made].kind = my[t].kind
  /\ at[t] \in {"n_kind", "n_mark"} => my[t].stored = profile.acct /\ profile.acct # 0
  /\ at[t] = "n_mark" => accounts[profile.acct].kind = my[t].kind
  /\ at[t] \in {"y_find", "y_write"} =>
       my[t].stored # 0 /\ (my[t].ready => accounts[my[t].stored].was)
ConnectInv ==
  /\ ConnectTyped /\ ProfileOK /\ ReportsOK
  /\ \A t, u \in Tasks : my[t].op = Form /\ my[u].op = Form => t = u
  /\ \A t \in Tasks : FormOK(t)

\* Accounts are made and completed, and neither is undone.
Lasting == /\ Known \subseteq Known' /\ (profile.exists => profile'.exists)
           /\ \A a \in Known : accounts[a].was => accounts'[a].was
Unnamed == /\ profile'.acct = profile.acct
           /\ \A a \in Known : /\ accounts'[a].country = accounts[a].country
                               /\ accounts'[a].kind = accounts[a].kind

LEMMA ConnectOf ==
  ASSUME ConnectInv, NEW t \in Tasks, ConnectTyped', ProfileOK', ReportsOK', FormOK(t)',
         \A u \in Tasks \ {t} : at'[u] = at[u] /\ my'[u] = my[u],
         my'[t].op = Form => \A u \in Tasks \ {t} : my[u].op # Form,
         Lasting, Unnamed \/ my[t].op = Form
  PROVE  ConnectInv'
<1>1. ASSUME NEW u \in Tasks \ {t} PROVE FormOK(u)'
  <2>1. FormOK(u)
    BY DEF ConnectInv
  <2>2. CASE my[u].op = Form
    <3>1. Unnamed
      BY <2>2 DEF ConnectInv
    <3>2. 0 \notin Known
      BY DEF ConnectInv, ConnectTyped
    <3>3. profile.acct \in Known \cup {0}
      BY DEF ConnectInv, ProfileOK
    <3> QED BY <2>1, <3>1, <3>2, <3>3 DEF FormOK, Unnamed, Lasting
  <2>3. CASE my[u].op # Form
    BY <2>1, <2>3 DEF FormOK, Lasting, Filling
  <2> QED BY <2>2, <2>3
<1>2. \A u, v \in Tasks : my'[u].op = Form /\ my'[v].op = Form => u = v
  BY DEF ConnectInv
<1> QED BY <1>1, <1>2 DEF ConnectInv

LEMMA ConnectKeeps ==
  ASSUME ConnectTyped, NEW t \in Tasks, NEW l \in Connect!Labels, NEW j \in Forms,
         Connect!Keep(t, l, j)
  PROVE  /\ at' \in [Tasks -> Connect!Labels] /\ my' \in [Tasks -> Forms]
         /\ at'[t] = l /\ my'[t] = j
         /\ \A u \in Tasks \ {t} : at'[u] = at[u] /\ my'[u] = my[u]
BY DEF Connect!Keep, ConnectTyped

LEMMA ConnectJobs ==
  /\ \A l \in Filling \cup {"idle", "f_insert", "n_find", "n_insert", "y_find", "y_write"} :
       l \in Connect!Labels
  /\ \A op \in Connect!HandlerNames, c \in {"DE", "PL", "unset"}, k \in {"company", "unset"} :
       /\ Connect!Job(op, c, k) \in Forms
       /\ Connect!Job(op, c, k).op = op /\ Connect!Job(op, c, k).stored = 0
       /\ Connect!Job(op, c, k).made = 0
  /\ Connect!NoJob \in Forms /\ Connect!NoJob.op = "none" /\ Connect!NoJob.stored = 0
  /\ Connect!NoJob.made = 0
BY DEF Filling, Connect!Labels, Connect!Job, Connect!NoJob, Forms, Connect!HandlerNames,
   Connect!None, Connect!Unset

\* A step that leaves the profile and Stripe alone.
LEMMA ConnectOfReads ==
  ASSUME ConnectInv, NEW t \in Tasks, NEW l \in Connect!Labels, NEW j \in Forms,
         Connect!Keep(t, l, j), UNCHANGED <<profile, accounts>>, reports' \subseteq reports,
         FormOK(t)', at[t] # "n_mark",
         j.op = Form => \A u \in Tasks \ {t} : my[u].op # Form
  PROVE  ConnectInv'
<1>1. /\ at' \in [Tasks -> Connect!Labels] /\ my' \in [Tasks -> Forms]
      /\ at'[t] = l /\ my'[t] = j
      /\ \A u \in Tasks \ {t} : at'[u] = at[u] /\ my'[u] = my[u]
  BY ConnectKeeps DEF ConnectInv
<1>2. ConnectTyped' /\ ReportsOK' /\ Lasting /\ Unnamed
  BY <1>1 DEF ConnectInv, ConnectTyped, ReportsOK, Lasting, Unnamed, Known
<1>3. ProfileOK'
  BY <1>1 DEF ConnectInv, ProfileOK, Known
<1> QED BY <1>1, <1>2, <1>3, ConnectOf
LEMMA ConnectReads ==
  ASSUME ConnectInv, NEW t \in Tasks,
         \/ Connect!RegisterPushToken(t) \/ Connect!StartStripeOnboarding(t) \/ Connect!FindProfile(t)
         \/ Connect!CreateLink(t) \/ Connect!SyncConnectedAccount(t) \/ Connect!FindByAccount(t)
  PROVE  ConnectInv'
<1>0. /\ ConnectTyped /\ FormOK(t) /\ ProfileOK /\ my[t] \in Forms /\ Connect!NoJob \in Forms
      /\ 0 \notin Known
  BY ConnectJobs DEF ConnectInv, ConnectTyped
<1>1. ASSUME Connect!End(t), UNCHANGED Connect!connect, at[t] # "n_mark" PROVE ConnectInv'
  <2>1. at'[t] = "idle" /\ my'[t] = Connect!NoJob
    BY <1>0, <1>1, ConnectJobs, ConnectKeeps DEF Connect!End
  <2>2. FormOK(t)'
    BY <2>1, ConnectJobs DEF FormOK, Filling, Form
  <2> QED BY <1>0, <1>1, <2>2, ConnectJobs, ConnectOfReads DEF Connect!End, Connect!connect, Form
<1>2. ASSUME NEW l \in Connect!Labels, NEW j \in Forms, Connect!Keep(t, l, j),
             UNCHANGED Connect!connect, at[t] \notin {"n_mark"}, my[t].op = Form, j.op = Form,
             j.stored \in Known \cup {0}, j.made \in Known \cup {0},
             l \in Filling => profile.exists /\ j.country # "unset",
             l \in {"n_create", "n_again"} => profile.acct = 0,
             l \notin {"n_store", "n_restore", "n_mark", "y_find", "y_write"},
             l = "n_kind" => j.stored = profile.acct /\ profile.acct # 0
      PROVE  ConnectInv'
  <2>1. at'[t] = l /\ my'[t] = j
    BY <1>0, <1>2, ConnectKeeps
  <2>2. FormOK(t)'
    BY <1>2, <2>1 DEF FormOK, Known, Connect!connect
  <2>3. \A u \in Tasks \ {t} : my[u].op # Form
    BY <1>2 DEF ConnectInv
  <2> QED BY <1>2, <2>2, <2>3, ConnectOfReads DEF Connect!connect
<1>3. ASSUME Connect!RegisterPushToken(t) PROVE ConnectInv'
  <2> DEFINE j == Connect!Job("registerPushToken", "unset", "unset")
  <2>1. at[t] = "idle" /\ Connect!Keep(t, "f_insert", j) /\ UNCHANGED Connect!connect
    BY <1>3 DEF Connect!RegisterPushToken, Connect!Begin, Connect!Keep, Connect!Unset
  <2>2. /\ j \in Forms /\ j.op = "registerPushToken" /\ j.stored = 0 /\ j.made = 0
        /\ "f_insert" \in Connect!Labels
    BY ConnectJobs DEF Connect!HandlerNames
  <2> HIDE DEF j
  <2>3. at'[t] = "f_insert" /\ my'[t] = j
    BY <1>0, <2>1, <2>2, ConnectKeeps
  <2>4. FormOK(t)'
    BY <2>2, <2>3 DEF FormOK, Filling
  <2> QED BY <2>1, <2>2, <2>4, ConnectOfReads DEF Connect!connect, Form
<1>4. ASSUME Connect!StartStripeOnboarding(t) PROVE ConnectInv'
  <2>1. PICK c \in {"DE", "PL", "unset"}, k \in {"company", "unset"} :
          Connect!Begin(t, "n_find", Connect!Job(Form, c, k))
    BY <1>4 DEF Connect!StartStripeOnboarding, Connect!Unset, Form
  <2> DEFINE j == Connect!Job(Form, c, k)
  <2>2. /\ j \in Forms /\ j.op = Form /\ j.stored = 0 /\ j.made = 0
        /\ "n_find" \in Connect!Labels
    BY ConnectJobs DEF Connect!HandlerNames, Form
  <2>3. /\ at[t] = "idle" /\ Connect!Keep(t, "n_find", j) /\ UNCHANGED Connect!connect
        /\ \A u \in Tasks : my[u].op # Form
    BY <1>4, <2>1, <2>2 DEF Connect!StartStripeOnboarding, Connect!Begin, Connect!Keep, Form
  <2> HIDE DEF j
  <2>4. at'[t] = "n_find" /\ my'[t] = j
    BY <1>0, <2>2, <2>3, ConnectKeeps
  <2>5. FormOK(t)'
    BY <2>2, <2>4 DEF FormOK, Filling
  <2> QED BY <2>2, <2>3, <2>5, ConnectOfReads DEF Connect!connect
<1>5. ASSUME Connect!FindProfile(t) PROVE ConnectInv'
  <2> DEFINE asks == [my[t] EXCEPT !.stored = profile.acct,
             !.country = Connect!CountryFor(my[t].country),
                                    !.kind = Connect!KindFor(my[t].kind)]
  <2>1. at[t] = "n_find" /\ my[t].op = Form /\ UNCHANGED Connect!connect
    BY <1>0, <1>5 DEF Connect!FindProfile, FormOK
  <2>2. Connect!CountryFor(my[t].country) \in {"DE", "PL"}
    BY <1>0 DEF Connect!CountryFor, Connect!CountryOfRecord, Connect!None, Connect!Unset,
       ProfileOK, ConnectTyped, AccountRows, Forms
  <2>3. Connect!KindFor(my[t].kind) \in {"company", "unset"} /\ profile.acct \in Nat
    BY <1>0 DEF Connect!KindFor, Connect!Unset, ConnectTyped, Forms
  <2>4. asks \in Forms /\ asks.op = Form /\ asks.stored = profile.acct /\ asks.made = my[t].made
        /\ asks.country # "unset"
    BY <1>0, <2>1, <2>2, <2>3 DEF Forms
  <2>5. \/ Connect!End(t) \/ Connect!Keep(t, "n_insert", my[t])
        \/ profile.exists /\ profile.acct = 0 /\ Connect!Keep(t, "n_create", asks)
        \/ profile.exists /\ profile.acct # 0 /\ \/ Connect!Keep(t, "n_kind", asks)
                                                 \/ Connect!Keep(t, "n_link", asks)
    BY <1>5 DEF Connect!FindProfile, Connect!Go, Connect!None
  <2> HIDE DEF asks
  <2>6. profile.acct \in Known \cup {0} /\ my[t].made \in Known \cup {0}
        /\ my[t].stored \in Known \cup {0}
    BY <1>0 DEF ProfileOK, FormOK
  <2>7. {"n_insert", "n_create", "n_kind", "n_link"} \subseteq Connect!Labels
    BY DEF Connect!Labels
  <2>8. CASE Connect!Keep(t, "n_insert", my[t])
    BY <1>0, <1>2, <2>1, <2>6, <2>7, <2>8 DEF Filling
  <2>9. CASE profile.exists /\ profile.acct = 0 /\ Connect!Keep(t, "n_create", asks)
    BY <1>2, <2>1, <2>4, <2>6, <2>7, <2>9
  <2>10. CASE profile.exists /\ profile.acct # 0 /\ Connect!Keep(t, "n_kind", asks)
    BY <1>2, <2>1, <2>4, <2>6, <2>7, <2>10
  <2>11. CASE profile.exists /\ profile.acct # 0 /\ Connect!Keep(t, "n_link", asks)
    BY <1>2, <2>1, <2>4, <2>6, <2>7, <2>11
  <2> QED BY <1>1, <2>1, <2>5, <2>8, <2>9, <2>10, <2>11
<1>6. ASSUME Connect!CreateLink(t) PROVE ConnectInv'
  <2>1. at[t] \in {"n_link", "n_last"} /\ UNCHANGED Connect!connect
        /\ (Connect!End(t) \/ Connect!Keep(t, "n_reset", my[t]))
    BY <1>6 DEF Connect!CreateLink, Connect!Go
  <2>2. "n_reset" \in Connect!Labels
    BY DEF Connect!Labels
  <2>3. CASE Connect!Keep(t, "n_reset", my[t])
    BY <1>0, <1>2, <2>1, <2>2, <2>3 DEF FormOK, Filling
  <2> QED BY <1>1, <2>1, <2>3
<1>7. ASSUME Connect!SyncConnectedAccount(t) PROVE ConnectInv'
  <2>1. PICK r \in reports :
          /\ Connect!Begin(t, "y_find", [Connect!Job("syncConnectedAccount", "unset", "unset") EXCEPT
                                           !.stored = r.acct, !.ready = r.ready])
          /\ reports' = reports \ {r}
    BY <1>7 DEF Connect!SyncConnectedAccount, Connect!Unset
  <2>2. /\ r.acct \in Known /\ r.acct \in Nat /\ r.ready \in BOOLEAN
        /\ (r.ready => accounts[r.acct].was)
    BY <1>0 DEF ConnectInv, ReportsOK, ConnectTyped
  <2> DEFINE j == [Connect!Job("syncConnectedAccount", "unset", "unset") EXCEPT
                     !.stored = r.acct, !.ready = r.ready]
  <2>3. at[t] = "idle" /\ Connect!Keep(t, "y_find", j) /\ UNCHANGED <<profile, accounts>>
    BY <1>7, <2>1 DEF Connect!SyncConnectedAccount, Connect!Begin, Connect!Keep
  <2>4. /\ j.op = "syncConnectedAccount" /\ j.stored = r.acct /\ j.made = 0 /\ j.ready = r.ready
    BY DEF Connect!Job, Connect!None
  <2>5. j \in Forms
    BY <2>2 DEF Connect!Job, Forms, Connect!HandlerNames, Connect!None
  <2> HIDE DEF j
  <2>6. "y_find" \in Connect!Labels
    BY DEF Connect!Labels
  <2>7. at'[t] = "y_find" /\ my'[t] = j
    BY <1>0, <2>3, <2>5, <2>6, ConnectKeeps
  <2>8. FormOK(t)'
    BY <1>0, <2>2, <2>3, <2>4, <2>7 DEF FormOK, Filling, Known
  <2> QED BY <2>1, <2>3, <2>4, <2>5, <2>6, <2>8, ConnectOfReads DEF Form
<1>8. ASSUME Connect!FindByAccount(t) PROVE ConnectInv'
  <2>1. at[t] = "y_find" /\ UNCHANGED Connect!connect
        /\ (Connect!End(t) \/ Connect!Keep(t, "y_write", my[t]))
    BY <1>8 DEF Connect!FindByAccount, Connect!Go
  <2>2. CASE Connect!Keep(t, "y_write", my[t])
    <3>1. "y_write" \in Connect!Labels
      BY DEF Connect!Labels
    <3>2. at'[t] = "y_write" /\ my'[t] = my[t]
      BY <1>0, <2>2, <3>1, ConnectKeeps
    <3>3. FormOK(t)'
      BY <1>0, <2>1, <3>2 DEF FormOK, Filling, Known, Connect!connect
    <3>4. my[t].op = Form => \A u \in Tasks \ {t} : my[u].op # Form
      BY DEF ConnectInv
    <3> QED BY <1>0, <2>1, <2>2, <3>1, <3>3, <3>4, ConnectOfReads DEF Connect!connect
  <2> QED BY <1>1, <2>1, <2>2
<1> QED BY <1>3, <1>4, <1>5, <1>6, <1>7, <1>8
\* A step that writes the profile and leaves Stripe alone.
LEMMA ConnectOfProfile ==
  ASSUME ConnectInv, NEW t \in Tasks, NEW l \in Connect!Labels, NEW j \in Forms,
         Connect!Keep(t, l, j), UNCHANGED <<accounts, reports>>,
         profile' \in [exists : BOOLEAN, acct : Nat, onboarded : BOOLEAN,
                       country : {"DE", "PL", "unset"}, kind : {"company", "unset"}],
         profile.exists => profile'.exists,
         ProfileOK', FormOK(t)', j.op = Form => \A u \in Tasks \ {t} : my[u].op # Form,
         profile'.acct = profile.acct \/ my[t].op = Form
  PROVE  ConnectInv'
<1>1. /\ at' \in [Tasks -> Connect!Labels] /\ my' \in [Tasks -> Forms]
      /\ at'[t] = l /\ my'[t] = j
      /\ \A u \in Tasks \ {t} : at'[u] = at[u] /\ my'[u] = my[u]
  BY ConnectKeeps DEF ConnectInv
<1>2. ConnectTyped' /\ ReportsOK' /\ Lasting /\ (Unnamed \/ my[t].op = Form)
  BY <1>1 DEF ConnectInv, ConnectTyped, ReportsOK, Lasting, Unnamed, Known
<1> QED BY <1>1, <1>2, ConnectOf

LEMMA ConnectProfiles ==
  ASSUME ConnectInv, NEW t \in Tasks,
         \/ Connect!UpsertToken(t) \/ Connect!InsertProfile(t) \/ Connect!StoreAccount(t)
         \/ Connect!MarkKind(t) \/ Connect!ResetAccount(t) \/ Connect!WriteOnboarded(t)
  PROVE  ConnectInv'
<1>0. /\ ConnectTyped /\ FormOK(t) /\ ProfileOK /\ my[t] \in Forms /\ Connect!NoJob \in Forms
      /\ "idle" \in Connect!Labels /\ 0 \notin Known /\ my[t].made \in Nat
         /\ my[t].country \in {"DE", "PL", "unset"}
      /\ my[t].kind \in {"company", "unset"} /\ my[t].ready \in BOOLEAN
      /\ profile \in [exists : BOOLEAN, acct : Nat, onboarded : BOOLEAN,
                      country : {"DE", "PL", "unset"}, kind : {"company", "unset"}]
  <2>1. ConnectTyped /\ FormOK(t) /\ ProfileOK
    BY DEF ConnectInv
  <2>2. my[t] \in Forms /\ Connect!NoJob \in Forms /\ 0 \notin Known /\ "idle" \in Connect!Labels
    BY <2>1, ConnectJobs DEF ConnectTyped, Connect!Labels
  <2> QED BY <2>1, <2>2 DEF ConnectTyped, Forms
<1>1. my[t].op = Form => \A u \in Tasks \ {t} : my[u].op # Form
  BY DEF ConnectInv
<1>2. \A u \in Tasks : at[u] = "n_mark" => my[u].op = Form
  BY DEF ConnectInv, FormOK, Filling
<1>3. ASSUME Connect!End(t), UNCHANGED <<accounts, reports>>,
             profile' \in [exists : BOOLEAN, acct : Nat, onboarded : BOOLEAN,
                           country : {"DE", "PL", "unset"}, kind : {"company", "unset"}],
             ProfileOK', profile'.acct = profile.acct, profile.exists => profile'.exists
      PROVE  ConnectInv'
  <2>1. at'[t] = "idle" /\ my'[t] = Connect!NoJob
    BY <1>0, <1>3, ConnectJobs, ConnectKeeps DEF Connect!End
  <2>2. FormOK(t)'
    BY <2>1, ConnectJobs DEF FormOK, Filling, Form
  <2> QED BY <1>0, <1>3, <2>2, ConnectJobs, ConnectOfProfile DEF Connect!End, Form
<1>4. ASSUME NEW l \in Connect!Labels, Connect!Keep(t, l, my[t])
      PROVE  /\ at'[t] = l /\ my'[t] = my[t]
             /\ \A u \in Tasks \ {t} : at'[u] = at[u] /\ my'[u] = my[u]
  BY <1>0, <1>4, ConnectKeeps
<1>5. /\ "n_create" \in Connect!Labels /\ "n_link" \in Connect!Labels /\ "n_last" \in Connect!Labels
      /\ "n_again" \in Connect!Labels
  BY DEF Connect!Labels
<1>6. ASSUME at[t] # "n_mark", UNCHANGED accounts, Connect!End(t),
             profile'.acct = profile.acct, profile'.country = profile.country,
             profile'.kind = profile.kind, profile.exists => profile'.exists,
             profile'.onboarded => profile.onboarded
               \/ (profile.acct # 0 /\ accounts[profile.acct].was),
             profile'.exists \/ profile'.acct = 0
      PROVE  ProfileOK'
  <2>1. at'[t] = "idle" /\ \A u \in Tasks \ {t} : at'[u] = at[u]
    BY <1>0, <1>6, ConnectKeeps DEF Connect!End
  <2>2. (\A u \in Tasks : at'[u] # "n_mark") => \A u \in Tasks : at[u] # "n_mark"
    BY <1>6, <2>1
  <2> QED BY <1>0, <1>6, <2>2 DEF ProfileOK, Known
<1>7. ASSUME Connect!UpsertToken(t) PROVE ConnectInv'
  <2>1. /\ at[t] = "f_insert" /\ profile' = [profile EXCEPT !.exists = TRUE] /\ Connect!End(t)
        /\ UNCHANGED <<accounts, reports>>
    BY <1>7 DEF Connect!UpsertToken
  <2> QED BY <1>0, <1>3, <1>6, <2>1
<1>8. ASSUME Connect!InsertProfile(t) PROVE ConnectInv'
  <2>1. /\ at[t] = "n_insert" /\ profile' = [profile EXCEPT !.exists = TRUE]
        /\ UNCHANGED <<accounts, reports>> /\ my[t].op = Form
    BY <1>0, <1>8 DEF Connect!InsertProfile, FormOK
  <2>2. CASE Connect!End(t)
    BY <1>0, <1>3, <1>6, <2>1, <2>2
  <2> DEFINE j == [my[t] EXCEPT !.country = IF @ = "unset" THEN "DE" ELSE @]
  <2>3. CASE ~profile.exists /\ Connect!Keep(t, "n_create", j)
    <3>1. j \in Forms /\ j.op = Form /\ j.country # "unset" /\ j.made = my[t].made
          /\ j.stored = my[t].stored
      BY <1>0, <2>1 DEF Forms
    <3> HIDE DEF j
    <3>2. at'[t] = "n_create" /\ my'[t] = j
      BY <1>0, <1>5, <2>3, <3>1, ConnectKeeps
    <3>3. profile'.acct = 0 /\ profile'.onboarded = profile.onboarded /\ profile.acct = 0
      BY <1>0, <2>1, <2>3 DEF ProfileOK
    <3>4. ProfileOK'
      BY <1>0, <3>3 DEF ProfileOK
    <3>5. FormOK(t)'
      BY <1>0, <2>1, <3>1, <3>2, <3>3 DEF FormOK, Filling, Known
    <3> QED BY <1>0, <1>1, <1>5, <2>1, <2>3, <3>1, <3>3, <3>4, <3>5, ConnectOfProfile
  <2> QED BY <1>8, <2>2, <2>3 DEF Connect!InsertProfile, Connect!Unset
<1>9. ASSUME Connect!StoreAccount(t) PROVE ConnectInv'
  <2>1. /\ at[t] \in {"n_store", "n_restore"} /\ UNCHANGED <<accounts, reports>> /\ my[t].op = Form
        /\ profile' = [profile EXCEPT !.acct = my[t].made, !.country = my[t].country,
           !.kind = my[t].kind]
    BY <1>0, <1>9 DEF Connect!StoreAccount, FormOK, Filling
  <2>2. PICK l \in {"n_link", "n_last"} : Connect!Keep(t, l, my[t])
    BY <1>9 DEF Connect!StoreAccount, Connect!Go
  <2>3. /\ profile.acct = 0 /\ my[t].made \in Known /\ accounts[my[t].made].country = my[t].country
        /\ accounts[my[t].made].kind = my[t].kind /\ my[t].country # "unset"
    BY <1>0, <2>1 DEF FormOK, Filling
  <2>4. at'[t] = l /\ my'[t] = my[t]
    BY <1>4, <1>5, <2>2
  <2>5. ~profile.onboarded /\ profile'.acct = my[t].made /\ profile'.country = my[t].country
        /\ profile'.kind = my[t].kind /\ profile'.onboarded = profile.onboarded
        /\ profile'.exists = profile.exists
    BY <1>0, <2>1, <2>3 DEF ProfileOK
  <2>6. profile.exists
    BY <1>0, <2>1 DEF FormOK, Filling
  <2>7. ProfileOK'
    BY <1>0, <2>1, <2>3, <2>5, <2>6 DEF ProfileOK, Known
  <2>8. FormOK(t)'
    BY <1>0, <2>1, <2>3, <2>4 DEF FormOK, Filling, Known
  <2> QED BY <1>0, <1>1, <1>5, <2>1, <2>2, <2>7, <2>8, ConnectOfProfile
<1>10. ASSUME Connect!MarkKind(t) PROVE ConnectInv'
  <2>1. /\ at[t] = "n_mark" /\ UNCHANGED <<accounts, reports>> /\ my[t].op = Form
        /\ profile' = [profile EXCEPT !.kind = my[t].kind]
        /\ Connect!Keep(t, "n_link", my[t])
    BY <1>0, <1>10 DEF Connect!MarkKind, Connect!Go, FormOK, Filling
  <2>2. profile.acct # 0 /\ accounts[profile.acct].kind = my[t].kind
    BY <1>0, <2>1 DEF FormOK
  <2>3. at'[t] = "n_link" /\ my'[t] = my[t]
    BY <1>4, <1>5, <2>1
  <2>4. ProfileOK'
    BY <1>0, <2>1, <2>2 DEF ProfileOK, Known
  <2>5. FormOK(t)'
    BY <1>0, <2>1, <2>3 DEF FormOK, Filling, Known
  <2> QED BY <1>0, <1>1, <1>5, <2>1, <2>4, <2>5, ConnectOfProfile
<1>11. ASSUME Connect!ResetAccount(t) PROVE ConnectInv'
  <2>1. /\ at[t] = "n_reset" /\ UNCHANGED <<accounts, reports>> /\ my[t].op = Form
        /\ profile' = [profile EXCEPT !.acct = 0, !.onboarded = FALSE]
        /\ Connect!Keep(t, "n_again", my[t])
    BY <1>0, <1>11 DEF Connect!ResetAccount, Connect!Go, Connect!None, FormOK, Filling
  <2>2. at'[t] = "n_again" /\ my'[t] = my[t]
    BY <1>4, <1>5, <2>1
  <2>3. profile'.acct = 0 /\ ~profile'.onboarded
    BY <1>0, <2>1
  <2>4. ProfileOK'
    BY <2>3 DEF ProfileOK
  <2>5. FormOK(t)'
    BY <1>0, <2>1, <2>2, <2>3 DEF FormOK, Filling, Known
  <2> QED BY <1>0, <1>1, <1>5, <2>1, <2>4, <2>5, ConnectOfProfile
<1>12. ASSUME Connect!WriteOnboarded(t) PROVE ConnectInv'
  <2>1. /\ at[t] = "y_write" /\ UNCHANGED <<accounts, reports>> /\ Connect!End(t)
        /\ profile' = IF profile.acct = my[t].stored THEN [profile EXCEPT !.onboarded = my[t].ready]
                      ELSE profile
    BY <1>12 DEF Connect!WriteOnboarded
  <2>2. my[t].stored # 0 /\ (my[t].ready => accounts[my[t].stored].was)
    BY <1>0, <2>1 DEF FormOK
  <2>3. ProfileOK'
    <3>1. CASE profile.acct = my[t].stored
      BY <1>0, <1>6, <2>1, <2>2, <3>1 DEF ProfileOK
    <3>2. CASE profile.acct # my[t].stored
      BY <1>0, <1>6, <2>1, <3>2 DEF ProfileOK
    <3> QED BY <3>1, <3>2
  <2> QED BY <1>0, <1>3, <2>1, <2>3
<1> QED BY <1>7, <1>8, <1>9, <1>10, <1>11, <1>12
\* What happens at Stripe.
LEMMA ConnectStripe ==
  ASSUME ConnectInv, NEW t \in Tasks, Connect!CreateAccount(t) \/ Connect!UpdateKind(t)
  PROVE  ConnectInv'
<1>0. /\ ConnectTyped /\ FormOK(t) /\ ProfileOK /\ ReportsOK
  BY DEF ConnectInv
<1>1. /\ my[t] \in Forms /\ Connect!NoJob \in Forms /\ 0 \notin Known /\ my[t].op = Form
      /\ \A a \in Known : a \in Nat /\ accounts[a] \in AccountRows
      /\ {"idle", "n_store", "n_restore", "n_mark", "n_link"} \subseteq Connect!Labels
      /\ UNCHANGED <<profile, reports>>
  BY <1>0, ConnectJobs DEF ConnectTyped, Connect!Labels, Connect!CreateAccount,
     Connect!UpdateKind, FormOK, Filling
<1>2. \A u \in Tasks \ {t} : my[u].op # Form /\ at[u] # "n_mark"
  BY <1>1 DEF ConnectInv, FormOK, Filling
<1>3. ASSUME UNCHANGED accounts, NEW l \in {"idle", "n_link"}, NEW j \in {Connect!NoJob, my[t]},
             Connect!Keep(t, l, j), l = "n_link" => j = my[t] /\ at[t] \in Filling, at[t] # "n_mark"
      PROVE  ConnectInv'
  <2>1. at'[t] = l /\ my'[t] = j
    BY <1>0, <1>1, <1>3, ConnectKeeps
  <2>2. FormOK(t)'
    BY <1>0, <1>1, <1>3, <2>1, ConnectJobs DEF FormOK, Filling, Known
  <2> QED BY <1>1, <1>2, <1>3, <2>2, ConnectOfReads
<1>4. ASSUME NEW l \in {"n_store", "n_restore", "n_mark"}, NEW j \in Forms, Connect!Keep(t, l, j),
             FormOK(t)', ProfileOK', ReportsOK', Lasting, accounts' \in [Known' -> AccountRows],
             \E n \in Nat : Known' = 1 .. n
      PROVE  ConnectInv'
  <2>1. /\ at' \in [Tasks -> Connect!Labels] /\ my' \in [Tasks -> Forms]
        /\ at'[t] = l /\ my'[t] = j
        /\ \A u \in Tasks \ {t} : at'[u] = at[u] /\ my'[u] = my[u]
    BY <1>0, <1>1, <1>4, ConnectKeeps
  <2>2. ConnectTyped'
    BY <1>0, <1>1, <1>4, <2>1 DEF ConnectTyped
  <2> QED BY <1>1, <1>2, <1>4, <2>1, <2>2, ConnectOf
<1>5. ASSUME Connect!CreateAccount(t) PROVE ConnectInv'
  <2>1. at[t] \in {"n_create", "n_again"} /\ profile.acct = 0 /\ profile.exists
        /\ my[t].country # "unset"
    BY <1>0, <1>5 DEF Connect!CreateAccount, FormOK, Filling
  <2>2. CASE UNCHANGED accounts /\ Connect!End(t)
    BY <1>3, <2>1, <2>2 DEF Connect!End
  <2>3. ASSUME Connect!NewAccount(t), NEW l \in {"n_store", "n_restore"},
               Connect!Keep(t, l, [my[t] EXCEPT !.made = Connect!NextId])
        PROVE  ConnectInv'
    <3>1. PICK n \in Nat : Known = 1 .. n
      BY <1>0 DEF ConnectTyped
    <3>2. Cardinality(1 .. n) = n
      BY FS_Interval
    <3> DEFINE k == Connect!NextId
    <3>3. k = n + 1 /\ k \in Nat /\ k # 0 /\ k \notin Known
      <4>1. k = Cardinality(Known) + 1
        BY DEF Connect!NextId, Known, Connect!Cardinality, Cardinality
      <4> QED BY <3>1, <3>2, <4>1
    <3> DEFINE j == [my[t] EXCEPT !.made = k]
               row == [country |-> my[t].country, kind |-> my[t].kind, alive |-> TRUE,
                       ready |-> FALSE, was |-> FALSE]
    <3>4. row \in AccountRows /\ row.country = my[t].country /\ row.kind = my[t].kind
      BY <1>1, <2>1 DEF AccountRows, Forms
    <3>5. accounts' = [a \in Known \cup {k} |-> IF a = k THEN row ELSE accounts[a]]
      BY <2>3 DEF Connect!NewAccount, Known
    <3>6. j \in Forms /\ j.made = k /\ j.op = Form /\ j.stored = my[t].stored
          /\ j.country = my[t].country /\ j.kind = my[t].kind
      BY <1>1, <3>3 DEF Forms
    <3>7. at'[t] = l /\ my'[t] = j
      BY <1>0, <1>1, <2>3, <3>6, ConnectKeeps
    <3> HIDE DEF k, j, row
    <3>8. /\ Known' = Known \cup {k} /\ accounts'[k] = row
             /\ \A a \in Known : accounts'[a] = accounts[a]
          /\ accounts' \in [Known' -> AccountRows]
      BY <1>1, <3>3, <3>4, <3>5 DEF Known
    <3>9. Known' = 1 .. (n + 1)
      BY <3>1, <3>3, <3>8
    <3>10. Lasting /\ ReportsOK' /\ ProfileOK'
      BY <1>0, <1>1, <2>1, <3>8 DEF Lasting, ReportsOK, ProfileOK
    <3>11. FormOK(t)'
      BY <1>0, <1>1, <2>1, <3>3, <3>4, <3>6, <3>7, <3>8 DEF FormOK, Filling
    <3>12. Connect!Keep(t, l, j)
      BY <2>3 DEF j, k
    <3> QED BY <1>4, <3>6, <3>8, <3>9, <3>10, <3>11, <3>12
  <2> QED BY <1>5, <2>2, <2>3 DEF Connect!CreateAccount
<1>6. ASSUME Connect!UpdateKind(t) PROVE ConnectInv'
  <2>1. at[t] = "n_kind" /\ profile.exists /\ my[t].country # "unset"
    BY <1>0, <1>6 DEF Connect!UpdateKind, FormOK, Filling
  <2>2. CASE UNCHANGED accounts /\ Connect!Go(t, "n_link")
    BY <1>3, <2>1, <2>2 DEF Connect!Go, Filling
  <2> PICK a \in Known : a = my[t].stored /\ a = profile.acct /\ a # 0
    BY <1>0, <2>1 DEF FormOK, ProfileOK
  <2>3. CASE accounts' = [accounts EXCEPT ![a].kind = my[t].kind] /\ Connect!Go(t, "n_mark")
    <3>1. at'[t] = "n_mark" /\ my'[t] = my[t]
      BY <1>0, <1>1, <2>3, ConnectKeeps DEF Connect!Go
    <3> DEFINE row == [accounts[a] EXCEPT !.kind = my[t].kind]
    <3>2. row \in AccountRows /\ row.country = accounts[a].country /\ row.kind = my[t].kind
          /\ row.was = accounts[a].was
      BY <1>1 DEF AccountRows, Forms
    <3>3. accounts' = [accounts EXCEPT ![a] = row]
      BY <1>0, <2>3 DEF ConnectTyped
    <3> HIDE DEF row
    <3>4. /\ Known' = Known /\ accounts'[a] = row /\ \A b \in Known \ {a} : accounts'[b] = accounts[b]
          /\ accounts' \in [Known' -> AccountRows]
      BY <1>0, <3>2, <3>3 DEF Known, ConnectTyped
    <3>5. Lasting
      BY <1>1, <3>2, <3>4 DEF Lasting
    <3>6. ReportsOK'
      BY <1>0, <1>1, <3>2, <3>4 DEF ReportsOK
    <3>7. ProfileOK'
      BY <1>0, <1>1, <3>1, <3>2, <3>4 DEF ProfileOK
    <3>8. FormOK(t)'
      BY <1>0, <1>1, <2>1, <3>1, <3>2, <3>4 DEF FormOK, Filling
    <3>9. \E n \in Nat : Known' = 1 .. n
      BY <1>0, <3>4 DEF ConnectTyped
    <3> QED BY <1>1, <1>4, <2>3, <3>4, <3>5, <3>6, <3>7, <3>8, <3>9 DEF Connect!Go
  <2> QED BY <1>6, <2>2, <2>3 DEF Connect!UpdateKind
<1> QED BY <1>5, <1>6

LEMMA ConnectWorld ==
  ASSUME ConnectInv, Connect!AccountChanges \/ Connect!AccountGone
  PROVE  ConnectInv'
<1>0. ConnectTyped /\ ProfileOK /\ ReportsOK /\ UNCHANGED <<profile, at, my>>
  BY DEF ConnectInv, Connect!AccountChanges, Connect!AccountGone
<1>1. ASSUME NEW a \in Known, NEW row \in AccountRows, accounts' = [accounts EXCEPT ![a] = row],
             row.country = accounts[a].country, row.kind = accounts[a].kind,
             accounts[a].was => row.was,
             \A r \in reports' \ reports : r.acct = a /\ r.ready \in BOOLEAN /\ (r.ready => row.was)
      PROVE  ConnectInv'
  <2>1. /\ Known' = Known /\ accounts'[a] = row /\ \A b \in Known \ {a} : accounts'[b] = accounts[b]
        /\ accounts' \in [Known' -> AccountRows]
    BY <1>0, <1>1 DEF Known, ConnectTyped
  <2>2. ConnectTyped'
    BY <1>0, <2>1 DEF ConnectTyped
  <2>3. ProfileOK' /\ ReportsOK'
    BY <1>0, <1>1, <2>1 DEF ProfileOK, ReportsOK
  <2>4. 0 \notin Known
    BY <1>0 DEF ConnectTyped
  <2>5. \A t \in Tasks : FormOK(t)'
    <3> SUFFICES ASSUME NEW t \in Tasks PROVE FormOK(t)'
      OBVIOUS
    <3>1. FormOK(t)
      BY DEF ConnectInv
    <3> QED BY <1>0, <1>1, <2>1, <2>4, <3>1 DEF FormOK, ProfileOK
  <2>6. \A t, u \in Tasks : my'[t].op = Form /\ my'[u].op = Form => t = u
    BY <1>0 DEF ConnectInv
  <2> QED BY <2>2, <2>3, <2>5, <2>6 DEF ConnectInv
<1>2. \A a \in Known : accounts[a] \in AccountRows
  BY <1>0 DEF ConnectTyped
<1>3. CASE Connect!AccountChanges
  <2>1. PICK a \in Known :
          /\ accounts' = [accounts EXCEPT ![a].ready = ~@, ![a].was = TRUE]
          /\ reports' = reports \cup {[acct |-> a, ready |-> ~accounts[a].ready, nr |-> sent + 1]}
    BY <1>3 DEF Connect!AccountChanges, Known
  <2> DEFINE row == [accounts[a] EXCEPT !.ready = ~@, !.was = TRUE]
  <2>2. /\ row \in AccountRows /\ row.country = accounts[a].country /\ row.kind = accounts[a].kind
        /\ row.was /\ accounts[a].ready \in BOOLEAN
    BY <1>2 DEF AccountRows
  <2>3. accounts' = [accounts EXCEPT ![a] = row]
    BY <1>0, <1>2, <2>1 DEF ConnectTyped, AccountRows
  <2> HIDE DEF row
  <2>4. \A r \in reports' \ reports : r.acct = a /\ r.ready \in BOOLEAN
    <3>1. PICK b \in BOOLEAN : reports' = reports \cup {[acct |-> a, ready |-> b, nr |-> sent + 1]}
      BY <2>1
    <3> QED BY <3>1
  <2> QED BY <1>1, <2>2, <2>3, <2>4
<1>4. CASE Connect!AccountGone
  <2>1. PICK a \in Known : accounts' = [accounts EXCEPT ![a].alive = FALSE]
    BY <1>4 DEF Connect!AccountGone, Known
  <2> DEFINE row == [accounts[a] EXCEPT !.alive = FALSE]
  <2>2. /\ row \in AccountRows /\ row.country = accounts[a].country /\ row.kind = accounts[a].kind
        /\ row.was = accounts[a].was
    BY <1>2 DEF AccountRows
  <2>3. accounts' = [accounts EXCEPT ![a] = row] /\ reports' = reports
    BY <1>0, <1>4, <2>1 DEF ConnectTyped, Connect!AccountGone
  <2> HIDE DEF row
  <2> QED BY <1>1, <2>2, <2>3
<1> QED BY <1>3, <1>4

LEMMA ConnectStays ==
  ASSUME ConnectInv, UNCHANGED <<profile, accounts, reports, at, my>>
  PROVE  ConnectInv'
<1>1. ConnectTyped' /\ ProfileOK' /\ ReportsOK'
  BY DEF ConnectInv, ConnectTyped, ProfileOK, ReportsOK, Known
<1>2. \A t \in Tasks : FormOK(t)'
  BY DEF ConnectInv, FormOK, Known
<1> QED BY <1>1, <1>2 DEF ConnectInv

LEMMA ConnectInit == Connect!Init => ConnectInv
<1> SUFFICES ASSUME Connect!Init PROVE ConnectInv
  OBVIOUS
<1>1. /\ \A t \in Tasks : at[t] = "idle" /\ my[t] = Connect!NoJob
      /\ at \in [Tasks -> {"idle"}] /\ my \in [Tasks -> {Connect!NoJob}]
      /\ reports = {} /\ DOMAIN accounts = {} /\ profile.acct = 0 /\ ~profile.onboarded
      /\ accounts \in [{} -> AccountRows]
      /\ profile \in [exists : BOOLEAN, acct : Nat, onboarded : BOOLEAN,
                      country : {"DE", "PL", "unset"}, kind : {"company", "unset"}]
  BY DEF Connect!Init, Connect!None, Connect!Unset
<1>2. 1 .. 0 = {} /\ 0 \in Nat
  OBVIOUS
<1>3. ConnectTyped
  BY <1>1, <1>2, ConnectJobs DEF ConnectTyped, Known
<1>4. \A t \in Tasks : FormOK(t)
  BY <1>1, ConnectJobs DEF FormOK, Filling
<1> QED BY <1>1, <1>3, <1>4, ConnectJobs DEF ConnectInv, ProfileOK, ReportsOK, Form

LEMMA ConnectStep ==
  ConnectInv /\ (Connect!Next \/ UNCHANGED <<connectState, at, my>>) => ConnectInv'
<1>1. CASE Connect!Next
  BY <1>1, ConnectReads, ConnectProfiles, ConnectStripe, ConnectWorld DEF Connect!Next
<1> QED BY <1>1, ConnectStays DEF connectState

LEMMA ConnectHolds == ConnectInv => Connect!OnboardedIsReal /\ Connect!RecordIsTheAccounts
BY DEF ConnectInv, ProfileOK, Connect!OnboardedIsReal, Connect!RecordIsTheAccounts, Connect!None

-----------------------------------------------------------------------------
(***************************************************************************)
(* Notices.  The dispatch of an offer, its expiry and a change of preferences *)
(* come one at a time (Notices' Alone); what anybody is told, what providers   *)
(* answer and what is read comes in between.                                  *)
(***************************************************************************)
Serial == {"dispatch", "expireStaleOffers", "updatePreferences"}
Letters == [type : {"secret", "quiet", "offer"}, ch : Notices!Channels,
            st : {"queued", "sent", "failed"}, of : Nat, read : {"no", "user", "superseded"}]
Tellings == [op : Notices!HandlerNames \cup {"none"}, type : {"secret", "quiet", "offer"},
             todo : SUBSET Notices!Channels, sets : SUBSET Notices!Channels, on : BOOLEAN,
             seen : [Notices!Channels -> BOOLEAN], of : Nat]
NoticesTyped ==
  /\ prefs \in [Notices!Channels -> BOOLEAN]
  /\ letters \in Seq(Letters) /\ flying \subseteq DOMAIN letters
  /\ open \in Nat /\ calls \in Nat
  /\ at \in [Tasks -> Notices!Labels] /\ my \in [Tasks -> Tellings]

\* A letter about an offer is about one that was made, and calls while that one is open.
LetterOK(i) ==
  LET r == letters[i] IN
  /\ r.type = "secret" => r.ch = "email"
  /\ r.type = "offer" => r.of # 0 /\ r.of <= calls
  /\ r.type = "offer" /\ r.ch = "inapp" =>
       IF r.of = open THEN r.read # "superseded"
       ELSE r.read # "no" \/ \E t \in Tasks : at[t] = "x_mark"

\* Who tells of an offer does so while it is open, who closes one leaves none open, and who
\* writes preferences has read those that are there.
TellingOK(t) ==
  /\ my[t].type = "secret" => my[t].todo \subseteq {"email"}
  /\ my[t].type = "offer" => my[t].op = "dispatch" /\ my[t].of = open /\ open # 0
  /\ my[t].op = "expireStaleOffers" => my[t].type = "quiet" /\ open = 0
  /\ at[t] = "x_mark" => my[t].op = "expireStaleOffers"
  /\ at[t] \in {"w_read", "w_write"} => my[t].op = "updatePreferences"
  /\ at[t] = "w_write" => my[t].seen = prefs
NoticesInv ==
  /\ NoticesTyped /\ prefs = wants
  /\ \A t, u \in Tasks : my[t].op \in Serial /\ my[u].op \in Serial => t = u
  /\ \A t \in Tasks : TellingOK(t)
  /\ \A i \in DOMAIN letters : LetterOK(i)
  /\ open <= calls

LEMMA NoticesKeeps ==
  ASSUME NoticesTyped, NEW t \in Tasks, NEW l \in Notices!Labels, NEW j \in Tellings,
         Notices!Keep(t, l, j)
  PROVE  /\ at' \in [Tasks -> Notices!Labels] /\ my' \in [Tasks -> Tellings]
         /\ at'[t] = l /\ my'[t] = j
         /\ \A u \in Tasks \ {t} : at'[u] = at[u] /\ my'[u] = my[u]
BY DEF Notices!Keep, NoticesTyped

LEMMA NoticesJobs ==
  /\ \A op \in Notices!HandlerNames, type \in {"secret", "quiet", "offer"},
        sets \in SUBSET Notices!Channels, on \in BOOLEAN :
       /\ Notices!Job(op, type, sets, on) \in Tellings
       /\ Notices!Job(op, type, sets, on).op = op /\ Notices!Job(op, type, sets, on).type = type
       /\ Notices!Job(op, type, sets, on).todo = {}
  /\ Notices!NoJob \in Tellings /\ Notices!NoJob.op = "none" /\ Notices!NoJob.type = "quiet"
  /\ Notices!NoJob.todo = {}
  /\ Notices!DefaultPreferences \in [Notices!Channels -> BOOLEAN]
<1>1. Notices!DefaultPreferences \in [Notices!Channels -> BOOLEAN]
  BY DEF Notices!DefaultPreferences
<1>2. ASSUME NEW op \in Notices!HandlerNames \cup {"none"}, NEW type \in {"secret", "quiet", "offer"},
             NEW sets \in SUBSET Notices!Channels, NEW on \in BOOLEAN
      PROVE  Notices!Job(op, type, sets, on) \in Tellings
  BY <1>1, <1>2 DEF Notices!Job, Tellings
<1>3. Notices!NoJob \in Tellings
  BY <1>2 DEF Notices!NoJob, Notices!HandlerNames
<1> QED BY <1>1, <1>2, <1>3 DEF Notices!Job, Notices!NoJob

\* A step that takes one task from one place to another and no offer, letter or preference
\* with it.
LEMMA NoticesTaskMoves ==
  ASSUME NoticesInv, NEW t \in Tasks, NEW l \in Notices!Labels, NEW j \in Tellings,
         Notices!Keep(t, l, j), UNCHANGED <<prefs, wants, letters, flying, open, calls>>,
         TellingOK(t)', at[t] # "x_mark" \/ l = "x_mark",
         j.op \in Serial => \A u \in Tasks \ {t} : my[u].op \notin Serial
  PROVE  NoticesInv'
<1>1. /\ at' \in [Tasks -> Notices!Labels] /\ my' \in [Tasks -> Tellings]
      /\ at'[t] = l /\ my'[t] = j
      /\ \A u \in Tasks \ {t} : at'[u] = at[u] /\ my'[u] = my[u]
  BY NoticesKeeps DEF NoticesInv
<1>2. NoticesTyped'
  BY <1>1 DEF NoticesInv, NoticesTyped
<1>3. \A u \in Tasks : TellingOK(u)'
  BY <1>1 DEF NoticesInv, TellingOK
<1>4. \A i \in DOMAIN letters : LetterOK(i)'
  BY <1>1 DEF NoticesInv, LetterOK
<1>5. \A u, v \in Tasks : my'[u].op \in Serial /\ my'[v].op \in Serial => u = v
  BY <1>1 DEF NoticesInv
<1> QED BY <1>2, <1>3, <1>4, <1>5 DEF NoticesInv

LEMMA NoticesTasks ==
  ASSUME NoticesInv, NEW t \in Tasks,
         \/ Notices!Notify(t) \/ Notices!ReadUser(t) \/ Notices!UpdatePreferences(t)
         \/ Notices!GetPreferences(t)
  PROVE  NoticesInv'
<1>0. NoticesTyped /\ TellingOK(t) /\ my[t] \in Tellings
  BY DEF NoticesInv, NoticesTyped
<1>1. ASSUME Notices!Notify(t) PROVE NoticesInv'
  <2> DEFINE j == Notices!Job("notify", "secret", {}, FALSE)
  <2>1. at[t] = "idle" /\ Notices!Keep(t, "n_user", j) /\ UNCHANGED Notices!notices
    BY <1>1 DEF Notices!Notify, Notices!Begin, Notices!Keep
  <2>2. /\ j \in Tellings /\ j.op = "notify" /\ j.type = "secret" /\ j.todo = {}
        /\ "n_user" \in Notices!Labels
    BY NoticesJobs DEF Notices!HandlerNames, Notices!Labels, Notices!Job, Tellings
  <2> HIDE DEF j
  <2>3. at'[t] = "n_user" /\ my'[t] = j
    BY <1>0, <2>1, <2>2, NoticesKeeps
  <2>4. TellingOK(t)'
    BY <2>2, <2>3 DEF TellingOK
  <2> QED BY <2>1, <2>2, <2>4, NoticesTaskMoves DEF Notices!notices, Serial
<1>2. ASSUME Notices!ReadUser(t) PROVE NoticesInv'
  <2> DEFINE chs == Notices!ResolveChannels(my[t].type, prefs)
             j == [my[t] EXCEPT !.todo = chs]
  <2>1. at[t] = "n_user" /\ Notices!Keep(t, "n_row", j) /\ UNCHANGED Notices!notices
    BY <1>2 DEF Notices!ReadUser
  <2>2. chs \in SUBSET Notices!Channels /\ (my[t].type = "secret" => chs \subseteq {"email"})
    BY <1>0 DEF Notices!ResolveChannels, Notices!Defaults, Notices!Channels, Tellings
  <2>3. /\ j \in Tellings /\ j.todo = chs /\ j.op = my[t].op /\ j.type = my[t].type
        /\ j.of = my[t].of /\ j.seen = my[t].seen
        /\ "n_row" \in Notices!Labels
    BY <1>0, <2>2 DEF Tellings, Notices!Labels
  <2> HIDE DEF j, chs
  <2>4. at'[t] = "n_row" /\ my'[t] = j
    BY <1>0, <2>1, <2>3, NoticesKeeps
  <2>5. TellingOK(t)'
    BY <1>0, <2>1, <2>2, <2>3, <2>4 DEF TellingOK, Notices!notices
  <2>6. my[t].op \in Serial => \A u \in Tasks \ {t} : my[u].op \notin Serial
    BY DEF NoticesInv
  <2> QED BY <2>1, <2>3, <2>5, <2>6, NoticesTaskMoves DEF Notices!notices
<1>3. ASSUME Notices!UpdatePreferences(t) PROVE NoticesInv'
  <2>1. PICK c \in {"email", "push"}, on \in BOOLEAN :
          Notices!Begin(t, "w_read", Notices!Job("updatePreferences", "quiet", {c}, on))
    BY <1>3 DEF Notices!UpdatePreferences
  <2> DEFINE j == Notices!Job("updatePreferences", "quiet", {c}, on)
  <2>2. /\ j \in Tellings /\ j.op = "updatePreferences" /\ j.type = "quiet" /\ j.todo = {}
        /\ "w_read" \in Notices!Labels
    <3>1. {c} \in SUBSET Notices!Channels
      BY DEF Notices!Channels
    <3> QED BY <3>1, NoticesJobs DEF Notices!HandlerNames, Notices!Labels, Notices!Job, Tellings
  <2>3. /\ at[t] = "idle" /\ Notices!Keep(t, "w_read", j) /\ UNCHANGED Notices!notices
        /\ \A u \in Tasks : my[u].op \notin Serial
    BY <1>3, <2>1, <2>2 DEF Notices!UpdatePreferences, Notices!Begin, Notices!Keep, Serial
  <2> HIDE DEF j
  <2>4. at'[t] = "w_read" /\ my'[t] = j
    BY <1>0, <2>2, <2>3, NoticesKeeps
  <2>5. TellingOK(t)'
    BY <2>2, <2>4 DEF TellingOK
  <2> QED BY <2>2, <2>3, <2>5, NoticesTaskMoves DEF Notices!notices
<1>4. ASSUME Notices!GetPreferences(t) PROVE NoticesInv'
  <2> DEFINE j == [my[t] EXCEPT !.seen = prefs]
  <2>1. at[t] = "w_read" /\ Notices!Keep(t, "w_write", j) /\ UNCHANGED Notices!notices
    BY <1>4 DEF Notices!GetPreferences
  <2>2. /\ j \in Tellings /\ j.todo = my[t].todo /\ j.op = my[t].op /\ j.type = my[t].type
        /\ j.of = my[t].of /\ j.seen = prefs
        /\ "w_write" \in Notices!Labels
    BY <1>0 DEF Tellings, Notices!Labels, NoticesTyped
  <2> HIDE DEF j
  <2>3. at'[t] = "w_write" /\ my'[t] = j
    BY <1>0, <2>1, <2>2, NoticesKeeps
  <2>4. TellingOK(t)'
    BY <1>0, <2>1, <2>2, <2>3 DEF TellingOK, Notices!notices
  <2>5. my[t].op \in Serial => \A u \in Tasks \ {t} : my[u].op \notin Serial
    BY DEF NoticesInv
  <2> QED BY <2>1, <2>2, <2>4, <2>5, NoticesTaskMoves DEF Notices!notices
<1> QED BY <1>1, <1>2, <1>3, <1>4
\* Letters that say of what they are what they said, read by now or not, call as they did.
LEMMA NoticesRead ==
  ASSUME NoticesInv, UNCHANGED <<prefs, wants, open, calls, at, my>>,
         letters' \in Seq(Letters), flying' \subseteq DOMAIN letters',
         DOMAIN letters' = DOMAIN letters,
         \A i \in DOMAIN letters :
           /\ letters'[i].type = letters[i].type /\ letters'[i].ch = letters[i].ch
           /\ letters'[i].of = letters[i].of
           /\ letters'[i].read \in {letters[i].read, "user"}
  PROVE  NoticesInv'
<1>1. NoticesTyped'
  BY DEF NoticesInv, NoticesTyped
<1>2. ASSUME NEW i \in DOMAIN letters PROVE LetterOK(i)'
  <2>1. LetterOK(i)
    BY DEF NoticesInv
  <2> QED BY <2>1 DEF LetterOK
<1>3. \A t \in Tasks : TellingOK(t)'
  BY DEF NoticesInv, TellingOK
<1>4. \A t, u \in Tasks : my'[t].op \in Serial /\ my'[u].op \in Serial => t = u
  BY DEF NoticesInv
<1> QED BY <1>1, <1>2, <1>3, <1>4 DEF NoticesInv

LEMMA NoticesReads ==
  ASSUME NoticesInv,
         Notices!ProviderAnswers \/ Notices!MarkRead \/ Notices!MarkAllRead
  PROVE  NoticesInv'
<1>0. letters \in Seq(Letters) /\ flying \subseteq DOMAIN letters
      /\ \A i \in DOMAIN letters : letters[i] \in Letters
  BY DEF NoticesInv, NoticesTyped
<1>1. ASSUME NEW i \in DOMAIN letters, NEW r \in Letters
             PROVE [letters EXCEPT ![i] = r] \in Seq(Letters)
  BY <1>0, <1>1
<1>2. ASSUME Notices!ProviderAnswers PROVE NoticesInv'
  <2>1. PICK i \in flying, st \in {"sent", "failed"} :
          letters' = [letters EXCEPT ![i].st = st] /\ flying' = flying \ {i}
    BY <1>2 DEF Notices!ProviderAnswers
  <2> DEFINE r == [letters[i] EXCEPT !.st = st]
  <2>2. r \in Letters /\ r.type = letters[i].type /\ r.ch = letters[i].ch /\ r.of = letters[i].of
        /\ r.read = letters[i].read
    BY <1>0 DEF Letters
  <2>3. letters' = [letters EXCEPT ![i] = r] /\ flying' \subseteq DOMAIN letters
    BY <1>0, <2>1
  <2> HIDE DEF r
  <2>4. letters' \in Seq(Letters) /\ DOMAIN letters' = DOMAIN letters
    BY <1>0, <1>1, <2>2, <2>3
  <2>5. \A k \in DOMAIN letters : letters'[k] = IF k = i THEN r ELSE letters[k]
    BY <1>0, <2>3
  <2>6. UNCHANGED <<prefs, wants, open, calls, at, my>>
    BY <1>2 DEF Notices!ProviderAnswers
  <2> QED BY <2>2, <2>3, <2>4, <2>5, <2>6, NoticesRead
<1>3. ASSUME NEW i \in DOMAIN letters, NEW how \in {"user", "superseded"}
      PROVE  LET r == IF letters[i].read = "no" THEN how ELSE letters[i].read
             IN /\ [letters[i] EXCEPT !.read = r] \in Letters
                /\ Notices!Read(i, how) = [letters EXCEPT ![i] = [letters[i] EXCEPT !.read = r]]
  <2> DEFINE r == IF letters[i].read = "no" THEN how ELSE letters[i].read
  <2>1. [letters[i] EXCEPT !.read = r] \in Letters
    BY <1>0 DEF Letters
  <2>2. Notices!Read(i, how) = [letters EXCEPT ![i] = [letters[i] EXCEPT !.read = r]]
    BY <1>0 DEF Notices!Read
  <2> QED BY <2>1, <2>2
<1>4. ASSUME Notices!MarkRead PROVE NoticesInv'
  <2>1. PICK i \in DOMAIN letters : letters' = Notices!Read(i, "user")
    BY <1>4 DEF Notices!MarkRead
  <2>2. UNCHANGED <<prefs, wants, flying, open, calls, at, my>>
    BY <1>4 DEF Notices!MarkRead
  <2> DEFINE r == [letters[i] EXCEPT !.read = IF letters[i].read = "no" THEN "user"
             ELSE letters[i].read]
  <2>3. r \in Letters /\ letters' = [letters EXCEPT ![i] = r]
    BY <1>3, <2>1
  <2>4. /\ r.type = letters[i].type /\ r.ch = letters[i].ch /\ r.of = letters[i].of
        /\ r.read \in {letters[i].read, "user"}
    BY <1>0 DEF Letters
  <2> HIDE DEF r
  <2>5. letters' \in Seq(Letters) /\ DOMAIN letters' = DOMAIN letters
    BY <1>0, <1>1, <2>3
  <2>6. \A k \in DOMAIN letters : letters'[k] = IF k = i THEN r ELSE letters[k]
    BY <1>0, <2>3
  <2> QED BY <1>0, <2>2, <2>4, <2>5, <2>6, NoticesRead
<1>5. ASSUME Notices!MarkAllRead PROVE NoticesInv'
  <2> DEFINE r(i) == [letters[i] EXCEPT !.read = IF letters[i].read = "no" THEN "user"
             ELSE letters[i].read]
  <2>1. UNCHANGED <<prefs, wants, flying, open, calls, at, my>>
    BY <1>5 DEF Notices!MarkAllRead
  <2>2. \A i \in DOMAIN letters : Notices!Read(i, "user")[i] = r(i) /\ r(i) \in Letters
    BY <1>0, <1>3
  <2>3. \A i \in DOMAIN letters :
          /\ r(i).type = letters[i].type /\ r(i).ch = letters[i].ch /\ r(i).of = letters[i].of
          /\ r(i).read \in {letters[i].read, "user"}
    BY <1>0 DEF Letters
  <2>4. letters' = [i \in DOMAIN letters |-> IF letters[i].ch = "inapp" THEN r(i) ELSE letters[i]]
    BY <1>5, <2>2 DEF Notices!MarkAllRead
  <2> HIDE DEF r
  <2>5. letters' \in Seq(Letters) /\ DOMAIN letters' = DOMAIN letters
    <3>1. DOMAIN letters = 1 .. Len(letters) /\ Len(letters) \in Nat
      BY <1>0
    <3>2. letters' \in [1 .. Len(letters) -> Letters]
      BY <1>0, <2>2, <2>4, <3>1
    <3> QED BY <3>1, <3>2
  <2>6. \A i \in DOMAIN letters : letters'[i] = IF letters[i].ch = "inapp" THEN r(i) ELSE letters[i]
    BY <2>4
  <2> QED BY <1>0, <2>1, <2>3, <2>5, <2>6, NoticesRead
<1> QED BY <1>2, <1>4, <1>5

LEMMA NoticesEmits ==
  ASSUME NoticesInv, NEW t \in Tasks, Notices!EmitChannel(t)
  PROVE  NoticesInv'
<1>0. NoticesTyped /\ TellingOK(t) /\ my[t] \in Tellings /\ letters \in Seq(Letters)
      /\ at[t] = "n_row" /\ my[t].todo # {} /\ UNCHANGED <<prefs, wants, open, calls>>
  BY DEF NoticesInv, NoticesTyped, Notices!EmitChannel
<1> DEFINE c == IF "inapp" \in my[t].todo THEN "inapp" ELSE CHOOSE d \in my[t].todo : TRUE
           left == my[t].todo \ {c}
           j == [my[t] EXCEPT !.todo = left]
           new == Notices!Notice(my[t].type, c, IF c = "inapp" THEN "sent" ELSE "queued", my[t].of)
<1>1. c \in my[t].todo /\ c \in Notices!Channels /\ left \in SUBSET Notices!Channels
  BY <1>0 DEF Tellings
<1>2. /\ new \in Letters /\ new.type = my[t].type /\ new.ch = c /\ new.of = my[t].of
      /\ new.read = "no"
  BY <1>0, <1>1 DEF Letters, Notices!Notice, Tellings
<1>3. /\ j \in Tellings /\ j.todo = left /\ j.op = my[t].op /\ j.type = my[t].type
      /\ j.of = my[t].of /\ j.seen = my[t].seen
  BY <1>0, <1>1 DEF Tellings
<1>4. \/ Notices!Keep(t, "idle", Notices!NoJob)
      \/ Notices!Keep(t, "n_row", j)
  BY DEF Notices!EmitChannel, Notices!End
<1>5. \/ UNCHANGED <<letters, flying>>
      \/ letters' = Append(letters, new) /\ flying' \subseteq flying \cup {Len(letters) + 1}
  BY DEF Notices!EmitChannel
<1>6. left \subseteq my[t].todo
  OBVIOUS
<1> HIDE DEF c, left, j, new
<1>7. PICK l \in {"idle", "n_row"}, k \in {Notices!NoJob, j} :
        Notices!Keep(t, l, k) /\ (l = "idle" => k = Notices!NoJob) /\ (l = "n_row" => k = j)
  BY <1>4
<1>8. k \in Tellings /\ l \in Notices!Labels
  BY <1>3, NoticesJobs DEF Notices!Labels
<1>9. /\ at' \in [Tasks -> Notices!Labels] /\ my' \in [Tasks -> Tellings]
      /\ at'[t] = l /\ my'[t] = k
      /\ \A u \in Tasks \ {t} : at'[u] = at[u] /\ my'[u] = my[u]
  BY <1>0, <1>7, <1>8, NoticesKeeps
<1>10. TellingOK(t)'
  BY <1>0, <1>3, <1>6, <1>7, <1>9, NoticesJobs DEF TellingOK
<1>11. \A u \in Tasks : TellingOK(u)'
  BY <1>0, <1>9, <1>10 DEF NoticesInv, TellingOK
<1>12. \A u, v \in Tasks : my'[u].op \in Serial /\ my'[v].op \in Serial => u = v
  BY <1>3, <1>7, <1>9, NoticesJobs DEF NoticesInv, Serial
<1>13. ASSUME NEW i \in DOMAIN letters, letters'[i] = letters[i] PROVE LetterOK(i)'
  BY <1>0, <1>9, <1>13 DEF NoticesInv, LetterOK
<1>15. CASE UNCHANGED <<letters, flying>>
  BY <1>0, <1>9, <1>11, <1>12, <1>13, <1>15 DEF NoticesInv, NoticesTyped
<1>16. CASE letters' = Append(letters, new) /\ flying' \subseteq flying \cup {Len(letters) + 1}
  <2>1. /\ letters' \in Seq(Letters) /\ DOMAIN letters' = DOMAIN letters \cup {Len(letters) + 1}
        /\ \A i \in DOMAIN letters' : letters'[i] = IF i \in DOMAIN letters THEN letters[i] ELSE new
    BY <1>0, <1>2, <1>16
  <2>2. ASSUME NEW i \in DOMAIN letters', i \notin DOMAIN letters PROVE LetterOK(i)'
    <3>1. letters'[i] = new
      BY <2>1, <2>2
    <3>2. /\ new.type = "secret" => new.ch = "email"
          /\ new.type = "offer" => new.of # 0 /\ new.of <= calls /\ new.of = open
      BY <1>0, <1>1, <1>2 DEF NoticesInv, TellingOK
    <3> QED BY <1>0, <1>2, <3>1, <3>2 DEF LetterOK
  <2>4. \A i \in DOMAIN letters' : LetterOK(i)'
    BY <1>13, <2>1, <2>2
  <2>3. NoticesTyped'
    BY <1>0, <1>9, <1>16, <2>1 DEF NoticesTyped
  <2> QED BY <1>0, <1>11, <1>12, <2>3, <2>4 DEF NoticesInv
<1> QED BY <1>5, <1>15, <1>16
LEMMA NoticesOffers ==
  ASSUME NoticesInv, NEW t \in Tasks,
         \/ Notices!OfferMade(t) \/ Notices!ExpireOffer(t) \/ Notices!MarkSupersededRead(t)
         \/ Notices!WritePreferences(t)
  PROVE  NoticesInv'
<1>0. NoticesTyped /\ TellingOK(t) /\ my[t] \in Tellings /\ letters \in Seq(Letters)
      /\ (\A i \in DOMAIN letters : letters[i] \in Letters /\ LetterOK(i)) /\ open <= calls
      /\ open \in Nat /\ calls \in Nat
  BY DEF NoticesInv, NoticesTyped
<1>1. ASSUME Notices!OfferMade(t) PROVE NoticesInv'
  <2> DEFINE j == [Notices!Job("dispatch", "offer", {}, FALSE) EXCEPT !.of = calls + 1]
  <2>1. /\ at[t] = "idle" /\ Notices!Keep(t, "n_user", j) /\ open = 0
        /\ open' = calls + 1 /\ calls' = calls + 1 /\ UNCHANGED <<prefs, wants, letters, flying>>
        /\ \A u \in Tasks : my[u].op \notin Serial
    BY <1>1 DEF Notices!OfferMade, Notices!Begin, Notices!Keep, Serial, Notices!Job
  <2>2. /\ j \in Tellings /\ j.op = "dispatch" /\ j.type = "offer" /\ j.todo = {}
        /\ j.of = calls + 1 /\ "n_user" \in Notices!Labels
    <3>1. {} \in SUBSET Notices!Channels /\ "dispatch" \in Notices!HandlerNames /\ FALSE \in BOOLEAN
      BY DEF Notices!HandlerNames
    <3>2. Notices!Job("dispatch", "offer", {}, FALSE) \in Tellings
      BY <3>1, NoticesJobs
    <3>3. ASSUME NEW p \in Tellings, NEW n \in Nat PROVE [p EXCEPT !.of = n] \in Tellings
      BY <3>3 DEF Tellings
    <3>4. j \in Tellings
      <4>1. calls + 1 \in Nat
        BY <1>0
      <4>2. ASSUME NEW p, p \in Tellings PROVE [p EXCEPT !.of = calls + 1] \in Tellings
        BY <3>3, <4>1, <4>2
      <4> QED BY <3>2, <4>2
    <3> QED BY <3>4 DEF Notices!Job, Notices!Labels
  <2> HIDE DEF j
  <2>3. /\ at' \in [Tasks -> Notices!Labels] /\ my' \in [Tasks -> Tellings]
        /\ at'[t] = "n_user" /\ my'[t] = j
        /\ \A u \in Tasks \ {t} : at'[u] = at[u] /\ my'[u] = my[u]
    BY <1>0, <2>1, <2>2, NoticesKeeps
  <2>4. TellingOK(t)'
    BY <1>0, <2>1, <2>2, <2>3 DEF TellingOK
  <2>5. ASSUME NEW u \in Tasks \ {t} PROVE TellingOK(u)'
    <3>1. TellingOK(u) /\ my[u].op \notin Serial
      BY <2>1 DEF NoticesInv
    <3> QED BY <2>1, <2>3, <3>1 DEF TellingOK, Serial
  <2>6. ASSUME NEW i \in DOMAIN letters PROVE LetterOK(i)'
    <3>1. \A u \in Tasks : at[u] # "x_mark"
      BY <2>1 DEF NoticesInv, TellingOK, Serial
    <3>2. letters[i].of \in Nat /\ letters'[i] = letters[i]
      BY <1>0, <2>1 DEF Letters
    <3> QED BY <1>0, <2>1, <3>1, <3>2 DEF LetterOK
  <2>7. NoticesTyped'
    BY <1>0, <2>1, <2>3 DEF NoticesTyped
  <2>8. \A u, v \in Tasks : my'[u].op \in Serial /\ my'[v].op \in Serial => u = v
    BY <2>1, <2>3
  <2> QED BY <1>0, <2>1, <2>4, <2>5, <2>6, <2>7, <2>8 DEF NoticesInv
<1>2. ASSUME Notices!ExpireOffer(t) PROVE NoticesInv'
  <2> DEFINE j == Notices!Job("expireStaleOffers", "quiet", {}, FALSE)
  <2>1. /\ at[t] = "idle" /\ Notices!Keep(t, "x_mark", j)
        /\ open' = 0 /\ UNCHANGED <<prefs, wants, letters, flying, calls>>
        /\ \A u \in Tasks : my[u].op \notin Serial
    BY <1>2 DEF Notices!ExpireOffer, Notices!Begin, Notices!Keep, Serial, Notices!Job
  <2>2. /\ j \in Tellings /\ j.op = "expireStaleOffers" /\ j.type = "quiet" /\ j.todo = {}
        /\ "x_mark" \in Notices!Labels
    BY NoticesJobs DEF Notices!HandlerNames, Notices!Labels, Notices!Job, Tellings
  <2> HIDE DEF j
  <2>3. /\ at' \in [Tasks -> Notices!Labels] /\ my' \in [Tasks -> Tellings]
        /\ at'[t] = "x_mark" /\ my'[t] = j
        /\ \A u \in Tasks \ {t} : at'[u] = at[u] /\ my'[u] = my[u]
    BY <1>0, <2>1, <2>2, NoticesKeeps
  <2>4. TellingOK(t)'
    BY <2>1, <2>2, <2>3 DEF TellingOK
  <2>5. ASSUME NEW u \in Tasks \ {t} PROVE TellingOK(u)'
    <3>1. TellingOK(u) /\ my[u].op \notin Serial
      BY <2>1 DEF NoticesInv
    <3> QED BY <2>1, <2>3, <3>1 DEF TellingOK, Serial
  <2>6. ASSUME NEW i \in DOMAIN letters PROVE LetterOK(i)'
    BY <1>0, <2>1, <2>3 DEF LetterOK
  <2>7. NoticesTyped'
    BY <1>0, <2>1, <2>3 DEF NoticesTyped
  <2>8. \A u, v \in Tasks : my'[u].op \in Serial /\ my'[v].op \in Serial => u = v
    BY <2>1, <2>3
  <2> QED BY <1>0, <2>1, <2>4, <2>5, <2>6, <2>7, <2>8 DEF NoticesInv
<1>3. ASSUME Notices!MarkSupersededRead(t) PROVE NoticesInv'
  <2> DEFINE r(i) == [letters[i] EXCEPT !.read = IF letters[i].read = "no" THEN "superseded"
                                                 ELSE letters[i].read]
             stale(i) == letters[i].type = "offer" /\ letters[i].ch = "inapp"
  <2>1. /\ at[t] = "x_mark" /\ Notices!Keep(t, "n_user", my[t]) /\ "n_user" \in Notices!Labels
        /\ UNCHANGED <<prefs, wants, flying, open, calls>>
    BY <1>3 DEF Notices!MarkSupersededRead, Notices!Labels
  <2>2. open = 0 /\ my[t].op = "expireStaleOffers" /\ my[t].type = "quiet"
    BY <1>0, <2>1 DEF TellingOK
  <2>3. \A i \in DOMAIN letters : Notices!Read(i, "superseded")[i] = r(i)
    BY <1>0 DEF Notices!Read
  <2>4. letters' = [i \in DOMAIN letters |-> IF stale(i) THEN r(i) ELSE letters[i]]
    BY <1>3, <2>3 DEF Notices!MarkSupersededRead
  <2>5. \A i \in DOMAIN letters :
          /\ r(i) \in Letters /\ r(i).type = letters[i].type /\ r(i).ch = letters[i].ch
          /\ r(i).of = letters[i].of /\ r(i).read # "no"
    BY <1>0 DEF Letters
  <2> HIDE DEF r, stale
  <2>6. letters' \in Seq(Letters) /\ DOMAIN letters' = DOMAIN letters
    <3>1. DOMAIN letters = 1 .. Len(letters) /\ Len(letters) \in Nat
      BY <1>0
    <3>2. letters' \in [1 .. Len(letters) -> Letters]
      BY <1>0, <2>4, <2>5, <3>1
    <3> QED BY <3>1, <3>2
  <2>7. /\ at' \in [Tasks -> Notices!Labels] /\ my' \in [Tasks -> Tellings]
        /\ at'[t] = "n_user" /\ my'[t] = my[t]
        /\ \A u \in Tasks \ {t} : at'[u] = at[u] /\ my'[u] = my[u]
    BY <1>0, <2>1, NoticesKeeps
  <2>8. \A u \in Tasks : TellingOK(u)'
    BY <2>1, <2>7 DEF NoticesInv, TellingOK
  <2>9. ASSUME NEW i \in DOMAIN letters PROVE LetterOK(i)'
    <3>1. letters'[i] = IF stale(i) THEN r(i) ELSE letters[i]
      BY <2>4
    <3> QED BY <1>0, <2>1, <2>2, <2>5, <3>1 DEF LetterOK, stale
  <2>10. NoticesTyped'
    BY <1>0, <2>1, <2>6, <2>7 DEF NoticesTyped
  <2>11. \A u, v \in Tasks : my'[u].op \in Serial /\ my'[v].op \in Serial => u = v
    BY <2>7 DEF NoticesInv
  <2>12. prefs = wants
    BY DEF NoticesInv
  <2> QED BY <1>0, <2>1, <2>6, <2>8, <2>9, <2>10, <2>11, <2>12 DEF NoticesInv
<1>4. ASSUME Notices!WritePreferences(t) PROVE NoticesInv'
  <2>1. /\ at[t] = "w_write" /\ Notices!Keep(t, "idle", Notices!NoJob) /\ "idle" \in Notices!Labels
        /\ prefs' = Notices!Chosen(t, my[t].seen) /\ wants' = Notices!Chosen(t, wants)
        /\ UNCHANGED <<letters, flying, open, calls>>
    BY <1>4 DEF Notices!WritePreferences, Notices!End, Notices!Labels
  <2>2. my[t].op = "updatePreferences" /\ my[t].seen = wants
    BY <1>0, <2>1 DEF NoticesInv, TellingOK
  <2>3. prefs' = wants' /\ prefs' \in [Notices!Channels -> BOOLEAN]
    BY <1>0, <2>1, <2>2 DEF Notices!Chosen, Tellings
  <2>4. /\ at' \in [Tasks -> Notices!Labels] /\ my' \in [Tasks -> Tellings]
        /\ at'[t] = "idle" /\ my'[t] = Notices!NoJob
        /\ \A u \in Tasks \ {t} : at'[u] = at[u] /\ my'[u] = my[u]
    BY <1>0, <2>1, NoticesJobs, NoticesKeeps
  <2>5. TellingOK(t)'
    BY <2>4, NoticesJobs DEF TellingOK
  <2>6. ASSUME NEW u \in Tasks \ {t} PROVE TellingOK(u)'
    <3>1. TellingOK(u) /\ my[u].op # "updatePreferences"
      BY <2>2 DEF NoticesInv, Serial
    <3> QED BY <2>1, <2>4, <3>1 DEF TellingOK
  <2>7. ASSUME NEW i \in DOMAIN letters PROVE LetterOK(i)'
    BY <1>0, <2>1, <2>4 DEF LetterOK
  <2>8. NoticesTyped'
    BY <1>0, <2>1, <2>3, <2>4 DEF NoticesTyped
  <2>9. \A u, v \in Tasks : my'[u].op \in Serial /\ my'[v].op \in Serial => u = v
    BY <2>4, NoticesJobs DEF NoticesInv, Serial
  <2> QED BY <1>0, <2>1, <2>3, <2>5, <2>6, <2>7, <2>8, <2>9 DEF NoticesInv
<1> QED BY <1>1, <1>2, <1>3, <1>4

LEMMA NoticesErase == NoticesInv /\ Notices!EraseNotices => NoticesInv'
<1> SUFFICES ASSUME NoticesInv, Notices!EraseNotices PROVE NoticesInv'
  OBVIOUS
<1>1. /\ prefs' = Notices!DefaultPreferences /\ wants' = prefs' /\ letters' = <<>> /\ flying' = {}
      /\ UNCHANGED <<open, calls, at, my>>
      /\ \A t \in Tasks : my[t].op # "updatePreferences"
  BY DEF Notices!EraseNotices
<1>2. NoticesTyped'
  BY <1>1, NoticesJobs DEF NoticesInv, NoticesTyped
<1>3. \A t \in Tasks : TellingOK(t)'
  BY <1>1 DEF NoticesInv, TellingOK
<1>4. \A t, u \in Tasks : my'[t].op \in Serial /\ my'[u].op \in Serial => t = u
  BY <1>1 DEF NoticesInv
<1>5. DOMAIN letters' = {}
  BY <1>1
<1> QED BY <1>1, <1>2, <1>3, <1>4, <1>5 DEF NoticesInv

LEMMA NoticesInit == Notices!Init => NoticesInv
<1> SUFFICES ASSUME Notices!Init PROVE NoticesInv
  OBVIOUS
<1>1. NoticesTyped
  BY NoticesJobs DEF Notices!Init, NoticesTyped, Notices!Labels
<1>2. \A t \in Tasks : at[t] = "idle" /\ my[t] = Notices!NoJob
  BY DEF Notices!Init
<1>3. \A t \in Tasks : TellingOK(t) /\ my[t].op \notin Serial
  BY <1>2, NoticesJobs DEF TellingOK, Serial
<1>4. DOMAIN letters = {} /\ open = 0 /\ calls = 0 /\ prefs = wants
  BY DEF Notices!Init
<1> QED BY <1>1, <1>3, <1>4 DEF NoticesInv

LEMMA NoticesStep ==
  NoticesInv /\ (Notices!Next \/ UNCHANGED <<noticesState, at, my>>) => NoticesInv'
<1>1. CASE UNCHANGED <<noticesState, at, my>>
  <2>1. UNCHANGED <<at, my, prefs, wants, letters, flying, open, calls>>
    BY <1>1 DEF noticesState
  <2> QED BY <2>1 DEF NoticesInv, NoticesTyped, TellingOK, LetterOK
<1>2. CASE Notices!Next
  BY <1>2, NoticesTasks, NoticesReads, NoticesEmits, NoticesOffers, NoticesErase DEF Notices!Next
<1> QED BY <1>1, <1>2

LEMMA NoticesKeep == NoticesInv => Notices!NoticesHold
BY DEF NoticesInv, LetterOK, Notices!NoticesHold, Notices!PreferencesKept,
   Notices!OffersCallWhileOpen, Notices!CredentialsStayOut

-----------------------------------------------------------------------------
(***************************************************************************)
(* Access.  Stripe tells of what was paid and of what went back; each event is *)
(* handled when it is its turn, and again when its handler died.               *)
(***************************************************************************)
InOrder == NoPayment \notin Payments /\ {"overlap", "again"} \cap Faults = {}

Ours == Payments \cup {NoPayment}
Checkouts == [op : Purchases!HandlerNames \cup {"none"}, p : Ours]
BuysTyped ==
  /\ payment \in [Payments -> [st : {"none", "pending", "succeeded", "refunded"}, pi : BOOLEAN]]
  /\ purchase \in [by : Ours, live : BOOLEAN]
  /\ money \in [Payments -> {"none", "open", "paid", "back"}]
  /\ events \subseteq Purchases!Events /\ double \in BOOLEAN
  /\ at \in [Tasks -> Purchases!Labels] /\ my \in [Tasks -> Checkouts]

\* Events that Stripe has yet to be answered about.
Completed(p) == [of |-> "completed", p |-> p] \in events
Returned(p) == [of |-> "refunded", p |-> p] \in events

\* The row of a payment says what became of its money, when the event of it was handled.
BuyOK(p) ==
  /\ money[p] \in {"none", "open"} =>
       ~Completed(p) /\ ~Returned(p) /\ payment[p].st \notin {"succeeded", "refunded"}
  /\ Returned(p) => money[p] = "back"
  /\ money[p] = "back" /\ Completed(p) => Returned(p)
  /\ money[p] \in {"paid", "back"} /\ ~Completed(p) => payment[p].pi
  /\ money[p] = "paid" /\ ~Completed(p) => payment[p].st = "succeeded"
  /\ money[p] = "back" /\ ~Completed(p) =>
       payment[p].st = "refunded" \/ (Returned(p) /\ payment[p].st = "succeeded")

\* A handler has its event until it ends, and has done what comes before where it is.
Taking == {"c_pi", "c_pay", "c_row", "c_revive"}
Giving == {"r_mark", "r_revoke"}
ServeOK(t) ==
  /\ my[t].p \in Payments <=> at[t] \in Taking \cup Giving
  /\ at[t] \in Taking => Completed(my[t].p)
  /\ at[t] \in Giving => Returned(my[t].p) /\ ~Completed(my[t].p)
  /\ at[t] \in {"c_pay", "c_row", "c_revive"} => payment[my[t].p].pi
  /\ at[t] \in {"c_row", "c_revive"} => payment[my[t].p].st = "succeeded"
  /\ at[t] = "r_revoke" => payment[my[t].p].st = "refunded"

\* Access stands on money that is there, or that Stripe has yet to tell of; and as long as
\* payments came one after another, whose money is there and was told of has it.
Busy(p) == money[p] = "paid" \/ Completed(p) \/ Returned(p)
RowOK == purchase.live => purchase.by \in Payments
                          /\ (money[purchase.by] = "paid" \/ Returned(purchase.by))
ServedOK ==
  ~double => /\ \A p, q \in Payments : Busy(p) /\ Busy(q) => p = q
             /\ \A p \in Payments : money[p] = "paid" /\ ~Completed(p)
                                      => purchase.live /\ purchase.by = p
BuysInv ==
  /\ BuysTyped /\ RowOK /\ ServedOK
  /\ \A p \in Payments : BuyOK(p)
  /\ \A t \in Tasks : ServeOK(t)
  /\ \A t, u \in Tasks : my[t].p \in Payments /\ my[t].p = my[u].p => t = u

LEMMA BuysMoves ==
  ASSUME BuysTyped, NEW t \in Tasks, NEW l \in Purchases!Labels, NEW j \in Checkouts,
         at' = [at EXCEPT ![t] = l], my' = [my EXCEPT ![t] = j]
  PROVE  /\ at' \in [Tasks -> Purchases!Labels] /\ my' \in [Tasks -> Checkouts]
         /\ at'[t] = l /\ my'[t] = j
         /\ \A u \in Tasks \ {t} : at'[u] = at[u] /\ my'[u] = my[u]
BY DEF BuysTyped

\* What the handler of one payment does is no business of the others'.
LEMMA BuysOthers ==
  ASSUME BuysInv, NEW t \in Tasks, NEW p \in Payments,
         my'[t].p = p \/ my'[t].p \notin Payments,
         \A u \in Tasks \ {t} : my[u].p # p /\ at'[u] = at[u] /\ my'[u] = my[u],
         \A q \in Payments \ {p} : /\ payment'[q] = payment[q] /\ money'[q] = money[q]
                                   /\ (Completed(q)' <=> Completed(q))
                                   /\ (Returned(q)' <=> Returned(q)),
         BuysTyped', BuyOK(p)', ServeOK(t)', RowOK', ServedOK'
  PROVE  BuysInv'
<1>1. ASSUME NEW q \in Payments \ {p} PROVE BuyOK(q)'
  <2>1. BuyOK(q)
    BY DEF BuysInv
  <2> HIDE DEF Completed, Returned
  <2> QED BY <2>1 DEF BuyOK
<1>2. ASSUME NEW u \in Tasks \ {t} PROVE ServeOK(u)'
  <2>1. ServeOK(u) /\ at'[u] = at[u] /\ my'[u] = my[u] /\ my[u].p # p
    BY DEF BuysInv
  <2>2. CASE my[u].p \in Payments
    <3>1. PICK q \in Payments \ {p} : q = my[u].p
      BY <2>1, <2>2
    <3> QED BY <2>1, <3>1 DEF ServeOK
  <2>3. CASE my[u].p \notin Payments
    BY <2>1, <2>3 DEF ServeOK, Taking, Giving
  <2> QED BY <2>2, <2>3
<1>3. \A u, v \in Tasks : my'[u].p \in Payments /\ my'[u].p = my'[v].p => u = v
  BY DEF BuysInv
<1>4. \A q \in Payments : BuyOK(q)'
  BY <1>1
<1>5. \A u \in Tasks : ServeOK(u)'
  BY <1>2
<1> QED BY <1>3, <1>4, <1>5 DEF BuysInv

\* Neither is what no event has to do with.
LEMMA BuysStart ==
  ASSUME BuysInv, NoPayment \notin Payments, NEW t \in Tasks,
         \/ Purchases!CreatePpvCheckout(t) \/ Purchases!OpenSession(t) \/ Purchases!Die(t)
  PROVE  BuysInv'
<1>0. BuysTyped /\ ServeOK(t) /\ Purchases!NoJob \in Checkouts /\ Purchases!NoJob.p = NoPayment
      /\ "idle" \in Purchases!Labels
  BY DEF BuysInv, Purchases!NoJob, Checkouts, Ours, Purchases!Labels
<1>1. ASSUME NEW l \in {"idle", "open"}, NEW j \in Checkouts, j.p = NoPayment,
             at' = [at EXCEPT ![t] = l], my' = [my EXCEPT ![t] = j],
             UNCHANGED <<purchase, events, double>>,
               money' \in [Payments -> {"none", "open", "paid", "back"}],
             payment' \in [Payments -> [st : {"none", "pending", "succeeded", "refunded"},
               pi : BOOLEAN]],
             \A p \in Payments :
               \/ money'[p] = money[p] /\ payment'[p] = payment[p]
               \/ money[p] = "none" /\ money'[p] = "open" /\ payment'[p].st = "pending"
      PROVE  BuysInv'
  <2>1. /\ at' \in [Tasks -> Purchases!Labels] /\ my' \in [Tasks -> Checkouts]
        /\ at'[t] = l /\ my'[t] = j
        /\ \A u \in Tasks \ {t} : at'[u] = at[u] /\ my'[u] = my[u]
    BY <1>0, <1>1, BuysMoves DEF Purchases!Labels
  <2>2. BuysTyped'
    BY <1>0, <1>1, <2>1 DEF BuysTyped
  <2>3. ASSUME NEW p \in Payments PROVE BuyOK(p) /\ BuyOK(p)'
    <3>1. BuyOK(p)
      BY DEF BuysInv
    <3>2. (Completed(p)' <=> Completed(p)) /\ (Returned(p)' <=> Returned(p))
      BY <1>1 DEF Completed, Returned
    <3> QED BY <1>1, <3>1, <3>2 DEF BuyOK
  <2>4. \A p \in Payments : (Busy(p)' <=> Busy(p)) /\ (money'[p] = "paid" <=> money[p] = "paid")
    BY <1>1 DEF Busy, Completed, Returned
  <2>5. RowOK' /\ ServedOK'
    BY <1>1, <2>4 DEF BuysInv, RowOK, ServedOK, Completed, Returned
  <2>6. ASSUME NEW u \in Tasks \ {t} PROVE ServeOK(u)'
    <3>1. ServeOK(u) /\ at'[u] = at[u] /\ my'[u] = my[u]
      BY <2>1 DEF BuysInv
    <3>2. CASE my[u].p \in Payments
      <4>1. PICK q \in Payments : q = my[u].p
        BY <3>2
      <4>2. money[q] # "none"
        BY <2>3, <3>1, <3>2, <4>1 DEF ServeOK, BuyOK, Taking, Giving
      <4>3. payment'[q] = payment[q]
        BY <1>1, <4>2
      <4> QED BY <1>1, <3>1, <4>1, <4>3 DEF ServeOK, Completed, Returned
    <3>3. CASE my[u].p \notin Payments
      BY <3>1, <3>3 DEF ServeOK, Taking, Giving
    <3> QED BY <3>2, <3>3
  <2>7. ServeOK(t)'
    BY <1>1, <2>1 DEF ServeOK, Taking, Giving
  <2>8. \A u, v \in Tasks : my'[u].p \in Payments /\ my'[u].p = my'[v].p => u = v
    BY <1>1, <2>1 DEF BuysInv
  <2> QED BY <2>2, <2>3, <2>5, <2>6, <2>7, <2>8 DEF BuysInv
<1>2. ASSUME UNCHANGED <<payment, money>>
      PROVE  \A p \in Payments : money'[p] = money[p] /\ payment'[p] = payment[p]
  BY <1>2
<1>3. CASE Purchases!CreatePpvCheckout(t)
  <2>1. at' = [at EXCEPT ![t] = "open"]
        /\ my' = [my EXCEPT ![t] = [op |-> "createPpvCheckout", p |-> NoPayment]]
        /\ UNCHANGED <<payment, purchase, money, events, double>>
    BY <1>3 DEF Purchases!CreatePpvCheckout, Purchases!Begin, Purchases!rows, Purchases!stripe
  <2>2. [op |-> "createPpvCheckout", p |-> NoPayment] \in Checkouts
    BY DEF Checkouts, Ours, Purchases!HandlerNames
  <2> QED BY <1>0, <1>1, <1>2, <2>1, <2>2 DEF BuysTyped
<1>4. CASE Purchases!OpenSession(t)
  <2>1. /\ at' = [at EXCEPT ![t] = "idle"] /\ my' = [my EXCEPT ![t] = Purchases!NoJob]
        /\ UNCHANGED <<purchase, events, double>>
    BY <1>4 DEF Purchases!OpenSession, Purchases!Stop
  <2>2. PICK q \in Payments : /\ money[q] = "none" /\ money' = [money EXCEPT ![q] = "open"]
                              /\ payment' = [payment EXCEPT ![q].st = "pending"]
    BY <1>4 DEF Purchases!OpenSession
  <2>3. [payment[q] EXCEPT !.st = "pending"] \in [st : {"none", "pending", "succeeded", "refunded"},
        pi : BOOLEAN]
    BY <1>0 DEF BuysTyped
  <2>4. payment' \in [Payments -> [st : {"none", "pending", "succeeded", "refunded"}, pi : BOOLEAN]]
        /\ money' \in [Payments -> {"none", "open", "paid", "back"}]
    BY <1>0, <2>2, <2>3 DEF BuysTyped
  <2>5. \A p \in Payments :
          \/ money'[p] = money[p] /\ payment'[p] = payment[p]
          \/ money[p] = "none" /\ money'[p] = "open" /\ payment'[p].st = "pending"
    BY <1>0, <2>2 DEF BuysTyped
  <2> QED BY <1>0, <1>1, <2>1, <2>4, <2>5
<1>5. CASE Purchases!Die(t)
  <2>1. /\ at' = [at EXCEPT ![t] = "idle"] /\ my' = [my EXCEPT ![t] = Purchases!NoJob]
        /\ UNCHANGED <<payment, purchase, money, events, double>>
    BY <1>5 DEF Purchases!Die, Purchases!Stop, Purchases!rows, Purchases!stripe
  <2> QED BY <1>0, <1>1, <1>2, <2>1 DEF BuysTyped
<1> QED BY <1>3, <1>4, <1>5
\* A handler begins: an event whose payment has no other.
LEMMA BuysBegin ==
  ASSUME BuysInv, InOrder, NEW t \in Tasks, NEW p \in Payments,
         Purchases!CheckoutCompleted(t, p) \/ Purchases!ChargeRefunded(t, p)
  PROVE  BuysInv'
<1>0. BuysTyped /\ BuyOK(p) /\ ServeOK(t)
  BY DEF BuysInv
<1>1. ASSUME NEW l \in {"c_pi", "r_mark"}, NEW op \in {"checkoutCompleted", "chargeRefunded"},
             Purchases!Begin(t, l, op, p), UNCHANGED <<payment, purchase, money, events, double>>,
             \A u \in Tasks : my[u].p # p,
             IF l = "c_pi" THEN Completed(p) ELSE Returned(p) /\ ~Completed(p)
      PROVE  BuysInv'
  <2> DEFINE j == [op |-> op, p |-> p]
  <2>1. j \in Checkouts /\ j.p = p /\ l \in Purchases!Labels
    BY DEF Checkouts, Ours, Purchases!HandlerNames, Purchases!Labels
  <2>2. /\ at' \in [Tasks -> Purchases!Labels] /\ my' \in [Tasks -> Checkouts]
        /\ at'[t] = l /\ my'[t] = j
        /\ \A u \in Tasks \ {t} : at'[u] = at[u] /\ my'[u] = my[u]
    BY <1>0, <1>1, <2>1, BuysMoves DEF Purchases!Begin
  <2> HIDE DEF j
  <2>3. /\ \A q \in Payments : (Completed(q)' <=> Completed(q)) /\ (Returned(q)' <=> Returned(q))
        /\ \A q \in Payments : payment'[q] = payment[q] /\ money'[q] = money[q]
    BY <1>1 DEF Completed, Returned
  <2>4. BuysTyped'
    BY <1>0, <1>1, <2>2 DEF BuysTyped
  <2>5. BuyOK(p)'
    BY <1>0, <2>3 DEF BuyOK
  <2>6. ServeOK(t)'
    BY <1>1, <2>1, <2>2, <2>3 DEF ServeOK, Taking, Giving
  <2>7. RowOK'
    BY <1>1, <2>3 DEF BuysInv, RowOK
  <2>8. ServedOK'
    BY <1>1, <2>3 DEF BuysInv, ServedOK, Busy
  <2> QED BY <1>1, <2>1, <2>2, <2>3, <2>4, <2>5, <2>6, <2>7, <2>8, BuysOthers
<1>2. CASE Purchases!CheckoutCompleted(t, p)
  <2>1. Completed(p) /\ \A u \in Tasks : my[u].p # p
    BY <1>2 DEF Purchases!CheckoutCompleted, Purchases!Deliverable, Purchases!InTurn, InOrder,
       Completed
  <2> QED BY <1>1, <1>2, <2>1 DEF Purchases!CheckoutCompleted, Purchases!rows, Purchases!stripe
<1>3. CASE Purchases!ChargeRefunded(t, p)
  <2>1. Returned(p) /\ ~Completed(p) /\ \A u \in Tasks : my[u].p # p
    BY <1>3 DEF Purchases!ChargeRefunded, Purchases!Deliverable, Purchases!InTurn, InOrder,
       Completed, Returned
  <2>2. payment[p].pi
    BY <1>0, <2>1 DEF BuyOK
  <2> QED BY <1>1, <1>3, <2>1, <2>2 DEF Purchases!ChargeRefunded, Purchases!rows
<1> QED BY <1>2, <1>3

\* The row of the payment is written.
LEMMA BuysRecord ==
  ASSUME BuysInv, NEW t \in Tasks,
         \/ Purchases!RecordPaymentIntent(t) \/ Purchases!MarkSucceeded(t)
         \/ Purchases!MarkRefunded(t)
  PROVE  BuysInv'
<1>0. BuysTyped /\ ServeOK(t) /\ my[t] \in Checkouts /\ at[t] \in {"c_pi", "c_pay", "r_mark"}
      /\ UNCHANGED <<purchase, money, events, double, my>>
  BY DEF BuysInv, BuysTyped, Purchases!RecordPaymentIntent, Purchases!MarkSucceeded,
     Purchases!MarkRefunded, Purchases!Go, Purchases!stripe
<1>1. PICK p \in Payments : p = my[t].p
  BY <1>0 DEF ServeOK, Taking, Giving
<1>2. BuyOK(p) /\ \A u \in Tasks \ {t} : my[u].p # p
  BY <1>1 DEF BuysInv
<1>3. PICK l \in {"c_pay", "c_row", "r_revoke"} : at' = [at EXCEPT ![t] = l]
  BY DEF Purchases!RecordPaymentIntent, Purchases!MarkSucceeded, Purchases!MarkRefunded,
     Purchases!Go
<1>4. /\ at' \in [Tasks -> Purchases!Labels] /\ my' \in [Tasks -> Checkouts]
      /\ at'[t] = l /\ my'[t] = my[t]
      /\ \A u \in Tasks \ {t} : at'[u] = at[u] /\ my'[u] = my[u]
  <2>1. my' = [my EXCEPT ![t] = my[t]] /\ l \in Purchases!Labels
    BY <1>0 DEF BuysTyped, Purchases!Labels
  <2> QED BY <1>0, <1>3, <2>1, BuysMoves
<1>5. /\ \A q \in Payments : (Completed(q)' <=> Completed(q)) /\ (Returned(q)' <=> Returned(q))
      /\ \A q \in Payments : money'[q] = money[q]
  BY <1>0 DEF Completed, Returned
<1>6. RowOK' /\ ServedOK'
  <2>1. \A q \in Payments : Busy(q)' <=> Busy(q)
    BY <1>5 DEF Busy
  <2> QED BY <1>0, <1>5, <2>1 DEF BuysInv, RowOK, ServedOK
<1>7. ASSUME NEW r \in [st : {"none", "pending", "succeeded", "refunded"}, pi : BOOLEAN],
             payment' = [payment EXCEPT ![p] = r],
             \/ at[t] = "c_pi" /\ l = "c_pay" /\ r.pi /\ r.st = payment[p].st
             \/ at[t] = "c_pay" /\ l = "c_row" /\ r.pi = payment[p].pi /\ r.st = "succeeded"
             \/ at[t] = "r_mark" /\ l = "r_revoke" /\ r.pi = payment[p].pi /\ r.st = "refunded"
      PROVE  BuysInv'
  <2>1. payment'[p] = r /\ \A q \in Payments \ {p} : payment'[q] = payment[q]
    BY <1>0, <1>7 DEF BuysTyped
  <2>2. BuysTyped'
    BY <1>0, <1>4, <1>7 DEF BuysTyped
  <2>3. BuyOK(p)'
    BY <1>0, <1>1, <1>2, <1>5, <1>7, <2>1 DEF BuyOK, ServeOK, Taking, Giving
  <2>4. ServeOK(t)'
    BY <1>0, <1>1, <1>4, <1>5, <1>7, <2>1 DEF ServeOK, Taking, Giving
  <2> QED BY <1>1, <1>2, <1>4, <1>5, <1>6, <2>1, <2>2, <2>3, <2>4, BuysOthers
<1>8. payment[p] \in [st : {"none", "pending", "succeeded", "refunded"}, pi : BOOLEAN]
  BY <1>0 DEF BuysTyped
<1>9. CASE Purchases!RecordPaymentIntent(t)
  <2> DEFINE r == [payment[p] EXCEPT !.pi = TRUE]
  <2>1. r \in [st : {"none", "pending", "succeeded", "refunded"}, pi : BOOLEAN] /\ r.pi
        /\ r.st = payment[p].st
    BY <1>8
  <2>2. payment' = [payment EXCEPT ![p] = r] /\ at[t] = "c_pi" /\ at'[t] = "c_pay"
    BY <1>0, <1>1, <1>9 DEF Purchases!RecordPaymentIntent, Purchases!Go, BuysTyped
  <2> QED BY <1>4, <1>7, <2>1, <2>2
<1>10. CASE Purchases!MarkSucceeded(t)
  <2> DEFINE r == [payment[p] EXCEPT !.st = "succeeded"]
  <2>1. r \in [st : {"none", "pending", "succeeded", "refunded"}, pi : BOOLEAN]
        /\ r.pi = payment[p].pi /\ r.st = "succeeded"
    BY <1>8
  <2>2. payment' = [payment EXCEPT ![p] = r] /\ at[t] = "c_pay" /\ at'[t] = "c_row"
    BY <1>0, <1>1, <1>10 DEF Purchases!MarkSucceeded, Purchases!Go, BuysTyped
  <2> QED BY <1>4, <1>7, <2>1, <2>2
<1>11. CASE Purchases!MarkRefunded(t)
  <2> DEFINE r == [payment[p] EXCEPT !.st = "refunded"]
  <2>1. r \in [st : {"none", "pending", "succeeded", "refunded"}, pi : BOOLEAN]
        /\ r.pi = payment[p].pi /\ r.st = "refunded"
    BY <1>8
  <2>2. payment' = [payment EXCEPT ![p] = r] /\ at[t] = "r_mark" /\ at'[t] = "r_revoke"
    BY <1>0, <1>1, <1>11 DEF Purchases!MarkRefunded, Purchases!Go, BuysTyped
  <2> QED BY <1>4, <1>7, <2>1, <2>2
<1> QED BY <1>9, <1>10, <1>11
\* The event is answered: what it was about is done.
LEMMA BuysFinish ==
  ASSUME BuysInv, NoPayment \notin Payments, NEW t \in Tasks, NEW p \in Payments, p = my[t].p,
         NEW of \in {"completed", "refunded"},
         Purchases!Finish(t, of), UNCHANGED <<payment, money, double>>,
         of = "completed" => at[t] \in {"c_row", "c_revive"},
         of = "refunded" => at[t] = "r_revoke",
         purchase' \in [by : Ours, live : BOOLEAN], RowOK', ServedOK'
  PROVE  BuysInv'
<1>0. BuysTyped /\ ServeOK(t) /\ BuyOK(p) /\ \A u \in Tasks \ {t} : my[u].p # p
  BY DEF BuysInv
<1>1. /\ Purchases!NoJob \in Checkouts /\ Purchases!NoJob.p = NoPayment
      /\ "idle" \in Purchases!Labels
  BY DEF Purchases!NoJob, Checkouts, Ours, Purchases!Labels
<1>2. /\ at' \in [Tasks -> Purchases!Labels] /\ my' \in [Tasks -> Checkouts]
      /\ at'[t] = "idle" /\ my'[t] = Purchases!NoJob
      /\ \A u \in Tasks \ {t} : at'[u] = at[u] /\ my'[u] = my[u]
  BY <1>0, <1>1, BuysMoves DEF Purchases!Finish, Purchases!Stop
<1>3. /\ \A q \in Payments : payment'[q] = payment[q] /\ money'[q] = money[q]
      /\ \A q \in Payments \ {p} : /\ (Completed(q)' <=> Completed(q))
                                   /\ (Returned(q)' <=> Returned(q))
      /\ Completed(p)' <=> (Completed(p) /\ of # "completed")
      /\ Returned(p)' <=> (Returned(p) /\ of # "refunded")
  BY DEF Purchases!Finish, Completed, Returned
<1>4. BuysTyped'
  BY <1>0, <1>2 DEF BuysTyped, Purchases!Finish
<1>5. BuyOK(p)'
  BY <1>0, <1>3 DEF BuyOK, ServeOK, Taking, Giving
<1>6. ServeOK(t)'
  BY <1>1, <1>2 DEF ServeOK, Taking, Giving
<1> QED BY <1>0, <1>1, <1>2, <1>3, <1>4, <1>5, <1>6, BuysOthers

\* What a payment buys, and what goes with it.
LEMMA BuysAccess ==
  ASSUME BuysInv, NoPayment \notin Payments, NEW t \in Tasks,
         \/ Purchases!CreatePurchase(t) \/ Purchases!Revive(t) \/ Purchases!RevokeEntitlements(t)
  PROVE  BuysInv'
<1>0. BuysTyped /\ ServeOK(t) /\ RowOK /\ at[t] \in {"c_row", "c_revive", "r_revoke"}
      /\ UNCHANGED <<payment, money, double>> /\ purchase \in [by : Ours, live : BOOLEAN]
  BY DEF BuysInv, BuysTyped, Purchases!CreatePurchase, Purchases!Revive,
     Purchases!RevokeEntitlements
<1>1. PICK p \in Payments : p = my[t].p
  BY <1>0 DEF ServeOK, Taking, Giving
<1>2. BuyOK(p) /\ \A u \in Tasks \ {t} : my[u].p # p
  BY <1>1 DEF BuysInv
<1>3. ASSUME NEW of \in {"completed", "refunded"}, Purchases!Finish(t, of)
      PROVE  /\ \A q \in Payments \ {p} : /\ (Completed(q)' <=> Completed(q))
                                          /\ (Returned(q)' <=> Returned(q))
             /\ Completed(p)' <=> (Completed(p) /\ of # "completed")
             /\ Returned(p)' <=> (Returned(p) /\ of # "refunded")
             /\ \A q \in Payments : money'[q] = money[q]
             /\ \A q \in Payments : Busy(q)' => Busy(q)
  BY <1>0, <1>1, <1>3 DEF Purchases!Finish, Completed, Returned, Busy
<1>4. ASSUME Purchases!Finish(t, "completed"), at[t] \in {"c_row", "c_revive"},
             purchase' \in [by : Ours, live : BOOLEAN],
             \/ ~purchase.live /\ purchase'.live /\ purchase'.by = p
             \/ purchase.live /\ purchase' = purchase
      PROVE  BuysInv'
  <2>1. Completed(p) /\ money[p] \in {"paid", "back"} /\ (money[p] = "back" => Returned(p))
    BY <1>0, <1>1, <1>2, <1>4 DEF ServeOK, BuyOK, Taking, BuysTyped
  <2>2. RowOK'
    BY <1>0, <1>3, <1>4, <2>1 DEF RowOK
  <2>3. ASSUME ~double PROVE purchase'.live /\ purchase'.by = p
    <3>1. CASE purchase.live
      <4>1. PICK q \in Payments : q = purchase.by /\ Busy(q)
        BY <1>0, <3>1 DEF RowOK, Busy
      <4>2. q = p
        BY <2>1, <2>3, <4>1 DEF BuysInv, ServedOK, Busy
      <4> QED BY <1>4, <3>1, <4>1, <4>2
    <3> QED BY <1>4, <3>1
  <2>4. ServedOK'
    <3> SUFFICES ASSUME ~double
                 PROVE  /\ \A q, r \in Payments : Busy(q)' /\ Busy(r)' => q = r
                        /\ \A q \in Payments : money'[q] = "paid" /\ ~Completed(q)'
                                                 => purchase'.live /\ purchase'.by = q
      BY <1>0 DEF ServedOK
    <3>1. \A q, r \in Payments : Busy(q)' /\ Busy(r)' => q = r
      BY <1>3, <1>4 DEF BuysInv, ServedOK
    <3>2. ASSUME NEW q \in Payments, money'[q] = "paid" PROVE q = p
      BY <1>3, <1>4, <2>1, <3>2 DEF BuysInv, ServedOK, Busy
    <3> QED BY <2>3, <3>1, <3>2
  <2> QED BY <1>0, <1>1, <1>4, <2>2, <2>4, BuysFinish
<1>5. CASE Purchases!CreatePurchase(t)
  <2>1. CASE purchase.by = NoPayment
    <3>1. ~purchase.live
      BY <1>0, <2>1 DEF RowOK
    <3>2. purchase' = [by |-> p, live |-> TRUE] /\ Purchases!Finish(t, "completed") /\ at[t] = "c_row"
      BY <1>1, <1>5, <2>1 DEF Purchases!CreatePurchase
    <3> QED BY <1>4, <3>1, <3>2 DEF Ours
  <2>2. CASE purchase.by # NoPayment
    <3>1. /\ at[t] = "c_row" /\ at' = [at EXCEPT ![t] = "c_revive"] /\ my' = [my EXCEPT ![t] = my[t]]
          /\ my[t] \in Checkouts /\ "c_revive" \in Purchases!Labels
          /\ UNCHANGED <<payment, purchase, money, events, double, my>>
      BY <1>0, <1>5, <2>2 DEF Purchases!CreatePurchase, Purchases!Go, BuysTyped, Purchases!Labels
    <3>2. /\ at' \in [Tasks -> Purchases!Labels] /\ my' \in [Tasks -> Checkouts]
          /\ at'[t] = "c_revive" /\ my'[t] = my[t]
          /\ \A u \in Tasks \ {t} : at'[u] = at[u] /\ my'[u] = my[u]
      BY <1>0, <3>1, BuysMoves
    <3>3. /\ \A q \in Payments : (Completed(q)' <=> Completed(q)) /\ (Returned(q)' <=> Returned(q))
          /\ \A q \in Payments : payment'[q] = payment[q] /\ money'[q] = money[q]
      BY <3>1 DEF Completed, Returned
    <3>4. BuysTyped'
      BY <1>0, <3>1, <3>2 DEF BuysTyped
    <3>5. BuyOK(p)'
      BY <1>2, <3>3 DEF BuyOK
    <3>6. ServeOK(t)'
      BY <1>0, <1>1, <3>1, <3>2, <3>3 DEF ServeOK, Taking, Giving
    <3>7. RowOK' /\ ServedOK'
      BY <3>1, <3>3 DEF BuysInv, RowOK, ServedOK, Busy
    <3> QED BY <1>1, <1>2, <3>2, <3>3, <3>4, <3>5, <3>6, <3>7, BuysOthers
  <2> QED BY <2>1, <2>2
<1>6. CASE Purchases!Revive(t)
  <2>1. /\ purchase' = IF purchase.live THEN purchase ELSE [by |-> p, live |-> TRUE]
        /\ Purchases!Finish(t, "completed") /\ at[t] = "c_revive"
    BY <1>1, <1>6 DEF Purchases!Revive
  <2>2. [by |-> p, live |-> TRUE] \in [by : Ours, live : BOOLEAN]
    BY DEF Ours
  <2> QED BY <1>0, <1>4, <2>1, <2>2
<1>7. CASE Purchases!RevokeEntitlements(t)
  <2>1. /\ purchase' = IF purchase.by = p THEN [purchase EXCEPT !.live = FALSE] ELSE purchase
        /\ Purchases!Finish(t, "refunded") /\ at[t] = "r_revoke"
    BY <1>1, <1>7 DEF Purchases!RevokeEntitlements
  <2>2. /\ purchase' \in [by : Ours, live : BOOLEAN]
        /\ purchase'.live => purchase.by # p /\ purchase' = purchase
        /\ purchase.by # p => purchase' = purchase
    BY <1>0, <2>1
  <2>3. Returned(p) /\ ~Completed(p) /\ money[p] = "back"
    BY <1>0, <1>1, <1>2, <2>1 DEF ServeOK, BuyOK, Giving
  <2>4. RowOK'
    BY <1>0, <1>3, <2>1, <2>2 DEF RowOK
  <2>5. ServedOK'
    <3> SUFFICES ASSUME ~double
                 PROVE  /\ \A q, r \in Payments : Busy(q)' /\ Busy(r)' => q = r
                        /\ \A q \in Payments : money'[q] # "paid"
      BY <1>0 DEF ServedOK
    <3>1. \A q, r \in Payments : Busy(q)' /\ Busy(r)' => q = r
      BY <1>3, <2>1 DEF BuysInv, ServedOK
    <3>2. ASSUME NEW q \in Payments, money'[q] = "paid" PROVE q = p
      BY <1>3, <2>1, <2>3, <3>2 DEF BuysInv, ServedOK, Busy
    <3> QED BY <1>3, <2>1, <2>3, <3>1, <3>2
  <2> QED BY <1>0, <1>1, <2>1, <2>2, <2>4, <2>5, BuysFinish
<1> QED BY <1>5, <1>6, <1>7
LEMMA BuysStripe ==
  ASSUME BuysInv, NEW p \in Payments, Purchases!Pay(p) \/ Purchases!GiveBack(p)
  PROVE  BuysInv'
<1>0. BuysTyped /\ BuyOK(p) /\ RowOK /\ UNCHANGED <<payment, purchase, at, my>>
  BY DEF BuysInv, Purchases!Pay, Purchases!GiveBack, Purchases!rows
<1>1. /\ \A q \in Payments \ {p} : /\ money'[q] = money[q]
                                   /\ (Completed(q)' <=> Completed(q))
                                   /\ (Returned(q)' <=> Returned(q))
      /\ \/ /\ money[p] = "open" /\ money'[p] = "paid" /\ Completed(p)' /\ ~Returned(p)'
         \/ /\ money[p] = "paid" /\ money'[p] = "back" /\ Returned(p)'
            /\ (Completed(p)' <=> Completed(p))
  BY <1>0 DEF Purchases!Pay, Purchases!GiveBack, Completed, Returned, BuysTyped, BuyOK
<1>2. BuysTyped'
  <2>1. \A of \in {"completed", "refunded"} : [of |-> of, p |-> p] \in Purchases!Events
    BY DEF Purchases!Events
  <2> QED BY <1>0, <2>1 DEF BuysTyped, Purchases!Pay, Purchases!GiveBack
<1>3. ASSUME NEW q \in Payments PROVE BuyOK(q)'
  <2>1. BuyOK(q)
    BY DEF BuysInv
  <2>2. CASE q = p
    BY <1>0, <1>1, <2>2 DEF BuyOK
  <2>3. CASE q # p
    BY <1>0, <1>1, <2>1, <2>3 DEF BuyOK
  <2> QED BY <2>2, <2>3
<1>4. ASSUME NEW t \in Tasks PROVE ServeOK(t)'
  <2>1. ServeOK(t)
    BY DEF BuysInv
  <2>2. CASE my[t].p = p
    BY <1>0, <1>1, <2>1, <2>2 DEF ServeOK, BuyOK, Taking, Giving
  <2>3. CASE my[t].p # p
    <3>1. CASE my[t].p \in Payments
      <4>1. PICK q \in Payments : q = my[t].p /\ q # p
        BY <2>3, <3>1
      <4> QED BY <1>0, <1>1, <2>1, <4>1 DEF ServeOK
    <3>2. CASE my[t].p \notin Payments
      BY <1>0, <2>1, <3>2 DEF ServeOK, Taking, Giving
    <3> QED BY <3>1, <3>2
  <2> QED BY <2>2, <2>3
<1>5. RowOK'
  BY <1>0, <1>1 DEF RowOK
<1>6. ServedOK'
  <2> SUFFICES ASSUME ~double'
               PROVE  /\ \A q, r \in Payments : Busy(q)' /\ Busy(r)' => q = r
                      /\ \A q \in Payments : money'[q] = "paid" /\ ~Completed(q)'
                                               => purchase'.live /\ purchase'.by = q
    BY DEF ServedOK
  <2>1. CASE Purchases!Pay(p)
    <3>1. \A q \in Payments : money[q] # "paid" /\ Purchases!Settled(q)
      BY <1>0, <2>1 DEF Purchases!Pay, BuysTyped
    <3>2. \A q \in Payments : ~Busy(q)
      BY <3>1 DEF Busy, Purchases!Settled, Completed, Returned
    <3>3. money'[p] = "paid" /\ Completed(p)'
      BY <1>0, <2>1 DEF Purchases!Pay, Completed, BuysTyped
    <3>4. \A q \in Payments : Busy(q)' => q = p
      BY <1>1, <3>2 DEF Busy
    <3>5. \A q \in Payments : money'[q] = "paid" => q = p
      BY <3>4 DEF Busy
    <3> QED BY <3>3, <3>4, <3>5
  <2>2. CASE Purchases!GiveBack(p)
    <3>1. money[p] = "paid" /\ money'[p] = "back" /\ ~double
      BY <1>0, <2>2 DEF Purchases!GiveBack, BuysTyped
    <3>2. \A q \in Payments : Busy(q)' => Busy(q)
      BY <1>1, <3>1 DEF Busy
    <3>3. \A q, r \in Payments : Busy(q)' /\ Busy(r)' => q = r
      BY <3>1, <3>2 DEF BuysInv, ServedOK
    <3>4. \A q \in Payments : Busy(q) => q = p
      BY <3>1 DEF BuysInv, ServedOK, Busy
    <3>5. \A q \in Payments : money'[q] = "paid" => q = p
      BY <3>2, <3>4 DEF Busy
    <3> QED BY <3>1, <3>3, <3>5
  <2> QED BY <2>1, <2>2
<1>7. \A t, u \in Tasks : my'[t].p \in Payments /\ my'[t].p = my'[u].p => t = u
  BY <1>0 DEF BuysInv
<1> QED BY <1>2, <1>3, <1>4, <1>5, <1>6, <1>7 DEF BuysInv

LEMMA AccessIsPaidFor == BuysInv => Purchases!AccessFollowsMoney
<1> SUFFICES ASSUME BuysInv PROVE Purchases!AccessFollowsMoney
  OBVIOUS
<1>1. ASSUME NEW p \in Payments, Purchases!Settled(p) PROVE ~Completed(p) /\ ~Returned(p) /\ BuyOK(p)
  BY <1>1 DEF Purchases!Settled, Completed, Returned, BuysInv
<1>2. Purchases!AccessIsPaid
  BY <1>1 DEF Purchases!AccessIsPaid, BuysInv, RowOK
<1>3. Purchases!LedgerAgrees
  <2> SUFFICES ASSUME NEW p \in Payments, Purchases!Settled(p)
               PROVE  /\ money[p] = "back" <=> payment[p].st = "refunded"
                      /\ money[p] = "paid" <=> payment[p].st = "succeeded"
    BY DEF Purchases!LedgerAgrees
  <2>1. money[p] \in {"none", "open", "paid", "back"}
    BY DEF BuysInv, BuysTyped
  <2> QED BY <1>1, <2>1 DEF BuyOK
<1>4. Purchases!BuyerIsServed
  BY <1>1 DEF Purchases!BuyerIsServed, BuysInv, ServedOK
<1> QED BY <1>2, <1>3, <1>4 DEF Purchases!AccessFollowsMoney

LEMMA BuysInit == InOrder /\ Purchases!Init => BuysInv
<1> SUFFICES ASSUME InOrder, Purchases!Init PROVE BuysInv
  OBVIOUS
<1>1. Purchases!NoJob \in Checkouts /\ Purchases!NoJob.p = NoPayment
      /\ Purchases!NoRow \in [st : {"none", "pending", "succeeded", "refunded"}, pi : BOOLEAN]
      /\ Purchases!NoRow.st = "none"
      /\ Purchases!NoPurchase \in [by : Ours, live : BOOLEAN] /\ ~Purchases!NoPurchase.live
      /\ "idle" \in Purchases!Labels
  BY DEF Purchases!NoJob, Checkouts, Ours, Purchases!NoRow, Purchases!NoPurchase, Purchases!Labels
<1>2. BuysTyped
  BY <1>1 DEF Purchases!Init, BuysTyped
<1>3. \A p \in Payments : BuyOK(p) /\ ~Busy(p) /\ money[p] # "paid"
  BY <1>1 DEF Purchases!Init, BuyOK, Busy, Completed, Returned
<1>4. \A t \in Tasks : ServeOK(t) /\ my[t].p \notin Payments
  BY <1>1 DEF Purchases!Init, ServeOK, Taking, Giving, InOrder
<1>5. RowOK /\ ServedOK
  BY <1>1, <1>3 DEF Purchases!Init, RowOK, ServedOK
<1> QED BY <1>2, <1>3, <1>4, <1>5 DEF BuysInv

LEMMA BuysStep ==
  ASSUME InOrder
  PROVE  BuysInv /\ (Purchases!Next \/ UNCHANGED <<purchasesState, at, my>>) => BuysInv'
<1>1. ASSUME BuysInv, UNCHANGED <<purchasesState, at, my>> PROVE BuysInv'
  <2>1. UNCHANGED <<payment, purchase, money, events, double, at, my>>
    BY <1>1 DEF purchasesState
  <2>2. /\ \A p \in Payments : (Completed(p)' <=> Completed(p)) /\ (Returned(p)' <=> Returned(p))
        /\ BuysTyped' /\ BuysInv
    BY <1>1, <2>1 DEF Completed, Returned, BuysInv, BuysTyped
  <2>3. \A p \in Payments : BuyOK(p)'
    BY <2>1, <2>2 DEF BuysInv, BuyOK
  <2>4. \A t \in Tasks : ServeOK(t)'
    BY <2>1, <2>2 DEF BuysInv, ServeOK, Completed, Returned
  <2>5. RowOK' /\ ServedOK'
    BY <2>1, <2>2 DEF BuysInv, RowOK, ServedOK, Busy
  <2> QED BY <2>1, <2>2, <2>3, <2>4, <2>5 DEF BuysInv
<1>2. ASSUME BuysInv, Purchases!Next PROVE BuysInv'
  BY <1>2, BuysStart, BuysBegin, BuysRecord, BuysAccess, BuysStripe DEF Purchases!Next, InOrder
<1> QED BY <1>1, <1>2

-----------------------------------------------------------------------------
(***************************************************************************)
(* The phone.  Of those who link it one runs at a time, whoever unlinks it or *)
(* is erased meanwhile.                                                     *)
(***************************************************************************)
Linkers == {"linkDeviceByCode", "adminLink"}
LinkInv ==
  /\ DOMAIN at = Tasks /\ DOMAIN my = Tasks
  /\ \A t, u \in Tasks : my[t].op \in Linkers /\ my[u].op \in Linkers => t = u
  /\ \A t \in Tasks : at[t] \in {"n_del", "n_find", "n_link", "n_reports"} => my[t].op \in Linkers
  /\ \A t \in Tasks : at[t] \in {"n_link", "n_reports"} => link \in {NoOne, my[t].u}
  /\ link # NoOne /\ (\A t \in Tasks : at[t] # "n_reports") => owner = link

LEMMA LinkSteps ==
  ASSUME LinkInv, Linkers \subseteq PartAlone, Links!Next
  PROVE  LinkInv'
<1>0. DOMAIN at = Tasks /\ DOMAIN my = Tasks /\ Links!NoJob.op \notin Linkers
  BY DEF LinkInv, Links!NoJob, Linkers
<1>1. ASSUME NEW t \in Tasks, NEW l, NEW j, at' = [at EXCEPT ![t] = l], my' = [my EXCEPT ![t] = j]
      PROVE  /\ DOMAIN at' = Tasks /\ DOMAIN my' = Tasks
             /\ at'[t] = l /\ my'[t] = j
             /\ \A v \in Tasks \ {t} : at'[v] = at[v] /\ my'[v] = my[v]
  BY <1>0, <1>1
<1>2. ASSUME NEW t \in Tasks, NEW l \in {"n_del", "n_find", "x_delete"}, NEW op, NEW u, NEW k,
             Links!Begin(t, l, op, u, k), l = "x_delete" \/ op \in Linkers, UNCHANGED <<link, owner>>
      PROVE  LinkInv'
  <2> DEFINE j == [op |-> op, u |-> u, k |-> k]
  <2>1. /\ DOMAIN at' = Tasks /\ DOMAIN my' = Tasks
        /\ at'[t] = l /\ my'[t] = j /\ at[t] = "idle"
        /\ \A v \in Tasks \ {t} : at'[v] = at[v] /\ my'[v] = my[v]
    BY <1>1, <1>2 DEF Links!Begin
  <2>2. j.op = op
    OBVIOUS
  <2>3. op \in Linkers => \A v \in Tasks : my[v].op \notin Linkers
    BY <1>2 DEF Links!Begin
  <2> HIDE DEF j
  <2> QED BY <1>2, <2>1, <2>2, <2>3 DEF LinkInv
<1>3. ASSUME NEW t \in Tasks, Links!Stop(t), at[t] # "n_reports", UNCHANGED owner,
             link' = link \/ link' = NoOne
      PROVE  LinkInv'
  <2>1. /\ DOMAIN at' = Tasks /\ DOMAIN my' = Tasks
        /\ at'[t] = "idle" /\ my'[t] = Links!NoJob
        /\ \A v \in Tasks \ {t} : at'[v] = at[v] /\ my'[v] = my[v]
    BY <1>1, <1>3 DEF Links!Stop
  <2> QED BY <1>0, <1>3, <2>1 DEF LinkInv
<1>4. ASSUME NEW t \in Tasks, NEW l \in {"n_find", "n_link", "n_reports"}, Links!Go(t, l),
             at[t] \in {"n_del", "n_find", "n_link"}, UNCHANGED owner,
             l = "n_find" => link' = link,
             l = "n_link" => link' = link /\ link \in {NoOne, my[t].u},
             l = "n_reports" => link' \in {NoOne, my[t].u}
      PROVE  LinkInv'
  <2>1. /\ DOMAIN at' = Tasks /\ my' = my /\ at'[t] = l
        /\ \A v \in Tasks \ {t} : at'[v] = at[v]
    BY <1>0, <1>4 DEF Links!Go
  <2>2. \A v \in Tasks \ {t} : at[v] \notin {"n_link", "n_reports"}
    BY <1>4 DEF LinkInv
  <2> QED BY <1>0, <1>4, <2>1, <2>2 DEF LinkInv
<1>5. ASSUME UNCHANGED <<at, my, owner>>, link' = link \/ link' = NoOne PROVE LinkInv'
  BY <1>5 DEF LinkInv
<1>6. ASSUME NEW t \in Tasks, Links!LinkDeviceByCode(t) PROVE LinkInv'
  <2>1. PICK u \in Links!Signed, c \in codes : Links!Begin(t, "n_del", "linkDeviceByCode", u, c)
    BY <1>6 DEF Links!LinkDeviceByCode
  <2> QED BY <1>2, <1>6, <2>1 DEF Links!LinkDeviceByCode, Links!devices, Linkers
<1>7. ASSUME NEW t \in Tasks, Links!AdminLink(t) PROVE LinkInv'
  <2>1. PICK u \in Links!Signed : Links!Begin(t, "n_find", "adminLink", u, NoOne)
    BY <1>7 DEF Links!AdminLink
  <2> QED BY <1>2, <1>7, <2>1 DEF Links!AdminLink, Links!devices, Linkers
<1>8. ASSUME NEW t \in Tasks, Links!UnlinkDevice(t) PROVE LinkInv'
  BY <1>2, <1>8 DEF Links!UnlinkDevice, Links!devices
<1>9. ASSUME NEW t \in Tasks, Links!DeleteCode(t) PROVE LinkInv'
  BY <1>4, <1>9 DEF Links!DeleteCode
<1>10. ASSUME NEW t \in Tasks, Links!FindLink(t) PROVE LinkInv'
  <2>1. at[t] = "n_find" /\ UNCHANGED <<link, owner>>
    BY <1>10 DEF Links!FindLink, Links!devices
  <2>2. CASE Links!Stop(t)
    BY <1>3, <2>1, <2>2
  <2>3. CASE link \in {NoOne, my[t].u} /\ Links!Go(t, "n_link")
    BY <1>4, <2>1, <2>3
  <2> QED BY <1>10, <2>2, <2>3 DEF Links!FindLink
<1>11. ASSUME NEW t \in Tasks, Links!UpsertLink(t) PROVE LinkInv'
  <2>1. at[t] = "n_link" /\ link' \in {NoOne, my[t].u} /\ UNCHANGED owner /\ Links!Go(t, "n_reports")
    BY <1>11 DEF Links!UpsertLink, LinkInv
  <2> QED BY <1>4, <2>1
<1>12. ASSUME NEW t \in Tasks, Links!BackfillReports(t) PROVE LinkInv'
  <2>1. /\ at[t] = "n_reports" /\ owner' = my[t].u /\ link' = link /\ link \in {NoOne, my[t].u}
    BY <1>12 DEF Links!BackfillReports, LinkInv
  <2>2. /\ DOMAIN at' = Tasks /\ DOMAIN my' = Tasks
        /\ at'[t] = "idle" /\ my'[t] = Links!NoJob
        /\ \A v \in Tasks \ {t} : at'[v] = at[v] /\ my'[v] = my[v]
    BY <1>1, <1>12 DEF Links!BackfillReports, Links!Stop
  <2> QED BY <1>0, <2>1, <2>2 DEF LinkInv
<1>13. ASSUME NEW t \in Tasks, Links!DeleteLink(t) PROVE LinkInv'
  BY <1>3, <1>13 DEF Links!DeleteLink
<1>14. ASSUME Links!Generate \/ Links!CodeExpires \/ Links!EraseMe PROVE LinkInv'
  BY <1>5, <1>14 DEF Links!Generate, Links!CodeExpires, Links!EraseMe
<1> QED BY <1>6, <1>7, <1>8, <1>9, <1>10, <1>11, <1>12, <1>13, <1>14 DEF Links!Next

LEMMA LinkStep ==
  ASSUME Linkers \subseteq PartAlone
  PROVE  LinkInv /\ (Links!Next \/ UNCHANGED <<phonesState, at, my>>) => LinkInv'
<1>1. CASE UNCHANGED <<phonesState, at, my>>
  <2>1. UNCHANGED <<at, my, link, owner>>
    BY <1>1 DEF phonesState
  <2> QED BY <2>1 DEF LinkInv
<1> QED BY <1>1, LinkSteps

LEMMA LinkInit == Links!Init => LinkInv
BY DEF Links!Init, LinkInv, Links!NoJob, Linkers

LEMMA LinkHolds == LinkInv => Links!ReportsFollowLink
BY DEF LinkInv, Links!ReportsFollowLink, Linkers

\* A code that still leads to the phone was not taken, and neither was the one that is being.
CodeInv ==
  /\ codes \subseteq LinkCodes /\ taken \in [LinkCodes -> 0 .. 1]
  /\ \A c \in codes : taken[c] = 0
  /\ \A t \in Tasks : at[t] = "n_del" => my[t].k \in LinkCodes /\ taken[my[t].k] = 0

LEMMA CodeInit == Links!Init => CodeInv
BY DEF Links!Init, CodeInv

LEMMA CodeSteps ==
  ASSUME LinkInv, CodeInv, Links!Next
  PROVE  CodeInv'
<1>1. ASSUME NEW t \in Tasks, NEW l, NEW j, at' = [at EXCEPT ![t] = l], my' = [my EXCEPT ![t] = j],
             l # "n_del", UNCHANGED <<codes, taken>>
      PROVE  CodeInv'
  <2>1. /\ at'[t] = l
        /\ \A v \in Tasks \ {t} : at'[v] = at[v] /\ my'[v] = my[v]
    BY <1>1 DEF LinkInv
  <2> QED BY <1>1, <2>1 DEF CodeInv
<1>2. ASSUME NEW t \in Tasks, NEW l, Links!Go(t, l), l # "n_del", UNCHANGED <<codes, taken>>
      PROVE  CodeInv'
  <2>1. /\ at'[t] = l /\ my' = my
        /\ \A v \in Tasks \ {t} : at'[v] = at[v]
    BY <1>2 DEF LinkInv, Links!Go
  <2> QED BY <1>2, <2>1 DEF CodeInv
<1>3. ASSUME NEW t \in Tasks, Links!LinkDeviceByCode(t) PROVE CodeInv'
  <2>1. PICK u \in Links!Signed, c \in codes : Links!Begin(t, "n_del", "linkDeviceByCode", u, c)
    BY <1>3 DEF Links!LinkDeviceByCode
  <2>2. /\ at'[t] = "n_del" /\ my'[t].k = c
        /\ \A v \in Tasks \ {t} : at'[v] = at[v] /\ my'[v] = my[v]
    BY <2>1 DEF LinkInv, Links!Begin
  <2>3. UNCHANGED <<codes, taken>> /\ c \in LinkCodes /\ taken[c] = 0
    BY <1>3 DEF Links!LinkDeviceByCode, Links!devices, CodeInv
  <2> QED BY <2>2, <2>3 DEF CodeInv
<1>4. ASSUME NEW t \in Tasks, Links!DeleteCode(t) PROVE CodeInv'
  <2>1. /\ at[t] = "n_del" /\ codes' = codes \ {my[t].k} /\ taken' = Links!More(my[t].k)
        /\ Links!Go(t, "n_find")
    BY <1>4 DEF Links!DeleteCode
  <2>2. my[t].k \in LinkCodes /\ taken[my[t].k] = 0
    BY <2>1 DEF CodeInv
  <2>3. /\ taken' \in [LinkCodes -> 0 .. 1]
        /\ \A c \in LinkCodes : c # my[t].k => taken'[c] = taken[c]
    BY <2>1, <2>2 DEF CodeInv, Links!More
  <2>4. \A v \in Tasks : at'[v] # "n_del"
    BY <2>1 DEF LinkInv, Links!Go
  <2> QED BY <2>1, <2>3, <2>4 DEF CodeInv
<1>5. ASSUME NEW t \in Tasks, Links!AdminLink(t) \/ Links!UnlinkDevice(t) PROVE CodeInv'
  <2>0. PICK l \in {"n_find", "x_delete"} :
          \E j : at' = [at EXCEPT ![t] = l] /\ my' = [my EXCEPT ![t] = j]
    BY <1>5 DEF Links!AdminLink, Links!UnlinkDevice, Links!Begin
  <2>1. PICK j : at' = [at EXCEPT ![t] = l] /\ my' = [my EXCEPT ![t] = j]
    BY <2>0
  <2>2. UNCHANGED <<codes, taken>>
    BY <1>5 DEF Links!AdminLink, Links!UnlinkDevice, Links!devices
  <2> QED BY <1>1, <2>0, <2>1, <2>2
<1>6. ASSUME NEW t \in Tasks,
             Links!FindLink(t) \/ Links!UpsertLink(t) \/ Links!BackfillReports(t) \/ Links!DeleteLink(t)
      PROVE  CodeInv'
  <2>1. UNCHANGED <<codes, taken>>
    BY <1>6 DEF Links!FindLink, Links!UpsertLink, Links!BackfillReports, Links!DeleteLink,
       Links!devices
  <2>2. Links!Stop(t) \/ \E l \in {"n_link", "n_reports"} : Links!Go(t, l)
    BY <1>6 DEF Links!FindLink, Links!UpsertLink, Links!BackfillReports, Links!DeleteLink
  <2>3. Links!Stop(t) => CodeInv'
    BY <1>1, <2>1 DEF Links!Stop
  <2> QED BY <1>2, <2>1, <2>2, <2>3
<1>7. ASSUME Links!Generate \/ Links!CodeExpires \/ Links!EraseMe PROVE CodeInv'
  <2>1. UNCHANGED <<taken, at, my>>
    BY <1>7 DEF Links!Generate, Links!CodeExpires, Links!EraseMe
  <2>2. codes' \subseteq LinkCodes /\ \A c \in codes' : taken[c] = 0
    BY <1>7 DEF Links!Generate, Links!CodeExpires, Links!EraseMe, CodeInv
  <2> QED BY <2>1, <2>2 DEF CodeInv
<1> QED BY <1>3, <1>4, <1>5, <1>6, <1>7 DEF Links!Next

LEMMA CodeStep ==
  LinkInv /\ CodeInv /\ (Links!Next \/ UNCHANGED <<phonesState, at, my>>) => CodeInv'
<1>1. CASE UNCHANGED <<phonesState, at, my>>
  <2>1. UNCHANGED <<at, my, codes, taken>>
    BY <1>1 DEF phonesState
  <2> QED BY <2>1 DEF CodeInv
<1> QED BY <1>1, CodeSteps

LEMMA CodeHolds == CodeInv => Links!CodeUsedOnce
BY DEF CodeInv, Links!CodeUsedOnce

-----------------------------------------------------------------------------
(***************************************************************************)
(* How an order begins.                                                     *)
(***************************************************************************)
CountsDown == Drawn \subseteq Nat /\ Window \in Nat \ {0}

Orders == [number : Nat, status : Ordering!Statuses, until : Nat, row : Ordering!Rows, pi : Nat]
Cards == [of : Nat, st : {"unpaid", "held", "canceled"}]
Steps == [order : Nat, intent : Nat, number : Nat]
OrderTyped ==
  /\ placed \in Seq(Orders) /\ intents \in Seq(Cards)
  /\ forms \subseteq DOMAIN intents /\ hooks \subseteq DOMAIN intents
  /\ clock \in Nat
  /\ at \in [Tasks -> Ordering!Labels] /\ my \in [Tasks -> Steps]

\* The row of a payment names an intent of its own order, which was confirmed before the row
\* said so, and was released when it says that.
RowFits(o) ==
  LET r == placed[o] IN
  /\ r.pi # 0 => r.pi \in DOMAIN intents /\ intents[r.pi].of = o
  /\ r.row = "none" => r.pi = 0
  /\ r.pi # 0 /\ r.row = "authorized" => intents[r.pi].st # "unpaid"
  /\ r.pi # 0 /\ r.row = "cancelled" => intents[r.pi].st = "canceled"
  /\ r.status = "PAID" => r.until # 0

\* Only the intent that the row names can be paid.
CardFits(i) ==
  /\ intents[i].of \in DOMAIN placed
  /\ i \in forms => placed[intents[i].of].pi = i
  /\ intents[i].st = "held" =>
       i \in forms /\ (i \in hooks \/ placed[intents[i].of].row = "authorized")
  /\ i \in hooks => i \in forms /\ intents[i].st # "unpaid"

Making == {"c_payment", "c_intent", "c_link"}
Holding == {"a_mark", "a_read", "a_window", "a_paid"}
StepFits(t) ==
  LET o == my[t].order  i == my[t].intent IN
  /\ at[t] \notin {"idle", "c_insert"} => o \in DOMAIN placed
  /\ at[t] \in {"c_insert", "c_payment"} => i = 0
  /\ at[t] = "c_payment" => placed[o].row = "none"
  /\ at[t] \in {"c_intent", "c_link"} => charging /\ placed[o].row = "pending" /\ placed[o].pi = 0
  /\ at[t] = "c_link" => i \in DOMAIN intents /\ intents[i].of = o
  /\ at[t] \in Holding =>
       /\ placed[o].row # "none"
       /\ charging /\ placed[o].pi = 0 => placed[o].row \in {"authorized", "cancelled"}
       /\ placed[o].pi # 0 => intents[placed[o].pi].st # "unpaid"
       /\ i # 0 => i = placed[o].pi
  /\ at[t] \in Holding \ {"a_mark"} => placed[o].row \in {"authorized", "cancelled"}
  /\ at[t] = "a_paid" => placed[o].until # 0
OneMakes ==
  \A t, u \in Tasks : at[t] \in Making /\ at[u] \in Making /\ my[t].order = my[u].order => t = u
OrderInv ==
  /\ OrderTyped /\ OneMakes
  /\ \A o \in DOMAIN placed : RowFits(o)
  /\ \A i \in DOMAIN intents : CardFits(i)
  /\ \A t \in Tasks : StepFits(t)

LEMMA OrderKeeps ==
  ASSUME OrderTyped, NEW t \in Tasks, NEW l \in Ordering!Labels, NEW j \in Steps,
         Ordering!Keep(t, l, j)
  PROVE  /\ at' \in [Tasks -> Ordering!Labels] /\ my' \in [Tasks -> Steps]
         /\ at'[t] = l /\ my'[t] = j
         /\ \A u \in Tasks \ {t} : at'[u] = at[u] /\ my'[u] = my[u]
BY DEF Ordering!Keep, OrderTyped

LEMMA OrderSteps ==
  /\ \A o, i, n \in Nat : /\ Ordering!Job(o, i, n) \in Steps /\ Ordering!Job(o, i, n).order = o
                          /\ Ordering!Job(o, i, n).intent = i
  /\ Ordering!NoJob \in Steps /\ Ordering!NoJob.order = 0 /\ Ordering!NoJob.intent = 0
  /\ Making \cup Holding \cup {"idle", "c_insert", "s_payment", "x_settle", "x_write", "e_settle"}
       \subseteq Ordering!Labels
BY DEF Ordering!Job, Ordering!NoJob, Steps, Making, Holding, Ordering!Labels

\* A row that is written is a row.
LEMMA OrderWrites ==
  ASSUME placed \in Seq(Orders), NEW o \in DOMAIN placed, NEW r \in Orders,
         placed' = [placed EXCEPT ![o] = r]
  PROVE  /\ placed' \in Seq(Orders) /\ DOMAIN placed' = DOMAIN placed
         /\ placed'[o] = r /\ \A p \in DOMAIN placed \ {o} : placed'[p] = placed[p]
OBVIOUS

\* A task goes on, or Stripe is answered, or a form is opened; no row is written.
LEMMA OrderReads ==
  ASSUME OrderInv, NEW t \in Tasks, NEW l \in Ordering!Labels, NEW j \in Steps,
         Ordering!Keep(t, l, j), UNCHANGED <<placed, intents, clock, charging>>,
         forms \subseteq forms', hooks' \subseteq hooks,
         \A i \in forms' \ forms : i \in DOMAIN intents /\ placed[intents[i].of].pi = i,
         \A i \in hooks \ hooks' : intents[i].st = "held" => placed[intents[i].of].row = "authorized",
         StepFits(t)', l \notin Making
  PROVE  OrderInv'
<1>1. /\ at' \in [Tasks -> Ordering!Labels] /\ my' \in [Tasks -> Steps]
      /\ at'[t] = l /\ my'[t] = j
      /\ \A u \in Tasks \ {t} : at'[u] = at[u] /\ my'[u] = my[u]
  BY OrderKeeps DEF OrderInv
<1>2. OrderTyped'
  BY <1>1 DEF OrderInv, OrderTyped
<1>3. OneMakes'
  BY <1>1 DEF OrderInv, OneMakes
<1>4. \A o \in DOMAIN placed' : RowFits(o)'
  BY DEF OrderInv, RowFits
<1>5. \A i \in DOMAIN intents' : CardFits(i)'
  BY DEF OrderInv, CardFits
<1>6. ASSUME NEW u \in Tasks \ {t} PROVE StepFits(u)'
  <2>1. StepFits(u) /\ at'[u] = at[u] /\ my'[u] = my[u]
    BY <1>1 DEF OrderInv
  <2> QED BY <2>1 DEF StepFits
<1> QED BY <1>2, <1>3, <1>4, <1>5, <1>6 DEF OrderInv

\* A row is written: it keeps its intent, and says that the hold is there when it is.
LEMMA OrderRecords ==
  ASSUME OrderInv, NEW t \in Tasks, NEW l \in Ordering!Labels, NEW j \in Steps,
         Ordering!Keep(t, l, j), UNCHANGED <<intents, forms, clock, charging>>,
         NEW o \in DOMAIN placed, NEW r \in Orders, placed' = [placed EXCEPT ![o] = r],
         r.pi = placed[o].pi, r.until = placed[o].until \/ r.until # 0,
         r.status = "PAID" => r.until # 0,
         \/ r.row = placed[o].row
         \/ at[t] = "c_payment" /\ my[t].order = o /\ r.row = "pending"
         \/ at[t] = "a_mark" /\ my[t].order = o /\ r.row = "authorized"
              /\ placed[o].row \in {"pending", "failed"},
         hooks' \subseteq hooks,
         \A i \in hooks \ hooks' : intents[i].st = "held" => r.row = "authorized" /\ intents[i].of = o,
         StepFits(t)', l \in Making => at[t] \in Making /\ j.order = my[t].order
  PROVE  OrderInv'
<1>0. OrderTyped /\ RowFits(o) /\ StepFits(t) /\ placed[o] \in Orders
  BY DEF OrderInv, OrderTyped
<1>1. /\ at' \in [Tasks -> Ordering!Labels] /\ my' \in [Tasks -> Steps]
      /\ at'[t] = l /\ my'[t] = j
      /\ \A u \in Tasks \ {t} : at'[u] = at[u] /\ my'[u] = my[u]
  BY <1>0, OrderKeeps
<1>2. /\ placed' \in Seq(Orders) /\ DOMAIN placed' = DOMAIN placed
      /\ placed'[o] = r /\ \A p \in DOMAIN placed \ {o} : placed'[p] = placed[p]
  BY <1>0, OrderWrites DEF OrderTyped
<1>3. OrderTyped'
  BY <1>0, <1>1, <1>2 DEF OrderTyped
<1>4. OneMakes'
  BY <1>1 DEF OrderInv, OneMakes
<1>5. ASSUME NEW p \in DOMAIN placed PROVE RowFits(p)'
  <2>1. RowFits(p)
    BY DEF OrderInv
  <2>2. CASE p # o
    BY <1>2, <2>1, <2>2 DEF RowFits
  <2>3. CASE p = o
    BY <1>0, <1>2, <2>3 DEF RowFits, StepFits, Holding
  <2> QED BY <2>2, <2>3
<1>6. ASSUME NEW i \in DOMAIN intents PROVE CardFits(i)'
  <2>1. CardFits(i) /\ intents[i] \in Cards /\ i # 0
    BY <1>0 DEF OrderInv, OrderTyped
  <2>2. CASE intents[i].of # o
    BY <1>2, <2>1, <2>2 DEF CardFits
  <2>3. CASE intents[i].of = o
    <3>1. intents[i].st = "held" => placed[o].pi = i
      BY <2>1, <2>3 DEF CardFits
    <3>2. intents[i].st = "held" => i \in hooks' \/ r.row = "authorized"
      BY <1>0, <2>1, <2>3, <3>1 DEF CardFits, RowFits, StepFits
    <3> QED BY <1>2, <2>1, <2>3, <3>2 DEF CardFits
  <2> QED BY <2>2, <2>3
<1>7. ASSUME NEW u \in Tasks \ {t} PROVE StepFits(u)'
  <2>1. StepFits(u) /\ at'[u] = at[u] /\ my'[u] = my[u]
    BY <1>1 DEF OrderInv
  <2>2. CASE my[u].order # o
    BY <1>2, <2>1, <2>2 DEF StepFits, Holding
  <2>3. CASE my[u].order = o
    <3>1. CASE r.row = placed[o].row
      BY <1>2, <2>1, <2>3, <3>1 DEF StepFits
    <3>2. CASE at[t] = "c_payment" /\ my[t].order = o
      <4>1. placed[o].row = "none" /\ at[u] \notin Making
        BY <1>0, <2>3, <3>2 DEF StepFits, OrderInv, OneMakes, Making
      <4> QED BY <1>2, <2>1, <2>3, <4>1 DEF StepFits, Making, Holding
    <3>3. CASE at[t] = "a_mark" /\ my[t].order = o /\ r.row = "authorized"
               /\ placed[o].row \in {"pending", "failed"}
      <4>1. at[u] \notin Making
        BY <1>0, <2>1, <2>3, <3>3 DEF StepFits, Making, Holding
      <4> QED BY <1>2, <2>1, <2>3, <3>3, <4>1 DEF StepFits, Making, Holding
    <3> QED BY <3>1, <3>2, <3>3
  <2> QED BY <2>2, <2>3
<1> QED BY <1>2, <1>3, <1>4, <1>5, <1>6, <1>7 DEF OrderInv

\* The event of an intent is answered when the row says what there is to say of it.
LEMMA OrderAnswers ==
  ASSUME OrderInv, NEW t \in Tasks, at[t] \in Holding \ {"a_mark"},
         NEW i \in DOMAIN intents, i = my[t].intent, intents[i].st = "held"
  PROVE  placed[my[t].order].row = "authorized" /\ intents[i].of = my[t].order
<1>1. StepFits(t) /\ my[t].order \in DOMAIN placed /\ i \in Nat \ {0}
      /\ at[t] \notin {"idle", "c_insert"}
  BY DEF OrderInv, OrderTyped, StepFits, Holding
<1>2. RowFits(my[t].order) /\ placed[my[t].order].pi = i
  BY <1>1 DEF OrderInv, StepFits
<1> QED BY <1>1, <1>2 DEF StepFits, RowFits

LEMMA OrderTasks ==
  ASSUME OrderInv, CountsDown, NEW t \in Tasks,
         \/ Ordering!CreateOrder(t) \/ Ordering!OpenSession(t) \/ Ordering!AnswerSession(t)
         \/ Ordering!ReportHold(t) \/ Ordering!Reconcile(t) \/ Ordering!ReadOrder(t)
         \/ Ordering!Cancel(t) \/ Ordering!Die(t)
  PROVE  OrderInv'
<1>0. /\ OrderTyped /\ StepFits(t) /\ my[t] \in Steps /\ OrderInv
      /\ \A o \in DOMAIN placed : o \in Nat \ {0} /\ RowFits(o) /\ placed[o] \in Orders
      /\ \A i \in DOMAIN intents : i \in Nat \ {0} /\ CardFits(i)
  BY DEF OrderInv, OrderTyped
<1>1. ASSUME NEW l \in {"idle", "c_insert"}, NEW j \in Steps, Ordering!Keep(t, l, j), j.intent = 0,
             UNCHANGED <<placed, intents, forms, hooks, clock, charging>>
      PROVE  OrderInv'
  <2>1. at'[t] = l /\ my'[t] = j /\ l \in Ordering!Labels
    BY <1>0, <1>1, OrderSteps, OrderKeeps
  <2>2. StepFits(t)'
    BY <1>1, <2>1 DEF StepFits, Holding
  <2> QED BY <1>0, <1>1, <2>1, <2>2, OrderReads DEF Making
<1>2. ASSUME NEW o \in DOMAIN placed, NEW l \in {"s_payment", "x_settle"},
             Ordering!Begin(t, l, Ordering!Job(o, 0, 0)),
             UNCHANGED <<placed, intents, forms, hooks, clock, charging>>
      PROVE  OrderInv'
  <2>1. Ordering!Job(o, 0, 0) \in Steps /\ Ordering!Job(o, 0, 0).order = o /\ l \in Ordering!Labels
        /\ Ordering!Keep(t, l, Ordering!Job(o, 0, 0))
    BY <1>0, <1>2, OrderSteps DEF Ordering!Begin, Ordering!Keep
  <2>2. at'[t] = l /\ my'[t] = Ordering!Job(o, 0, 0)
    BY <1>0, <2>1, OrderKeeps
  <2>3. StepFits(t)'
    BY <1>2, <2>1, <2>2 DEF StepFits, Holding
  <2> QED BY <1>0, <1>2, <2>1, <2>3, OrderReads DEF Making
<1>3. ASSUME NEW o \in DOMAIN placed, NEW i \in Nat, Ordering!Begin(t, "a_mark", Ordering!Job(o, i, 0)),
             UNCHANGED <<placed, intents, forms, hooks, clock, charging>>,
             placed[o].row # "none", i # 0 => i = placed[o].pi,
             charging /\ placed[o].pi = 0 => placed[o].row \in {"authorized", "cancelled"},
             placed[o].pi # 0 => intents[placed[o].pi].st # "unpaid"
      PROVE  OrderInv'
  <2> DEFINE j == Ordering!Job(o, i, 0)
  <2>1. j \in Steps /\ j.order = o /\ j.intent = i /\ "a_mark" \in Ordering!Labels
        /\ Ordering!Keep(t, "a_mark", j)
    BY <1>0, <1>3, OrderSteps DEF Ordering!Begin, Ordering!Keep, Holding
  <2> HIDE DEF j
  <2>2. at'[t] = "a_mark" /\ my'[t] = j
    BY <1>0, <2>1, OrderKeeps
  <2>3. StepFits(t)'
    BY <1>3, <2>1, <2>2 DEF StepFits, Holding
  <2> QED BY <1>0, <1>3, <2>1, <2>3, OrderReads DEF Making
<1>4. CASE Ordering!CreateOrder(t)
  <2>1. PICK n \in Ordering!FreeNumbers : Ordering!Begin(t, "c_insert", Ordering!Job(0, 0, n))
    BY <1>4 DEF Ordering!CreateOrder
  <2>2. n \in Nat
    BY <1>0 DEF Ordering!FreeNumbers, CountsDown, OrderTyped
  <2>3. Ordering!Job(0, 0, n) \in Steps /\ Ordering!Keep(t, "c_insert", Ordering!Job(0, 0, n))
        /\ Ordering!Job(0, 0, n).intent = 0
    BY <2>1, <2>2, OrderSteps DEF Ordering!Begin, Ordering!Keep
  <2> QED BY <1>1, <1>4, <2>3 DEF Ordering!CreateOrder
<1>5. CASE Ordering!OpenSession(t)
  BY <1>2, <1>5 DEF Ordering!OpenSession
<1>6. CASE Ordering!AnswerSession(t)
  <2>1. /\ at[t] = "s_payment" /\ Ordering!Keep(t, "idle", Ordering!NoJob)
        /\ Ordering!NoJob \in Steps /\ "idle" \in Ordering!Labels
        /\ UNCHANGED <<placed, intents, hooks, clock, charging>>
        /\ forms' = forms \/ (forms' = forms \cup {placed[my[t].order].pi}
           /\ placed[my[t].order].pi # 0)
    BY <1>6, OrderSteps DEF Ordering!AnswerSession, Ordering!End, Ordering!Mine
  <2>2. PICK o \in DOMAIN placed : o = my[t].order
    BY <1>0, <2>1 DEF StepFits
  <2>3. \A i \in forms' \ forms : i \in DOMAIN intents /\ placed[intents[i].of].pi = i
    BY <1>0, <2>1, <2>2 DEF RowFits
  <2>4. StepFits(t)'
    BY <1>0, <2>1, OrderKeeps DEF StepFits, Holding
  <2> QED BY <1>0, <2>1, <2>3, <2>4, OrderReads DEF Making
<1>7. CASE Ordering!ReportHold(t)
  <2>1. PICK i \in hooks : Ordering!Begin(t, "a_mark", Ordering!Job(intents[i].of, i, 0))
    BY <1>7 DEF Ordering!ReportHold
  <2>2. i \in DOMAIN intents /\ i \in Nat \ {0} /\ CardFits(i) /\ intents[i] \in Cards
    BY <1>0 DEF OrderTyped
  <2>3. PICK o \in DOMAIN placed : o = intents[i].of
    BY <2>2 DEF CardFits
  <2>4. placed[o].pi = i /\ intents[i].st # "unpaid" /\ placed[o].row # "none"
    BY <1>0, <2>2, <2>3 DEF CardFits, RowFits
  <2> QED BY <1>3, <1>7, <2>1, <2>2, <2>3, <2>4 DEF Ordering!ReportHold
<1>8. CASE Ordering!Reconcile(t)
  <2>1. PICK o \in DOMAIN placed :
          /\ \/ placed[o].row = "authorized"
             \/ placed[o].row = "pending" /\ placed[o].pi # 0 /\ intents[placed[o].pi].st = "held"
          /\ Ordering!Begin(t, "a_mark", Ordering!Job(o, 0, 0))
    BY <1>8 DEF Ordering!Reconcile
  <2> QED BY <1>0, <1>3, <1>8, <2>1 DEF Ordering!Reconcile, RowFits
<1>9. CASE Ordering!ReadOrder(t)
  <2>1. /\ at[t] = "a_read" /\ UNCHANGED <<placed, intents, forms, clock, charging>>
        /\ \/ /\ Ordering!Keep(t, "a_window", my[t]) /\ hooks' = hooks
           \/ /\ Ordering!Keep(t, "a_paid", my[t]) /\ hooks' = hooks
              /\ placed[my[t].order].until # 0
           \/ /\ Ordering!Keep(t, "idle", Ordering!NoJob) /\ hooks' = hooks \ {my[t].intent}
    BY <1>9 DEF Ordering!ReadOrder, Ordering!Go, Ordering!End, Ordering!Answered, Ordering!Mine
  <2>2. {"idle", "a_window", "a_paid"} \subseteq Ordering!Labels /\ Ordering!NoJob \in Steps
    BY OrderSteps DEF Holding
  <2>3. ASSUME NEW l \in {"a_window", "a_paid"}, Ordering!Keep(t, l, my[t]), hooks' = hooks,
               l = "a_paid" => placed[my[t].order].until # 0
        PROVE  OrderInv'
    <3>1. at'[t] = l /\ my'[t] = my[t]
      BY <1>0, <2>2, <2>3, OrderKeeps
    <3>2. StepFits(t)'
      BY <1>0, <2>1, <2>3, <3>1 DEF StepFits, Holding
    <3> QED BY <1>0, <2>1, <2>2, <2>3, <3>2, OrderReads DEF Making
  <2>4. CASE Ordering!Keep(t, "idle", Ordering!NoJob) /\ hooks' = hooks \ {my[t].intent}
    <3>1. StepFits(t)'
      BY <1>0, <2>2, <2>4, OrderKeeps DEF StepFits, Holding
    <3>2. \A i \in hooks \ hooks' : intents[i].st = "held" => placed[intents[i].of].row = "authorized"
      BY <1>0, <2>1, <2>4, OrderAnswers DEF OrderTyped, Holding
    <3> QED BY <1>0, <2>1, <2>2, <2>4, <3>1, <3>2, OrderReads DEF Making
  <2> QED BY <2>1, <2>3, <2>4
<1>10. CASE Ordering!Cancel(t)
  BY <1>2, <1>10 DEF Ordering!Cancel
<1>11. CASE Ordering!Die(t)
  BY <1>1, <1>11, OrderSteps DEF Ordering!Die, Ordering!End
<1> QED BY <1>4, <1>5, <1>6, <1>7, <1>8, <1>9, <1>10, <1>11

LEMMA OrderStatus ==
  ASSUME NEW r \in Orders, NEW st \in Ordering!Statuses
  PROVE  LET q == [r EXCEPT !.status = st]
         IN /\ q \in Orders /\ q.status = st
            /\ q.row = r.row /\ q.until = r.until /\ q.pi = r.pi
BY DEF Orders

LEMMA OrderRow ==
  ASSUME NEW r \in Orders, NEW row \in Ordering!Rows
  PROVE  LET q == [r EXCEPT !.row = row]
         IN /\ q \in Orders /\ q.row = row
            /\ q.status = r.status /\ q.until = r.until /\ q.pi = r.pi
BY DEF Orders

LEMMA OrderUntil ==
  ASSUME NEW r \in Orders, NEW n \in Nat
  PROVE  LET q == [r EXCEPT !.until = n]
         IN /\ q \in Orders /\ q.until = n
            /\ q.status = r.status /\ q.row = r.row /\ q.pi = r.pi
BY DEF Orders

LEMMA OrderIntent ==
  ASSUME NEW r \in Orders, NEW n \in Nat
  PROVE  LET q == [r EXCEPT !.pi = n]
         IN /\ q \in Orders /\ q.pi = n
            /\ q.status = r.status /\ q.row = r.row /\ q.until = r.until
BY DEF Orders

LEMMA OrderRows ==
  ASSUME OrderInv, CountsDown, NEW t \in Tasks,
         \/ Ordering!CreatePayment(t) \/ Ordering!MarkAuthorized(t) \/ Ordering!OpenWindow(t)
         \/ Ordering!StartSearch(t) \/ Ordering!WriteCancelled(t) \/ Ordering!Expire(t)
  PROVE  OrderInv'
<1>0. /\ OrderTyped /\ StepFits(t) /\ my[t] \in Steps /\ OrderInv /\ clock \in Nat
      /\ \A o \in DOMAIN placed : RowFits(o) /\ placed[o] \in Orders
      /\ "idle" \in Ordering!Labels /\ "c_intent" \in Ordering!Labels /\ "a_mark" \in Ordering!Labels
      /\ "a_read" \in Ordering!Labels /\ "a_paid" \in Ordering!Labels
      /\ "e_settle" \in Ordering!Labels /\ Ordering!NoJob \in Steps
      /\ \A st \in {"CREATED", "PAID", "CANCELLED"} : st \in Ordering!Statuses
      /\ \A row \in {"pending", "authorized", "cancelled"} : row \in Ordering!Rows
  BY OrderSteps DEF OrderInv, OrderTyped, Ordering!Statuses, Ordering!Rows, Ordering!Labels
<1>1. CASE Ordering!CreatePayment(t)
  <2>1. PICK o \in DOMAIN placed : o = my[t].order /\ at[t] = "c_payment" /\ placed[o].row = "none"
    BY <1>0, <1>1 DEF Ordering!CreatePayment, StepFits
  <2> DEFINE r == [placed[o] EXCEPT !.row = "pending"]
             l == IF charging THEN "c_intent" ELSE "a_mark"
  <2>2. /\ r \in Orders /\ r.row = "pending" /\ r.status = placed[o].status /\ r.pi = placed[o].pi
        /\ r.until = placed[o].until
    BY <1>0, OrderRow
  <2>3. /\ placed' = [placed EXCEPT ![o] = r] /\ Ordering!Keep(t, l, my[t]) /\ l \in Ordering!Labels
        /\ UNCHANGED <<intents, forms, hooks, clock, charging>>
    BY <1>0, <1>1, <2>1 DEF Ordering!CreatePayment, Ordering!Go, Making, Holding
  <2>4. (l = "c_intent" /\ charging) \/ (l = "a_mark" /\ ~charging)
    OBVIOUS
  <2>5. placed[o].pi = 0 /\ (placed[o].status = "PAID" => placed[o].until # 0)
    BY <1>0, <2>1 DEF RowFits
  <2> HIDE DEF r, l
  <2>6. at'[t] = l /\ my'[t] = my[t] /\ placed'[o] = r /\ DOMAIN placed' = DOMAIN placed
    BY <1>0, <2>2, <2>3, OrderKeeps, OrderWrites DEF OrderTyped
  <2>8. StepFits(t)'
    BY <1>0, <2>1, <2>2, <2>3, <2>4, <2>5, <2>6 DEF StepFits, Holding
  <2> QED BY <1>0, <2>1, <2>2, <2>3, <2>4, <2>5, <2>8, OrderRecords DEF Making
<1>2. CASE Ordering!MarkAuthorized(t)
  <2>1. PICK o \in DOMAIN placed : o = my[t].order /\ at[t] = "a_mark"
    BY <1>0, <1>2 DEF Ordering!MarkAuthorized, StepFits
  <2> DEFINE row == IF placed[o].row \in {"pending", "failed"} THEN "authorized" ELSE placed[o].row
             r == [placed[o] EXCEPT !.row = row]
  <2>2. row \in Ordering!Rows
    BY <1>0 DEF Orders
  <2>3. /\ r \in Orders /\ r.row = row /\ r.status = placed[o].status /\ r.pi = placed[o].pi
        /\ r.until = placed[o].until
    BY <1>0, <2>2, OrderRow
  <2>4. /\ placed' = [placed EXCEPT ![o] = r] /\ Ordering!Keep(t, "a_read", my[t])
        /\ UNCHANGED <<intents, forms, hooks, clock, charging>>
    BY <1>0, <1>2, <2>1 DEF Ordering!MarkAuthorized, Ordering!Go
  <2>5. /\ row \in {"authorized", "cancelled"}
        /\ \/ row = placed[o].row
           \/ (row = "authorized" /\ placed[o].row \in {"pending", "failed"})
        /\ placed[o].status = "PAID" => placed[o].until # 0
    BY <1>0, <2>1 DEF StepFits, Holding, Orders, Ordering!Rows, RowFits
  <2> HIDE DEF r, row
  <2>6. at'[t] = "a_read" /\ my'[t] = my[t] /\ placed'[o] = r /\ DOMAIN placed' = DOMAIN placed
    BY <1>0, <2>3, <2>4, OrderKeeps, OrderWrites DEF OrderTyped, Holding
  <2>7. StepFits(t)'
    BY <1>0, <2>1, <2>3, <2>4, <2>5, <2>6 DEF StepFits, Holding
  <2> QED BY <1>0, <2>1, <2>3, <2>4, <2>5, <2>7, OrderRecords DEF Making, Holding
<1>3. CASE Ordering!OpenWindow(t)
  <2>1. PICK o \in DOMAIN placed : o = my[t].order /\ at[t] = "a_window"
    BY <1>0, <1>3 DEF Ordering!OpenWindow, StepFits
  <2> DEFINE n == clock + Window
             r == [placed[o] EXCEPT !.until = n]
  <2>2. n \in Nat /\ n # 0
    BY <1>0 DEF CountsDown
  <2>3. /\ r \in Orders /\ r.row = placed[o].row /\ r.status = placed[o].status /\ r.pi = placed[o].pi
        /\ r.until = n
    BY <1>0, <2>2, OrderUntil
  <2>4. /\ placed' = [placed EXCEPT ![o] = r] /\ Ordering!Keep(t, "a_paid", my[t])
        /\ UNCHANGED <<intents, forms, hooks, clock, charging>>
    BY <1>0, <1>3, <2>1 DEF Ordering!OpenWindow, Ordering!Go
  <2> HIDE DEF r, n
  <2>6. at'[t] = "a_paid" /\ my'[t] = my[t] /\ placed'[o] = r /\ DOMAIN placed' = DOMAIN placed
    BY <1>0, <2>3, <2>4, OrderKeeps, OrderWrites DEF OrderTyped, Holding
  <2>7. StepFits(t)'
    BY <1>0, <2>1, <2>2, <2>3, <2>4, <2>6 DEF StepFits, Holding
  <2> QED BY <1>0, <2>1, <2>2, <2>3, <2>4, <2>7, OrderRecords DEF Making, Holding
<1>4. CASE Ordering!StartSearch(t)
  <2>1. PICK o \in DOMAIN placed : o = my[t].order /\ at[t] = "a_paid" /\ placed[o].until # 0
    BY <1>0, <1>4 DEF Ordering!StartSearch, StepFits
  <2> DEFINE st == IF placed[o].status = "CREATED" THEN "PAID" ELSE placed[o].status
             r == [placed[o] EXCEPT !.status = st]
  <2>2. st \in Ordering!Statuses
    BY <1>0 DEF Orders
  <2>3. /\ r \in Orders /\ r.row = placed[o].row /\ r.until = placed[o].until /\ r.pi = placed[o].pi
        /\ r.until # 0
    BY <1>0, <2>1, <2>2, OrderStatus
  <2>4. /\ placed' = [placed EXCEPT ![o] = r] /\ Ordering!Keep(t, "idle", Ordering!NoJob)
        /\ UNCHANGED <<intents, forms, clock, charging>> /\ hooks' = hooks \ {my[t].intent}
        /\ hooks' \subseteq hooks
    BY <1>0, <1>4, <2>1 DEF Ordering!StartSearch, Ordering!End, Ordering!Answered
  <2>5. \A i \in hooks \ hooks' : intents[i].st = "held" => r.row = "authorized" /\ intents[i].of = o
    BY <1>0, <2>1, <2>3, <2>4, OrderAnswers DEF OrderTyped, Holding
  <2> HIDE DEF r, st
  <2>6. at'[t] = "idle"
    BY <1>0, <2>4, OrderKeeps
  <2>7. StepFits(t)'
    BY <2>6 DEF StepFits, Holding
  <2>8. /\ OrderInv /\ o \in DOMAIN placed /\ r \in Orders /\ placed' = [placed EXCEPT ![o] = r]
        /\ "idle" \in Ordering!Labels /\ "idle" \notin Making /\ Ordering!NoJob \in Steps
        /\ Ordering!Keep(t, "idle", Ordering!NoJob) /\ UNCHANGED <<intents, forms, clock, charging>>
        /\ r.pi = placed[o].pi /\ r.until = placed[o].until /\ r.until # 0 /\ r.row = placed[o].row
        /\ hooks' \subseteq hooks /\ StepFits(t)'
    BY <1>0, <2>1, <2>3, <2>4, <2>7 DEF Making
  <2> QED BY <2>5, <2>8, OrderRecords
<1>5. CASE Ordering!WriteCancelled(t)
  <2>1. PICK o \in DOMAIN placed : o = my[t].order /\ at[t] = "x_write"
    BY <1>0, <1>5 DEF Ordering!WriteCancelled, StepFits
  <2> DEFINE r == [placed[o] EXCEPT !.status = "CANCELLED"]
  <2>2. /\ r \in Orders /\ r.row = placed[o].row /\ r.until = placed[o].until /\ r.pi = placed[o].pi
        /\ r.status = "CANCELLED"
    BY <1>0, OrderStatus
  <2>3. /\ placed' = [placed EXCEPT ![o] = r] /\ Ordering!Keep(t, "idle", Ordering!NoJob)
        /\ UNCHANGED <<intents, forms, clock, charging, hooks>>
    BY <1>0, <1>5, <2>1 DEF Ordering!WriteCancelled, Ordering!End
  <2> HIDE DEF r
  <2>4. at'[t] = "idle"
    BY <1>0, <2>3, OrderKeeps
  <2>5. StepFits(t)'
    BY <2>4 DEF StepFits, Holding
  <2> QED BY <1>0, <2>1, <2>2, <2>3, <2>5, OrderRecords DEF Making
<1>6. CASE Ordering!Expire(t)
  <2>1. PICK o \in DOMAIN placed : /\ placed' = [placed EXCEPT ![o].status = "CANCELLED"]
                                   /\ Ordering!Begin(t, "e_settle", Ordering!Job(o, 0, 0))
    BY <1>6 DEF Ordering!Expire
  <2> DEFINE r == [placed[o] EXCEPT !.status = "CANCELLED"]
             j == Ordering!Job(o, 0, 0)
  <2>2. /\ r \in Orders /\ r.row = placed[o].row /\ r.until = placed[o].until /\ r.pi = placed[o].pi
        /\ r.status = "CANCELLED"
    BY <1>0, OrderStatus
  <2>3. /\ placed' = [placed EXCEPT ![o] = r] /\ Ordering!Keep(t, "e_settle", j)
        /\ UNCHANGED <<intents, forms, clock, charging, hooks>> /\ j \in Steps /\ j.order = o
    <3>1. o \in Nat
      BY <1>0 DEF OrderTyped
    <3>2. j \in Steps /\ j.order = o
      BY <3>1, OrderSteps
    <3>3. placed' = [placed EXCEPT ![o] = r]
      BY <2>1
    <3> HIDE DEF r
    <3> QED BY <1>6, <2>1, <3>2, <3>3 DEF Ordering!Expire, Ordering!Begin, Ordering!Keep
  <2> HIDE DEF r, j
  <2>4. at'[t] = "e_settle" /\ my'[t] = j /\ DOMAIN placed' = DOMAIN placed
    BY <1>0, <2>2, <2>3, OrderKeeps, OrderWrites DEF OrderTyped
  <2>5. StepFits(t)'
    BY <2>3, <2>4 DEF StepFits, Holding
  <2> QED BY <1>0, <2>2, <2>3, <2>5, OrderRecords DEF Making
<1> QED BY <1>1, <1>2, <1>3, <1>4, <1>5, <1>6
LEMMA OrderJobs ==
  ASSUME NEW s \in Steps, NEW n \in Nat
  PROVE  LET a == [s EXCEPT !.order = n]  b == [s EXCEPT !.intent = n]
         IN /\ a \in Steps /\ a.order = n /\ a.intent = s.intent
            /\ b \in Steps /\ b.intent = n /\ b.order = s.order
BY DEF Steps

\* An order, or an intent, is one more; nothing names it yet.
LEMMA OrderBegins ==
  ASSUME OrderInv, NEW t \in Tasks, Ordering!InsertOrder(t)
  PROVE  OrderInv'
<1>0. /\ OrderTyped /\ StepFits(t) /\ my[t] \in Steps /\ OrderInv /\ at[t] = "c_insert"
      /\ "idle" \in Ordering!Labels /\ "c_payment" \in Ordering!Labels /\ Ordering!NoJob \in Steps
      /\ UNCHANGED <<intents, forms, hooks, clock, charging>>
  BY OrderSteps DEF OrderInv, OrderTyped, Making, Ordering!InsertOrder
<1>1. CASE Ordering!End(t) /\ UNCHANGED placed
  <2>1. at'[t] = "idle" /\ Ordering!Keep(t, "idle", Ordering!NoJob)
    BY <1>0, <1>1, OrderKeeps DEF Ordering!End
  <2>2. StepFits(t)'
    BY <2>1 DEF StepFits, Holding
  <2> QED BY <1>0, <1>1, <2>1, <2>2, OrderReads DEF Making
<1> DEFINE n == Len(placed) + 1
           r == [number |-> my[t].number, status |-> "CREATED", until |-> 0, row |-> "none", pi |-> 0]
           j == [my[t] EXCEPT !.order = n]
<1>2. CASE placed' = Append(placed, r) /\ Ordering!Keep(t, "c_payment", j)
  <2>1. r \in Orders /\ r.row = "none" /\ r.pi = 0 /\ r.status = "CREATED"
    BY <1>0 DEF Orders, Steps, Ordering!Statuses, Ordering!Rows
  <2>2. n \in Nat /\ n \notin DOMAIN placed /\ j \in Steps /\ j.order = n /\ j.intent = my[t].intent
    <3>1. n \in Nat /\ n \notin DOMAIN placed
      BY <1>0 DEF OrderTyped
    <3> QED BY <1>0, <3>1, OrderJobs
  <2> HIDE DEF r
  <2>3. /\ placed' \in Seq(Orders) /\ DOMAIN placed' = DOMAIN placed \cup {n} /\ placed'[n] = r
        /\ \A p \in DOMAIN placed : placed'[p] = placed[p]
    BY <1>0, <1>2, <2>1 DEF OrderTyped
  <2> HIDE DEF n, j
  <2>4. /\ at' \in [Tasks -> Ordering!Labels] /\ my' \in [Tasks -> Steps]
        /\ at'[t] = "c_payment" /\ my'[t] = j
        /\ \A u \in Tasks \ {t} : at'[u] = at[u] /\ my'[u] = my[u]
    BY <1>0, <1>2, <2>2, OrderKeeps
  <2>5. OrderTyped'
    BY <1>0, <2>3, <2>4 DEF OrderTyped
  <2>6. OneMakes'
    <3>1. \A u \in Tasks : at[u] \in Making => my[u].order # n
      BY <2>2 DEF OrderInv, StepFits, Making
    <3> QED BY <2>2, <2>4, <3>1 DEF OrderInv, OneMakes
  <2>7. \A o \in DOMAIN placed' : RowFits(o)'
    BY <1>0, <2>1, <2>3 DEF OrderInv, RowFits
  <2>8. \A i \in DOMAIN intents' : CardFits(i)'
    BY <1>0, <2>2, <2>3 DEF OrderInv, CardFits
  <2>9. ASSUME NEW u \in Tasks \ {t} PROVE StepFits(u)'
    <3>1. StepFits(u) /\ at'[u] = at[u] /\ my'[u] = my[u]
      BY <2>4 DEF OrderInv
    <3>2. CASE at[u] \in {"idle", "c_insert"}
      BY <3>1, <3>2 DEF StepFits, Holding
    <3>3. CASE at[u] \notin {"idle", "c_insert"}
      BY <1>0, <2>3, <3>1, <3>3 DEF StepFits
    <3> QED BY <3>2, <3>3
  <2>10. StepFits(t)'
    BY <1>0, <2>1, <2>2, <2>3, <2>4 DEF StepFits, Holding
  <2> QED BY <2>5, <2>6, <2>7, <2>8, <2>9, <2>10 DEF OrderInv
<1> QED BY <1>1, <1>2 DEF Ordering!InsertOrder

LEMMA OrderCharges ==
  ASSUME OrderInv, NEW t \in Tasks, Ordering!CreateIntent(t)
  PROVE  OrderInv'
<1>0. /\ OrderTyped /\ StepFits(t) /\ my[t] \in Steps /\ OrderInv /\ at[t] = "c_intent"
      /\ "idle" \in Ordering!Labels /\ "c_link" \in Ordering!Labels /\ Ordering!NoJob \in Steps
      /\ UNCHANGED <<placed, forms, hooks, clock, charging>>
  BY OrderSteps DEF OrderInv, OrderTyped, Making, Ordering!CreateIntent
<1>1. CASE Ordering!End(t) /\ UNCHANGED intents
  <2>1. at'[t] = "idle" /\ Ordering!Keep(t, "idle", Ordering!NoJob)
    BY <1>0, <1>1, OrderKeeps DEF Ordering!End
  <2>2. StepFits(t)'
    BY <2>1 DEF StepFits, Holding
  <2> QED BY <1>0, <1>1, <2>1, <2>2, OrderReads DEF Making
<1> DEFINE n == Len(intents) + 1
           c == [of |-> my[t].order, st |-> "unpaid"]
           j == [my[t] EXCEPT !.intent = n]
<1>2. CASE intents' = Append(intents, c) /\ Ordering!Keep(t, "c_link", j)
  <2>1. c \in Cards /\ c.of = my[t].order /\ c.st = "unpaid"
    BY <1>0 DEF Cards, Steps
  <2>2. n \in Nat \ {0} /\ n \notin DOMAIN intents /\ j \in Steps /\ j.intent = n
        /\ j.order = my[t].order
    <3>1. n \in Nat \ {0} /\ n \notin DOMAIN intents
      BY <1>0 DEF OrderTyped
    <3> QED BY <1>0, <3>1, OrderJobs
  <2> HIDE DEF c
  <2>3. /\ intents' \in Seq(Cards) /\ DOMAIN intents' = DOMAIN intents \cup {n} /\ intents'[n] = c
        /\ \A i \in DOMAIN intents : intents'[i] = intents[i]
    BY <1>0, <1>2, <2>1 DEF OrderTyped
  <2> HIDE DEF n, j
  <2>4. /\ at' \in [Tasks -> Ordering!Labels] /\ my' \in [Tasks -> Steps]
        /\ at'[t] = "c_link" /\ my'[t] = j
        /\ \A u \in Tasks \ {t} : at'[u] = at[u] /\ my'[u] = my[u]
    BY <1>0, <1>2, <2>2, OrderKeeps
  <2>5. OrderTyped'
    BY <1>0, <2>3, <2>4 DEF OrderTyped
  <2>6. OneMakes'
    BY <1>0, <2>2, <2>4 DEF OrderInv, OneMakes, Making
  <2>7. \A o \in DOMAIN placed' : RowFits(o)'
    BY <1>0, <2>3 DEF OrderInv, RowFits
  <2>8. \A i \in DOMAIN intents' : CardFits(i)'
    <3>1. n \notin forms /\ n \notin hooks /\ my[t].order \in DOMAIN placed
      BY <1>0, <2>2 DEF OrderTyped, StepFits
    <3> QED BY <1>0, <2>1, <2>3, <3>1 DEF OrderInv, CardFits
  <2>9. ASSUME NEW u \in Tasks \ {t} PROVE StepFits(u)'
    <3>1. StepFits(u) /\ at'[u] = at[u] /\ my'[u] = my[u]
      BY <2>4 DEF OrderInv
    <3>2. my[u].order \in DOMAIN placed /\ placed[my[u].order].pi # 0
            => placed[my[u].order].pi \in DOMAIN intents
      BY DEF OrderInv, RowFits
    <3>3. CASE at[u] \in Holding
      <4>1. my[u].order \in DOMAIN placed
        BY <3>1, <3>3 DEF StepFits, Holding
      <4> QED BY <1>0, <2>3, <3>1, <3>2, <3>3, <4>1 DEF StepFits, Holding
    <3>4. CASE at[u] \notin Holding
      BY <1>0, <2>3, <3>1, <3>4 DEF StepFits
    <3> QED BY <3>3, <3>4
  <2>10. StepFits(t)'
    BY <1>0, <2>1, <2>2, <2>3, <2>4 DEF StepFits, Holding
  <2> QED BY <2>5, <2>6, <2>7, <2>8, <2>9, <2>10 DEF OrderInv
<1> QED BY <1>1, <1>2 DEF Ordering!CreateIntent

\* The row names the intent before anybody can pay it: nothing of the order is held yet.
LEMMA OrderLinks ==
  ASSUME OrderInv, NEW t \in Tasks, Ordering!LinkIntent(t)
  PROVE  OrderInv'
<1>0. /\ OrderTyped /\ StepFits(t) /\ my[t] \in Steps /\ OrderInv /\ at[t] = "c_link"
      /\ "idle" \in Ordering!Labels /\ Ordering!NoJob \in Steps
      /\ UNCHANGED <<intents, hooks, clock, charging>> /\ Ordering!Keep(t, "idle", Ordering!NoJob)
      /\ forms' \subseteq forms \cup {my[t].intent} /\ forms \subseteq forms'
  BY OrderSteps DEF OrderInv, OrderTyped, Making, Ordering!LinkIntent, Ordering!End
<1>1. PICK o \in DOMAIN placed : o = my[t].order
  BY <1>0 DEF StepFits
<1>2. PICK i \in DOMAIN intents : i = my[t].intent
  BY <1>0 DEF StepFits
<1> DEFINE r == [placed[o] EXCEPT !.pi = i]
<1>3. /\ intents[i].of = o /\ placed[o].row = "pending" /\ placed[o].pi = 0 /\ charging
      /\ i \in Nat \ {0} /\ placed[o] \in Orders /\ RowFits(o) /\ CardFits(i)
  BY <1>0, <1>1, <1>2 DEF StepFits, OrderTyped, OrderInv
<1>4. r \in Orders /\ r.pi = i /\ r.row = "pending" /\ r.status = placed[o].status
      /\ r.until = placed[o].until
  BY <1>3, OrderIntent
<1>5. placed' = [placed EXCEPT ![o] = r]
  BY <1>1, <1>2 DEF Ordering!LinkIntent
<1> HIDE DEF r
<1>6. /\ placed' \in Seq(Orders) /\ DOMAIN placed' = DOMAIN placed
      /\ placed'[o] = r /\ \A p \in DOMAIN placed \ {o} : placed'[p] = placed[p]
  BY <1>0, <1>4, <1>5, OrderWrites DEF OrderTyped
<1>7. /\ at' \in [Tasks -> Ordering!Labels] /\ my' \in [Tasks -> Steps] /\ at'[t] = "idle"
      /\ \A u \in Tasks \ {t} : at'[u] = at[u] /\ my'[u] = my[u]
  BY <1>0, OrderKeeps
<1>8. OrderTyped'
  BY <1>0, <1>2, <1>6, <1>7 DEF OrderTyped
<1>9. OneMakes'
  BY <1>7 DEF OrderInv, OneMakes, Making
<1>10. ASSUME NEW p \in DOMAIN placed PROVE RowFits(p)'
  <2>1. RowFits(p)
    BY DEF OrderInv
  <2>2. CASE p # o
    BY <1>0, <1>6, <2>1, <2>2 DEF RowFits
  <2>3. CASE p = o
    BY <1>0, <1>3, <1>4, <1>6, <2>1, <2>3 DEF RowFits
  <2> QED BY <2>2, <2>3
<1>11. ASSUME NEW k \in DOMAIN intents PROVE CardFits(k)'
  <2>1. CardFits(k) /\ k # 0
    BY <1>0 DEF OrderInv, OrderTyped
  <2>2. CASE intents[k].of # o
    BY <1>0, <1>2, <1>3, <1>6, <2>1, <2>2 DEF CardFits
  <2>3. CASE intents[k].of = o
    <3>1. k \notin forms /\ intents[k].st # "held" /\ k \notin hooks
      BY <1>3, <2>1, <2>3 DEF CardFits
    <3> QED BY <1>0, <1>2, <1>4, <1>6, <2>1, <2>3, <3>1 DEF CardFits
  <2> QED BY <2>2, <2>3
<1>12. ASSUME NEW u \in Tasks \ {t} PROVE StepFits(u)'
  <2>1. StepFits(u) /\ at'[u] = at[u] /\ my'[u] = my[u]
    BY <1>7 DEF OrderInv
  <2>2. CASE my[u].order # o
    BY <1>0, <1>6, <2>1, <2>2 DEF StepFits, Holding
  <2>3. CASE my[u].order = o
    <3>1. at[u] \notin Making /\ at[u] \notin Holding
      BY <1>0, <1>1, <1>3, <2>1, <2>3 DEF OrderInv, OneMakes, Making, StepFits
    <3> QED BY <1>0, <1>6, <2>1, <2>3, <3>1 DEF StepFits, Making, Holding
  <2> QED BY <2>2, <2>3
<1>13. StepFits(t)'
  BY <1>7 DEF StepFits, Holding
<1> QED BY <1>6, <1>8, <1>9, <1>10, <1>11, <1>12, <1>13, <1>0 DEF OrderInv
\* The customer confirms: nothing else of the order was held, and none of its handlers runs.
LEMMA OrderConfirms ==
  ASSUME OrderInv, Ordering!Confirm
  PROVE  OrderInv'
<1>1. PICK i \in forms :
        /\ intents[i].st = "unpaid"
        /\ \/ /\ intents' = [intents EXCEPT ![i].st = "held"] /\ hooks' = hooks \cup {i}
              /\ UNCHANGED placed
           \/ /\ placed[intents[i].of].row \in {"pending", "failed"}
              /\ placed' = [placed EXCEPT ![intents[i].of].row = "failed"]
              /\ UNCHANGED <<intents, hooks>>
  BY DEF Ordering!Confirm
<1>2. UNCHANGED <<forms, clock, charging, at, my>>
  BY DEF Ordering!Confirm
<1>3. /\ OrderTyped /\ i \in DOMAIN intents /\ CardFits(i) /\ i \in Nat \ {0} /\ intents[i] \in Cards
      /\ \A o \in DOMAIN placed : RowFits(o) /\ placed[o] \in Orders
      /\ \A k \in DOMAIN intents : CardFits(k) /\ k \in Nat \ {0}
  BY DEF OrderInv, OrderTyped
<1>4. PICK o \in DOMAIN placed : o = intents[i].of
  BY <1>3 DEF CardFits
<1>5. placed[o].pi = i /\ placed[o].row \notin {"none", "authorized", "cancelled"} /\ RowFits(o)
  BY <1>1, <1>3, <1>4 DEF CardFits, RowFits
<1>6. \A u \in Tasks : StepFits(u) /\ (my[u].order = o => at[u] \notin Making \cup Holding)
  <2> SUFFICES ASSUME NEW u \in Tasks
               PROVE  StepFits(u) /\ (my[u].order = o => at[u] \notin Making \cup Holding)
    OBVIOUS
  <2>1. StepFits(u)
    BY DEF OrderInv
  <2> QED BY <1>1, <1>3, <1>5, <2>1 DEF StepFits, Making
<1>7. OneMakes'
  BY <1>2 DEF OrderInv, OneMakes
<1>8. CASE /\ intents' = [intents EXCEPT ![i].st = "held"] /\ hooks' = hooks \cup {i}
           /\ UNCHANGED placed
  <2> DEFINE c == [intents[i] EXCEPT !.st = "held"]
  <2>1. c \in Cards /\ c.st = "held" /\ c.of = o
    BY <1>3, <1>4 DEF Cards
  <2>2. intents' = [intents EXCEPT ![i] = c]
    BY <1>8
  <2> HIDE DEF c
  <2>3. /\ intents' \in Seq(Cards) /\ DOMAIN intents' = DOMAIN intents /\ intents'[i] = c
        /\ \A k \in DOMAIN intents \ {i} : intents'[k] = intents[k]
    BY <1>3, <2>1, <2>2 DEF OrderTyped
  <2>4. OrderTyped'
    BY <1>2, <1>3, <1>8, <2>3 DEF OrderTyped
  <2>5. ASSUME NEW p \in DOMAIN placed PROVE RowFits(p)'
    <3>1. RowFits(p) /\ (placed[p].pi = i => p = o)
      BY <1>3, <1>4 DEF RowFits
    <3>2. CASE placed[p].pi # i
      BY <1>8, <2>3, <3>1, <3>2 DEF RowFits
    <3>3. CASE placed[p].pi = i
      BY <1>5, <1>8, <2>1, <2>3, <3>1, <3>3 DEF RowFits
    <3> QED BY <3>2, <3>3
  <2>6. ASSUME NEW k \in DOMAIN intents PROVE CardFits(k)'
    <3>1. CASE k # i
      BY <1>2, <1>3, <1>8, <2>3, <3>1 DEF CardFits
    <3>2. CASE k = i
      BY <1>2, <1>4, <1>5, <1>8, <2>1, <2>3, <3>2 DEF CardFits
    <3> QED BY <3>1, <3>2
  <2>7. ASSUME NEW u \in Tasks PROVE StepFits(u)'
    <3>1. StepFits(u) /\ (my[u].order = o => at[u] \notin Making \cup Holding)
      BY <1>6
    <3>2. my[u].order \in DOMAIN placed /\ placed[my[u].order].pi = i => my[u].order = o
      BY <1>3, <1>4 DEF RowFits
    <3>3. at[u] = "c_link" => my[u].intent \in DOMAIN intents /\ intents'[my[u].intent].of = my[u].order
      BY <2>1, <2>3, <1>4, <3>1 DEF StepFits
    <3>4. at[u] \in Holding /\ placed[my[u].order].pi # 0
          => intents'[placed[my[u].order].pi].st # "unpaid"
      <4> SUFFICES ASSUME at[u] \in Holding, placed[my[u].order].pi # 0
                   PROVE  intents'[placed[my[u].order].pi].st # "unpaid"
        OBVIOUS
      <4>1. my[u].order \in DOMAIN placed
        BY <3>1 DEF StepFits, Holding
      <4> QED BY <1>3, <2>1, <2>3, <3>1, <4>1 DEF StepFits, RowFits
    <3> QED BY <1>2, <1>8, <2>3, <3>1, <3>3, <3>4 DEF StepFits
  <2> QED BY <1>7, <1>8, <2>3, <2>4, <2>5, <2>6, <2>7 DEF OrderInv
<1>9. CASE placed' = [placed EXCEPT ![o].row = "failed"] /\ UNCHANGED <<intents, hooks>>
  <2> DEFINE r == [placed[o] EXCEPT !.row = "failed"]
  <2>1. /\ r \in Orders /\ r.row = "failed" /\ r.status = placed[o].status /\ r.until = placed[o].until
        /\ r.pi = i
    BY <1>3, <1>5, OrderRow DEF Ordering!Rows
  <2>2. placed' = [placed EXCEPT ![o] = r]
    BY <1>9
  <2> HIDE DEF r
  <2>3. /\ placed' \in Seq(Orders) /\ DOMAIN placed' = DOMAIN placed
        /\ placed'[o] = r /\ \A p \in DOMAIN placed \ {o} : placed'[p] = placed[p]
    BY <1>3, <2>1, <2>2, OrderWrites DEF OrderTyped
  <2>4. OrderTyped'
    BY <1>2, <1>3, <1>9, <2>3 DEF OrderTyped
  <2>5. ASSUME NEW p \in DOMAIN placed PROVE RowFits(p)'
    <3>1. CASE p # o
      BY <1>3, <1>9, <2>3, <3>1 DEF RowFits
    <3>2. CASE p = o
      BY <1>3, <1>5, <1>9, <2>1, <2>3, <3>2 DEF RowFits
    <3> QED BY <3>1, <3>2
  <2>6. ASSUME NEW k \in DOMAIN intents PROVE CardFits(k)'
    <3>1. CardFits(k)
      BY <1>3
    <3>2. CASE intents[k].of # o
      BY <1>2, <1>9, <2>3, <3>1, <3>2 DEF CardFits
    <3>3. CASE intents[k].of = o
      BY <1>1, <1>2, <1>5, <1>9, <2>1, <2>3, <3>1, <3>3 DEF CardFits
    <3> QED BY <3>2, <3>3
  <2>7. ASSUME NEW u \in Tasks PROVE StepFits(u)'
    <3>1. StepFits(u) /\ (my[u].order = o => at[u] \notin Making \cup Holding)
      BY <1>6
    <3>2. CASE my[u].order # o
      BY <1>2, <1>9, <2>3, <3>1, <3>2 DEF StepFits, Holding
    <3>3. CASE my[u].order = o
      BY <1>2, <1>9, <2>3, <3>1, <3>3 DEF StepFits, Making, Holding
    <3> QED BY <3>2, <3>3
  <2> QED BY <1>7, <1>9, <2>3, <2>4, <2>5, <2>6, <2>7 DEF OrderInv
<1> QED BY <1>1, <1>4, <1>8, <1>9

\* What is given back is the one hold of its order.
LEMMA OrderReleases ==
  ASSUME OrderInv, NEW o \in DOMAIN placed, Ordering!Release(o),
         UNCHANGED <<forms, hooks, clock, charging>>,
         at' \in [Tasks -> Ordering!Labels], my' \in [Tasks -> Steps],
         \A u \in Tasks : \/ at'[u] = at[u] /\ my'[u] = my[u]
                          \/ at'[u] = "idle"
                          \/ at'[u] = "x_write" /\ my'[u].order \in DOMAIN placed
  PROVE  OrderInv'
<1>0. /\ OrderTyped /\ RowFits(o) /\ placed[o] \in Orders
      /\ \A p \in DOMAIN placed : RowFits(p)
      /\ \A k \in DOMAIN intents : CardFits(k) /\ k \in Nat \ {0} /\ intents[k] \in Cards
      /\ \A u \in Tasks : StepFits(u)
  BY DEF OrderInv, OrderTyped
<1>1. OneMakes'
  BY DEF OrderInv, OneMakes, Making
<1>2. ASSUME UNCHANGED <<placed, intents>> PROVE OrderInv'
  <2>1. OrderTyped'
    BY <1>0, <1>2 DEF OrderTyped
  <2>2. \A p \in DOMAIN placed : RowFits(p)'
    BY <1>0, <1>2 DEF RowFits
  <2>3. \A k \in DOMAIN intents : CardFits(k)'
    BY <1>0, <1>2 DEF CardFits
  <2>4. \A u \in Tasks : StepFits(u)'
    BY <1>0, <1>2 DEF StepFits, Holding
  <2> QED BY <1>1, <1>2, <2>1, <2>2, <2>3, <2>4 DEF OrderInv
<1>3. ASSUME placed[o].row = "authorized", placed' = [placed EXCEPT ![o].row = "cancelled"],
             intents' = IF placed[o].pi = 0 THEN intents
                        ELSE [intents EXCEPT ![placed[o].pi].st = "canceled"]
      PROVE  OrderInv'
  <2> DEFINE r == [placed[o] EXCEPT !.row = "cancelled"]
  <2>1. /\ r \in Orders /\ r.row = "cancelled" /\ r.status = placed[o].status
           /\ r.until = placed[o].until
        /\ r.pi = placed[o].pi
    BY <1>0, OrderRow DEF Ordering!Rows
  <2>2. placed' = [placed EXCEPT ![o] = r]
    BY <1>3
  <2> HIDE DEF r
  <2>3. /\ placed' \in Seq(Orders) /\ DOMAIN placed' = DOMAIN placed
        /\ placed'[o] = r /\ \A p \in DOMAIN placed \ {o} : placed'[p] = placed[p]
    BY <1>0, <2>1, <2>2, OrderWrites DEF OrderTyped
  <2>4. /\ intents' \in Seq(Cards) /\ DOMAIN intents' = DOMAIN intents
        /\ placed[o].pi # 0 => intents'[placed[o].pi].st = "canceled"
        /\ \A k \in DOMAIN intents : /\ intents'[k].of = intents[k].of
                                     /\ k # placed[o].pi => intents'[k] = intents[k]
    <3>1. CASE placed[o].pi = 0
      BY <1>0, <1>3, <3>1 DEF OrderTyped
    <3>2. CASE placed[o].pi # 0
      <4>1. PICK i \in DOMAIN intents : i = placed[o].pi
        BY <1>0, <3>2 DEF RowFits
      <4> DEFINE c == [intents[i] EXCEPT !.st = "canceled"]
      <4>2. c \in Cards /\ c.st = "canceled" /\ c.of = intents[i].of
        BY <1>0 DEF Cards
      <4>3. intents' = [intents EXCEPT ![i] = c]
        BY <1>3, <3>2, <4>1
      <4> HIDE DEF c
      <4> QED BY <1>0, <4>1, <4>2, <4>3 DEF OrderTyped
    <3> QED BY <3>1, <3>2
  <2>5. OrderTyped'
    BY <1>0, <2>3, <2>4 DEF OrderTyped
  <2>6. ASSUME NEW p \in DOMAIN placed PROVE RowFits(p)'
    <3>1. RowFits(p)
      BY <1>0
    <3>2. CASE p # o
      <4>1. placed[p].pi # 0 => placed[p].pi # placed[o].pi
        BY <1>0, <3>2 DEF RowFits
      <4> QED BY <2>3, <2>4, <3>1, <3>2, <4>1 DEF RowFits
    <3>3. CASE p = o
      BY <2>1, <2>3, <2>4, <3>1, <3>3 DEF RowFits
    <3> QED BY <3>2, <3>3
  <2>7. ASSUME NEW k \in DOMAIN intents PROVE CardFits(k)'
    <3>1. CardFits(k) /\ k # 0
      BY <1>0
    <3>2. CASE intents[k].of # o
      <4>1. k # placed[o].pi
        BY <1>0, <3>1, <3>2 DEF RowFits
      <4> QED BY <2>3, <2>4, <3>1, <3>2, <4>1 DEF CardFits
    <3>3. CASE intents[k].of = o
      <4>1. CASE k = placed[o].pi
        BY <1>0, <1>3, <2>1, <2>3, <2>4, <3>1, <3>3, <4>1 DEF CardFits, RowFits
      <4>2. CASE k # placed[o].pi
        BY <2>1, <2>3, <2>4, <3>1, <3>3, <4>2 DEF CardFits
      <4> QED BY <4>1, <4>2
    <3> QED BY <3>2, <3>3
  <2>8. ASSUME NEW u \in Tasks, at'[u] = at[u], my'[u] = my[u] PROVE StepFits(u)'
    <3>1. StepFits(u)
      BY <1>0
    <3>2. CASE at[u] \in Holding
      <4>1. my[u].order \in DOMAIN placed /\ RowFits(my[u].order)
        BY <1>0, <3>1, <3>2 DEF StepFits, Holding
      <4>2. placed[my[u].order].pi # 0 => intents'[placed[my[u].order].pi].st # "unpaid"
        BY <2>4, <3>1, <3>2, <4>1 DEF StepFits, RowFits
      <4>3. CASE my[u].order # o
        BY <2>3, <2>8, <3>1, <3>2, <4>1, <4>2, <4>3 DEF StepFits, Holding
      <4>4. CASE my[u].order = o
        BY <2>1, <2>3, <2>8, <3>1, <3>2, <4>1, <4>2, <4>4 DEF StepFits, Holding
      <4> QED BY <4>3, <4>4
    <3>3. CASE at[u] \notin Holding
      <4>1. at[u] \in Making => my[u].order # o
        BY <1>0, <1>3, <3>1 DEF StepFits, Making
      <4> QED BY <2>3, <2>4, <2>8, <3>1, <3>3, <4>1 DEF StepFits, Making, Holding
    <3> QED BY <3>2, <3>3
  <2>9. ASSUME NEW u \in Tasks, \/ at'[u] = "idle"
                                \/ at'[u] = "x_write" /\ my'[u].order \in DOMAIN placed
        PROVE  StepFits(u)'
    BY <2>3, <2>9 DEF StepFits, Holding
  <2> QED BY <1>1, <2>3, <2>4, <2>5, <2>6, <2>7, <2>8, <2>9 DEF OrderInv
<1> QED BY <1>2, <1>3 DEF Ordering!Release
LEMMA OrderGivesBack ==
  ASSUME OrderInv,
         \/ Ordering!ReleaseStranded \/ Ordering!Tick
         \/ \E t \in Tasks : Ordering!SettleCancelled(t) \/ Ordering!SettleExpired(t)
  PROVE  OrderInv'
<1>1. CASE Ordering!ReleaseStranded
  <2>1. PICK o \in DOMAIN placed : Ordering!Release(o)
    BY <1>1 DEF Ordering!ReleaseStranded
  <2>2. UNCHANGED <<forms, hooks, clock, charging, at, my>>
    BY <1>1 DEF Ordering!ReleaseStranded
  <2> QED BY <2>1, <2>2, OrderReleases DEF OrderInv, OrderTyped
<1>2. CASE Ordering!Tick
  <2>1. clock' = clock + 1 /\ UNCHANGED <<placed, intents, forms, hooks, charging, at, my>>
    BY <1>2 DEF Ordering!Tick
  <2> QED BY <2>1 DEF OrderInv, OrderTyped, OneMakes, RowFits, CardFits, StepFits
<1>3. ASSUME NEW t \in Tasks, Ordering!SettleCancelled(t) \/ Ordering!SettleExpired(t)
      PROVE  OrderInv'
  <2>1. /\ OrderTyped /\ StepFits(t) /\ my[t] \in Steps /\ at[t] \in {"x_settle", "e_settle"}
        /\ Ordering!Release(my[t].order) /\ UNCHANGED <<forms, hooks, clock, charging>>
        /\ Ordering!NoJob \in Steps /\ {"idle", "x_write"} \subseteq Ordering!Labels
    BY <1>3, OrderSteps DEF OrderInv, OrderTyped, Ordering!SettleCancelled, Ordering!SettleExpired
  <2>2. PICK o \in DOMAIN placed : o = my[t].order
    BY <2>1 DEF StepFits
  <2>3. Ordering!Keep(t, "x_write", my[t]) \/ Ordering!Keep(t, "idle", Ordering!NoJob)
    BY <1>3 DEF Ordering!SettleCancelled, Ordering!SettleExpired, Ordering!Go, Ordering!End
  <2>4. /\ at' \in [Tasks -> Ordering!Labels] /\ my' \in [Tasks -> Steps]
        /\ at'[t] = "idle" \/ (at'[t] = "x_write" /\ my'[t] = my[t])
        /\ \A u \in Tasks \ {t} : at'[u] = at[u] /\ my'[u] = my[u]
    <3>1. CASE Ordering!Keep(t, "x_write", my[t])
      BY <2>1, <3>1, OrderKeeps
    <3>2. CASE Ordering!Keep(t, "idle", Ordering!NoJob)
      BY <2>1, <3>2, OrderKeeps
    <3> QED BY <2>3, <3>1, <3>2
  <2> QED BY <2>1, <2>2, <2>4, OrderReleases
<1> QED BY <1>1, <1>2, <1>3

LEMMA OrderInit == Ordering!Init => OrderInv
<1> SUFFICES ASSUME Ordering!Init PROVE OrderInv
  OBVIOUS
<1>1. OrderTyped
  BY OrderSteps DEF Ordering!Init, OrderTyped
<1>2. \A t \in Tasks : at[t] = "idle"
  BY DEF Ordering!Init
<1>3. DOMAIN placed = {} /\ DOMAIN intents = {}
  BY DEF Ordering!Init
<1> QED BY <1>1, <1>2, <1>3 DEF OrderInv, OneMakes, Making, StepFits, Holding

LEMMA OrderStep ==
  ASSUME CountsDown
  PROVE  OrderInv /\ (Ordering!Next \/ UNCHANGED <<orderingState, at, my>>) => OrderInv'
<1>1. CASE UNCHANGED <<orderingState, at, my>>
  <2>1. UNCHANGED <<placed, intents, forms, hooks, clock, charging, at, my>>
    BY <1>1 DEF orderingState
  <2> QED BY <2>1 DEF OrderInv, OrderTyped, OneMakes, RowFits, CardFits, StepFits
<1>2. ASSUME OrderInv, Ordering!Next PROVE OrderInv'
  BY <1>2, OrderTasks, OrderRows, OrderBegins, OrderCharges, OrderLinks, OrderConfirms,
     OrderGivesBack DEF Ordering!Next
<1> QED BY <1>1, <1>2

LEMMA OrderHolds == OrderInv => Ordering!OrderingHolds
<1> SUFFICES ASSUME OrderInv PROVE Ordering!OrderingHolds
  OBVIOUS
<1>1. Ordering!PaidHasDeadline
  BY DEF OrderInv, RowFits, Ordering!PaidHasDeadline
<1>2. Ordering!HeldIsKnown
  BY DEF OrderInv, CardFits, Ordering!HeldIsKnown
<1>3. Ordering!HoldsAreFound
  BY DEF OrderInv, CardFits, Ordering!HoldsAreFound
<1> QED BY <1>1, <1>2, <1>3 DEF Ordering!OrderingHolds

-----------------------------------------------------------------------------
(***************************************************************************)
(* The quota of free reports, and what a purchase unlocks.  An erasure and the  *)
(* creations and removals of reports do not overlap, and of those who attach a   *)
(* report to an order one runs at a time; a link of an upload that cannot be     *)
(* signed, and a process that dies between a credit and its row, are not meant. *)
(***************************************************************************)
IntakeCalm ==
  /\ {{"erase", "create"}, {"erase", "removeReport"}, {"attachReportByCode"}} \subseteq Apart
  /\ "sign" \notin IntakeRefuses
  /\ IntakeDiesAt \cap {"c_row", "c_back", "c_key", "c_sign", "submit", "submitted", "r_row",
                  "e_grant", "e_quota"} = {}
  /\ NoOrder \notin Booked /\ IsFiniteSet(Tasks)
  /\ MaxReports \in Nat /\ Attempts \in Nat \ {0} /\ PurchaseCap \in Nat

IntakeTyped ==
  /\ rep \in Seq(Intake!ReportRows) /\ Len(rep) <= MaxReports
  /\ pdf \subseteq Intake!Reports /\ IsFiniteSet(grants) /\ grants \subseteq Devices
  /\ used \in [Devices -> Int] /\ pro \in [Devices -> BOOLEAN]
  /\ orders \in [Booked -> Intake!Attachable \cup {"SUBMITTED"}]
  /\ at \in [Tasks -> Intake!Labels] /\ my \in [Tasks -> Intake!Jobs]

IntakeCreating == {"c_find", "c_reuse", "c_quota", "c_credit", "c_row", "c_back", "c_key", "c_sign"}
IntakeFiling == {"c_key", "c_sign", "submit", "submitted"}
IntakeKnows(l, j, rows) ==
  /\ l = "idle" => j = Intake!NoJob
  /\ l \in IntakeCreating => j.op = "create" /\ j.dev \in Devices /\ j.code \in Codes
  /\ l \in {"c_find", "c_reuse", "c_quota", "c_credit"} => j.tier = "free"
  /\ l \in IntakeFiling \cup {"c_reuse", "update", "f_head", "f_write", "r_object", "r_row", "a_write"}
       => j.id \in DOMAIN rows
  /\ l \in {"submit", "submitted"} => j.order \in Booked
  /\ l \in IntakeFiling => j.order \in {NoOrder, rows[j.id].order}
  /\ l \in {"a_order", "a_report", "a_write"} => j.op = "attachReportByCode" /\ j.order \in Booked
  /\ l = "a_write" => rows[j.id].order \in {NoOrder, j.order}
  /\ l \in {"r_object", "r_row"} => j.op = "removeReport" /\ rows[j.id].st # "erased"
  /\ l \in {"g_read", "g_commit"} => j.op = "grantPro" /\ j.dev \in Devices
  /\ l = "g_commit" => j.dev \in j.seen \/ Cardinality(j.seen) < PurchaseCap
  /\ l \in {"e_reports", "e_grant", "e_quota"} => j.op = "erase" /\ j.dev \in Devices
  /\ l \in {"e_grant", "e_quota"}
       => \A r \in DOMAIN rows : rows[r].dev = j.dev => rows[r].st = "erased"
IntakePlaced == \A t \in Tasks : IntakeKnows(at[t], my[t], rep)

IntakeMeet(a, b) ==
  (a = "erase" /\ b \in {"create", "removeReport"}) \/ (a = b /\ b = "attachReportByCode")
IntakeAlone == \A t, u \in Tasks : t # u => ~IntakeMeet(my[t].op, my[u].op)

IntakeFiled ==
  /\ Intake!SubmittedHasReport
  /\ \A r \in Intake!Reports : rep[r].order # NoOrder =>
       \/ orders[rep[r].order] = "SUBMITTED"
       \/ \E t \in Tasks : at[t] \in IntakeFiling /\ my[t].order = rep[r].order

IntakeRemoving(r) == \E t \in Tasks : at[t] = "r_row" /\ my[t].id = r
IntakeStored ==
  /\ \A r \in Intake!Live : rep[r].up => r \in pdf \/ IntakeRemoving(r)
  /\ \A t \in Tasks : at[t] = "f_write" /\ my[t].id \in Intake!Live
       => my[t].id \in pdf \/ IntakeRemoving(my[t].id)

IntakeWiping(d) == \E t \in Tasks : at[t] \in {"e_grant", "e_quota"} /\ my[t].dev = d
IntakeGrants == Cardinality(grants) <= PurchaseCap /\ \A d \in Devices : pro[d] => d \in grants
  \/ IntakeWiping(d)

IntakeCredits ==
  \A d \in Devices : IntakeWiping(d)
    \/ used[d] = Cardinality(Intake!FreeReports(d)) + Cardinality(Intake!InFlight(d))

IntakeInv == /\ IntakeTyped /\ IntakePlaced /\ IntakeAlone
             /\ IntakeFiled /\ IntakeStored /\ IntakeGrants /\ IntakeCredits

-----------------------------------------------------------------------------
LEMMA IntakeCounting == \A S : Intake!Cardinality(S) = Cardinality(S)
BY DEF Intake!Cardinality, Cardinality

LEMMA IntakeMove ==
  ASSUME IntakeTyped, NEW t \in Tasks, NEW l \in Intake!Labels, NEW j \in Intake!Jobs,
         Intake!Keep(t, l, j)
  PROVE  /\ at' \in [Tasks -> Intake!Labels] /\ my' \in [Tasks -> Intake!Jobs]
         /\ at'[t] = l /\ my'[t] = j
         /\ \A u \in Tasks : u # t => at'[u] = at[u] /\ my'[u] = my[u]
BY DEF IntakeTyped, Intake!Keep

LEMMA IntakeJobs ==
  ASSUME IntakeCalm
  PROVE  /\ Intake!NoJob \in Intake!Jobs /\ Intake!NoJob.op = "none"
         /\ \A j \in Intake!Jobs, k \in 1 .. MaxReports :
              /\ [j EXCEPT !.id = k] \in Intake!Jobs /\ [j EXCEPT !.id = k].id = k
              /\ [j EXCEPT !.id = k].op = j.op /\ [j EXCEPT !.id = k].dev = j.dev
              /\ [j EXCEPT !.id = k].code = j.code /\ [j EXCEPT !.id = k].order = j.order
              /\ [j EXCEPT !.id = k].tier = j.tier
BY DEF IntakeCalm, Intake!Jobs, Intake!NoJob

LEMMA IntakeRows ==
  ASSUME IntakeTyped, NEW i \in Intake!Reports, NEW x \in Intake!ReportRows
  PROVE  /\ [rep EXCEPT ![i] = x] \in Seq(Intake!ReportRows)
         /\ Len([rep EXCEPT ![i] = x]) = Len(rep)
         /\ \A r \in Intake!Reports : [rep EXCEPT ![i] = x][r] = IF r = i THEN x ELSE rep[r]
<1>1. rep \in Seq(Intake!ReportRows) /\ i \in 1 .. Len(rep)
  BY DEF IntakeTyped, Intake!Reports
<1> QED BY <1>1, ExceptSeq DEF Intake!Reports

\* The rows are as they were, but for their flags.
IntakeQuiet ==
  /\ rep' \in Seq(Intake!ReportRows) /\ Len(rep') = Len(rep)
  /\ \A r \in Intake!Reports : /\ rep'[r].dev = rep[r].dev /\ rep'[r].order = rep[r].order
                        /\ rep'[r].tier = rep[r].tier /\ rep'[r].st = rep[r].st

LEMMA IntakeFlags ==
  ASSUME IntakeTyped, NEW i \in Intake!Reports, NEW x \in Intake!ReportRows,
         rep' = [rep EXCEPT ![i] = x], x.dev = rep[i].dev, x.order = rep[i].order,
         x.tier = rep[i].tier, x.st = rep[i].st
  PROVE  IntakeQuiet /\ \A r \in Intake!Reports : rep'[r] = IF r = i THEN x ELSE rep[r]
BY IntakeRows DEF IntakeQuiet

LEMMA IntakeQuietKnows ==
  ASSUME IntakeTyped, IntakeQuiet, NEW l, NEW j, IntakeKnows(l, j, rep)
  PROVE  IntakeKnows(l, j, rep')
<1>1. DOMAIN rep' = DOMAIN rep /\ DOMAIN rep = Intake!Reports
  BY DEF IntakeTyped, IntakeQuiet, Intake!Reports
<1> QED BY <1>1 DEF IntakeQuiet, IntakeKnows, IntakeFiling

IntakeCounts(l, j) == l \in {"c_row", "c_back"} /\ j.tier = "free"

\* A step that leaves the rows but for their flags, the credits and the orders.
LEMMA IntakeLocal ==
  ASSUME IntakeCalm, IntakeInv, NEW t \in Tasks, NEW l \in Intake!Labels, NEW j \in Intake!Jobs,
         Intake!Keep(t, l, j),
         IntakeQuiet, UNCHANGED <<pdf, Intake!quotaState, orders>>, IntakeKnows(l, j, rep),
         \A u \in Tasks : u # t => ~IntakeMeet(j.op, my[u].op) /\ ~IntakeMeet(my[u].op, j.op),
         at[t] \in IntakeFiling /\ my[t].order # NoOrder =>
           (l \in IntakeFiling /\ j.order = my[t].order) \/ orders[my[t].order] = "SUBMITTED",
         at[t] \notin {"r_row", "e_grant", "e_quota"}, l \notin {"e_grant", "e_quota"},
         l = "f_write" /\ j.id \in Intake!Live => j.id \in pdf \/ IntakeRemoving(j.id),
         \A r \in Intake!Live : rep'[r].up => rep[r].up \/ r \in pdf \/ IntakeRemoving(r),
         IntakeCounts(at[t], my[t]) <=> IntakeCounts(l, j), IntakeCounts(l, j) => j.dev = my[t].dev
  PROVE  IntakeInv'
<1>0. IntakeTyped /\ DOMAIN rep = Intake!Reports /\ Intake!Reports' = Intake!Reports
  BY DEF IntakeInv, IntakeTyped, Intake!Reports, IntakeQuiet
<1>1. /\ at' \in [Tasks -> Intake!Labels] /\ my' \in [Tasks -> Intake!Jobs]
      /\ at'[t] = l /\ my'[t] = j
      /\ \A u \in Tasks : u # t => at'[u] = at[u] /\ my'[u] = my[u]
  BY <1>0, IntakeMove
<1>2. IntakeTyped'
  BY <1>0, <1>1 DEF IntakeTyped, IntakeQuiet, Intake!quotaState
<1>3. IntakePlaced'
  <2>1. \A u \in Tasks : IntakeKnows(at'[u], my'[u], rep)
    BY <1>1 DEF IntakeInv, IntakePlaced
  <2> QED BY <1>0, <2>1, IntakeQuietKnows DEF IntakePlaced
<1>4. IntakeAlone'
  BY <1>1 DEF IntakeInv, IntakeAlone
<1>5. IntakeFiled'
  <2>1. Intake!SubmittedHasReport'
    BY <1>0 DEF IntakeInv, IntakeFiled, Intake!SubmittedHasReport, IntakeQuiet
  <2>2. ASSUME NEW r \in Intake!Reports, rep'[r].order # NoOrder
        PROVE  \/ orders'[rep'[r].order] = "SUBMITTED"
               \/ \E u \in Tasks : at'[u] \in IntakeFiling /\ my'[u].order = rep'[r].order
    <3>1. rep'[r].order = rep[r].order
      BY <2>2 DEF IntakeQuiet
    <3>2. \/ orders[rep[r].order] = "SUBMITTED"
          \/ \E u \in Tasks : at[u] \in IntakeFiling /\ my[u].order = rep[r].order
      BY <2>2, <3>1 DEF IntakeInv, IntakeFiled
    <3> QED BY <1>1, <2>2, <3>1, <3>2
  <2> QED BY <1>0, <2>1, <2>2 DEF IntakeFiled
<1>6. IntakeStored'
  <2>1. Intake!Live' = Intake!Live
    BY <1>0 DEF Intake!Live, IntakeQuiet
  <2>2. \A r : IntakeRemoving(r) => IntakeRemoving(r)'
    BY <1>1 DEF IntakeRemoving
  <2> QED BY <1>1, <2>1, <2>2 DEF IntakeInv, IntakeStored, Intake!Live
<1>7. \A d \in Devices : IntakeWiping(d)' = IntakeWiping(d)
  BY <1>1 DEF IntakeWiping
<1>8. IntakeGrants'
  BY <1>7 DEF IntakeInv, IntakeGrants, Intake!quotaState
<1>9. IntakeCredits'
  <2>1. ASSUME NEW d \in Devices PROVE Intake!FreeReports(d)' = Intake!FreeReports(d)
    BY <1>0 DEF Intake!FreeReports, IntakeQuiet
  <2>2. ASSUME NEW d \in Devices PROVE Intake!InFlight(d)' = Intake!InFlight(d)
    BY <1>1 DEF Intake!InFlight, IntakeCounts
  <2> QED BY <1>7, <2>1, <2>2 DEF IntakeInv, IntakeCredits, Intake!quotaState
<1> QED BY <1>2, <1>3, <1>4, <1>5, <1>6, <1>8, <1>9 DEF IntakeInv

LEMMA IntakeQuietStays == IntakeTyped /\ UNCHANGED rep => IntakeQuiet
BY DEF IntakeTyped, IntakeQuiet, Intake!Reports

LEMMA IntakeBegins ==
  ASSUME IntakeCalm, IntakeInv, NEW t \in Tasks, NEW l \in Intake!Labels, NEW j \in Intake!Jobs,
         Intake!Begin(t, l, j),
         UNCHANGED <<rep, pdf, Intake!quotaState, orders>>, IntakeKnows(l, j, rep),
         l \notin {"f_write", "e_grant", "e_quota", "c_row", "c_back"}
  PROVE  IntakeInv'
<1>1. Intake!Keep(t, l, j) /\ at[t] = "idle" /\ \A u \in Tasks : {j.op, my[u].op} \notin Apart
  BY DEF Intake!Begin, Intake!Keep
<1>2. ASSUME NEW u \in Tasks PROVE ~IntakeMeet(j.op, my[u].op) /\ ~IntakeMeet(my[u].op, j.op)
  <2>1. {j.op, my[u].op} = {my[u].op, j.op}
    OBVIOUS
  <2>2. {j.op, my[u].op} \notin Apart
    BY <1>1
  <2>3. {"erase", "create"} \in Apart /\ {"erase", "removeReport"} \in Apart
        /\ {"attachReportByCode"} \in Apart /\ {"attachReportByCode",
           "attachReportByCode"} = {"attachReportByCode"}
    BY DEF IntakeCalm
  <2> QED BY <2>1, <2>2, <2>3 DEF IntakeMeet
<1>3. IntakeQuiet /\ \A r \in Intake!Live : rep'[r].up => rep[r].up
  BY IntakeQuietStays DEF IntakeInv
<1>4. at[t] \notin IntakeFiling \cup {"c_row", "c_back"}
  BY <1>1 DEF IntakeFiling
<1> QED BY <1>1, <1>2, <1>3, <1>4, IntakeLocal DEF IntakeCounts

LEMMA IntakeRanges ==
  ASSUME IntakeCalm, IntakeInv
  PROVE  /\ Intake!NoJob \in Intake!Jobs /\ DOMAIN rep = Intake!Reports /\ 1 \in 0 .. Attempts
            /\ 0 \in 0 .. Attempts
         /\ \A r \in Intake!Reports : r \in 0 .. MaxReports /\ r \in 1 .. MaxReports
            /\ rep[r] \in Intake!ReportRows
<1>1. DOMAIN rep = Intake!Reports /\ \A r \in Intake!Reports : r \in 0 .. MaxReports
      /\ r \in 1 .. MaxReports
  BY DEF IntakeInv, IntakeTyped, IntakeCalm, Intake!Reports
<1>2. \A r \in Intake!Reports : rep[r] \in Intake!ReportRows
  BY DEF IntakeInv, IntakeTyped, Intake!Reports
<1>3. 1 \in 0 .. Attempts /\ 0 \in 0 .. Attempts
  BY DEF IntakeCalm
<1> QED BY <1>1, <1>2, <1>3, IntakeJobs

LEMMA IntakeCalled ==
  ASSUME IntakeCalm, IntakeInv, NEW t \in Tasks, Intake!Called(t)
  PROVE  IntakeInv'
<1>0. /\ Intake!NoJob \in Intake!Jobs /\ DOMAIN rep = Intake!Reports /\ 1 \in 0 .. Attempts
      /\ \A r \in Intake!Reports : r \in 0 .. MaxReports /\ rep[r] \in Intake!ReportRows
  BY IntakeRanges
<1>1. ASSUME Intake!Create(t) PROVE IntakeInv'
  <2>1. PICK d \in Devices, c \in Codes, o \in Booked \cup {NoOrder} :
          Intake!Begin(t, "c_find", [Intake!NoJob EXCEPT !.op = "create", !.dev = d, !.code = c,
            !.order = o])
    BY <1>1 DEF Intake!Create
  <2> DEFINE j == [Intake!NoJob EXCEPT !.op = "create", !.dev = d, !.code = c, !.order = o]
  <2>2. j \in Intake!Jobs /\ IntakeKnows("c_find", j, rep) /\ "c_find" \in Intake!Labels
    BY <1>0 DEF Intake!Jobs, Intake!NoJob, Intake!HandlerNames, IntakeKnows, IntakeFiling,
       Intake!Labels
  <2> HIDE DEF j
  <2> QED BY <1>1, <2>1, <2>2, IntakeBegins DEF Intake!Create, j
<1>2. ASSUME Intake!Attach(t) PROVE IntakeInv'
  <2>1. PICK o \in Booked, c \in Codes :
          Intake!Begin(t, "a_order", [Intake!NoJob EXCEPT !.op = "attachReportByCode", !.order = o,
            !.code = c])
    BY <1>2 DEF Intake!Attach
  <2> DEFINE j == [Intake!NoJob EXCEPT !.op = "attachReportByCode", !.order = o, !.code = c]
  <2>2. j \in Intake!Jobs /\ IntakeKnows("a_order", j, rep) /\ "a_order" \in Intake!Labels
    BY <1>0 DEF Intake!Jobs, Intake!NoJob, Intake!HandlerNames, IntakeKnows, IntakeFiling,
       Intake!Labels, IntakeCreating
  <2> HIDE DEF j
  <2> QED BY <1>2, <2>1, <2>2, IntakeBegins DEF Intake!Attach, j
<1>3. ASSUME NEW op \in {"update", "complete", "removeReport"},
             NEW l \in {"update", "f_head", "r_object"},
             l = "r_object" => op = "removeReport", Intake!OnReport(t, op, l)
      PROVE  IntakeInv'
  <2>1. PICK r \in Intake!Live : Intake!Begin(t, l,
             [Intake!NoJob EXCEPT !.op = op, !.dev = rep[r].dev, !.id = r])
    BY <1>3 DEF Intake!OnReport
  <2> DEFINE j == [Intake!NoJob EXCEPT !.op = op, !.dev = rep[r].dev, !.id = r]
  <2>2. r \in Intake!Reports /\ rep[r].st = "live" /\ rep[r].dev \in Devices
    BY <1>0 DEF Intake!Live, Intake!ReportRows
  <2>3. j \in Intake!Jobs
    BY <1>0, <2>2, <1>3 DEF Intake!Jobs, Intake!NoJob, Intake!HandlerNames
  <2>4. l \in Intake!Labels /\ IntakeKnows(l, j, rep)
    BY <1>0, <2>2, <1>3 DEF Intake!NoJob, IntakeKnows, IntakeFiling, Intake!Labels, IntakeCreating
  <2> HIDE DEF j
  <2> QED BY <1>3, <2>1, <2>3, <2>4, IntakeBegins DEF Intake!OnReport, j
<1>4. ASSUME Intake!GrantPro(t) PROVE IntakeInv'
  <2>1. PICK d \in Devices : Intake!Begin(t, "g_read",
             [Intake!NoJob EXCEPT !.op = "grantPro", !.dev = d, !.n = 1])
    BY <1>4 DEF Intake!GrantPro
  <2> DEFINE j == [Intake!NoJob EXCEPT !.op = "grantPro", !.dev = d, !.n = 1]
  <2>2. j \in Intake!Jobs /\ IntakeKnows("g_read", j, rep) /\ "g_read" \in Intake!Labels
    BY <1>0 DEF Intake!Jobs, Intake!NoJob, Intake!HandlerNames, IntakeKnows, IntakeFiling,
       Intake!Labels, IntakeCreating
  <2> HIDE DEF j
  <2> QED BY <1>4, <2>1, <2>2, IntakeBegins DEF Intake!GrantPro, j
<1>5. ASSUME Intake!Erase(t) PROVE IntakeInv'
  <2>1. PICK d \in Devices : Intake!Begin(t, "e_reports",
             [Intake!NoJob EXCEPT !.op = "erase", !.dev = d])
    BY <1>5 DEF Intake!Erase
  <2> DEFINE j == [Intake!NoJob EXCEPT !.op = "erase", !.dev = d]
  <2>2. j \in Intake!Jobs /\ IntakeKnows("e_reports", j, rep) /\ "e_reports" \in Intake!Labels
    BY <1>0 DEF Intake!Jobs, Intake!NoJob, Intake!HandlerNames, IntakeKnows, IntakeFiling,
       Intake!Labels, IntakeCreating
  <2> HIDE DEF j
  <2> QED BY <1>5, <2>1, <2>2, IntakeBegins DEF Intake!Erase, j
<1> QED BY <1>1, <1>2, <1>3, <1>4, <1>5 DEF Intake!Called, Intake!Update, Intake!Complete,
           Intake!RemoveReport

\* The step of a handler that goes on, and of one that ends, without touching the data.
LEMMA IntakeGoes ==
  ASSUME IntakeCalm, IntakeInv, NEW t \in Tasks, NEW l \in Intake!Labels, NEW j \in Intake!Jobs,
         Intake!Keep(t, l, j),
         IntakeQuiet, UNCHANGED <<pdf, Intake!quotaState, orders>>, IntakeKnows(l, j, rep),
           j.op = my[t].op,
         at[t] \in IntakeFiling /\ my[t].order # NoOrder =>
           (l \in IntakeFiling /\ j.order = my[t].order) \/ orders[my[t].order] = "SUBMITTED",
         at[t] \notin {"r_row", "e_grant", "e_quota"}, l \notin {"e_grant", "e_quota"},
         l = "f_write" /\ j.id \in Intake!Live => j.id \in pdf \/ IntakeRemoving(j.id),
         \A r \in Intake!Live : rep'[r].up => rep[r].up \/ r \in pdf \/ IntakeRemoving(r),
         IntakeCounts(at[t], my[t]) <=> IntakeCounts(l, j), IntakeCounts(l, j) => j.dev = my[t].dev
  PROVE  IntakeInv'
<1>1. \A u \in Tasks : u # t => ~IntakeMeet(j.op, my[u].op) /\ ~IntakeMeet(my[u].op, j.op)
  BY DEF IntakeInv, IntakeAlone
<1> QED BY <1>1, IntakeLocal

LEMMA IntakeEnds ==
  ASSUME IntakeCalm, IntakeInv, NEW t \in Tasks, Intake!End(t),
         IntakeQuiet, UNCHANGED <<pdf, Intake!quotaState, orders>>,
         at[t] \in IntakeFiling /\ my[t].order # NoOrder => orders[my[t].order] = "SUBMITTED",
         at[t] \notin {"r_row", "e_grant", "e_quota"},
         \A r \in Intake!Live : rep'[r].up => rep[r].up \/ r \in pdf \/ IntakeRemoving(r),
         ~IntakeCounts(at[t], my[t])
  PROVE  IntakeInv'
<1>1. Intake!Keep(t, "idle", Intake!NoJob) /\ Intake!NoJob \in Intake!Jobs /\ "idle" \in Intake!Labels
  BY IntakeRanges DEF Intake!End, Intake!Labels
<1>2. IntakeKnows("idle", Intake!NoJob, rep) /\ ~IntakeCounts("idle", Intake!NoJob)
  BY DEF IntakeKnows, IntakeFiling, IntakeCreating, IntakeCounts
<1>3. \A u \in Tasks : ~IntakeMeet(Intake!NoJob.op, my[u].op) /\ ~IntakeMeet(my[u].op, Intake!NoJob.op)
  BY DEF Intake!NoJob, IntakeMeet
<1> QED BY <1>1, <1>2, <1>3, IntakeLocal

LEMMA IntakeFilings ==
  ASSUME IntakeCalm, IntakeInv, NEW t \in Tasks
  PROVE  /\ IntakeKnows(at[t], my[t], rep) /\ my[t] \in Intake!Jobs /\ at[t] \in Intake!Labels
         /\ DOMAIN rep = Intake!Reports
         /\ UNCHANGED rep => IntakeQuiet /\ \A r \in Intake!Live : rep'[r].up => rep[r].up
BY IntakeQuietStays DEF IntakeInv, IntakePlaced, IntakeTyped, Intake!Reports

LEMMA IntakeLocalSteps ==
  ASSUME IntakeCalm, IntakeInv, NEW t \in Tasks,
         \/ Intake!CreateFind(t) \/ Intake!ConsumeQuota(t) \/ Intake!CreateSign(t) \/ Intake!Submit(t)
         \/ Intake!AttachOrder(t) \/ Intake!AttachReport(t) \/ Intake!CompleteHead(t)
            \/ Intake!GrantRead(t)
  PROVE  IntakeInv'
<1>0. /\ IntakeKnows(at[t], my[t], rep) /\ my[t] \in Intake!Jobs /\ DOMAIN rep = Intake!Reports
      /\ \A r \in Intake!Reports : r \in 0 .. MaxReports /\ r \in 1 .. MaxReports
  BY IntakeFilings, IntakeRanges
<1>1. CASE Intake!CreateFind(t)
  <2>1. ASSUME NEW r \in Intake!Own(t), Intake!Keep(t, "c_reuse", [my[t] EXCEPT !.id = r])
               PROVE IntakeInv'
    <3> DEFINE j == [my[t] EXCEPT !.id = r]
    <3>1. j \in Intake!Jobs /\ r \in Intake!Reports /\ j.id = r /\ j.op = my[t].op /\ j.dev = my[t].dev
          /\ j.code = my[t].code /\ j.tier = my[t].tier
      BY <1>0, IntakeJobs DEF Intake!Own, Intake!Live
    <3>2. "c_reuse" \in Intake!Labels /\ IntakeKnows("c_reuse", j, rep)
      BY <1>0, <1>1, <3>1 DEF Intake!CreateFind, IntakeKnows, IntakeCreating, IntakeFiling,
         Intake!Labels
    <3>3. Intake!Keep(t, "c_reuse", j)
      BY <2>1
    <3> HIDE DEF j
    <3> QED BY <1>1, <3>1, <3>2, <3>3, IntakeGoes, IntakeFilings
               DEF Intake!CreateFind, IntakeCounts, IntakeFiling
  <2>2. ASSUME Intake!Go(t, "c_quota") PROVE IntakeInv'
    <3>1. "c_quota" \in Intake!Labels /\ IntakeKnows("c_quota", my[t], rep)
      BY <1>0, <1>1 DEF Intake!CreateFind, IntakeKnows, IntakeCreating, IntakeFiling, Intake!Labels
    <3> QED BY <1>0, <1>1, <2>2, <3>1, IntakeGoes, IntakeFilings
               DEF Intake!CreateFind, IntakeCounts, IntakeFiling, Intake!Go
  <2> QED BY <1>1, <2>1, <2>2 DEF Intake!CreateFind
<1>2. CASE Intake!ConsumeQuota(t)
  <2>1. ASSUME Intake!Keep(t, "c_row", [my[t] EXCEPT !.tier = "pro"]) PROVE IntakeInv'
    <3> DEFINE j == [my[t] EXCEPT !.tier = "pro"]
    <3>1. j \in Intake!Jobs /\ j.op = my[t].op /\ j.dev = my[t].dev /\ j.code = my[t].code
          /\ j.tier = "pro"
      BY <1>0 DEF Intake!Jobs
    <3>2. "c_row" \in Intake!Labels /\ IntakeKnows("c_row", j, rep)
      BY <1>0, <1>2, <3>1 DEF Intake!ConsumeQuota, IntakeKnows, IntakeCreating, IntakeFiling,
         Intake!Labels
    <3>3. Intake!Keep(t, "c_row", j)
      BY <2>1
    <3> HIDE DEF j
    <3> QED BY <1>2, <3>1, <3>2, <3>3, IntakeGoes, IntakeFilings
               DEF Intake!ConsumeQuota, IntakeCounts, IntakeFiling
  <2>2. ASSUME Intake!Go(t, "c_credit") PROVE IntakeInv'
    <3>1. "c_credit" \in Intake!Labels /\ IntakeKnows("c_credit", my[t], rep)
      BY <1>0, <1>2 DEF Intake!ConsumeQuota, IntakeKnows, IntakeCreating, IntakeFiling,
         Intake!Labels
    <3> QED BY <1>0, <1>2, <2>2, <3>1, IntakeGoes, IntakeFilings
               DEF Intake!ConsumeQuota, IntakeCounts, IntakeFiling, Intake!Go
  <2>3. ASSUME Intake!End(t) PROVE IntakeInv'
    BY <1>2, <2>3, IntakeEnds, IntakeFilings DEF Intake!ConsumeQuota, IntakeCounts, IntakeFiling
  <2> QED BY <1>2, <2>1, <2>2, <2>3 DEF Intake!ConsumeQuota
<1>3. CASE Intake!CreateSign(t)
  <2>1. CASE my[t].order = NoOrder
    <3>1. Intake!End(t)
      BY <1>3, <2>1 DEF Intake!CreateSign
    <3> QED BY <1>3, <2>1, <3>1, IntakeEnds, IntakeFilings DEF Intake!CreateSign, IntakeCounts
  <2>2. CASE my[t].order # NoOrder
    <3>1. Intake!Go(t, "submit")
      BY <1>3, <2>2 DEF Intake!CreateSign, IntakeCalm
    <3>2. "submit" \in Intake!Labels /\ IntakeKnows("submit", my[t], rep)
      BY <1>0, <1>3, <2>2 DEF Intake!CreateSign, IntakeKnows, IntakeCreating, IntakeFiling,
         Intake!Labels, Intake!Jobs
    <3> QED BY <1>0, <1>3, <3>1, <3>2, IntakeGoes, IntakeFilings
               DEF Intake!CreateSign, IntakeCounts, IntakeFiling, Intake!Go
  <2> QED BY <2>1, <2>2
<1>4. CASE Intake!Submit(t)
  <2>1. ASSUME Intake!Go(t, "submitted") PROVE IntakeInv'
    <3>1. "submitted" \in Intake!Labels /\ IntakeKnows("submitted", my[t], rep)
      BY <1>0, <1>4 DEF Intake!Submit, IntakeKnows, IntakeCreating, IntakeFiling, Intake!Labels
    <3> QED BY <1>0, <1>4, <2>1, <3>1, IntakeGoes, IntakeFilings
               DEF Intake!Submit, IntakeCounts, IntakeFiling, Intake!Go
  <2>2. ASSUME orders[my[t].order] \notin Intake!Attachable, Intake!End(t) PROVE IntakeInv'
    <3>1. orders[my[t].order] = "SUBMITTED"
      BY <1>0, <1>4, <2>2 DEF Intake!Submit, IntakeKnows, IntakeInv, IntakeTyped
    <3> QED BY <1>4, <2>2, <3>1, IntakeEnds, IntakeFilings DEF Intake!Submit, IntakeCounts
  <2> QED BY <1>4, <2>1, <2>2 DEF Intake!Submit
<1>5. CASE Intake!AttachOrder(t)
  <2>1. ASSUME Intake!Go(t, "a_report") PROVE IntakeInv'
    <3>1. "a_report" \in Intake!Labels /\ IntakeKnows("a_report", my[t], rep)
      BY <1>0, <1>5 DEF Intake!AttachOrder, IntakeKnows, IntakeCreating, IntakeFiling, Intake!Labels
    <3> QED BY <1>0, <1>5, <2>1, <3>1, IntakeGoes, IntakeFilings
               DEF Intake!AttachOrder, IntakeCounts, IntakeFiling, Intake!Go
  <2>2. ASSUME Intake!End(t) PROVE IntakeInv'
    BY <1>5, <2>2, IntakeEnds, IntakeFilings DEF Intake!AttachOrder, IntakeCounts, IntakeFiling
  <2> QED BY <1>5, <2>1, <2>2 DEF Intake!AttachOrder
<1>6. CASE Intake!AttachReport(t)
  <2>1. ASSUME NEW r \in Intake!Live, rep[r].order \in {NoOrder, my[t].order},
               Intake!Keep(t, "a_write", [my[t] EXCEPT !.id = r]) PROVE IntakeInv'
    <3> DEFINE j == [my[t] EXCEPT !.id = r]
    <3>1. j \in Intake!Jobs /\ r \in Intake!Reports /\ j.id = r /\ j.op = my[t].op /\ j.dev = my[t].dev
          /\ j.order = my[t].order
      BY <1>0, IntakeJobs DEF Intake!Live
    <3>2. "a_write" \in Intake!Labels /\ IntakeKnows("a_write", j, rep)
      BY <1>0, <1>6, <2>1, <3>1 DEF Intake!AttachReport, IntakeKnows, IntakeCreating,
         IntakeFiling, Intake!Labels
    <3>3. Intake!Keep(t, "a_write", j)
      BY <2>1
    <3> HIDE DEF j
    <3> QED BY <1>6, <3>1, <3>2, <3>3, IntakeGoes, IntakeFilings
               DEF Intake!AttachReport, IntakeCounts, IntakeFiling
  <2>2. ASSUME Intake!End(t) PROVE IntakeInv'
    BY <1>6, <2>2, IntakeEnds, IntakeFilings DEF Intake!AttachReport, IntakeCounts, IntakeFiling
  <2> QED BY <1>6, <2>1, <2>2 DEF Intake!AttachReport
<1>7. CASE Intake!CompleteHead(t)
  <2>1. ASSUME my[t].id \in pdf, Intake!Go(t, "f_write") PROVE IntakeInv'
    <3>1. "f_write" \in Intake!Labels /\ IntakeKnows("f_write", my[t], rep)
      BY <1>0, <1>7 DEF Intake!CompleteHead, IntakeKnows, IntakeCreating, IntakeFiling,
         Intake!Labels
    <3> QED BY <1>0, <1>7, <2>1, <3>1, IntakeGoes, IntakeFilings
               DEF Intake!CompleteHead, IntakeCounts, IntakeFiling, Intake!Go
  <2>2. ASSUME Intake!End(t) PROVE IntakeInv'
    BY <1>7, <2>2, IntakeEnds, IntakeFilings DEF Intake!CompleteHead, IntakeCounts, IntakeFiling
  <2> QED BY <1>7, <2>1, <2>2 DEF Intake!CompleteHead
<1>8. CASE Intake!GrantRead(t)
  <2>1. ASSUME Intake!Dev(t) \in grants \/ Cardinality(grants) < PurchaseCap,
               Intake!Keep(t, "g_commit", [my[t] EXCEPT !.seen = grants]) PROVE IntakeInv'
    <3> DEFINE j == [my[t] EXCEPT !.seen = grants]
    <3>1. j \in Intake!Jobs /\ j.op = my[t].op /\ j.dev = my[t].dev /\ j.seen = grants
      BY <1>0 DEF Intake!Jobs, IntakeInv, IntakeTyped
    <3>2. "g_commit" \in Intake!Labels /\ IntakeKnows("g_commit", j, rep)
      BY <1>0, <1>8, <2>1, <3>1 DEF Intake!GrantRead, IntakeKnows, IntakeCreating, IntakeFiling,
         Intake!Labels, Intake!Dev
    <3>3. Intake!Keep(t, "g_commit", j)
      BY <2>1
    <3> HIDE DEF j
    <3> QED BY <1>8, <3>1, <3>2, <3>3, IntakeGoes, IntakeFilings
               DEF Intake!GrantRead, IntakeCounts, IntakeFiling
  <2>2. ASSUME Intake!End(t) PROVE IntakeInv'
    BY <1>8, <2>2, IntakeEnds, IntakeFilings DEF Intake!GrantRead, IntakeCounts, IntakeFiling
  <2>3. Intake!Dev(t) \notin grants => Cardinality(grants) \in Nat
    BY FS_CardinalityType DEF IntakeInv, IntakeTyped
  <2> QED BY <1>8, <2>1, <2>2, <2>3, IntakeCounting DEF Intake!GrantRead, IntakeCalm
<1> QED BY <1>1, <1>2, <1>3, <1>4, <1>5, <1>6, <1>7, <1>8

LEMMA IntakeFlagSteps ==
  ASSUME IntakeCalm, IntakeInv, NEW t \in Tasks,
         \/ Intake!Recreate(t) \/ Intake!CreateKey(t) \/ Intake!UpdateWrite(t)
            \/ Intake!CompleteWrite(t)
  PROVE  IntakeInv'
<1>0. /\ IntakeKnows(at[t], my[t], rep) /\ my[t] \in Intake!Jobs /\ DOMAIN rep = Intake!Reports
         /\ IntakeTyped
      /\ \A r \in Intake!Reports : rep[r] \in Intake!ReportRows
  BY IntakeFilings, IntakeRanges DEF IntakeInv
<1> DEFINE i == my[t].id
<1>1. ASSUME Intake!Recreate(t) \/ Intake!UpdateWrite(t) PROVE IntakeInv'
  <2> DEFINE x == [rep[i] EXCEPT !.up = FALSE]
  <2>1. i \in Intake!Reports /\ rep' = [rep EXCEPT ![i] = x] /\ Intake!End(t)
        /\ UNCHANGED <<pdf, Intake!quotaState, orders>>
        /\ at[t] \in {"c_reuse", "update"}
    BY <1>0, <1>1 DEF Intake!Recreate, Intake!UpdateWrite, IntakeKnows
  <2>2. x \in Intake!ReportRows /\ x.dev = rep[i].dev /\ x.order = rep[i].order /\ x.tier = rep[i].tier
        /\ x.st = rep[i].st /\ x.up = FALSE
    BY <1>0, <2>1 DEF Intake!ReportRows
  <2> HIDE DEF x
  <2>3. IntakeQuiet /\ \A r \in Intake!Reports : rep'[r] = IF r = i THEN x ELSE rep[r]
    BY <1>0, <2>1, <2>2, IntakeFlags
  <2>4. \A r \in Intake!Live : rep'[r].up => rep[r].up
    BY <2>2, <2>3 DEF Intake!Live
  <2> QED BY <2>1, <2>3, <2>4, IntakeEnds DEF IntakeCounts, IntakeFiling
<1>2. ASSUME Intake!CompleteWrite(t) PROVE IntakeInv'
  <2> DEFINE x == [rep[i] EXCEPT !.up = TRUE]
  <2>1. i \in Intake!Reports /\ rep' = [rep EXCEPT ![i] = x] /\ Intake!End(t)
        /\ UNCHANGED <<pdf, Intake!quotaState, orders>>
        /\ at[t] = "f_write"
    BY <1>0, <1>2 DEF Intake!CompleteWrite, IntakeKnows
  <2>2. x \in Intake!ReportRows /\ x.dev = rep[i].dev /\ x.order = rep[i].order /\ x.tier = rep[i].tier
        /\ x.st = rep[i].st
    BY <1>0, <2>1 DEF Intake!ReportRows
  <2> HIDE DEF x
  <2>3. IntakeQuiet /\ \A r \in Intake!Reports : rep'[r] = IF r = i THEN x ELSE rep[r]
    BY <1>0, <2>1, <2>2, IntakeFlags
  <2>4. \A r \in Intake!Live : rep'[r].up => rep[r].up \/ r \in pdf \/ IntakeRemoving(r)
    BY <2>1, <2>3 DEF Intake!Live, IntakeInv, IntakeStored
  <2> QED BY <2>1, <2>3, <2>4, IntakeEnds DEF IntakeCounts, IntakeFiling
<1>3. ASSUME Intake!CreateKey(t) PROVE IntakeInv'
  <2> DEFINE x == [rep[i] EXCEPT !.keyed = TRUE]
  <2>1. i \in Intake!Reports /\ rep' = [rep EXCEPT ![i] = x]
        /\ UNCHANGED <<pdf, Intake!quotaState, orders>>
        /\ at[t] = "c_key" /\ Intake!Keep(t, "c_sign", my[t])
    BY <1>0, <1>3 DEF Intake!CreateKey, IntakeKnows, IntakeFiling, Intake!Go
  <2>2. x \in Intake!ReportRows /\ x.dev = rep[i].dev /\ x.order = rep[i].order /\ x.tier = rep[i].tier
        /\ x.st = rep[i].st /\ x.up = rep[i].up
    BY <1>0, <2>1 DEF Intake!ReportRows
  <2> HIDE DEF x
  <2>3. IntakeQuiet /\ \A r \in Intake!Reports : rep'[r] = IF r = i THEN x ELSE rep[r]
    BY <1>0, <2>1, <2>2, IntakeFlags
  <2>4. \A r \in Intake!Live : rep'[r].up => rep[r].up
    BY <2>2, <2>3 DEF Intake!Live
  <2>5. "c_sign" \in Intake!Labels /\ IntakeKnows("c_sign", my[t], rep)
    BY <1>0, <2>1 DEF IntakeKnows, IntakeCreating, IntakeFiling, Intake!Labels
  <2> QED BY <1>0, <2>1, <2>3, <2>4, <2>5, IntakeGoes DEF IntakeCounts, IntakeFiling
<1> QED BY <1>1, <1>2, <1>3

LEMMA IntakeOtherwise ==
  ASSUME IntakeCalm, IntakeInv, NEW t \in Tasks, UNCHANGED <<rep, pdf, Intake!quotaState, orders>>,
         \/ at[t] = "c_row" /\ Intake!Go(t, "c_back")
         \/ at[t] \in {"a_write", "r_object", "g_commit"} /\ Intake!End(t)
         \/ at[t] = "g_commit" /\ my[t].n < Attempts
            /\ Intake!Keep(t, "g_read", [my[t] EXCEPT !.n = @ + 1])
         \/ Intake!Die(t)
  PROVE  IntakeInv'
<1>0. IntakeKnows(at[t], my[t], rep) /\ my[t] \in Intake!Jobs
  BY IntakeFilings
<1>1. CASE at[t] = "c_row" /\ Intake!Go(t, "c_back")
  <2>1. "c_back" \in Intake!Labels /\ IntakeKnows("c_back", my[t], rep)
    BY <1>0, <1>1 DEF IntakeKnows, IntakeCreating, IntakeFiling, Intake!Labels
  <2> QED BY <1>0, <1>1, <2>1, IntakeGoes, IntakeFilings DEF IntakeCounts, IntakeFiling, Intake!Go
<1>2. CASE at[t] \in {"a_write", "r_object", "g_commit"} /\ Intake!End(t)
  BY <1>2, IntakeEnds, IntakeFilings DEF IntakeCounts, IntakeFiling
<1>3. CASE at[t] = "g_commit" /\ my[t].n < Attempts
           /\ Intake!Keep(t, "g_read", [my[t] EXCEPT !.n = @ + 1])
  <2> DEFINE j == [my[t] EXCEPT !.n = @ + 1]
  <2>1. j \in Intake!Jobs /\ j.op = my[t].op /\ j.dev = my[t].dev
    BY <1>0, <1>3 DEF Intake!Jobs, IntakeCalm
  <2>2. "g_read" \in Intake!Labels /\ IntakeKnows("g_read", j, rep) /\ Intake!Keep(t, "g_read", j)
    BY <1>0, <1>3, <2>1 DEF IntakeKnows, IntakeCreating, IntakeFiling, Intake!Labels
  <2> HIDE DEF j
  <2> QED BY <1>3, <2>1, <2>2, IntakeGoes, IntakeFilings DEF IntakeCounts, IntakeFiling
<1>4. CASE Intake!Die(t)
  <2>1. at[t] \notin IntakeFiling \cup {"c_row", "c_back", "r_row", "e_grant", "e_quota"}
    BY <1>4 DEF Intake!Die, IntakeCalm, IntakeFiling
  <2> QED BY <1>4, <2>1, IntakeEnds, IntakeFilings DEF Intake!Die, IntakeCounts
<1> QED BY <1>1, <1>2, <1>3, <1>4

\* What a step by which t goes from its label to l with the locals j leaves of the others.
LEMMA IntakePasses ==
  ASSUME IntakeCalm, IntakeInv, NEW t \in Tasks, NEW l \in Intake!Labels, NEW j \in Intake!Jobs,
         Intake!Keep(t, l, j)
  PROVE  /\ at' \in [Tasks -> Intake!Labels] /\ my' \in [Tasks -> Intake!Jobs] /\ at'[t] = l
            /\ my'[t] = j
         /\ \A u \in Tasks : u # t => at'[u] = at[u] /\ my'[u] = my[u]
         /\ j.op \in {my[t].op, "none"} => IntakeAlone'
         /\ at[t] # "r_row" => \A r : IntakeRemoving(r) => IntakeRemoving(r)'
         /\ at[t] \notin {"e_grant", "e_quota"} => \A d \in Devices : IntakeWiping(d)
            => IntakeWiping(d)'
         /\ \A d \in Devices : Intake!InFlight(d) \ {t} = Intake!InFlight(d)' \ {t}
            /\ IsFiniteSet(Intake!InFlight(d))
         /\ \A d \in Devices : t \in Intake!InFlight(d) <=> IntakeCounts(at[t], my[t]) /\ my[t].dev = d
         /\ \A d \in Devices : t \in Intake!InFlight(d)' <=> IntakeCounts(l, j) /\ j.dev = d
<1>1. /\ at' \in [Tasks -> Intake!Labels] /\ my' \in [Tasks -> Intake!Jobs]
      /\ at'[t] = l /\ my'[t] = j
      /\ \A u \in Tasks : u # t => at'[u] = at[u] /\ my'[u] = my[u]
  BY IntakeMove DEF IntakeInv
<1>2. j.op \in {my[t].op, "none"} => IntakeAlone'
  BY <1>1 DEF IntakeInv, IntakeAlone, IntakeMeet
<1>3. \A d \in Devices : Intake!InFlight(d) \subseteq Tasks
  BY DEF Intake!InFlight
<1>4. \A d \in Devices : IsFiniteSet(Intake!InFlight(d))
  BY <1>3, FS_Subset DEF IntakeCalm
<1>5. \A d \in Devices : Intake!InFlight(d) \ {t} = Intake!InFlight(d)' \ {t}
  BY <1>1 DEF Intake!InFlight
<1>6. \A d \in Devices : t \in Intake!InFlight(d) <=> IntakeCounts(at[t], my[t]) /\ my[t].dev = d
  BY DEF Intake!InFlight, IntakeCounts
<1>7. \A d \in Devices : t \in Intake!InFlight(d)' <=> IntakeCounts(l, j) /\ j.dev = d
  BY <1>1 DEF Intake!InFlight, IntakeCounts
<1>8. at[t] # "r_row" => \A r : IntakeRemoving(r) => IntakeRemoving(r)'
  BY <1>1 DEF IntakeRemoving
<1>9. at[t] \notin {"e_grant", "e_quota"} => \A d \in Devices : IntakeWiping(d) => IntakeWiping(d)'
  BY <1>1 DEF IntakeWiping
<1> QED BY <1>1, <1>2, <1>4, <1>5, <1>6, <1>7, <1>8, <1>9

\* The same of a step that has nothing to do with credits, removals and erasures.
LEMMA IntakePassesBy ==
  ASSUME IntakeCalm, IntakeInv, NEW t \in Tasks, NEW l \in Intake!Labels, NEW j \in Intake!Jobs,
         Intake!Keep(t, l, j),
         j.op \in {my[t].op, "none"}, at[t] \notin {"r_row", "e_grant", "e_quota", "c_row", "c_back"},
         l \notin {"c_row", "c_back"}
  PROVE  /\ at' \in [Tasks -> Intake!Labels] /\ my' \in [Tasks -> Intake!Jobs] /\ at'[t] = l
            /\ my'[t] = j
         /\ \A u \in Tasks : u # t => at'[u] = at[u] /\ my'[u] = my[u]
         /\ IntakeAlone' /\ (\A r : IntakeRemoving(r) => IntakeRemoving(r)')
         /\ (\A d \in Devices : IntakeWiping(d) => IntakeWiping(d)')
         /\ \A d \in Devices : Intake!InFlight(d)' = Intake!InFlight(d)
<1>1. \A d \in Devices : t \notin Intake!InFlight(d) /\ t \notin Intake!InFlight(d)'
  BY IntakePasses DEF IntakeCounts
<1>2. ASSUME NEW d \in Devices PROVE Intake!InFlight(d)' = Intake!InFlight(d)
  <2>1. Intake!InFlight(d) \ {t} = Intake!InFlight(d)' \ {t}
    BY IntakePasses
  <2>2. t \notin Intake!InFlight(d) /\ t \notin Intake!InFlight(d)'
    BY <1>1
  <2> QED BY <2>1, <2>2
<1>3. IntakeAlone'
  BY IntakePasses
<1>4. \A r : IntakeRemoving(r) => IntakeRemoving(r)'
  BY IntakePasses
<1>5. \A d \in Devices : IntakeWiping(d) => IntakeWiping(d)'
  BY IntakePasses
<1>6. /\ at' \in [Tasks -> Intake!Labels] /\ my' \in [Tasks -> Intake!Jobs] /\ at'[t] = l /\ my'[t] = j
      /\ \A u \in Tasks : u # t => at'[u] = at[u] /\ my'[u] = my[u]
  BY IntakePasses
<1> QED BY <1>2, <1>3, <1>4, <1>5, <1>6

LEMMA IntakeReportsFinite ==
  ASSUME IntakeInv, NEW d PROVE IsFiniteSet(Intake!FreeReports(d))
<1>1. IsFiniteSet(Intake!Reports)
  BY FS_Interval DEF Intake!Reports, IntakeInv, IntakeTyped
<1> QED BY <1>1, FS_Subset DEF Intake!FreeReports

\* With the rows as they are.
LEMMA IntakeSameRows ==
  ASSUME IntakeInv, UNCHANGED rep
  PROVE  /\ Intake!Reports' = Intake!Reports /\ Intake!Live' = Intake!Live
            /\ \A d \in Devices : Intake!FreeReports(d)' = Intake!FreeReports(d)
         /\ UNCHANGED orders => Intake!SubmittedHasReport'
BY DEF Intake!Reports, Intake!Live, Intake!FreeReports, IntakeInv, IntakeFiled,
   Intake!SubmittedHasReport

LEMMA IntakePutFile == IntakeCalm /\ IntakeInv /\ Intake!PutFile => IntakeInv'
<1> SUFFICES ASSUME IntakeCalm, IntakeInv, Intake!PutFile PROVE IntakeInv'
  OBVIOUS
<1>1. IntakeTyped' /\ IntakePlaced' /\ IntakeAlone'
  BY DEF IntakeInv, IntakeTyped, IntakePlaced, IntakeAlone, Intake!PutFile, Intake!quotaState,
     Intake!Reports, Intake!Live
<1>2. IntakeFiled' /\ IntakeStored'
  BY IntakeSameRows DEF IntakeInv, IntakeFiled, IntakeStored, Intake!PutFile, IntakeRemoving
<1>3. \A d \in Devices : Intake!InFlight(d)' = Intake!InFlight(d) /\ IntakeWiping(d)' = IntakeWiping(d)
  BY DEF Intake!InFlight, IntakeWiping, Intake!PutFile
<1>4. IntakeGrants' /\ IntakeCredits'
  BY <1>3, IntakeSameRows DEF IntakeInv, IntakeGrants, IntakeCredits, Intake!PutFile,
     Intake!quotaState
<1> QED BY <1>1, <1>2, <1>4 DEF IntakeInv

LEMMA IntakeTakes ==
  ASSUME IntakeCalm, IntakeInv, NEW t \in Tasks, Intake!TakeCredit(t) \/ Intake!RollbackQuota(t)
  PROVE  IntakeInv'
<1>0. IntakeKnows(at[t], my[t], rep) /\ my[t] \in Intake!Jobs /\ Intake!NoJob \in Intake!Jobs
      /\ IntakeTyped
  BY IntakeFilings, IntakeRanges DEF IntakeInv
<1> DEFINE l == IF at[t] = "c_credit" THEN "c_row" ELSE "idle"
           j == IF at[t] = "c_credit" THEN my[t] ELSE Intake!NoJob
<1>1. Intake!Keep(t, l, j) /\ l \in Intake!Labels /\ j \in Intake!Jobs
      /\ at[t] \in {"c_credit", "c_back"}
      /\ UNCHANGED <<rep, pdf, pro, grants, orders>>
  BY <1>0 DEF Intake!TakeCredit, Intake!RollbackQuota, Intake!Go, Intake!End, Intake!Labels
<1>2. my[t].dev \in Devices /\ IntakeKnows(l, j, rep) /\ j.op \in {my[t].op, "none"}
      /\ (at[t] = "c_credit" => my[t].tier = "free")
  BY <1>0, <1>1 DEF IntakeKnows, IntakeCreating, IntakeFiling, Intake!NoJob
<1> DEFINE d == my[t].dev
<1>3. /\ used' \in [Devices -> Int] /\ \A e \in Devices : e # d => used'[e] = used[e]
      /\ at[t] = "c_credit" => used'[d] = used[d] + 1
      /\ at[t] = "c_back" /\ my[t].tier = "free" => used'[d] = used[d] - 1
      /\ at[t] = "c_back" /\ my[t].tier # "free" => used'[d] = used[d]
  BY <1>0, <1>2 DEF Intake!TakeCredit, Intake!RollbackQuota, Intake!Dev, IntakeTyped
<1>4. l \notin IntakeFiling /\ at[t] \notin IntakeFiling \cup {"e_grant", "e_quota", "r_row", "f_write"}
      /\ l # "f_write"
  BY <1>1 DEF IntakeFiling
<1>5. (IntakeCounts(l, j) <=> at[t] = "c_credit")
      /\ (IntakeCounts(at[t], my[t]) <=> at[t] = "c_back" /\ my[t].tier = "free")
      /\ (at[t] = "c_credit" => j.dev = d)
  BY <1>1, <1>2 DEF IntakeCounts
<1> HIDE DEF l, j
<1>6. /\ at' \in [Tasks -> Intake!Labels] /\ my' \in [Tasks -> Intake!Jobs] /\ at'[t] = l /\ my'[t] = j
      /\ \A u \in Tasks : u # t => at'[u] = at[u] /\ my'[u] = my[u]
  BY <1>1, IntakePasses
<1>7. IntakeTyped'
  BY <1>0, <1>1, <1>3, <1>6 DEF IntakeTyped, Intake!Reports
<1>8. IntakePlaced' /\ IntakeAlone'
  BY <1>1, <1>2, <1>6, IntakePasses DEF IntakePlaced, IntakeInv
<1>9. IntakeFiled'
  BY <1>1, <1>4, <1>6, IntakeSameRows DEF IntakeInv, IntakeFiled
<1>10. IntakeStored'
  BY <1>1, <1>4, <1>6, IntakeSameRows, IntakePasses DEF IntakeInv, IntakeStored
<1>11. IntakeGrants'
  BY <1>1, <1>4, <1>6, IntakePasses DEF IntakeInv, IntakeGrants
<1>12. IntakeCredits'
  <2> SUFFICES ASSUME NEW e \in Devices, ~IntakeWiping(e)'
               PROVE  used'[e] = Cardinality(Intake!FreeReports(e)') + Cardinality(Intake!InFlight(e)')
    BY DEF IntakeCredits
  <2>1. used[e] = Cardinality(Intake!FreeReports(e)) + Cardinality(Intake!InFlight(e))
        /\ Intake!FreeReports(e)' = Intake!FreeReports(e)
    BY <1>1, <1>4, IntakePasses, IntakeSameRows DEF IntakeInv, IntakeCredits
  <2>2. /\ Intake!InFlight(e) \ {t} = Intake!InFlight(e)' \ {t} /\ IsFiniteSet(Intake!InFlight(e))
        /\ t \in Intake!InFlight(e) <=> IntakeCounts(at[t], my[t]) /\ d = e
        /\ t \in Intake!InFlight(e)' <=> IntakeCounts(l, j) /\ j.dev = e
    BY <1>1, IntakePasses
  <2>3. Cardinality(Intake!InFlight(e)) \in Nat /\ Cardinality(Intake!FreeReports(e)) \in Nat
    BY <2>2, FS_CardinalityType, IntakeReportsFinite
  <2>4. CASE e # d \/ (at[t] = "c_back" /\ my[t].tier # "free")
    <3>1. t \notin Intake!InFlight(e) /\ t \notin Intake!InFlight(e)'
      BY <1>5, <2>2, <2>4
    <3>2. Intake!InFlight(e)' = Intake!InFlight(e)
      BY <2>2, <3>1
    <3>3. used'[e] = used[e]
      BY <1>1, <1>3, <2>4
    <3> QED BY <2>1, <3>2, <3>3
  <2>5. CASE e = d /\ at[t] = "c_credit"
    <3>1. Intake!InFlight(e)' = Intake!InFlight(e) \cup {t} /\ t \notin Intake!InFlight(e)
      BY <1>5, <2>2, <2>5
    <3>2. Cardinality(Intake!InFlight(e)') = Cardinality(Intake!InFlight(e)) + 1
      BY <2>2, <3>1, FS_AddElement
    <3> QED BY <1>3, <2>1, <2>3, <2>5, <3>2
  <2>6. CASE e = d /\ at[t] = "c_back" /\ my[t].tier = "free"
    <3>1. Intake!InFlight(e)' = Intake!InFlight(e) \ {t} /\ t \in Intake!InFlight(e)
      BY <1>5, <2>2, <2>6
    <3>2. Cardinality(Intake!InFlight(e)') = Cardinality(Intake!InFlight(e)) - 1
      BY <2>2, <3>1, FS_RemoveElement
    <3> QED BY <1>3, <2>1, <2>3, <2>6, <3>2
  <2> QED BY <1>1, <2>4, <2>5, <2>6
<1> QED BY <1>7, <1>8, <1>9, <1>10, <1>11, <1>12 DEF IntakeInv

LEMMA IntakeAppends ==
  ASSUME IntakeTyped, NEW x \in Intake!ReportRows, NEW i, i = Len(rep) + 1
  PROVE  /\ Append(rep, x) \in Seq(Intake!ReportRows) /\ Len(Append(rep, x)) = i
            /\ i \notin Intake!Reports
         /\ 1 .. i = Intake!Reports \cup {i} /\ Append(rep, x)[i] = x /\ DOMAIN Append(rep, x) = 1 .. i
         /\ \A r \in Intake!Reports : Append(rep, x)[r] = rep[r]
<1>1. rep \in Seq(Intake!ReportRows) /\ Len(rep) \in Nat
  BY DEF IntakeTyped
<1> QED BY <1>1, AppendProperties DEF Intake!Reports

LEMMA IntakeCreateRow ==
  ASSUME IntakeCalm, IntakeInv, NEW t \in Tasks, Intake!CreateRow(t)
  PROVE  IntakeInv'
<1> DEFINE x == [dev |-> Intake!Dev(t), code |-> my[t].code, order |-> my[t].order,
                 tier |-> my[t].tier, keyed |-> FALSE, up |-> FALSE, st |-> "live"]
           i == Len(rep) + 1
           j == [my[t] EXCEPT !.id = i]
<1>0. IntakeKnows(at[t], my[t], rep) /\ my[t] \in Intake!Jobs /\ IntakeTyped
      /\ DOMAIN rep = Intake!Reports
  BY IntakeFilings DEF IntakeInv
<1>1. ASSUME Intake!Go(t, "c_back"), UNCHANGED rep PROVE IntakeInv'
  BY <1>1, IntakeOtherwise DEF Intake!CreateRow
<1>2. ASSUME ~Intake!Taken(t), Len(rep) < MaxReports, rep' = Append(rep, x),
             Intake!Keep(t, "c_key", [my[t] EXCEPT !.id = Len(rep')])
      PROVE IntakeInv'
  <2>1. at[t] = "c_row" /\ my[t].op = "create" /\ my[t].dev \in Devices /\ my[t].code \in Codes
        /\ UNCHANGED <<pdf, Intake!quotaState, orders>>
    BY <1>0 DEF Intake!CreateRow, IntakeKnows, IntakeCreating
  <2>2. x \in Intake!ReportRows /\ x.dev = my[t].dev /\ x.order = my[t].order /\ x.tier = my[t].tier
        /\ ~x.up /\ x.st = "live"
    BY <1>0, <2>1 DEF Intake!ReportRows, Intake!Jobs, Intake!Dev
  <2> HIDE DEF x
  <2>3. /\ rep' \in Seq(Intake!ReportRows) /\ Len(rep') = i /\ i \notin Intake!Reports
           /\ Intake!Reports' = Intake!Reports \cup {i}
        /\ rep'[i] = x /\ DOMAIN rep' = Intake!Reports' /\ \A r \in Intake!Reports : rep'[r] = rep[r]
    BY <1>0, <1>2, <2>2, IntakeAppends DEF Intake!Reports
  <2>4. i \in 1 .. MaxReports /\ i <= MaxReports
    BY <1>0, <1>2 DEF IntakeTyped, IntakeCalm
  <2>5. j \in Intake!Jobs /\ j.id = i /\ j.op = "create" /\ j.dev = my[t].dev /\ j.code = my[t].code
        /\ j.order = my[t].order /\ j.tier = my[t].tier
    BY <1>0, <2>1, <2>4, IntakeJobs
  <2>6. Intake!Keep(t, "c_key", j) /\ "c_key" \in Intake!Labels
    BY <1>2, <2>3 DEF Intake!Labels
  <2> HIDE DEF i, j
  <2>7. /\ at' \in [Tasks -> Intake!Labels] /\ my' \in [Tasks -> Intake!Jobs] /\ at'[t] = "c_key"
           /\ my'[t] = j
        /\ \A u \in Tasks : u # t => at'[u] = at[u] /\ my'[u] = my[u]
        /\ IntakeAlone' /\ (\A r : IntakeRemoving(r) => IntakeRemoving(r)')
           /\ \A d \in Devices : IntakeWiping(d) => IntakeWiping(d)'
    BY <2>1, <2>5, <2>6, IntakePasses
  <2>8. IntakeTyped'
    BY <1>0, <2>1, <2>3, <2>4, <2>7 DEF IntakeTyped, Intake!quotaState
  <2>9. IntakePlaced'
    <3>1. IntakeKnows("c_key", j, rep')
      BY <2>2, <2>3, <2>5, <2>1 DEF IntakeKnows, IntakeCreating, IntakeFiling
    <3>2. ASSUME NEW u \in Tasks, u # t PROVE IntakeKnows(at[u], my[u], rep')
      <4>1. IntakeKnows(at[u], my[u], rep)
        BY DEF IntakeInv, IntakePlaced
      <4>2. at[u] \notin {"e_grant", "e_quota"}
        BY <2>1, <3>2, <4>1 DEF IntakeInv, IntakeAlone, IntakeMeet, IntakeKnows
      <4> QED BY <1>0, <2>3, <4>1, <4>2 DEF IntakeKnows
    <3> QED BY <2>7, <3>1, <3>2 DEF IntakePlaced
  <2>10. IntakeFiled'
    <3>1. Intake!SubmittedHasReport'
      BY <2>1, <2>3 DEF IntakeInv, IntakeFiled, Intake!SubmittedHasReport
    <3>2. ASSUME NEW r \in Intake!Reports', rep'[r].order # NoOrder
          PROVE  \/ orders'[rep'[r].order] = "SUBMITTED"
                 \/ \E u \in Tasks : at'[u] \in IntakeFiling /\ my'[u].order = rep'[r].order
      <4>1. CASE r = i
        BY <2>2, <2>3, <2>5, <2>7, <4>1 DEF IntakeFiling
      <4>2. CASE r # i
        <5>1. r \in Intake!Reports /\ rep'[r] = rep[r]
          BY <2>3, <3>2, <4>2
        <5>2. \/ orders[rep[r].order] = "SUBMITTED"
              \/ \E u \in Tasks : at[u] \in IntakeFiling /\ my[u].order = rep[r].order
          BY <3>2, <5>1 DEF IntakeInv, IntakeFiled
        <5>3. at[t] \notin IntakeFiling
          BY <2>1 DEF IntakeFiling
        <5> QED BY <2>1, <2>7, <5>1, <5>2, <5>3
      <4> QED BY <4>1, <4>2
    <3> QED BY <3>1, <3>2 DEF IntakeFiled
  <2>11. IntakeStored'
    <3>1. \A r \in Intake!Live' : r = i \/ (r \in Intake!Live /\ rep'[r] = rep[r])
      BY <2>3 DEF Intake!Live
    <3>2. \A r \in Intake!Live' : rep'[r].up => r \in pdf' \/ IntakeRemoving(r)'
      BY <2>1, <2>2, <2>3, <2>7, <3>1 DEF IntakeInv, IntakeStored
    <3>3. ASSUME NEW u \in Tasks, at'[u] = "f_write", my'[u].id \in Intake!Live'
          PROVE  (my[u].id \in pdf \/ IntakeRemoving(my[u].id))'
      <4>1. u # t /\ at[u] = "f_write" /\ my'[u] = my[u]
        BY <2>7, <3>3
      <4>2. my[u].id \in Intake!Reports
        BY <1>0, <4>1 DEF IntakeInv, IntakePlaced, IntakeKnows
      <4>3. my[u].id \in Intake!Live' /\ my[u].id # i
        BY <2>3, <3>3, <4>1, <4>2
      <4>4. my[u].id \in Intake!Live
        BY <3>1, <4>3
      <4>5. my[u].id \in pdf \/ IntakeRemoving(my[u].id)
        BY <4>1, <4>4 DEF IntakeInv, IntakeStored
      <4> QED BY <2>1, <2>7, <4>1, <4>5
    <3> QED BY <3>2, <3>3 DEF IntakeStored
  <2>12. IntakeGrants'
    BY <2>1, <2>7 DEF IntakeInv, IntakeGrants, Intake!quotaState
  <2>13. IntakeCredits'
    <3> SUFFICES ASSUME NEW e \in Devices, ~IntakeWiping(e)'
                 PROVE  used'[e] = Cardinality(Intake!FreeReports(e)') + Cardinality(Intake!InFlight(e)')
      BY DEF IntakeCredits
    <3>1. used[e] = Cardinality(Intake!FreeReports(e)) + Cardinality(Intake!InFlight(e)) /\ used' = used
      BY <2>1, <2>7 DEF IntakeInv, IntakeCredits, Intake!quotaState
    <3>2. /\ Intake!InFlight(e) \ {t} = Intake!InFlight(e)' \ {t} /\ IsFiniteSet(Intake!InFlight(e))
          /\ t \in Intake!InFlight(e) <=> IntakeCounts(at[t], my[t]) /\ my[t].dev = e
          /\ t \in Intake!InFlight(e)' <=> IntakeCounts("c_key", j) /\ j.dev = e
      BY <2>5, <2>6, IntakePasses
    <3>3. Cardinality(Intake!InFlight(e)) \in Nat /\ Cardinality(Intake!FreeReports(e)) \in Nat
          /\ IsFiniteSet(Intake!FreeReports(e))
      BY <3>2, FS_CardinalityType, IntakeReportsFinite
    <3>4. t \notin Intake!InFlight(e)'
      BY <3>2 DEF IntakeCounts
    <3>5. CASE my[t].dev = e /\ my[t].tier = "free"
      <4>1. t \in Intake!InFlight(e)
        BY <2>1, <3>2, <3>5 DEF IntakeCounts
      <4>2. Intake!InFlight(e)' = Intake!InFlight(e) \ {t}
        BY <3>2, <3>4
      <4>3. Intake!FreeReports(e)' = Intake!FreeReports(e) \cup {i} /\ i \notin Intake!FreeReports(e)
        BY <2>2, <2>3, <3>5 DEF Intake!FreeReports
      <4>4. Cardinality(Intake!InFlight(e)') = Cardinality(Intake!InFlight(e)) - 1
        BY <3>2, <4>1, <4>2, FS_RemoveElement
      <4>5. Cardinality(Intake!FreeReports(e)') = Cardinality(Intake!FreeReports(e)) + 1
        BY <3>3, <4>3, FS_AddElement
      <4> QED BY <3>1, <3>3, <4>4, <4>5
    <3>6. CASE my[t].dev # e \/ my[t].tier # "free"
      <4>1. t \notin Intake!InFlight(e)
        BY <3>2, <3>6 DEF IntakeCounts
      <4>2. Intake!InFlight(e)' = Intake!InFlight(e)
        BY <3>2, <3>4, <4>1
      <4>3. Intake!FreeReports(e)' = Intake!FreeReports(e)
        BY <2>2, <2>3, <3>6 DEF Intake!FreeReports
      <4> QED BY <3>1, <4>2, <4>3
    <3> QED BY <3>5, <3>6
  <2> QED BY <2>7, <2>8, <2>9, <2>10, <2>11, <2>12, <2>13 DEF IntakeInv
<1> QED BY <1>1, <1>2 DEF Intake!CreateRow

LEMMA IntakeSubmitted ==
  ASSUME IntakeCalm, IntakeInv, NEW t \in Tasks, Intake!Submitted(t)
  PROVE  IntakeInv'
<1> DEFINE o == my[t].order
<1>0. IntakeKnows(at[t], my[t], rep) /\ IntakeTyped /\ Intake!NoJob \in Intake!Jobs
      /\ DOMAIN rep = Intake!Reports
  BY IntakeFilings, IntakeRanges DEF IntakeInv
<1>1. /\ at[t] = "submitted" /\ o \in Booked /\ my[t].id \in Intake!Reports
         /\ o \in {NoOrder, rep[my[t].id].order}
      /\ Intake!Keep(t, "idle", Intake!NoJob) /\ "idle" \in Intake!Labels
         /\ UNCHANGED <<rep, pdf, Intake!quotaState>>
  BY <1>0 DEF Intake!Submitted, IntakeKnows, IntakeFiling, Intake!End, Intake!Labels
<1>2. rep[my[t].id].order = o
  BY <1>1 DEF IntakeCalm
<1>3. orders' \in [Booked -> Intake!Attachable \cup {"SUBMITTED"}] /\ orders'[o] = "SUBMITTED"
      /\ \A p \in Booked : p # o => orders'[p] = orders[p]
  BY <1>0, <1>1 DEF Intake!Submitted, IntakeTyped
<1>4. /\ at' \in [Tasks -> Intake!Labels] /\ my' \in [Tasks -> Intake!Jobs] /\ at'[t] = "idle"
         /\ my'[t] = Intake!NoJob
      /\ \A u \in Tasks : u # t => at'[u] = at[u] /\ my'[u] = my[u]
      /\ IntakeAlone' /\ (\A r : IntakeRemoving(r) => IntakeRemoving(r)')
         /\ \A d \in Devices : IntakeWiping(d) => IntakeWiping(d)'
      /\ \A d \in Devices : Intake!InFlight(d)' = Intake!InFlight(d)
  <2>1. Intake!NoJob.op = "none"
    BY DEF Intake!NoJob
  <2> QED BY <1>0, <1>1, <2>1, IntakePassesBy
<1>5. IntakeTyped'
  BY <1>0, <1>1, <1>3, <1>4 DEF IntakeTyped, Intake!quotaState, Intake!Reports
<1>6. IntakePlaced'
  <2>1. IntakeKnows("idle", Intake!NoJob, rep)
    BY DEF IntakeKnows, IntakeCreating, IntakeFiling
  <2> QED BY <1>1, <1>4, <2>1 DEF IntakePlaced, IntakeInv
<1>7. IntakeFiled'
  <2>1. Intake!SubmittedHasReport'
    <3> SUFFICES ASSUME NEW p \in Booked, orders'[p] = "SUBMITTED"
                 PROVE  \E r \in Intake!Reports' : rep'[r].order = p
      BY DEF Intake!SubmittedHasReport
    <3>1. Intake!Reports' = Intake!Reports /\ rep' = rep
      BY <1>1, IntakeSameRows
    <3>2. p = o \/ orders[p] = "SUBMITTED"
      BY <1>3
    <3> QED BY <1>1, <1>2, <3>1, <3>2 DEF IntakeInv, IntakeFiled, Intake!SubmittedHasReport
  <2>2. ASSUME NEW r \in Intake!Reports, rep[r].order # NoOrder
        PROVE  \/ orders'[rep[r].order] = "SUBMITTED"
               \/ \E u \in Tasks : at'[u] \in IntakeFiling /\ my'[u].order = rep[r].order
    <3>1. rep[r].order \in Booked
      BY <2>2, IntakeRanges DEF Intake!ReportRows
    <3>2. \/ orders[rep[r].order] = "SUBMITTED"
          \/ \E u \in Tasks : at[u] \in IntakeFiling /\ my[u].order = rep[r].order
      BY <2>2 DEF IntakeInv, IntakeFiled
    <3> QED BY <1>3, <1>4, <3>1, <3>2
  <2> QED BY <1>1, <2>1, <2>2, IntakeSameRows DEF IntakeFiled
<1>8. IntakeStored'
  BY <1>1, <1>4, IntakeSameRows DEF IntakeInv, IntakeStored
<1>9. IntakeGrants' /\ IntakeCredits'
  BY <1>1, <1>4, IntakeSameRows DEF IntakeInv, IntakeGrants, IntakeCredits, Intake!quotaState
<1> QED BY <1>4, <1>5, <1>6, <1>7, <1>8, <1>9 DEF IntakeInv

LEMMA IntakeAttachWrite ==
  ASSUME IntakeCalm, IntakeInv, NEW t \in Tasks, Intake!AttachWrite(t)
  PROVE  IntakeInv'
<1> DEFINE o == my[t].order
           i == my[t].id
           x == [rep[i] EXCEPT !.order = o]
<1>0. IntakeKnows(at[t], my[t], rep) /\ IntakeTyped /\ my[t] \in Intake!Jobs
      /\ DOMAIN rep = Intake!Reports
  BY IntakeFilings DEF IntakeInv
<1>1. ASSUME Intake!End(t), UNCHANGED rep PROVE IntakeInv'
  BY <1>1, IntakeOtherwise DEF Intake!AttachWrite
<1>2. ASSUME rep' = [rep EXCEPT ![i] = x], Intake!Go(t, "submit") PROVE IntakeInv'
  <2>1. /\ at[t] = "a_write" /\ o \in Booked /\ i \in Intake!Reports /\ my[t].op = "attachReportByCode"
        /\ rep[i].order \in {NoOrder, o} /\ UNCHANGED <<pdf, Intake!quotaState, orders>>
        /\ Intake!Keep(t, "submit", my[t]) /\ "submit" \in Intake!Labels
    BY <1>0, <1>2 DEF Intake!AttachWrite, IntakeKnows, Intake!Go, Intake!Labels
  <2>2. x \in Intake!ReportRows /\ x.dev = rep[i].dev /\ x.order = o /\ x.tier = rep[i].tier
        /\ x.st = rep[i].st /\ x.up = rep[i].up
    BY <2>1, IntakeRanges DEF Intake!ReportRows
  <2> HIDE DEF x
  <2>3. /\ rep' \in Seq(Intake!ReportRows) /\ Len(rep') = Len(rep) /\ Intake!Reports' = Intake!Reports
           /\ DOMAIN rep' = Intake!Reports
        /\ \A r \in Intake!Reports : rep'[r] = IF r = i THEN x ELSE rep[r]
    BY <1>0, <1>2, <2>1, <2>2, IntakeRows DEF Intake!Reports
  <2>4. /\ at' \in [Tasks -> Intake!Labels] /\ my' \in [Tasks -> Intake!Jobs] /\ at'[t] = "submit"
           /\ my'[t] = my[t]
        /\ \A u \in Tasks : u # t => at'[u] = at[u] /\ my'[u] = my[u]
        /\ IntakeAlone' /\ (\A r : IntakeRemoving(r) => IntakeRemoving(r)')
           /\ \A d \in Devices : IntakeWiping(d) => IntakeWiping(d)'
        /\ \A d \in Devices : Intake!InFlight(d)' = Intake!InFlight(d)
    BY <1>0, <2>1, IntakePassesBy
  <2>5. IntakeTyped'
    BY <1>0, <2>1, <2>3, <2>4 DEF IntakeTyped, Intake!quotaState
  <2>6. IntakePlaced'
    <3>1. IntakeKnows("submit", my[t], rep')
      BY <2>1, <2>2, <2>3 DEF IntakeKnows, IntakeCreating, IntakeFiling
    <3>2. ASSUME NEW u \in Tasks, u # t PROVE IntakeKnows(at[u], my[u], rep')
      <4>1. IntakeKnows(at[u], my[u], rep)
        BY DEF IntakeInv, IntakePlaced
      <4>2. at[u] # "a_write"
        BY <2>1, <3>2, <4>1 DEF IntakeInv, IntakeAlone, IntakeMeet, IntakeKnows
      <4> QED BY <1>0, <2>1, <2>2, <2>3, <4>1, <4>2 DEF IntakeKnows, IntakeFiling
    <3> QED BY <2>4, <3>1, <3>2 DEF IntakePlaced
  <2>7. IntakeFiled'
    <3>1. Intake!SubmittedHasReport'
      <4> SUFFICES ASSUME NEW p \in Booked, orders'[p] = "SUBMITTED"
                   PROVE  \E r \in Intake!Reports' : rep'[r].order = p
        BY DEF Intake!SubmittedHasReport
      <4>1. PICK r \in Intake!Reports : rep[r].order = p
        BY <2>1 DEF IntakeInv, IntakeFiled, Intake!SubmittedHasReport
      <4>2. r = i => p = o
        BY <2>1, <4>1 DEF IntakeCalm
      <4> QED BY <2>2, <2>3, <4>1, <4>2
    <3>2. ASSUME NEW r \in Intake!Reports, rep'[r].order # NoOrder
          PROVE  \/ orders'[rep'[r].order] = "SUBMITTED"
                 \/ \E u \in Tasks : at'[u] \in IntakeFiling /\ my'[u].order = rep'[r].order
      <4>1. CASE r = i
        BY <2>2, <2>3, <2>4, <4>1 DEF IntakeFiling
      <4>2. CASE r # i
        <5>1. rep'[r] = rep[r]
          BY <2>3, <4>2
        <5>2. \/ orders[rep[r].order] = "SUBMITTED"
              \/ \E u \in Tasks : at[u] \in IntakeFiling /\ my[u].order = rep[r].order
          BY <3>2, <5>1 DEF IntakeInv, IntakeFiled
        <5>3. at[t] \notin IntakeFiling
          BY <2>1 DEF IntakeFiling
        <5> QED BY <2>1, <2>4, <5>1, <5>2, <5>3
      <4> QED BY <4>1, <4>2
    <3> QED BY <2>3, <3>1, <3>2 DEF IntakeFiled
  <2>8. IntakeStored'
    <3>1. Intake!Live' = Intake!Live /\ \A r \in Intake!Live : rep'[r].up = rep[r].up
      BY <2>2, <2>3 DEF Intake!Live
    <3> QED BY <2>1, <2>4, <3>1 DEF IntakeInv, IntakeStored
  <2>9. \A d \in Devices : Intake!FreeReports(d)' = Intake!FreeReports(d)
    BY <2>2, <2>3 DEF Intake!FreeReports
  <2>10. IntakeGrants' /\ IntakeCredits'
    BY <2>1, <2>4, <2>9 DEF IntakeInv, IntakeGrants, IntakeCredits, Intake!quotaState
  <2> QED BY <2>4, <2>5, <2>6, <2>7, <2>8, <2>10 DEF IntakeInv
<1> QED BY <1>1, <1>2 DEF Intake!AttachWrite

LEMMA IntakeRemoveObject ==
  ASSUME IntakeCalm, IntakeInv, NEW t \in Tasks, Intake!RemoveObject(t)
  PROVE  IntakeInv'
<1> DEFINE i == my[t].id
<1>0. IntakeKnows(at[t], my[t], rep) /\ IntakeTyped /\ my[t] \in Intake!Jobs
  BY IntakeFilings DEF IntakeInv
<1>1. ASSUME Intake!End(t), UNCHANGED pdf PROVE IntakeInv'
  BY <1>1, IntakeOtherwise DEF Intake!RemoveObject
<1>2. ASSUME pdf' = pdf \ {i}, Intake!Go(t, "r_row") PROVE IntakeInv'
  <2>1. /\ at[t] = "r_object" /\ Intake!Keep(t, "r_row", my[t]) /\ "r_row" \in Intake!Labels
        /\ UNCHANGED <<rep, Intake!quotaState, orders>>
    BY <1>2 DEF Intake!RemoveObject, Intake!Go, Intake!Labels
  <2>2. /\ at' \in [Tasks -> Intake!Labels] /\ my' \in [Tasks -> Intake!Jobs] /\ at'[t] = "r_row"
           /\ my'[t] = my[t]
        /\ \A u \in Tasks : u # t => at'[u] = at[u] /\ my'[u] = my[u]
        /\ IntakeAlone' /\ (\A r : IntakeRemoving(r) => IntakeRemoving(r)')
           /\ \A d \in Devices : IntakeWiping(d) => IntakeWiping(d)'
        /\ \A d \in Devices : Intake!InFlight(d)' = Intake!InFlight(d)
    BY <1>0, <2>1, IntakePassesBy
  <2>3. IntakeTyped'
    BY <1>0, <1>2, <2>1, <2>2 DEF IntakeTyped, Intake!quotaState, Intake!Reports
  <2>4. IntakePlaced'
    <3>1. IntakeKnows("r_row", my[t], rep)
      BY <1>0, <2>1 DEF IntakeKnows, IntakeCreating, IntakeFiling
    <3> QED BY <2>1, <2>2, <3>1 DEF IntakePlaced, IntakeInv
  <2>5. IntakeFiled'
    <3>1. at[t] \notin IntakeFiling
      BY <2>1 DEF IntakeFiling
    <3> QED BY <2>1, <2>2, <3>1, IntakeSameRows DEF IntakeInv, IntakeFiled
  <2>6. IntakeStored'
    <3>1. \A r : r = i => IntakeRemoving(r)'
      BY <2>2 DEF IntakeRemoving
    <3>2. \A r \in pdf : r \in pdf' \/ IntakeRemoving(r)'
      BY <1>2, <3>1
    <3> QED BY <2>1, <2>2, <3>2, IntakeSameRows DEF IntakeInv, IntakeStored
  <2>7. IntakeGrants' /\ IntakeCredits'
    BY <2>1, <2>2, IntakeSameRows DEF IntakeInv, IntakeGrants, IntakeCredits, Intake!quotaState
  <2> QED BY <2>2, <2>3, <2>4, <2>5, <2>6, <2>7 DEF IntakeInv
<1> QED BY <1>1, <1>2 DEF Intake!RemoveObject

LEMMA IntakeRemoveRow ==
  ASSUME IntakeCalm, IntakeInv, NEW t \in Tasks, Intake!RemoveRow(t)
  PROVE  IntakeInv'
<1> DEFINE i == my[t].id
           x == [rep[i] EXCEPT !.st = "removed"]
<1>0. IntakeKnows(at[t], my[t], rep) /\ IntakeTyped /\ Intake!NoJob \in Intake!Jobs
      /\ DOMAIN rep = Intake!Reports
  BY IntakeFilings, IntakeRanges DEF IntakeInv
<1>1. /\ at[t] = "r_row" /\ i \in Intake!Reports /\ rep[i].st # "erased" /\ rep' = [rep EXCEPT ![i] = x]
      /\ Intake!Keep(t, "idle", Intake!NoJob) /\ "idle" \in Intake!Labels
         /\ UNCHANGED <<pdf, Intake!quotaState, orders>>
  BY <1>0 DEF Intake!RemoveRow, IntakeKnows, Intake!End, Intake!Labels
<1>2. x \in Intake!ReportRows /\ x.dev = rep[i].dev /\ x.order = rep[i].order /\ x.tier = rep[i].tier
      /\ x.st = "removed" /\ x.up = rep[i].up
  BY <1>1, IntakeRanges DEF Intake!ReportRows
<1> HIDE DEF x
<1>3. /\ rep' \in Seq(Intake!ReportRows) /\ Len(rep') = Len(rep) /\ Intake!Reports' = Intake!Reports
         /\ DOMAIN rep' = Intake!Reports
      /\ \A r \in Intake!Reports : rep'[r] = IF r = i THEN x ELSE rep[r]
  BY <1>0, <1>1, <1>2, IntakeRows DEF Intake!Reports
<1>4. /\ at' \in [Tasks -> Intake!Labels] /\ my' \in [Tasks -> Intake!Jobs] /\ at'[t] = "idle"
         /\ my'[t] = Intake!NoJob
      /\ \A u \in Tasks : u # t => at'[u] = at[u] /\ my'[u] = my[u]
      /\ IntakeAlone' /\ \A d \in Devices : IntakeWiping(d) => IntakeWiping(d)'
  <2>1. Intake!NoJob.op = "none"
    BY DEF Intake!NoJob
  <2>2. IntakeAlone'
    BY <1>0, <1>1, <2>1, IntakePasses
  <2>3. \A d \in Devices : IntakeWiping(d) => IntakeWiping(d)'
    BY <1>0, <1>1, IntakePasses
  <2> QED BY <1>0, <1>1, <2>2, <2>3, IntakePasses
<1>5. ASSUME NEW d \in Devices PROVE Intake!InFlight(d)' = Intake!InFlight(d)
             /\ Intake!FreeReports(d)' = Intake!FreeReports(d)
  <2>1. Intake!InFlight(d)' = Intake!InFlight(d)
    BY <1>1, <1>4 DEF Intake!InFlight, Intake!NoJob
  <2>2. Intake!FreeReports(d)' = Intake!FreeReports(d)
    BY <1>1, <1>2, <1>3 DEF Intake!FreeReports
  <2> QED BY <2>1, <2>2
<1>6. IntakeTyped'
  BY <1>0, <1>1, <1>3, <1>4 DEF IntakeTyped, Intake!quotaState
<1>7. IntakePlaced'
  <2>1. IntakeKnows("idle", Intake!NoJob, rep')
    BY DEF IntakeKnows, IntakeCreating, IntakeFiling
  <2>2. ASSUME NEW u \in Tasks, u # t PROVE IntakeKnows(at[u], my[u], rep')
    <3>1. IntakeKnows(at[u], my[u], rep)
      BY DEF IntakeInv, IntakePlaced
    <3> QED BY <1>0, <1>1, <1>2, <1>3, <3>1 DEF IntakeKnows, IntakeFiling
  <2> QED BY <1>4, <2>1, <2>2 DEF IntakePlaced
<1>8. IntakeFiled'
  <2>1. at[t] \notin IntakeFiling
    BY <1>1 DEF IntakeFiling
  <2>2. \A r \in Intake!Reports : rep'[r].order = rep[r].order
    BY <1>2, <1>3
  <2>3. Intake!SubmittedHasReport'
    BY <1>1, <1>3, <2>2 DEF IntakeInv, IntakeFiled, Intake!SubmittedHasReport
  <2> QED BY <1>1, <1>3, <1>4, <2>1, <2>2, <2>3 DEF IntakeInv, IntakeFiled
<1>9. IntakeStored'
  <2>1. Intake!Live' = Intake!Live \ {i} /\ \A r \in Intake!Live' : rep'[r].up = rep[r].up
    BY <1>2, <1>3 DEF Intake!Live
  <2>2. \A r : IntakeRemoving(r) /\ r # i => IntakeRemoving(r)'
    BY <1>4 DEF IntakeRemoving
  <2> QED BY <1>1, <1>4, <2>1, <2>2 DEF IntakeInv, IntakeStored
<1>10. IntakeGrants' /\ IntakeCredits'
  BY <1>1, <1>4, <1>5 DEF IntakeInv, IntakeGrants, IntakeCredits, Intake!quotaState
<1> QED BY <1>4, <1>6, <1>7, <1>8, <1>9, <1>10 DEF IntakeInv

LEMMA IntakeGrantCommit ==
  ASSUME IntakeCalm, IntakeInv, NEW t \in Tasks, Intake!GrantCommit(t)
  PROVE  IntakeInv'
<1> DEFINE d == my[t].dev
<1>0. IntakeKnows(at[t], my[t], rep) /\ IntakeTyped /\ Intake!NoJob \in Intake!Jobs
      /\ my[t] \in Intake!Jobs
  BY IntakeFilings, IntakeRanges DEF IntakeInv
<1>1. ASSUME grants = my[t].seen, Intake!Granted(t) PROVE IntakeInv'
  <2>1. /\ at[t] = "g_commit" /\ d \in Devices /\ Intake!Keep(t, "idle", Intake!NoJob)
           /\ "idle" \in Intake!Labels
        /\ UNCHANGED <<rep, pdf, used, orders>> /\ grants' = grants \cup {d}
        /\ pro' = [pro EXCEPT ![d] = TRUE] /\ (d \in grants \/ Cardinality(grants) < PurchaseCap)
    BY <1>0, <1>1 DEF Intake!GrantCommit, Intake!Granted, IntakeKnows, Intake!End, Intake!Labels,
       Intake!Dev
  <2>2. Intake!NoJob.op = "none"
    BY DEF Intake!NoJob
  <2>3. /\ at' \in [Tasks -> Intake!Labels] /\ my' \in [Tasks -> Intake!Jobs] /\ at'[t] = "idle"
           /\ my'[t] = Intake!NoJob
        /\ \A u \in Tasks : u # t => at'[u] = at[u] /\ my'[u] = my[u]
        /\ IntakeAlone' /\ (\A r : IntakeRemoving(r) => IntakeRemoving(r)')
           /\ \A e \in Devices : IntakeWiping(e) => IntakeWiping(e)'
        /\ \A e \in Devices : Intake!InFlight(e)' = Intake!InFlight(e)
    BY <1>0, <2>1, <2>2, IntakePassesBy
  <2>4. pro' \in [Devices -> BOOLEAN] /\ \A e \in Devices : e # d => pro'[e] = pro[e]
    BY <1>0, <2>1 DEF IntakeTyped
  <2>5. IsFiniteSet(grants') /\ grants' \subseteq Devices /\ Cardinality(grants') <= PurchaseCap
    <3>1. CASE d \in grants
      <4>1. grants' = grants
        BY <2>1, <3>1
      <4> QED BY <1>0, <4>1 DEF IntakeTyped, IntakeInv, IntakeGrants
    <3>2. CASE d \notin grants
      <4>1. IsFiniteSet(grants') /\ Cardinality(grants') = Cardinality(grants) + 1
        BY <1>0, <2>1, <3>2, FS_AddElement DEF IntakeTyped
      <4>2. Cardinality(grants) \in Nat
        BY <1>0, FS_CardinalityType DEF IntakeTyped
      <4> QED BY <1>0, <2>1, <3>2, <4>1, <4>2 DEF IntakeTyped, IntakeCalm
    <3> QED BY <3>1, <3>2
  <2>6. IntakeTyped'
    BY <1>0, <2>1, <2>3, <2>4, <2>5 DEF IntakeTyped, Intake!Reports
  <2>7. IntakePlaced'
    <3>1. IntakeKnows("idle", Intake!NoJob, rep)
      BY DEF IntakeKnows, IntakeCreating, IntakeFiling
    <3> QED BY <2>1, <2>3, <3>1 DEF IntakePlaced, IntakeInv
  <2>8. IntakeFiled'
    <3>1. at[t] \notin IntakeFiling
      BY <2>1 DEF IntakeFiling
    <3> QED BY <2>1, <2>3, <3>1, IntakeSameRows DEF IntakeInv, IntakeFiled
  <2>9. IntakeStored'
    BY <2>1, <2>3, IntakeSameRows DEF IntakeInv, IntakeStored
  <2>10. IntakeGrants'
    BY <2>1, <2>3, <2>4, <2>5 DEF IntakeInv, IntakeGrants
  <2>11. IntakeCredits'
    BY <2>1, <2>3, IntakeSameRows DEF IntakeInv, IntakeCredits
  <2> QED BY <2>3, <2>6, <2>7, <2>8, <2>9, <2>10, <2>11 DEF IntakeInv
<1>2. ASSUME UNCHANGED <<pro, grants>>,
             IF my[t].n < Attempts THEN Intake!Keep(t, "g_read", [my[t] EXCEPT !.n = @ + 1])
               ELSE Intake!End(t)
      PROVE IntakeInv'
  BY <1>2, IntakeOtherwise DEF Intake!GrantCommit, Intake!quotaState
<1> QED BY <1>1, <1>2 DEF Intake!GrantCommit

LEMMA IntakeEraseReports ==
  ASSUME IntakeCalm, IntakeInv, NEW t \in Tasks, Intake!EraseReports(t)
  PROVE  IntakeInv'
<1> DEFINE d == my[t].dev
           wiped(row) == [row EXCEPT !.st = "erased"]
<1>0. IntakeKnows(at[t], my[t], rep) /\ IntakeTyped /\ my[t] \in Intake!Jobs
      /\ DOMAIN rep = Intake!Reports
  BY IntakeFilings DEF IntakeInv
<1>1. /\ at[t] = "e_reports" /\ d \in Devices /\ my[t].op = "erase"
      /\ pdf' = {r \in pdf : rep[r].dev # d}
      /\ rep' = [r \in Intake!Reports |-> IF rep[r].dev = d THEN wiped(rep[r]) ELSE rep[r]]
      /\ Intake!Keep(t, "e_grant", my[t]) /\ "e_grant" \in Intake!Labels
         /\ UNCHANGED <<Intake!quotaState, orders>>
  BY <1>0 DEF Intake!EraseReports, IntakeKnows, Intake!Go, Intake!Labels, Intake!Dev
<1>2. \A r \in Intake!Reports : /\ rep[r] \in Intake!ReportRows /\ wiped(rep[r]) \in Intake!ReportRows
                         /\ wiped(rep[r]).dev = rep[r].dev /\ wiped(rep[r]).order = rep[r].order
                         /\ wiped(rep[r]).tier = rep[r].tier /\ wiped(rep[r]).st = "erased"
  BY IntakeRanges DEF Intake!ReportRows
<1> HIDE DEF wiped
<1>3. /\ rep' \in Seq(Intake!ReportRows) /\ Len(rep') = Len(rep) /\ Intake!Reports' = Intake!Reports
         /\ DOMAIN rep' = Intake!Reports
      /\ \A r \in Intake!Reports : rep'[r] = IF rep[r].dev = d THEN wiped(rep[r]) ELSE rep[r]
  <2>1. rep' \in [1 .. Len(rep) -> Intake!ReportRows] /\ Len(rep) \in Nat
    BY <1>0, <1>1, <1>2 DEF Intake!Reports, IntakeTyped
  <2>2. rep' \in Seq(Intake!ReportRows) /\ Len(rep') = Len(rep)
    BY <2>1
  <2> QED BY <1>1, <2>2 DEF Intake!Reports
<1>4. /\ at' \in [Tasks -> Intake!Labels] /\ my' \in [Tasks -> Intake!Jobs] /\ at'[t] = "e_grant"
         /\ my'[t] = my[t]
      /\ \A u \in Tasks : u # t => at'[u] = at[u] /\ my'[u] = my[u]
      /\ IntakeAlone' /\ (\A r : IntakeRemoving(r) => IntakeRemoving(r)')
         /\ (\A e \in Devices : IntakeWiping(e) => IntakeWiping(e)')
      /\ \A e \in Devices : Intake!InFlight(e)' = Intake!InFlight(e)
  BY <1>0, <1>1, IntakePassesBy
<1>5. \A e : e = d => IntakeWiping(e)'
  BY <1>4 DEF IntakeWiping
<1>6. \A r \in Intake!Reports : rep'[r].dev = rep[r].dev /\ rep'[r].order = rep[r].order
                         /\ rep'[r].tier = rep[r].tier /\ (rep[r].dev = d => rep'[r].st = "erased")
                         /\ (rep[r].dev # d => rep'[r] = rep[r])
  BY <1>2, <1>3
<1>7. IntakeTyped'
  BY <1>0, <1>1, <1>3, <1>4 DEF IntakeTyped, Intake!quotaState
<1>8. IntakePlaced'
  <2>1. IntakeKnows("e_grant", my[t], rep')
    BY <1>1, <1>3, <1>6 DEF IntakeKnows, IntakeCreating, IntakeFiling
  <2>2. ASSUME NEW u \in Tasks, u # t PROVE IntakeKnows(at[u], my[u], rep')
    <3>1. IntakeKnows(at[u], my[u], rep)
      BY DEF IntakeInv, IntakePlaced
    <3>2. at[u] \notin {"r_object", "r_row"}
      BY <1>1, <2>2, <3>1 DEF IntakeInv, IntakeAlone, IntakeMeet, IntakeKnows
    <3>3. \A r \in Intake!Reports : rep[r].st = "erased" => rep'[r].st = "erased"
      BY <1>6
    <3> QED BY <1>0, <1>3, <1>6, <3>1, <3>2, <3>3 DEF IntakeKnows, IntakeFiling
  <2> QED BY <1>4, <2>1, <2>2 DEF IntakePlaced
<1>9. IntakeFiled'
  <2>1. at[t] \notin IntakeFiling
    BY <1>1 DEF IntakeFiling
  <2>2. orders' = orders /\ Intake!Reports' = Intake!Reports
        /\ \A r \in Intake!Reports : rep'[r].order = rep[r].order
    BY <1>1, <1>3, <1>6
  <2>3. Intake!SubmittedHasReport'
    BY <2>2 DEF IntakeInv, IntakeFiled, Intake!SubmittedHasReport
  <2> QED BY <1>4, <2>1, <2>2, <2>3 DEF IntakeInv, IntakeFiled
<1>10. IntakeStored'
  <2>1. \A r \in Intake!Live' : r \in Intake!Live /\ rep[r].dev # d /\ rep'[r] = rep[r]
    BY <1>3, <1>6 DEF Intake!Live
  <2>2. \A r \in pdf : r \in Intake!Live' => r \in pdf'
    BY <1>1, <2>1
  <2> QED BY <1>1, <1>4, <2>1, <2>2 DEF IntakeInv, IntakeStored
<1>11. IntakeGrants'
  BY <1>1, <1>4 DEF IntakeInv, IntakeGrants, Intake!quotaState
<1>12. IntakeCredits'
  <2>1. ASSUME NEW e \in Devices, e # d PROVE Intake!FreeReports(e)' = Intake!FreeReports(e)
    BY <1>3, <1>6, <2>1 DEF Intake!FreeReports
  <2> QED BY <1>1, <1>4, <1>5, <2>1 DEF IntakeInv, IntakeCredits, Intake!quotaState
<1> QED BY <1>4, <1>7, <1>8, <1>9, <1>10, <1>11, <1>12 DEF IntakeInv

LEMMA IntakeEraseGrant ==
  ASSUME IntakeCalm, IntakeInv, NEW t \in Tasks, Intake!EraseGrant(t)
  PROVE  IntakeInv'
<1> DEFINE d == my[t].dev
<1>0. IntakeKnows(at[t], my[t], rep) /\ IntakeTyped /\ my[t] \in Intake!Jobs
  BY IntakeFilings DEF IntakeInv
<1>1. /\ at[t] = "e_grant" /\ d \in Devices /\ my[t].op = "erase" /\ grants' = grants \ {d}
      /\ Intake!Keep(t, "e_quota", my[t]) /\ "e_quota" \in Intake!Labels
         /\ UNCHANGED <<rep, pdf, used, pro, orders>>
  BY <1>0 DEF Intake!EraseGrant, IntakeKnows, Intake!Go, Intake!Labels, Intake!Dev
<1>2. /\ at' \in [Tasks -> Intake!Labels] /\ my' \in [Tasks -> Intake!Jobs] /\ at'[t] = "e_quota"
         /\ my'[t] = my[t]
      /\ \A u \in Tasks : u # t => at'[u] = at[u] /\ my'[u] = my[u]
      /\ IntakeAlone'
  BY <1>0, <1>1, IntakePasses
<1>3. \A e \in Devices : IntakeWiping(e)' = IntakeWiping(e) /\ (e = d => IntakeWiping(e)')
  BY <1>1, <1>2 DEF IntakeWiping
<1>4. \A r : IntakeRemoving(r) => IntakeRemoving(r)'
  BY <1>1, <1>2 DEF IntakeRemoving
<1>5. \A e \in Devices : Intake!InFlight(e)' = Intake!InFlight(e)
  BY <1>1, <1>2 DEF Intake!InFlight
<1>6. IsFiniteSet(grants') /\ grants' \subseteq Devices /\ Cardinality(grants') <= PurchaseCap
  <2>1. grants' \subseteq grants /\ IsFiniteSet(grants)
    BY <1>0, <1>1 DEF IntakeTyped
  <2>2. IsFiniteSet(grants') /\ Cardinality(grants') <= Cardinality(grants)
    BY <2>1, FS_Subset
  <2>3. Cardinality(grants') \in Nat /\ Cardinality(grants) \in Nat
        /\ Cardinality(grants) <= PurchaseCap
    BY <2>1, <2>2, FS_CardinalityType DEF IntakeInv, IntakeGrants
  <2> QED BY <1>0, <2>1, <2>2, <2>3 DEF IntakeTyped, IntakeCalm
<1>7. IntakeTyped'
  BY <1>0, <1>1, <1>2, <1>6 DEF IntakeTyped, Intake!Reports
<1>8. IntakePlaced'
  <2>1. IntakeKnows("e_quota", my[t], rep)
    BY <1>0, <1>1 DEF IntakeKnows, IntakeCreating, IntakeFiling
  <2> QED BY <1>1, <1>2, <2>1 DEF IntakePlaced, IntakeInv
<1>9. IntakeFiled'
  <2>1. at[t] \notin IntakeFiling
    BY <1>1 DEF IntakeFiling
  <2> QED BY <1>1, <1>2, <2>1, IntakeSameRows DEF IntakeInv, IntakeFiled
<1>10. IntakeStored'
  BY <1>1, <1>2, <1>4, IntakeSameRows DEF IntakeInv, IntakeStored
<1>11. IntakeGrants'
  BY <1>1, <1>3, <1>6 DEF IntakeInv, IntakeGrants
<1>12. IntakeCredits'
  BY <1>1, <1>3, <1>5, IntakeSameRows DEF IntakeInv, IntakeCredits
<1> QED BY <1>2, <1>7, <1>8, <1>9, <1>10, <1>11, <1>12 DEF IntakeInv

LEMMA IntakeEraseQuota ==
  ASSUME IntakeCalm, IntakeInv, NEW t \in Tasks, Intake!EraseQuota(t)
  PROVE  IntakeInv'
<1> DEFINE d == my[t].dev
<1>0. IntakeKnows(at[t], my[t], rep) /\ IntakeTyped /\ Intake!NoJob \in Intake!Jobs
      /\ DOMAIN rep = Intake!Reports
  BY IntakeFilings, IntakeRanges DEF IntakeInv
<1>1. /\ at[t] = "e_quota" /\ d \in Devices /\ my[t].op = "erase"
      /\ (\A r \in Intake!Reports : rep[r].dev = d => rep[r].st = "erased")
      /\ used' = [used EXCEPT ![d] = 0] /\ pro' = [pro EXCEPT ![d] = FALSE]
      /\ Intake!Keep(t, "idle", Intake!NoJob) /\ "idle" \in Intake!Labels
         /\ UNCHANGED <<rep, pdf, grants, orders>>
  BY <1>0 DEF Intake!EraseQuota, IntakeKnows, Intake!End, Intake!Labels, Intake!Dev
<1>2. Intake!NoJob.op = "none"
  BY DEF Intake!NoJob
<1>3. /\ at' \in [Tasks -> Intake!Labels] /\ my' \in [Tasks -> Intake!Jobs] /\ at'[t] = "idle"
         /\ my'[t] = Intake!NoJob
      /\ \A u \in Tasks : u # t => at'[u] = at[u] /\ my'[u] = my[u]
      /\ IntakeAlone'
  BY <1>0, <1>1, <1>2, IntakePasses
<1>4. \A e \in Devices : e # d => (IntakeWiping(e) => IntakeWiping(e)')
  BY <1>1, <1>3 DEF IntakeWiping
<1>5. \A r : IntakeRemoving(r) => IntakeRemoving(r)'
  BY <1>1, <1>3 DEF IntakeRemoving
<1>6. \A e \in Devices : Intake!InFlight(e)' = Intake!InFlight(e)
  BY <1>1, <1>3 DEF Intake!InFlight
<1>7. /\ used' \in [Devices -> Int] /\ pro' \in [Devices -> BOOLEAN] /\ used'[d] = 0 /\ ~pro'[d]
      /\ \A e \in Devices : e # d => used'[e] = used[e] /\ pro'[e] = pro[e]
  BY <1>0, <1>1 DEF IntakeTyped
<1>8. IntakeTyped'
  BY <1>0, <1>1, <1>3, <1>7 DEF IntakeTyped, Intake!Reports
<1>9. IntakePlaced'
  <2>1. IntakeKnows("idle", Intake!NoJob, rep)
    BY DEF IntakeKnows, IntakeCreating, IntakeFiling
  <2> QED BY <1>1, <1>3, <2>1 DEF IntakePlaced, IntakeInv
<1>10. IntakeFiled'
  <2>1. at[t] \notin IntakeFiling
    BY <1>1 DEF IntakeFiling
  <2> QED BY <1>1, <1>3, <2>1, IntakeSameRows DEF IntakeInv, IntakeFiled
<1>11. IntakeStored'
  BY <1>1, <1>3, <1>5, IntakeSameRows DEF IntakeInv, IntakeStored
<1>12. IntakeGrants'
  BY <1>1, <1>4, <1>7 DEF IntakeInv, IntakeGrants
<1>13. IntakeCredits'
  <2>1. ASSUME NEW e \in Devices, e # d, ~IntakeWiping(e)'
        PROVE  used'[e] = Cardinality(Intake!FreeReports(e)') + Cardinality(Intake!InFlight(e)')
    BY <1>1, <1>4, <1>6, <1>7, <2>1, IntakeSameRows DEF IntakeInv, IntakeCredits
  <2>2. ASSUME NEW e \in Devices, e = d
        PROVE  used'[e] = Cardinality(Intake!FreeReports(e)') + Cardinality(Intake!InFlight(e)')
    <3>1. Intake!FreeReports(e) = {}
      BY <1>1, <2>2 DEF Intake!FreeReports
    <3>2. ASSUME NEW u \in Intake!InFlight(e) PROVE FALSE
      <4>1. u \in Tasks /\ at[u] \in {"c_row", "c_back"} /\ IntakeKnows(at[u], my[u], rep)
        BY DEF Intake!InFlight, IntakeInv, IntakePlaced
      <4>2. my[u].op = "create" /\ u # t
        BY <1>1, <4>1 DEF IntakeKnows, IntakeCreating
      <4> QED BY <1>1, <4>1, <4>2 DEF IntakeInv, IntakeAlone, IntakeMeet
    <3>3. Intake!InFlight(e) = {}
      BY <3>2
    <3>4. Intake!FreeReports(e)' = {} /\ Intake!InFlight(e)' = {}
      BY <1>1, <1>6, <3>1, <3>3, IntakeSameRows
    <3>5. Cardinality({}) = 0
      BY FS_EmptySet
    <3> QED BY <1>7, <2>2, <3>4, <3>5
  <2> QED BY <2>1, <2>2 DEF IntakeCredits
<1> QED BY <1>3, <1>8, <1>9, <1>10, <1>11, <1>12, <1>13 DEF IntakeInv

LEMMA IntakeInit == IntakeCalm /\ Intake!Init => IntakeInv
<1> SUFFICES ASSUME IntakeCalm, Intake!Init PROVE IntakeInv
  OBVIOUS
<1>1. Intake!NoJob \in Intake!Jobs /\ Intake!NoJob.op = "none" /\ Intake!NoJob.id = 0
  BY IntakeJobs DEF Intake!NoJob
<1>2. rep = <<>> /\ Len(rep) = 0 /\ Intake!Reports = {} /\ rep \in Seq(Intake!ReportRows)
  BY DEF Intake!Init, Intake!Reports
<1>3. IsFiniteSet(grants) /\ Cardinality(grants) = 0
  BY FS_EmptySet DEF Intake!Init
<1>4. IntakeTyped
  BY <1>1, <1>2, <1>3 DEF Intake!Init, IntakeTyped, IntakeCalm, Intake!Labels, Intake!Attachable
<1>5. IntakePlaced /\ IntakeAlone
  BY <1>1 DEF Intake!Init, IntakePlaced, IntakeAlone, IntakeMeet, IntakeKnows, IntakeCreating,
     IntakeFiling
<1>6. IntakeFiled /\ IntakeStored
  BY <1>2 DEF Intake!Init, IntakeFiled, IntakeStored, Intake!SubmittedHasReport, Intake!Live
<1>7. IntakeGrants
  BY <1>3 DEF Intake!Init, IntakeGrants, IntakeCalm
<1>8. \A d \in Devices : Intake!FreeReports(d) = {} /\ Intake!InFlight(d) = {}
  BY <1>2 DEF Intake!Init, Intake!FreeReports, Intake!InFlight
<1>9. IntakeCredits
  <2>1. Cardinality({}) = 0
    BY FS_EmptySet
  <2>2. \A d \in Devices : used[d] = 0
    BY DEF Intake!Init
  <2> QED BY <1>8, <2>1, <2>2 DEF IntakeCredits
<1> QED BY <1>4, <1>5, <1>6, <1>7, <1>9 DEF IntakeInv

LEMMA IntakeStep == IntakeCalm /\ IntakeInv /\ (Intake!Next \/ UNCHANGED Intake!vars) => IntakeInv'
<1> SUFFICES ASSUME IntakeCalm, IntakeInv, Intake!Next \/ UNCHANGED Intake!vars PROVE IntakeInv'
  OBVIOUS
<1>1. ASSUME NEW t \in Tasks, Intake!Called(t) \/ Intake!Continue(t) \/ Intake!Die(t) PROVE IntakeInv'
  <2>1. ASSUME Intake!Continue(t) PROVE IntakeInv'
    BY <2>1, IntakeLocalSteps, IntakeFlagSteps, IntakeTakes, IntakeCreateRow, IntakeSubmitted,
       IntakeAttachWrite, IntakeRemoveObject, IntakeRemoveRow, IntakeGrantCommit,
       IntakeEraseReports, IntakeEraseGrant, IntakeEraseQuota DEF Intake!Continue
  <2> QED BY <1>1, <2>1, IntakeCalled, IntakeOtherwise DEF Intake!Die
<1>2. ASSUME UNCHANGED Intake!vars PROVE IntakeInv'
  <2>1. IntakeTyped' /\ IntakePlaced' /\ IntakeAlone' /\ IntakeFiled'
    BY <1>2 DEF IntakeInv, IntakeTyped, IntakePlaced, IntakeAlone, IntakeFiled,
       Intake!SubmittedHasReport, Intake!vars, Intake!quotaState, Intake!Reports
  <2>2. IntakeStored' /\ IntakeGrants' /\ IntakeCredits'
    BY <1>2 DEF IntakeInv, IntakeStored, IntakeGrants, IntakeCredits, Intake!Live, IntakeRemoving,
       IntakeWiping, Intake!FreeReports, Intake!InFlight, Intake!vars, Intake!quotaState,
       Intake!Reports
  <2> QED BY <2>1, <2>2 DEF IntakeInv
<1> QED BY <1>1, <1>2, IntakePutFile DEF Intake!Next

LEMMA IntakePromises ==
  ASSUME IntakeCalm, IntakeInv
  PROVE  Intake!CreditsMatch /\ Intake!ProIsBought /\ Intake!ReportsMatchOrders
         /\ Intake!UploadedHasFile
<1>1. \A d \in Devices : IntakeWiping(d) => Intake!Erasing(d)
  BY DEF IntakeWiping, Intake!Erasing, IntakeInv, IntakePlaced, IntakeKnows
<1>2. Intake!CreditsMatch /\ Intake!ProIsBought
  BY <1>1, IntakeCounting DEF IntakeInv, IntakeCredits, IntakeGrants, Intake!CreditsMatch,
     Intake!ProIsBought, Intake!ProIsGranted, Intake!CapHolds
<1>3. Intake!FiledIsSubmitted
  BY DEF IntakeInv, IntakeFiled, Intake!FiledIsSubmitted, Intake!Live
<1>4. Intake!UploadedHasFile
  BY DEF IntakeInv, IntakeStored, Intake!UploadedHasFile, IntakeRemoving
<1> QED BY <1>2, <1>3, <1>4 DEF Intake!ReportsMatchOrders, IntakeInv, IntakeFiled

-----------------------------------------------------------------------------
(***************************************************************************)
(* A login, a token of a letter, and who is erased.  Of those who spend a token *)
(* one runs at a time.                                                      *)
(***************************************************************************)
Spenders == {"verifyEmail", "confirmPasswordReset"}
AccountsCalm ==
  /\ Spenders \subseteq PartAlone /\ IsFiniteSet(Tasks) /\ MaxFailures \in Nat \ {0}

Persons == [st : {"none", "live", "erased"}, mail : BOOLEAN, pw : BOOLEAN, verified : BOOLEAN]
MailTokens == [st : {"none", "fresh", "consumed", "gone"}, of : Users \cup {NoOne},
  purpose : Accounts!Purposes]
AccountJobs == [op : Accounts!HandlerNames \cup {"none"}, u : Users \cup {NoOne},
  k : Tokens \cup {NoOne}]
AccountTyped ==
  /\ person \in [Users -> Persons] /\ token \in [Tokens -> MailTokens] /\ spent \in [Tokens -> 0 .. 2]
  /\ fails \in Nat /\ guesses \in Nat
  /\ at \in [Tasks -> Accounts!Labels] /\ my \in [Tasks -> AccountJobs]

\* Who is erased holds no address.
ErasedIsNobody == \A u \in Users : person[u].mail => person[u].st # "erased"

\* A token that may still be spent was not, and one spends at a time.
Spending(t) == at[t] \in {"k_use", "k_done"}
TokenSpent ==
  /\ \A t, s \in Tasks : my[t].op \in Spenders /\ my[s].op \in Spenders => t = s
  /\ \A t \in Tasks : Spending(t) => my[t].op \in Spenders /\ my[t].k \in Tokens /\ spent[my[t].k] = 0
  /\ \A t \in Tasks : at[t] = "k_done" => token[my[t].k].st \in {"consumed", "gone"}
  /\ \A k \in Tokens : spent[k] <= 1 /\ (token[k].st \in {"none", "fresh"} => spent[k] = 0)

\* Refused and not yet counted, and those that may still come to that.
Uncounted == {t \in Tasks : at[t] = "l_count"}
Trying == {t \in Tasks : at[t] \in {"l_verify", "l_count"}}
LoginCounted ==
  /\ guesses <= fails + Cardinality(Uncounted)
  /\ fails + Cardinality(Trying) < MaxFailures + Cardinality(Tasks)

AccountInv == AccountTyped /\ ErasedIsNobody /\ TokenSpent /\ LoginCounted

-----------------------------------------------------------------------------
LEMMA AccountCounting == \A S : Accounts!Cardinality(S) = Cardinality(S)
BY DEF Accounts!Cardinality, Cardinality

LEMMA AccountFinite ==
  ASSUME AccountsCalm
  PROVE  /\ IsFiniteSet(Uncounted) /\ IsFiniteSet(Trying)
         /\ Cardinality(Uncounted) \in Nat /\ Cardinality(Trying) \in Nat /\ Cardinality(Tasks) \in Nat
         /\ Cardinality(Uncounted) <= Cardinality(Trying) /\ Cardinality(Trying) <= Cardinality(Tasks)
<1>1. IsFiniteSet(Tasks) /\ Trying \subseteq Tasks /\ Uncounted \subseteq Trying
  BY DEF AccountsCalm, Uncounted, Trying
<1>2. IsFiniteSet(Trying) /\ Cardinality(Trying) <= Cardinality(Tasks)
  BY <1>1, FS_Subset
<1>3. IsFiniteSet(Uncounted) /\ Cardinality(Uncounted) <= Cardinality(Trying)
  BY <1>1, <1>2, FS_Subset
<1> QED BY <1>1, <1>2, <1>3, FS_CardinalityType

LEMMA AccountMoves ==
  ASSUME AccountTyped, NEW t \in Tasks, NEW l \in Accounts!Labels, NEW j \in AccountJobs,
         at' = [at EXCEPT ![t] = l], my' = [my EXCEPT ![t] = j]
  PROVE  /\ at' \in [Tasks -> Accounts!Labels] /\ my' \in [Tasks -> AccountJobs]
         /\ at'[t] = l /\ my'[t] = j
         /\ \A s \in Tasks : s # t => at'[s] = at[s] /\ my'[s] = my[s]
BY DEF AccountTyped

\* A step that has nothing to do with passwords.
LEMMA LoginKept ==
  ASSUME AccountTyped, LoginCounted, NEW t \in Tasks, NEW l \in Accounts!Labels,
         at' = [at EXCEPT ![t] = l],
         l \notin {"l_verify", "l_count"}, at[t] \notin {"l_verify", "l_count"},
           UNCHANGED Accounts!logins
  PROVE  LoginCounted'
<1>1. \A s \in Tasks : s # t => at'[s] = at[s]
  BY DEF AccountTyped
<1>2. at'[t] = l
  BY DEF AccountTyped
<1>3. Uncounted' = Uncounted /\ Trying' = Trying
  BY <1>1, <1>2 DEF Uncounted, Trying
<1> QED BY <1>3 DEF LoginCounted, Accounts!logins

\* A step that spends no token.
LEMMA TokensKept ==
  ASSUME AccountTyped, TokenSpent, NEW t \in Tasks, NEW l \in Accounts!Labels, NEW j \in AccountJobs,
         at' = [at EXCEPT ![t] = l], my' = [my EXCEPT ![t] = j],
         l \notin {"k_use", "k_done"}, j.op \in Spenders => j.op = my[t].op,
         UNCHANGED spent, token' \in [Tokens -> MailTokens],
         \A k \in Tokens : \/ token'[k] = token[k]
                           \/ token[k].st = "none"
  PROVE  TokenSpent'
<1>1. /\ at'[t] = l /\ my'[t] = j
      /\ \A s \in Tasks : s # t => at'[s] = at[s] /\ my'[s] = my[s]
  BY AccountMoves
<1>2. \A k \in Tokens : spent'[k] <= 1 /\ (token'[k].st \in {"none", "fresh"} => spent'[k] = 0)
  BY DEF TokenSpent
<1>3. \A s \in Tasks : Spending(s)' => s # t /\ Spending(s)
  BY <1>1 DEF Spending
<1>4. \A s \in Tasks : at'[s] = "k_done" => token'[my'[s].k].st \in {"consumed", "gone"}
  BY <1>1 DEF TokenSpent, Spending
<1> QED BY <1>1, <1>2, <1>3, <1>4 DEF TokenSpent

LEMMA AccountNames ==
  /\ Accounts!NoJob \in AccountJobs /\ Accounts!NoJob.op = "none"
  /\ \A op \in Accounts!HandlerNames, u \in Users \cup {NoOne}, k \in Tokens \cup {NoOne} :
       /\ [op |-> op, u |-> u, k |-> k] \in AccountJobs
       /\ [op |-> op, u |-> u, k |-> k].op = op
  /\ \A j \in AccountJobs, u \in Users \cup {NoOne}, k \in Tokens \cup {NoOne} :
       /\ [j EXCEPT !.u = u, !.k = k] \in AccountJobs
       /\ [j EXCEPT !.u = u, !.k = k].op = j.op /\ [j EXCEPT !.u = u, !.k = k].k = k
  /\ \A v, pw \in BOOLEAN : Accounts!Made(v, pw) \in Persons /\ Accounts!Made(v, pw).st = "live"
BY DEF AccountJobs, Accounts!NoJob, Accounts!HandlerNames, Accounts!Made, Persons

LEMMA AccountInit == AccountsCalm /\ Accounts!Init => AccountInv
<1> SUFFICES ASSUME AccountsCalm, Accounts!Init PROVE AccountInv
  OBVIOUS
<1>a. Accounts!NoRow \in Persons /\ Accounts!NoRow.mail = FALSE
  BY DEF Accounts!NoRow, Persons
<1>b. Accounts!NoToken \in MailTokens
  BY DEF Accounts!NoToken, MailTokens, Accounts!Purposes
<1>c. "idle" \in Accounts!Labels
  BY DEF Accounts!Labels
<1>h. 0 \in Nat /\ 0 \in 0 .. 2
  OBVIOUS
<1>i. Accounts!NoJob \in AccountJobs
  BY AccountNames
<1>j. person \in [Users -> Persons] /\ token \in [Tokens -> MailTokens]
  BY <1>a, <1>b DEF Accounts!Init
<1>k. spent \in [Tokens -> 0 .. 2] /\ fails \in Nat /\ guesses \in Nat
  BY <1>h DEF Accounts!Init
<1>l. at \in [Tasks -> Accounts!Labels] /\ my \in [Tasks -> AccountJobs]
  BY <1>c, <1>i DEF Accounts!Init
<1>1. AccountTyped
  BY <1>j, <1>k, <1>l DEF AccountTyped
<1>d. ErasedIsNobody
  BY <1>a DEF Accounts!Init, ErasedIsNobody
<1>e. \A t \in Tasks : my[t].op = "none" /\ at[t] = "idle"
  BY AccountNames DEF Accounts!Init
<1>f. \A k \in Tokens : spent[k] = 0
  BY DEF Accounts!Init
<1>2. TokenSpent
  BY <1>e, <1>f DEF TokenSpent, Spenders, Spending
<1>3. Uncounted = {} /\ Trying = {} /\ Cardinality({}) = 0
  BY <1>e, FS_EmptySet DEF Uncounted, Trying
<1>4. LoginCounted
  BY <1>3, AccountFinite DEF Accounts!Init, LoginCounted, AccountsCalm
<1> QED BY <1>1, <1>d, <1>2, <1>4 DEF AccountInv

-----------------------------------------------------------------------------
\* What the steps that make rows and tokens do to the four parts.
LEMMA ErasedKept ==
  ASSUME AccountTyped, ErasedIsNobody, NEW u \in Users, NEW r \in Persons,
         person' = [person EXCEPT ![u] = r], r.mail => r.st # "erased"
  PROVE  ErasedIsNobody' /\ person' \in [Users -> Persons]
BY DEF AccountTyped, ErasedIsNobody

LEMMA AccountRowChanges ==
  ASSUME NEW r \in Persons
  PROVE  /\ [r EXCEPT !.pw = TRUE, !.st = "live"] \in Persons
         /\ [r EXCEPT !.pw = TRUE, !.st = "live"].st = "live"
         /\ [r EXCEPT !.st = "live"] \in Persons /\ [r EXCEPT !.st = "live"].st = "live"
         /\ [r EXCEPT !.pw = TRUE] \in Persons /\ [r EXCEPT !.pw = TRUE].st = r.st
         /\ [r EXCEPT !.pw = TRUE].mail = r.mail
         /\ [r EXCEPT !.verified = TRUE] \in Persons /\ [r EXCEPT !.verified = TRUE].st = r.st
         /\ [r EXCEPT !.verified = TRUE].mail = r.mail
BY DEF Persons

\* A step of a task between requests, or of none of the spenders, that touches no token.
LEMMA AccountPlain ==
  ASSUME AccountInv, NEW t \in Tasks, NEW l \in Accounts!Labels, NEW j \in AccountJobs,
         at' = [at EXCEPT ![t] = l], my' = [my EXCEPT ![t] = j],
         l \notin {"k_use", "k_done", "l_verify", "l_count"}, at[t] \notin {"l_verify", "l_count"},
         j.op \in Spenders => j.op = my[t].op,
         UNCHANGED <<Accounts!logins, spent>>, token' \in [Tokens -> MailTokens],
         \A k \in Tokens : token'[k] = token[k] \/ token[k].st = "none",
         person' \in [Users -> Persons], ErasedIsNobody'
  PROVE  AccountInv'
<1>1. AccountTyped /\ TokenSpent /\ LoginCounted
  BY DEF AccountInv
<1>2. at' \in [Tasks -> Accounts!Labels] /\ my' \in [Tasks -> AccountJobs]
  BY <1>1, AccountMoves
<1>3. AccountTyped'
  BY <1>1, <1>2 DEF AccountTyped, Accounts!logins
<1>4. TokenSpent'
  BY <1>1, TokensKept
<1>5. LoginCounted'
  BY <1>1, LoginKept DEF Accounts!logins
<1> QED BY <1>3, <1>4, <1>5 DEF AccountInv

\* The three ways a task goes on, in the terms of the lemmas above.
LEMMA AccountGoes ==
  ASSUME AccountTyped, NEW t \in Tasks
  PROVE  /\ \A l \in Accounts!Labels, u \in Users \cup {NoOne}, k \in Tokens \cup {NoOne} :
              Accounts!Keep(t, l, u, k) =>
                \E j \in AccountJobs : /\ at' = [at EXCEPT ![t] = l] /\ my' = [my EXCEPT ![t] = j]
                                       /\ j.op = my[t].op /\ j.k = k
         /\ Accounts!Stop(t) => /\ at' = [at EXCEPT ![t] = "idle"]
                                   /\ my' = [my EXCEPT ![t] = Accounts!NoJob]
                                /\ Accounts!NoJob \in AccountJobs /\ Accounts!NoJob.op \notin Spenders
         /\ \A l \in Accounts!Labels, op \in Accounts!HandlerNames, u \in Users \cup {NoOne},
            k \in Tokens \cup {NoOne} :
              Accounts!Begin(t, l, op, u, k) =>
                \E j \in AccountJobs : /\ at' = [at EXCEPT ![t] = l] /\ my' = [my EXCEPT ![t] = j]
                                       /\ j.op = op /\ j.k = k /\ at[t] = "idle"
         /\ my[t] \in AccountJobs /\ my[t].k \in Tokens \cup {NoOne} /\ my[t].u \in Users \cup {NoOne}
<1>1. my[t] \in AccountJobs
  BY DEF AccountTyped
<1>2. my[t].k \in Tokens \cup {NoOne} /\ my[t].u \in Users \cup {NoOne}
  BY <1>1 DEF AccountJobs
<1>3. ASSUME NEW l \in Accounts!Labels, NEW u \in Users \cup {NoOne}, NEW k \in Tokens \cup {NoOne},
             Accounts!Keep(t, l, u, k)
      PROVE  \E j \in AccountJobs : /\ at' = [at EXCEPT ![t] = l] /\ my' = [my EXCEPT ![t] = j]
                                    /\ j.op = my[t].op /\ j.k = k
  <2> DEFINE j == [my[t] EXCEPT !.u = u, !.k = k]
  <2>0. \A i \in AccountJobs : /\ [i EXCEPT !.u = u, !.k = k] \in AccountJobs
                              /\ [i EXCEPT !.u = u, !.k = k].op = i.op
                              /\ [i EXCEPT !.u = u, !.k = k].k = k
    BY DEF AccountJobs
  <2>1. j \in AccountJobs /\ j.op = my[t].op /\ j.k = k
    BY <1>1, <2>0
  <2>2. at' = [at EXCEPT ![t] = l] /\ my' = [my EXCEPT ![t] = j]
    BY <1>3 DEF Accounts!Keep, AccountTyped
  <2> QED BY <2>1, <2>2
<1>4. Accounts!Stop(t) => /\ at' = [at EXCEPT ![t] = "idle"] /\ my' = [my EXCEPT ![t] = Accounts!NoJob]
                          /\ Accounts!NoJob \in AccountJobs /\ Accounts!NoJob.op \notin Spenders
  BY AccountNames DEF Accounts!Stop, Spenders
<1>5. ASSUME NEW l \in Accounts!Labels, NEW op \in Accounts!HandlerNames, NEW u \in Users \cup {NoOne},
             NEW k \in Tokens \cup {NoOne}, Accounts!Begin(t, l, op, u, k)
      PROVE  \E j \in AccountJobs : /\ at' = [at EXCEPT ![t] = l] /\ my' = [my EXCEPT ![t] = j]
                                    /\ j.op = op /\ j.k = k /\ at[t] = "idle"
  <2> DEFINE j == [op |-> op, u |-> u, k |-> k]
  <2>1. j \in AccountJobs /\ j.op = op /\ j.k = k
    BY AccountNames
  <2>2. at[t] = "idle" /\ at' = [at EXCEPT ![t] = l] /\ my' = [my EXCEPT ![t] = j]
    BY <1>5 DEF Accounts!Begin
  <2> QED BY <2>1, <2>2
<1> QED BY <1>1, <1>2, <1>3, <1>4, <1>5

-----------------------------------------------------------------------------
\* One lemma for each group of handlers.
LEMMA AccountSignUp ==
  ASSUME AccountsCalm, AccountInv, NEW t \in Tasks,
         \/ Accounts!Register(t) \/ Accounts!UpsertUser(t) \/ Accounts!RegisterToken(t)
            \/ Accounts!OauthUpsert(t) \/ Accounts!OauthUser(t)
         \/ Accounts!OauthAccount(t) \/ Accounts!RequestPasswordReset(t) \/ Accounts!ResetToken(t)
  PROVE  AccountInv'
<1>1. AccountTyped /\ ErasedIsNobody
  BY DEF AccountInv
<1>2. /\ \A u \in Users : person[u] \in Persons
      /\ person \in [Users -> Persons] /\ token \in [Tokens -> MailTokens]
  BY <1>1 DEF AccountTyped
<1>3. UNCHANGED person => ErasedIsNobody' /\ person' \in [Users -> Persons]
  BY <1>1, <1>2 DEF ErasedIsNobody
<1>l. {"idle", "g_upsert", "g_token", "o_user", "o_account", "rp_token"} \subseteq Accounts!Labels
  BY DEF Accounts!Labels
<1>h. {"register", "oauthUpsert", "requestPasswordReset"} \subseteq Accounts!HandlerNames \ Spenders
  BY DEF Accounts!HandlerNames, Spenders
<1>4. CASE Accounts!Register(t)
  <2>1. Accounts!Begin(t, "g_upsert", "register", NoOne, NoOne)
        /\ UNCHANGED <<person, token, Accounts!logins, spent>>
    BY <1>4 DEF Accounts!Register, Accounts!users
  <2>2. PICK j \in AccountJobs : /\ at' = [at EXCEPT ![t] = "g_upsert"] /\ my' = [my EXCEPT ![t] = j]
                                 /\ j.op = "register" /\ at[t] = "idle"
    BY <2>1, <1>1, <1>l, <1>h, AccountGoes
  <2> QED BY <2>1, <2>2, <1>2, <1>3, <1>l, <1>h, AccountPlain
<1>5. CASE Accounts!OauthUpsert(t)
  <2>1. Accounts!Begin(t, "o_user", "oauthUpsert", NoOne, NoOne)
        /\ UNCHANGED <<person, token, Accounts!logins, spent>>
    BY <1>5 DEF Accounts!OauthUpsert, Accounts!users
  <2>2. PICK j \in AccountJobs : /\ at' = [at EXCEPT ![t] = "o_user"] /\ my' = [my EXCEPT ![t] = j]
                                 /\ j.op = "oauthUpsert" /\ at[t] = "idle"
    BY <2>1, <1>1, <1>l, <1>h, AccountGoes
  <2> QED BY <2>1, <2>2, <1>2, <1>3, <1>l, <1>h, AccountPlain
<1>6. CASE Accounts!RequestPasswordReset(t)
  <2>1. PICK u \in Users : /\ Accounts!Begin(t, "rp_token", "requestPasswordReset", u, NoOne)
                           /\ UNCHANGED <<person, token, Accounts!logins, spent>>
    BY <1>6 DEF Accounts!RequestPasswordReset, Accounts!users, Accounts!Holders
  <2>2. PICK j \in AccountJobs : /\ at' = [at EXCEPT ![t] = "rp_token"] /\ my' = [my EXCEPT ![t] = j]
                                 /\ j.op = "requestPasswordReset" /\ at[t] = "idle"
    BY <2>1, <1>1, <1>l, <1>h, AccountGoes
  <2> QED BY <2>1, <2>2, <1>2, <1>3, <1>l, <1>h, AccountPlain
<1>7. CASE Accounts!RegisterToken(t) \/ Accounts!ResetToken(t)
  <2>1. PICK purpose \in Accounts!Purposes : Accounts!CreateToken(t, purpose)
             /\ at[t] \in {"g_token", "rp_token"}
    BY <1>7 DEF Accounts!RegisterToken, Accounts!ResetToken, Accounts!Purposes
  <2>2. PICK k \in Tokens :
          /\ token[k].st = "none"
          /\ token' = [token EXCEPT ![k] = [st |-> "fresh", of |-> my[t].u, purpose |-> purpose]]
    BY <2>1 DEF Accounts!CreateToken
  <2>3. Accounts!Stop(t) /\ UNCHANGED <<person, Accounts!logins, spent>>
    BY <2>1 DEF Accounts!CreateToken
  <2>4. [st |-> "fresh", of |-> my[t].u, purpose |-> purpose] \in MailTokens
    BY <1>1, AccountGoes DEF MailTokens
  <2>5. /\ token' \in [Tokens -> MailTokens]
        /\ \A i \in Tokens : token'[i] = token[i] \/ token[i].st = "none"
    BY <2>2, <2>4, <1>2
  <2>6. /\ at' = [at EXCEPT ![t] = "idle"] /\ my' = [my EXCEPT ![t] = Accounts!NoJob]
        /\ Accounts!NoJob \in AccountJobs /\ Accounts!NoJob.op \notin Spenders
    BY <2>3, <1>1, AccountGoes
  <2> QED BY <2>1, <2>3, <2>5, <2>6, <1>2, <1>3, <1>l, AccountPlain
<1>8. CASE Accounts!OauthAccount(t)
  <2>1. Accounts!Stop(t) /\ UNCHANGED <<person, token, Accounts!logins, spent>> /\ at[t] = "o_account"
    BY <1>8 DEF Accounts!OauthAccount
  <2>2. /\ at' = [at EXCEPT ![t] = "idle"] /\ my' = [my EXCEPT ![t] = Accounts!NoJob]
        /\ Accounts!NoJob \in AccountJobs /\ Accounts!NoJob.op \notin Spenders
    BY <2>1, <1>1, AccountGoes
  <2> QED BY <2>1, <2>2, <1>2, <1>3, <1>l, AccountPlain
<1>9. CASE Accounts!UpsertUser(t) \/ Accounts!OauthUser(t)
  <2>1. PICK u \in Users, r \in Persons, l \in {"g_token", "o_account"} :
          /\ person' = [person EXCEPT ![u] = r] /\ r.st = "live" /\ Accounts!Keep(t, l, u, NoOne)
          /\ UNCHANGED <<token, Accounts!logins, spent>> /\ at[t] \in {"g_upsert", "o_user"}
    <3>1. CASE Accounts!UpsertUser(t)
      <4>1. CASE \E u \in Accounts!Holders : /\ person' = [person EXCEPT ![u].pw = TRUE,
                                                ![u].st = "live"]
                                             /\ Accounts!Keep(t, "g_token", u, NoOne)
        <5>1. PICK u \in Users : /\ person' = [person EXCEPT ![u].pw = TRUE, ![u].st = "live"]
                                 /\ Accounts!Keep(t, "g_token", u, NoOne)
          BY <4>1 DEF Accounts!Holders
        <5>2. person' = [person EXCEPT ![u] = [person[u] EXCEPT !.pw = TRUE, !.st = "live"]]
          BY <5>1, <1>2
        <5> QED BY <5>1, <5>2, <3>1, <1>2, AccountRowChanges DEF Accounts!UpsertUser
      <4>2. CASE \E u \in Accounts!Unmade :
                 /\ person' = [person EXCEPT ![u] = Accounts!Made(FALSE, TRUE)]
                                            /\ Accounts!Keep(t, "g_token", u, NoOne)
        BY <4>2, <3>1, AccountNames DEF Accounts!UpsertUser, Accounts!Unmade
      <4> QED BY <3>1, <4>1, <4>2 DEF Accounts!UpsertUser
    <3>2. CASE Accounts!OauthUser(t)
      <4>1. CASE \E u \in Accounts!Holders : person' = [person EXCEPT ![u].st = "live"]
                 /\ Accounts!Keep(t, "o_account", u, NoOne)
        <5>1. PICK u \in Users : person' = [person EXCEPT ![u].st = "live"]
                   /\ Accounts!Keep(t, "o_account", u, NoOne)
          BY <4>1 DEF Accounts!Holders
        <5>2. person' = [person EXCEPT ![u] = [person[u] EXCEPT !.st = "live"]]
          BY <5>1, <1>2
        <5> QED BY <5>1, <5>2, <3>2, <1>2, AccountRowChanges DEF Accounts!OauthUser
      <4>2. CASE \E u \in Accounts!Unmade :
                 /\ person' = [person EXCEPT ![u] = Accounts!Made(TRUE, FALSE)]
                                            /\ Accounts!Keep(t, "o_account", u, NoOne)
        BY <4>2, <3>2, AccountNames DEF Accounts!OauthUser, Accounts!Unmade
      <4> QED BY <3>2, <4>1, <4>2 DEF Accounts!OauthUser
    <3> QED BY <1>9, <3>1, <3>2
  <2>2. ErasedIsNobody' /\ person' \in [Users -> Persons]
    BY <2>1, <1>1, ErasedKept
  <2>3. PICK j \in AccountJobs : /\ at' = [at EXCEPT ![t] = l] /\ my' = [my EXCEPT ![t] = j]
                                 /\ j.op = my[t].op
    BY <2>1, <1>1, <1>l, AccountGoes
  <2> QED BY <2>1, <2>2, <2>3, <1>2, <1>l, AccountPlain
<1> QED BY <1>4, <1>5, <1>6, <1>7, <1>8, <1>9

\* The steps of a token that is spent.
LEMMA AccountSpends ==
  ASSUME AccountsCalm, AccountInv, NEW t \in Tasks, Accounts!ConsumeToken(t) \/ Accounts!MarkConsumed(t)
         \/ Accounts!UseToken(t)
  PROVE  AccountInv'
<1>1. AccountTyped /\ ErasedIsNobody /\ TokenSpent /\ LoginCounted
  BY DEF AccountInv
<1>2. /\ person \in [Users -> Persons] /\ token \in [Tokens -> MailTokens]
         /\ spent \in [Tokens -> 0 .. 2]
      /\ \A s \in Tasks : my[s] \in AccountJobs
  BY <1>1 DEF AccountTyped
<1>l. {"idle", "k_use", "k_done"} \subseteq Accounts!Labels
  BY DEF Accounts!Labels
<1>3. CASE Accounts!ConsumeToken(t)
  <2>1. PICK k \in Tokens, op \in Spenders :
          /\ token[k].st = "fresh" /\ Accounts!Begin(t, "k_use", op, token[k].of, k)
    BY <1>3 DEF Accounts!ConsumeToken, Spenders
  <2>2. UNCHANGED <<person, token, Accounts!logins, spent>>
    BY <1>3 DEF Accounts!ConsumeToken, Accounts!users
  <2>3. op \in Accounts!HandlerNames /\ token[k].of \in Users \cup {NoOne}
    BY <1>2 DEF Spenders, Accounts!HandlerNames, MailTokens
  <2>4. PICK j \in AccountJobs : /\ at' = [at EXCEPT ![t] = "k_use"] /\ my' = [my EXCEPT ![t] = j]
                                 /\ j.op = op /\ j.k = k /\ at[t] = "idle"
    BY <2>1, <2>3, <1>1, <1>l, AccountGoes
  <2>5. \A s \in Tasks : my[s].op \notin Spenders
    BY <2>1 DEF Accounts!Begin, AccountsCalm
  <2>6. /\ at' \in [Tasks -> Accounts!Labels] /\ my' \in [Tasks -> AccountJobs]
        /\ at'[t] = "k_use" /\ my'[t] = j
        /\ \A s \in Tasks : s # t => at'[s] = at[s] /\ my'[s] = my[s]
    BY <2>4, <1>1, <1>l, AccountMoves
  <2>7. TokenSpent'
    <3>1. \A s \in Tasks : s # t => ~ Spending(s)'
      BY <2>5, <2>6, <1>1 DEF TokenSpent, Spending
    <3>2. spent[k] = 0
      BY <2>1, <1>1 DEF TokenSpent
    <3>3. \A s, r \in Tasks : my'[s].op \in Spenders /\ my'[r].op \in Spenders => s = r
      BY <2>5, <2>6
    <3>4. \A s \in Tasks : Spending(s)' => my'[s].op \in Spenders /\ my'[s].k \in Tokens
          /\ spent'[my'[s].k] = 0
      BY <3>1, <3>2, <2>1, <2>2, <2>4, <2>6
    <3>5. \A s \in Tasks : at'[s] = "k_done" => token'[my'[s].k].st \in {"consumed", "gone"}
      BY <3>1, <2>6 DEF Spending
    <3>6. \A i \in Tokens : spent'[i] <= 1 /\ (token'[i].st \in {"none", "fresh"} => spent'[i] = 0)
      BY <2>2, <1>1 DEF TokenSpent
    <3> QED BY <3>3, <3>4, <3>5, <3>6 DEF TokenSpent
  <2>8. LoginCounted'
    BY <2>2, <2>4, <1>1, <1>l, LoginKept
  <2>9. AccountTyped' /\ ErasedIsNobody'
    BY <2>2, <2>6, <1>1 DEF AccountTyped, ErasedIsNobody, Accounts!logins
  <2> QED BY <2>7, <2>8, <2>9 DEF AccountInv
<1>4. CASE Accounts!MarkConsumed(t) /\ token[my[t].k].st = "gone"
  <2>1. Accounts!Stop(t) /\ UNCHANGED <<person, token, Accounts!logins, spent>> /\ at[t] = "k_use"
    BY <1>4 DEF Accounts!MarkConsumed
  <2>2. /\ at' = [at EXCEPT ![t] = "idle"] /\ my' = [my EXCEPT ![t] = Accounts!NoJob]
        /\ Accounts!NoJob \in AccountJobs /\ Accounts!NoJob.op \notin Spenders
    BY <2>1, <1>1, AccountGoes
  <2>3. ErasedIsNobody' /\ person' \in [Users -> Persons]
    BY <2>1, <1>1, <1>2 DEF ErasedIsNobody
  <2> QED BY <2>1, <2>2, <2>3, <1>2, <1>l, AccountPlain
<1>5. CASE Accounts!MarkConsumed(t) /\ token[my[t].k].st # "gone"
  <2>1. /\ token' = [token EXCEPT ![my[t].k].st = "consumed"] /\ Accounts!Go(t, "k_done")
        /\ UNCHANGED <<person, Accounts!logins, spent>> /\ at[t] = "k_use"
    BY <1>5 DEF Accounts!MarkConsumed
  <2>2. /\ my[t].op \in Spenders /\ my[t].k \in Tokens /\ spent[my[t].k] = 0
           /\ my[t].u \in Users \cup {NoOne}
    BY <2>1, <1>1, <1>2, AccountGoes DEF TokenSpent, Spending
  <2>3. PICK j \in AccountJobs : /\ at' = [at EXCEPT ![t] = "k_done"] /\ my' = [my EXCEPT ![t] = j]
                                 /\ j.op = my[t].op /\ j.k = my[t].k
    BY <2>1, <2>2, <1>1, <1>l, AccountGoes DEF Accounts!Go
  <2>4. /\ at' \in [Tasks -> Accounts!Labels] /\ my' \in [Tasks -> AccountJobs]
        /\ at'[t] = "k_done" /\ my'[t] = j
        /\ \A s \in Tasks : s # t => at'[s] = at[s] /\ my'[s] = my[s]
    BY <2>3, <1>1, <1>l, AccountMoves
  <2>5. /\ token' \in [Tokens -> MailTokens] /\ token'[my[t].k].st = "consumed"
        /\ \A i \in Tokens : i # my[t].k => token'[i] = token[i]
    <3>1. \A m \in MailTokens : /\ [m EXCEPT !.st = "consumed"] \in MailTokens
                                /\ [m EXCEPT !.st = "consumed"].st = "consumed"
      BY DEF MailTokens
    <3>2. token' = [token EXCEPT ![my[t].k] = [token[my[t].k] EXCEPT !.st = "consumed"]]
      BY <2>1, <2>2, <1>2
    <3> QED BY <3>1, <3>2, <2>2, <1>2
  <2>6. TokenSpent'
    <3>1. \A s \in Tasks : s # t => ~ Spending(s)'
      BY <2>2, <2>4, <1>1 DEF TokenSpent, Spending
    <3>3. \A s, r \in Tasks : my'[s].op \in Spenders /\ my'[r].op \in Spenders => s = r
      BY <2>3, <2>4, <1>1 DEF TokenSpent
    <3>4. \A s \in Tasks : Spending(s)' => my'[s].op \in Spenders /\ my'[s].k \in Tokens
          /\ spent'[my'[s].k] = 0
      BY <3>1, <2>1, <2>2, <2>3, <2>4
    <3>5. \A s \in Tasks : at'[s] = "k_done" => token'[my'[s].k].st \in {"consumed", "gone"}
      BY <3>1, <2>3, <2>4, <2>5 DEF Spending
    <3>6. \A i \in Tokens : spent'[i] <= 1 /\ (token'[i].st \in {"none", "fresh"} => spent'[i] = 0)
      BY <2>1, <2>5, <1>1 DEF TokenSpent
    <3> QED BY <3>3, <3>4, <3>5, <3>6 DEF TokenSpent
  <2>7. LoginCounted'
    BY <2>1, <2>3, <1>1, <1>l, LoginKept
  <2>8. AccountTyped' /\ ErasedIsNobody'
    BY <2>1, <2>4, <2>5, <1>1 DEF AccountTyped, ErasedIsNobody, Accounts!logins
  <2> QED BY <2>6, <2>7, <2>8 DEF AccountInv
<1>6. CASE Accounts!UseToken(t)
  <2>1. /\ at[t] = "k_done" /\ spent' = Accounts!More(my[t].k) /\ Accounts!Stop(t)
           /\ UNCHANGED <<token, Accounts!logins>>
        /\ person' = IF my[t].op = "verifyEmail" THEN [person EXCEPT ![my[t].u].verified = TRUE]
                  ELSE [person EXCEPT ![my[t].u].pw = TRUE]
    BY <1>6 DEF Accounts!UseToken
  <2>2. /\ my[t].op \in Spenders /\ my[t].k \in Tokens /\ spent[my[t].k] = 0
        /\ token[my[t].k].st \in {"consumed", "gone"}
    BY <2>1, <1>1 DEF TokenSpent, Spending
  <2>3. /\ at' = [at EXCEPT ![t] = "idle"] /\ my' = [my EXCEPT ![t] = Accounts!NoJob]
        /\ Accounts!NoJob \in AccountJobs /\ Accounts!NoJob.op \notin Spenders
    BY <2>1, <1>1, AccountGoes
  <2>4. /\ at' \in [Tasks -> Accounts!Labels] /\ my' \in [Tasks -> AccountJobs]
        /\ at'[t] = "idle" /\ my'[t] = Accounts!NoJob
        /\ \A s \in Tasks : s # t => at'[s] = at[s] /\ my'[s] = my[s]
    BY <2>3, <1>1, <1>l, AccountMoves
  <2>5. /\ spent' \in [Tokens -> 0 .. 2] /\ spent'[my[t].k] = 1
        /\ \A i \in Tokens : i # my[t].k => spent'[i] = spent[i]
    BY <2>1, <2>2, <1>2 DEF Accounts!More
  <2>6. person' \in [Users -> Persons] /\ ErasedIsNobody'
    <3>1. \A u \in Users : /\ person[u] \in Persons /\ person[u].mail => person[u].st # "erased"
                           /\ [person[u] EXCEPT !.verified = TRUE] \in Persons
                           /\ [person[u] EXCEPT !.pw = TRUE] \in Persons
      BY <1>1, <1>2, AccountRowChanges DEF ErasedIsNobody
    <3>2. \A u \in Users : \/ person'[u] = person[u]
                           \/ person'[u] = [person[u] EXCEPT !.verified = TRUE]
                           \/ person'[u] = [person[u] EXCEPT !.pw = TRUE]
      BY <2>1, <1>2
    <3>3. \A u \in Users : person'[u] \in Persons /\ person'[u].st = person[u].st
          /\ person'[u].mail = person[u].mail
      BY <3>1, <3>2, <1>2, AccountRowChanges
    <3>4. DOMAIN person' = Users /\ person' = [u \in Users |-> person'[u]]
      BY <2>1, <1>2
    <3>5. person' \in [Users -> Persons]
      BY <3>3, <3>4
    <3>6. ErasedIsNobody'
      BY <3>3, <1>1 DEF ErasedIsNobody
    <3> QED BY <3>5, <3>6
  <2>7. TokenSpent'
    <3>1. \A s \in Tasks : my'[s].op \notin Spenders /\ ~ Spending(s)'
      BY <2>2, <2>3, <2>4, <1>1 DEF TokenSpent, Spending
    <3>2. \A i \in Tokens : spent'[i] <= 1 /\ (token'[i].st \in {"none", "fresh"} => spent'[i] = 0)
      BY <2>1, <2>2, <2>5, <1>1 DEF TokenSpent
    <3>3. \A s \in Tasks : at'[s] # "k_done"
      BY <3>1 DEF Spending
    <3> QED BY <3>1, <3>2, <3>3 DEF TokenSpent
  <2>8. LoginCounted'
    BY <2>1, <2>3, <1>1, <1>l, LoginKept
  <2>9. AccountTyped'
    BY <2>1, <2>4, <2>5, <2>6, <1>1 DEF AccountTyped, Accounts!logins
  <2> QED BY <2>6, <2>7, <2>8, <2>9 DEF AccountInv
<1> QED BY <1>3, <1>4, <1>5, <1>6

LEMMA AccountErased ==
  ASSUME AccountsCalm, AccountInv, NEW t \in Tasks, Accounts!EraseMe(t)
  PROVE  AccountInv'
<1>1. AccountTyped /\ ErasedIsNobody /\ TokenSpent /\ LoginCounted
  BY DEF AccountInv
<1>2. UNCHANGED <<Accounts!logins, spent, at, my>>
  BY DEF Accounts!EraseMe
<1>3. PICK u \in Users : Accounts!Erased(u, FALSE)
  BY DEF Accounts!EraseMe, Accounts!Signed
<1> DEFINE r == [st |-> "erased", mail |-> FALSE, pw |-> FALSE, verified |-> FALSE]
<1>4. person' = [person EXCEPT ![u] = r] /\ r \in Persons /\ ~ r.mail
  BY <1>3 DEF Accounts!Erased, Persons
<1>5. ErasedIsNobody' /\ person' \in [Users -> Persons]
  BY <1>1, <1>4, ErasedKept
<1>6. token' = [k \in Tokens |-> IF token[k].of = u THEN [token[k] EXCEPT !.st = "gone"] ELSE token[k]]
  BY <1>3 DEF Accounts!Erased
<1>7. \A k \in Tokens : /\ token'[k] \in MailTokens
                        /\ token'[k] = token[k] \/ token'[k].st = "gone"
  <2>1. \A m \in MailTokens : [m EXCEPT !.st = "gone"] \in MailTokens
        /\ [m EXCEPT !.st = "gone"].st = "gone"
    BY DEF MailTokens
  <2> QED BY <1>6, <2>1, <1>1 DEF AccountTyped
<1>8. token' \in [Tokens -> MailTokens]
  BY <1>6, <1>7
<1>9. AccountTyped'
  BY <1>1, <1>2, <1>5, <1>8 DEF AccountTyped, Accounts!logins
<1>10. TokenSpent'
  <2>1. \A s \in Tasks : at'[s] = at[s] /\ my'[s] = my[s] /\ (Spending(s)' <=> Spending(s))
    BY <1>2 DEF Spending
  <2>2. \A s \in Tasks : at[s] = "k_done" => Spending(s)
    BY DEF Spending
  <2>3. \A s \in Tasks : at'[s] = "k_done" => token'[my'[s].k].st \in {"consumed", "gone"}
    BY <1>1, <1>7, <2>1, <2>2 DEF TokenSpent
  <2>4. \A k \in Tokens : spent'[k] <= 1 /\ (token'[k].st \in {"none", "fresh"} => spent'[k] = 0)
    BY <1>1, <1>2, <1>7 DEF TokenSpent
  <2> QED BY <1>1, <1>2, <2>1, <2>3, <2>4 DEF TokenSpent
<1>11. LoginCounted'
  BY <1>1, <1>2 DEF LoginCounted, Accounts!logins, Uncounted, Trying
<1> QED BY <1>5, <1>9, <1>10, <1>11 DEF AccountInv

\* What a step of a login does to the two counts.
LEMMA LoginSets ==
  ASSUME AccountsCalm, AccountTyped, NEW t \in Tasks, NEW l \in Accounts!Labels,
         at' = [at EXCEPT ![t] = l]
  PROVE  /\ Uncounted' = (Uncounted \ {t}) \cup (IF l = "l_count" THEN {t} ELSE {})
         /\ Trying' = (Trying \ {t}) \cup (IF l \in {"l_verify", "l_count"} THEN {t} ELSE {})
         /\ IsFiniteSet(Uncounted) /\ IsFiniteSet(Trying) /\ IsFiniteSet(Uncounted')
            /\ IsFiniteSet(Trying')
         /\ Cardinality(Trying') \in Nat /\ Cardinality(Uncounted') \in Nat
<1>1. at'[t] = l /\ \A s \in Tasks : s # t => at'[s] = at[s]
  BY DEF AccountTyped
<1>2. Uncounted' = (Uncounted \ {t}) \cup (IF l = "l_count" THEN {t} ELSE {})
  BY <1>1 DEF Uncounted
<1>3. Trying' = (Trying \ {t}) \cup (IF l \in {"l_verify", "l_count"} THEN {t} ELSE {})
  BY <1>1 DEF Trying
<1>4. IsFiniteSet(Tasks) /\ Uncounted' \subseteq Tasks /\ Trying' \subseteq Tasks
  BY DEF AccountsCalm, Uncounted, Trying
<1>5. IsFiniteSet(Uncounted') /\ IsFiniteSet(Trying')
  BY <1>4, FS_Subset
<1> QED BY <1>2, <1>3, <1>5, AccountFinite, FS_CardinalityType

LEMMA AccountLogs ==
  ASSUME AccountsCalm, AccountInv, NEW t \in Tasks,
         Accounts!Login(t) \/ Accounts!Verify(t) \/ Accounts!CountFailure(t)
           \/ Accounts!ClearFailures(t)
  PROVE  AccountInv'
<1>1. AccountTyped /\ ErasedIsNobody /\ TokenSpent /\ LoginCounted
  BY DEF AccountInv
<1>2. UNCHANGED <<person, token, spent>>
  BY DEF Accounts!Login, Accounts!Verify, Accounts!CountFailure, Accounts!ClearFailures,
     Accounts!users
<1>l. {"idle", "l_verify", "l_count", "l_clear"} \subseteq Accounts!Labels
  BY DEF Accounts!Labels
<1>3. PICK l \in {"idle", "l_verify", "l_count", "l_clear"}, j \in AccountJobs :
        /\ at' = [at EXCEPT ![t] = l] /\ my' = [my EXCEPT ![t] = j]
        /\ j.op \in Spenders => j.op = my[t].op
        /\ \/ Accounts!Login(t) /\ l = "l_verify" /\ at[t] = "idle"
           \/ Accounts!Verify(t) /\ l = "l_clear" /\ UNCHANGED guesses
           \/ Accounts!Verify(t) /\ l = "l_count" /\ guesses' = guesses + 1
           \/ Accounts!CountFailure(t) /\ l = "idle"
           \/ Accounts!ClearFailures(t) /\ l = "idle"
  <2>1. CASE Accounts!Login(t)
    <3>1. Accounts!Begin(t, "l_verify", "login", NoOne, NoOne)
      BY <2>1 DEF Accounts!Login
    <3>2. "login" \in Accounts!HandlerNames \ Spenders
      BY DEF Accounts!HandlerNames, Spenders
    <3>3. PICK j \in AccountJobs : /\ at' = [at EXCEPT ![t] = "l_verify"] /\ my' = [my EXCEPT ![t] = j]
                                   /\ j.op = "login" /\ at[t] = "idle"
      BY <3>1, <3>2, <1>1, <1>l, AccountGoes
    <3> QED BY <2>1, <3>2, <3>3
  <2>2. CASE Accounts!Verify(t)
    <3>1. PICK l \in {"l_clear", "l_count"} : /\ Accounts!Go(t, l)
                                              /\ \/ l = "l_clear" /\ UNCHANGED guesses
                                                 \/ l = "l_count" /\ guesses' = guesses + 1
      BY <2>2 DEF Accounts!Verify
    <3>2. my[t].u \in Users \cup {NoOne} /\ my[t].k \in Tokens \cup {NoOne}
      BY <1>1, AccountGoes
    <3>3. PICK j \in AccountJobs : /\ at' = [at EXCEPT ![t] = l] /\ my' = [my EXCEPT ![t] = j]
                                   /\ j.op = my[t].op
      BY <3>1, <3>2, <1>1, <1>l, AccountGoes DEF Accounts!Go
    <3> QED BY <2>2, <3>1, <3>3
  <2>3. CASE Accounts!CountFailure(t) \/ Accounts!ClearFailures(t)
    <3>1. Accounts!Stop(t)
      BY <2>3 DEF Accounts!CountFailure, Accounts!ClearFailures
    <3> QED BY <2>3, <3>1, <1>1, AccountGoes
  <2> QED BY <2>1, <2>2, <2>3
<1>4. l \in Accounts!Labels /\ l \notin {"k_use", "k_done"}
  BY <1>l
<1>5. TokenSpent'
  <2>1. token \in [Tokens -> MailTokens] /\ \A k \in Tokens : token'[k] = token[k]
    BY <1>1, <1>2 DEF AccountTyped
  <2> QED BY <2>1, <1>1, <1>2, <1>3, <1>4, TokensKept
<1>6. at' \in [Tasks -> Accounts!Labels] /\ my' \in [Tasks -> AccountJobs]
  BY <1>1, <1>3, <1>4, AccountMoves
<1>7. fails' \in Nat /\ guesses' \in Nat
  BY <1>1, <1>3 DEF AccountTyped, Accounts!Login, Accounts!Verify, Accounts!CountFailure,
     Accounts!ClearFailures, Accounts!logins
<1>8. AccountTyped' /\ ErasedIsNobody'
  BY <1>1, <1>2, <1>6, <1>7 DEF AccountTyped, ErasedIsNobody
<1>9. /\ Uncounted' = (Uncounted \ {t}) \cup (IF l = "l_count" THEN {t} ELSE {})
      /\ Trying' = (Trying \ {t}) \cup (IF l \in {"l_verify", "l_count"} THEN {t} ELSE {})
      /\ IsFiniteSet(Uncounted) /\ IsFiniteSet(Trying) /\ IsFiniteSet(Uncounted')
         /\ IsFiniteSet(Trying')
      /\ Cardinality(Trying') \in Nat /\ Cardinality(Uncounted') \in Nat
  BY <1>1, <1>3, <1>4, LoginSets
<1>10. /\ Cardinality(Uncounted) \in Nat /\ Cardinality(Trying) \in Nat /\ Cardinality(Tasks) \in Nat
       /\ Cardinality(Trying) <= Cardinality(Tasks)
       /\ fails \in Nat /\ guesses \in Nat /\ MaxFailures \in Nat \ {0}
  BY <1>1, AccountFinite DEF AccountTyped, AccountsCalm
<1>11. LoginCounted'
  <2>1. CASE Accounts!Login(t) /\ l = "l_verify" /\ at[t] = "idle"
    <3>1. fails < MaxFailures /\ fails' = fails /\ guesses' = guesses
      BY <2>1 DEF Accounts!Login, Accounts!logins
    <3>2. t \notin Uncounted /\ t \notin Trying /\ Uncounted' = Uncounted /\ Trying' = Trying \cup {t}
      BY <2>1, <1>9 DEF Uncounted, Trying
    <3>3. Trying' \subseteq Tasks /\ IsFiniteSet(Tasks)
      BY <3>2 DEF Trying, AccountsCalm
    <3>4. Cardinality(Trying') <= Cardinality(Tasks)
      BY <3>3, FS_Subset
    <3> QED BY <3>1, <3>2, <3>4, <1>1, <1>9, <1>10 DEF LoginCounted
  <2>2. CASE Accounts!Verify(t) /\ l = "l_clear" /\ UNCHANGED guesses
    <3>1. at[t] = "l_verify" /\ fails' = fails /\ guesses' = guesses
      BY <2>2 DEF Accounts!Verify
    <3>2. t \notin Uncounted /\ t \in Trying /\ Uncounted' = Uncounted /\ Trying' = Trying \ {t}
      BY <3>1, <2>2, <1>9 DEF Uncounted, Trying
    <3>3. Cardinality(Trying') = Cardinality(Trying) - 1
      BY <3>2, <1>9, FS_RemoveElement
    <3> QED BY <3>1, <3>2, <3>3, <1>1, <1>9, <1>10 DEF LoginCounted
  <2>3. CASE Accounts!Verify(t) /\ l = "l_count" /\ guesses' = guesses + 1
    <3>1. at[t] = "l_verify" /\ fails' = fails
      BY <2>3 DEF Accounts!Verify
    <3>2. t \notin Uncounted /\ t \in Trying /\ Uncounted' = Uncounted \cup {t} /\ Trying' = Trying
      BY <3>1, <2>3, <1>9 DEF Uncounted, Trying
    <3>3. Cardinality(Uncounted') = Cardinality(Uncounted) + 1
      BY <3>2, <1>9, FS_AddElement
    <3> QED BY <2>3, <3>1, <3>2, <3>3, <1>1, <1>9, <1>10 DEF LoginCounted
  <2>4. CASE Accounts!CountFailure(t) /\ l = "idle"
    <3>1. at[t] = "l_count" /\ fails' = fails + 1 /\ guesses' = guesses
      BY <2>4 DEF Accounts!CountFailure
    <3>2. t \in Uncounted /\ t \in Trying /\ Uncounted' = Uncounted \ {t} /\ Trying' = Trying \ {t}
      BY <3>1, <2>4, <1>9 DEF Uncounted, Trying
    <3>3. /\ Cardinality(Uncounted') = Cardinality(Uncounted) - 1
          /\ Cardinality(Trying') = Cardinality(Trying) - 1
      BY <3>2, <1>9, FS_RemoveElement
    <3> QED BY <3>1, <3>2, <3>3, <1>1, <1>9, <1>10 DEF LoginCounted
  <2>5. CASE Accounts!ClearFailures(t) /\ l = "idle"
    <3>1. at[t] = "l_clear" /\ fails' = 0 /\ guesses' = 0
      BY <2>5 DEF Accounts!ClearFailures
    <3>2. t \notin Uncounted /\ t \notin Trying /\ Uncounted' = Uncounted /\ Trying' = Trying
      BY <3>1, <2>5, <1>9 DEF Uncounted, Trying
    <3> QED BY <3>1, <3>2, <1>1, <1>9, <1>10 DEF LoginCounted
  <2> QED BY <1>3, <2>1, <2>2, <2>3, <2>4, <2>5
<1> QED BY <1>5, <1>8, <1>11 DEF AccountInv

LEMMA AccountStep == AccountsCalm /\ AccountInv /\ [Accounts!Next]_Accounts!vars => AccountInv'
<1> SUFFICES ASSUME AccountsCalm, AccountInv, [Accounts!Next]_Accounts!vars PROVE AccountInv'
  OBVIOUS
<1>1. AccountTyped /\ ErasedIsNobody /\ TokenSpent /\ LoginCounted
  BY DEF AccountInv
<1>2. CASE Accounts!WindowEnds
  <2>1. UNCHANGED <<person, token, spent, at, my>> /\ fails > 0 /\ fails' = 0 /\ guesses' = 0
    BY <1>2 DEF Accounts!WindowEnds, Accounts!users
  <2>2. Uncounted' = Uncounted /\ Trying' = Trying
    BY <2>1 DEF Uncounted, Trying
  <2>3. LoginCounted'
    BY <2>1, <2>2, <1>1, AccountFinite DEF LoginCounted, AccountTyped, AccountsCalm
  <2>4. AccountTyped'
    BY <2>1, <1>1 DEF AccountTyped
  <2>5. ErasedIsNobody'
    BY <2>1, <1>1 DEF ErasedIsNobody
  <2>6. TokenSpent'
    BY <2>1, <1>1 DEF TokenSpent, Spending
  <2> QED BY <2>3, <2>4, <2>5, <2>6 DEF AccountInv
<1>3. CASE UNCHANGED Accounts!vars
  <2>1. UNCHANGED <<person, token, spent, at, my, fails, guesses>>
    BY <1>3 DEF Accounts!vars, Accounts!users, Accounts!logins
  <2>2. AccountTyped' /\ ErasedIsNobody'
    BY <2>1, <1>1 DEF AccountTyped, ErasedIsNobody
  <2>3. TokenSpent'
    BY <2>1, <1>1 DEF TokenSpent, Spending
  <2>4. LoginCounted'
    BY <2>1, <1>1 DEF LoginCounted, Uncounted, Trying
  <2> QED BY <2>2, <2>3, <2>4 DEF AccountInv
<1>4. CASE \E t \in Tasks :
       \/ Accounts!Register(t) \/ Accounts!UpsertUser(t) \/ Accounts!RegisterToken(t)
       \/ Accounts!OauthUpsert(t) \/ Accounts!OauthUser(t) \/ Accounts!OauthAccount(t)
       \/ Accounts!RequestPasswordReset(t) \/ Accounts!ResetToken(t)
       \/ Accounts!ConsumeToken(t) \/ Accounts!MarkConsumed(t) \/ Accounts!UseToken(t)
          \/ Accounts!EraseMe(t)
       \/ Accounts!Login(t) \/ Accounts!Verify(t) \/ Accounts!CountFailure(t)
          \/ Accounts!ClearFailures(t)
  BY <1>4, AccountSignUp, AccountSpends, AccountErased, AccountLogs
<1> QED BY <1>2, <1>3, <1>4 DEF Accounts!Next

LEMMA AccountPromises ==
  AccountsCalm /\ AccountInv => Accounts!TokenUsedOnce /\ Accounts!LockHolds
<1> SUFFICES ASSUME AccountsCalm, AccountInv PROVE Accounts!TokenUsedOnce /\ Accounts!LockHolds
  OBVIOUS
<1>1. Accounts!TokenUsedOnce
  BY DEF AccountInv, TokenSpent, Accounts!TokenUsedOnce
<1>2. /\ Cardinality(Uncounted) \in Nat /\ Cardinality(Trying) \in Nat /\ Cardinality(Tasks) \in Nat
      /\ Cardinality(Uncounted) <= Cardinality(Trying)
      /\ fails \in Nat /\ guesses \in Nat /\ MaxFailures \in Nat
  BY AccountFinite DEF AccountInv, AccountTyped, AccountsCalm
<1>3. Accounts!LockHolds
  BY <1>2, AccountCounting DEF AccountInv, LoginCounted, Accounts!LockHolds
<1> QED BY <1>1, <1>3

\* Who is erased stays erased: the steps that make a row live find it by an address.
LEMMA AccountStays == AccountInv /\ [Accounts!Next]_Accounts!vars => Accounts!StaysErased
<1> SUFFICES ASSUME AccountInv, [Accounts!Next]_Accounts!vars PROVE Accounts!StaysErased
  OBVIOUS
<1>1. AccountTyped /\ ErasedIsNobody
  BY DEF AccountInv
<1>2. person \in [Users -> Persons]
  BY <1>1 DEF AccountTyped
<1>3. CASE UNCHANGED person
  BY <1>3 DEF Accounts!StaysErased
<1>4. ASSUME NEW t \in Tasks, Accounts!UpsertUser(t) \/ Accounts!OauthUser(t) PROVE Accounts!StaysErased
  <2>1. \E u \in Accounts!Holders \cup Accounts!Unmade : \A w \in Users : w # u
        => person'[w] = person[w]
    <3>1. CASE Accounts!UpsertUser(t)
      <4>1. PICK u \in Accounts!Holders \cup Accounts!Unmade :
                 \/ person' = [person EXCEPT ![u].pw = TRUE, ![u].st = "live"]
                                              \/ person' = [person EXCEPT ![u] = Accounts!Made(FALSE,
                                                 TRUE)]
        BY <3>1 DEF Accounts!UpsertUser
      <4> QED BY <4>1, <1>2 DEF Accounts!Holders, Accounts!Unmade
    <3>2. CASE Accounts!OauthUser(t)
      <4>1. PICK u \in Accounts!Holders \cup Accounts!Unmade :
                 \/ person' = [person EXCEPT ![u].st = "live"]
                                              \/ person' = [person EXCEPT ![u] = Accounts!Made(TRUE,
                                                 FALSE)]
        BY <3>2 DEF Accounts!OauthUser
      <4> QED BY <4>1, <1>2 DEF Accounts!Holders, Accounts!Unmade
    <3> QED BY <1>4, <3>1, <3>2
  <2>2. \A u \in Accounts!Holders \cup Accounts!Unmade : u \in Users /\ person[u].st # "erased"
    BY <1>1 DEF Accounts!Holders, Accounts!Unmade, ErasedIsNobody
  <2> QED BY <2>1, <2>2 DEF Accounts!StaysErased
<1>5. ASSUME NEW t \in Tasks, Accounts!UseToken(t) PROVE Accounts!StaysErased
  <2>1. \A u \in Users : /\ person[u] \in Persons
                         /\ \/ person'[u] = person[u]
                            \/ person'[u] = [person[u] EXCEPT !.verified = TRUE]
                            \/ person'[u] = [person[u] EXCEPT !.pw = TRUE]
    BY <1>2, <1>5 DEF Accounts!UseToken
  <2> QED BY <2>1, AccountRowChanges DEF Accounts!StaysErased
<1>6. ASSUME NEW t \in Tasks, Accounts!EraseMe(t) PROVE Accounts!StaysErased
  <2>1. PICK u \in Users :
          person' = [person EXCEPT ![u] = [st |-> "erased", mail |-> FALSE, pw |-> FALSE,
            verified |-> FALSE]]
    BY <1>6 DEF Accounts!EraseMe, Accounts!Erased, Accounts!Signed
  <2> QED BY <2>1, <1>2 DEF Accounts!StaysErased
<1>7. ASSUME NEW t \in Tasks,
       \/ Accounts!Register(t) \/ Accounts!RegisterToken(t) \/ Accounts!OauthUpsert(t)
          \/ Accounts!OauthAccount(t)
       \/ Accounts!RequestPasswordReset(t) \/ Accounts!ResetToken(t) \/ Accounts!ConsumeToken(t)
          \/ Accounts!MarkConsumed(t)
       \/ Accounts!Login(t) \/ Accounts!Verify(t) \/ Accounts!CountFailure(t)
          \/ Accounts!ClearFailures(t)
      PROVE Accounts!StaysErased
  <2>1. UNCHANGED person
    BY <1>7 DEF Accounts!Register, Accounts!RegisterToken, Accounts!OauthUpsert,
       Accounts!OauthAccount, Accounts!RequestPasswordReset, Accounts!ResetToken,
       Accounts!ConsumeToken, Accounts!MarkConsumed, Accounts!Login, Accounts!Verify,
       Accounts!CountFailure, Accounts!ClearFailures, Accounts!CreateToken, Accounts!users
  <2> QED BY <2>1, <1>3
<1>8. CASE Accounts!WindowEnds
  BY <1>3, <1>8 DEF Accounts!WindowEnds, Accounts!users
<1>9. CASE UNCHANGED Accounts!vars
  BY <1>3, <1>9 DEF Accounts!vars, Accounts!users
<1> QED BY <1>4, <1>5, <1>6, <1>7, <1>8, <1>9 DEF Accounts!Next

-----------------------------------------------------------------------------
(***************************************************************************)
(* The contract of an order: versions of the template, rows and PDFs.  Of those  *)
(* who render it for the order one runs at a time.                            *)
(***************************************************************************)
ContractsCalm ==
  /\ {"renderContractForOrder"} \in Apart
  /\ IsFiniteSet(Tasks) /\ MaxAttempts \in Nat \ {0}
  /\ MaxVersion \in Nat \ {0} /\ MaxContracts \in Nat

Deeds == [v : 0 .. MaxVersion, pdf : Contracts!Keys \cup {Contracts!NoKey}, n : 0 .. Contracts!Highest,
  old : BOOLEAN]
DeedJobs == [op : Contracts!HandlerNames \cup {"none"}, v : 0 .. MaxVersion,
  seen : SUBSET Contracts!Versions,
             held : SUBSET Contracts!Versions, c : 0 .. MaxContracts,
               key : Contracts!Keys \cup {Contracts!NoKey}, todo : SUBSET Contracts!Ids]
DeedTyped ==
  /\ active \subseteq Contracts!Versions /\ active # {} /\ made \in Contracts!Versions
     /\ linked \in 0 .. MaxContracts
  /\ deed \in [Contracts!Ids -> Deeds] /\ DOMAIN archive = Contracts!Keys
  /\ at \in [Tasks -> Contracts!Labels] /\ my \in [Tasks -> DeedJobs]

\* Where the PDF of a contract may be: under the order's path only if the order has it.
PathOf(c) == {<<c, deed[c].v>>} \cup (IF linked = c THEN {<<0, deed[c].v>>} ELSE {})
DeedKept ==
  /\ \A c \in Contracts!Ids : deed[c].v = 0 => deed[c].pdf = Contracts!NoKey /\ deed[c].n = 0
  /\ \A c \in Contracts!Ids : deed[c].pdf # Contracts!NoKey => deed[c].pdf \in PathOf(c)
     /\ archive[deed[c].pdf] = c
  /\ linked # 0 => deed[linked].v # 0

\* What a task knows of the contract it is at.  A render is of an order without one, until
\* it has linked its own.
Rendering == {"p_find", "p_put", "p_row", "p_fail"}
DeedFits(l, j) ==
  /\ l \in {"idle", "v_lock", "v_commit", "r_template", "r_create"} => j.todo = {}
  /\ \A c \in j.todo : deed[c].v # 0
  /\ l \in {"v_lock", "v_commit"} => j.v \in Contracts!Versions
  /\ l \in {"r_template", "r_create", "r_link"} => j.op = "renderContractForOrder" /\ linked = 0
  /\ l = "r_create" => j.v \in Contracts!Versions
  /\ l \in {"r_link"} \cup Rendering => j.c \in Contracts!Ids \ j.todo /\ deed[j.c].v # 0
  /\ l \in {"p_put", "p_row"} => j.key \in PathOf(j.c)
  /\ l = "p_row" => archive[j.key] = j.c
  /\ l = "b_next" => j.todo # {}
OneRenders ==
  \A t, s \in Tasks : my[t].op = "renderContractForOrder" /\ my[s].op = "renderContractForOrder"
    => t = s

\* Those that may still count an attempt of a contract.
Mine(l, j, c) == c \in j.todo \/ (l \in {"r_link"} \cup Rendering /\ j.c = c)
Tries(c) == {t \in Tasks : Mine(at[t], my[t], c)}
DeedTried == \A c \in Contracts!Ids :
  deed[c].n + Cardinality(Tries(c)) < MaxAttempts + Cardinality(Tasks)

DeedInv ==
  DeedTyped /\ DeedKept /\ (\A t \in Tasks : DeedFits(at[t], my[t])) /\ OneRenders /\ DeedTried

-----------------------------------------------------------------------------
LEMMA DeedCounting == \A S : Contracts!Cardinality(S) = Cardinality(S)
BY DEF Contracts!Cardinality, Cardinality

LEMMA DeedNames ==
  ASSUME ContractsCalm
  PROVE  /\ Contracts!NoJob \in DeedJobs /\ Contracts!NoJob.op = "none" /\ Contracts!NoJob.todo = {}
         /\ Contracts!NoRow \in Deeds /\ Contracts!NoRow.v = 0 /\ Contracts!NoRow.pdf = Contracts!NoKey
            /\ Contracts!NoRow.n = 0
         /\ Contracts!Highest \in Nat /\ Cardinality(Tasks) \in Nat
         /\ Contracts!Versions \subseteq Nat /\ Contracts!Ids \subseteq Nat /\ 1 \in Contracts!Versions
            /\ 0 \notin Contracts!Versions /\ 0 \notin Contracts!Ids
         /\ \A c \in 0 .. MaxContracts, v \in Contracts!Versions : <<c, v>> \in Contracts!Keys
<1>1. Cardinality(Tasks) \in Nat /\ Contracts!Highest \in Nat
  BY FS_CardinalityType, DeedCounting DEF ContractsCalm, Contracts!Highest
<1>2. /\ Contracts!Versions \subseteq Nat /\ Contracts!Ids \subseteq Nat /\ 1 \in Contracts!Versions
         /\ 0 \notin Contracts!Versions /\ 0 \notin Contracts!Ids
      /\ \A c \in 0 .. MaxContracts, v \in Contracts!Versions : <<c, v>> \in Contracts!Keys
      /\ 0 \in 0 .. MaxVersion /\ 0 \in 0 .. MaxContracts /\ 0 \in 0 .. Contracts!Highest
  BY <1>1 DEF ContractsCalm, Contracts!Versions, Contracts!Ids, Contracts!Keys
<1>3. Contracts!NoJob \in DeedJobs /\ Contracts!NoJob.op = "none" /\ Contracts!NoJob.todo = {}
  BY <1>2 DEF Contracts!NoJob, DeedJobs
<1>4. Contracts!NoRow \in Deeds /\ Contracts!NoRow.v = 0 /\ Contracts!NoRow.pdf = Contracts!NoKey
      /\ Contracts!NoRow.n = 0
  BY <1>2 DEF Contracts!NoRow, Deeds
<1> QED BY <1>1, <1>2, <1>3, <1>4

LEMMA TriesFinite ==
  ASSUME ContractsCalm, NEW c
  PROVE  IsFiniteSet(Tries(c)) /\ Cardinality(Tries(c)) \in Nat
         /\ Cardinality(Tries(c)) <= Cardinality(Tasks)
<1>1. Tries(c) \subseteq Tasks /\ IsFiniteSet(Tasks)
  BY DEF Tries, ContractsCalm
<1> QED BY <1>1, FS_Subset, FS_CardinalityType

\* A task moves: what becomes of it, of the others, and of who tries a contract.
LEMMA DeedMoves ==
  ASSUME DeedTyped, NEW t \in Tasks, NEW l \in Contracts!Labels, NEW j \in DeedJobs,
         Contracts!Keep(t, l, j)
  PROVE  /\ at' \in [Tasks -> Contracts!Labels] /\ my' \in [Tasks -> DeedJobs]
         /\ at'[t] = l /\ my'[t] = j
         /\ \A s \in Tasks : s # t => at'[s] = at[s] /\ my'[s] = my[s]
BY DEF DeedTyped, Contracts!Keep

LEMMA DeedTries ==
  ASSUME ContractsCalm, DeedTyped, NEW t \in Tasks, NEW l \in Contracts!Labels, NEW j \in DeedJobs,
         Contracts!Keep(t, l, j),
         NEW c
  PROVE  /\ IsFiniteSet(Tries(c)) /\ Cardinality(Tries(c)) \in Nat
         /\ IsFiniteSet(Tries(c)') /\ Cardinality(Tries(c)') \in Nat
         /\ Cardinality(Tries(c)') <= Cardinality(Tasks)
         /\ (Mine(l, j, c) => Mine(at[t], my[t], c)) => Cardinality(Tries(c)') <= Cardinality(Tries(c))
         /\ ~ Mine(l, j, c) /\ Mine(at[t], my[t], c)
              => Cardinality(Tries(c)') = Cardinality(Tries(c)) - 1
<1>1. /\ at'[t] = l /\ my'[t] = j
      /\ \A s \in Tasks : s # t => at'[s] = at[s] /\ my'[s] = my[s]
  BY DeedMoves
<1>2. IsFiniteSet(Tries(c)) /\ Cardinality(Tries(c)) \in Nat
  BY TriesFinite
<1>3. Tries(c)' \subseteq Tasks /\ IsFiniteSet(Tasks)
  BY DEF Tries, ContractsCalm
<1>4. IsFiniteSet(Tries(c)') /\ Cardinality(Tries(c)') \in Nat
      /\ Cardinality(Tries(c)') <= Cardinality(Tasks)
  BY <1>3, FS_Subset, FS_CardinalityType
<1>5. \A s \in Tasks : s # t => (s \in Tries(c)' <=> s \in Tries(c))
  BY <1>1 DEF Tries, Mine
<1>6. (t \in Tries(c)' <=> Mine(l, j, c)) /\ (t \in Tries(c) <=> Mine(at[t], my[t], c))
  BY <1>1 DEF Tries, Mine
<1>7. Tries(c) \subseteq Tasks
  BY DEF Tries
<1>8. ASSUME Mine(l, j, c) => Mine(at[t], my[t], c)
             PROVE Cardinality(Tries(c)') <= Cardinality(Tries(c))
  <2>1. Tries(c)' \subseteq Tries(c)
    BY <1>3, <1>5, <1>6, <1>8
  <2> QED BY <2>1, <1>2, FS_Subset
<1>9. ASSUME ~ Mine(l, j, c), Mine(at[t], my[t], c)
      PROVE  Cardinality(Tries(c)') = Cardinality(Tries(c)) - 1
  <2>1. t \in Tries(c) /\ Tries(c)' = Tries(c) \ {t}
    BY <1>3, <1>5, <1>6, <1>7, <1>9
  <2> QED BY <2>1, <1>2, FS_RemoveElement
<1> QED BY <1>2, <1>4, <1>8, <1>9

\* A step that leaves the contracts as they are.
LEMMA DeedPlain ==
  ASSUME ContractsCalm, DeedInv, NEW t \in Tasks, NEW l \in Contracts!Labels, NEW j \in DeedJobs,
         Contracts!Keep(t, l, j),
         UNCHANGED Contracts!contracts, active' \subseteq Contracts!Versions, active' # {},
           made' \in Contracts!Versions,
         DeedFits(l, j),
         \/ j.op # "renderContractForOrder"
         \/ my[t].op = "renderContractForOrder"
         \/ \A s \in Tasks : my[s].op # "renderContractForOrder",
         \A c \in Contracts!Ids : Mine(l, j, c) => Mine(at[t], my[t], c) \/ deed[c].n < MaxAttempts
  PROVE  DeedInv'
<1>1. DeedTyped /\ DeedKept /\ OneRenders /\ DeedTried /\ \A s \in Tasks : DeedFits(at[s], my[s])
  BY DEF DeedInv
<1>2. /\ at' \in [Tasks -> Contracts!Labels] /\ my' \in [Tasks -> DeedJobs]
      /\ at'[t] = l /\ my'[t] = j
      /\ \A s \in Tasks : s # t => at'[s] = at[s] /\ my'[s] = my[s]
  BY <1>1, DeedMoves
<1>3. deed' = deed /\ linked' = linked /\ archive' = archive
  BY DEF Contracts!contracts
<1>4. DeedTyped'
  BY <1>1, <1>2, <1>3 DEF DeedTyped
<1>5. DeedKept'
  BY <1>1, <1>3 DEF DeedKept, PathOf
<1>6. \A s \in Tasks : DeedFits(at[s], my[s])'
  <2>1. DeedFits(at[t], my[t])'
    BY <1>2, <1>3 DEF DeedFits, PathOf
  <2>2. \A s \in Tasks : s # t => DeedFits(at[s], my[s])'
    BY <1>1, <1>2, <1>3 DEF DeedFits, PathOf
  <2> QED BY <2>1, <2>2
<1>7. OneRenders'
  BY <1>1, <1>2 DEF OneRenders
<1>8. DeedTried'
  <2> SUFFICES ASSUME NEW c \in Contracts!Ids
               PROVE  deed[c].n + Cardinality(Tries(c)') < MaxAttempts + Cardinality(Tasks)
    BY <1>3 DEF DeedTried
  <2>1. deed[c].n \in Nat
    BY <1>1, DeedNames DEF DeedTyped, Deeds
  <2>2. Cardinality(Tries(c)) \in Nat /\ Cardinality(Tries(c)') \in Nat /\ Cardinality(Tasks) \in Nat
        /\ Cardinality(Tries(c)') <= Cardinality(Tasks) /\ MaxAttempts \in Nat \ {0}
    BY <1>1, DeedTries, DeedNames DEF ContractsCalm
  <2>3. CASE Mine(l, j, c) => Mine(at[t], my[t], c)
    <3>1. Cardinality(Tries(c)') <= Cardinality(Tries(c))
      BY <1>1, <2>3, DeedTries
    <3> QED BY <2>1, <2>2, <3>1, <1>1 DEF DeedTried
  <2>4. CASE deed[c].n < MaxAttempts
    BY <2>1, <2>2, <2>4
  <2> QED BY <2>3, <2>4
<1> QED BY <1>4, <1>5, <1>6, <1>7, <1>8 DEF DeedInv

\* No two contracts share a path.
LEMMA PathsApart ==
  ASSUME ContractsCalm, DeedTyped, NEW c \in Contracts!Ids, NEW d \in Contracts!Ids,
         NEW k \in PathOf(c) \cap PathOf(d)
  PROVE  c = d
<1>1. c # 0 /\ d # 0
  BY DeedNames
<1>2. /\ k = <<c, deed[c].v>> \/ (linked = c /\ k = <<0, deed[c].v>>)
      /\ k = <<d, deed[d].v>> \/ (linked = d /\ k = <<0, deed[d].v>>)
  BY DEF PathOf
<1> QED BY <1>1, <1>2

LEMMA PathIsKey ==
  ASSUME ContractsCalm, DeedTyped, NEW c \in Contracts!Ids, deed[c].v # 0, NEW k \in PathOf(c)
  PROVE  k \in Contracts!Keys /\ k # Contracts!NoKey
<1>1. deed[c] \in Deeds
  BY DEF DeedTyped
<1>2. deed[c].v \in 0 .. MaxVersion
  BY <1>1 DEF Deeds
<1>3. deed[c].v \in Contracts!Versions
  BY <1>2, DeedNames DEF Contracts!Versions, ContractsCalm
<1>4. 0 \in 0 .. MaxContracts /\ c \in 0 .. MaxContracts
  BY DEF Contracts!Ids, ContractsCalm
<1>5. <<c, deed[c].v>> \in Contracts!Keys /\ <<0, deed[c].v>> \in Contracts!Keys
  BY <1>3, <1>4, DeedNames
<1>6. k \in Contracts!Keys
  BY <1>5 DEF PathOf
<1>7. k # Contracts!NoKey
  BY <1>3 DEF PathOf, Contracts!NoKey
<1> QED BY <1>6, <1>7

\* What is known of a contract stays so while its version does.
LEMMA DeedOthers ==
  ASSUME ContractsCalm, DeedTyped, linked' = linked, archive' = archive,
         \A d \in Contracts!Ids : deed[d].v # 0 => deed'[d].v = deed[d].v,
         NEW l, NEW j \in DeedJobs, DeedFits(l, j)
  PROVE  DeedFits(l, j)'
<1>1. j.todo \subseteq Contracts!Ids
  BY DEF DeedJobs
<1>2. ASSUME j.c \in Contracts!Ids, deed[j.c].v # 0 PROVE PathOf(j.c)' = PathOf(j.c) /\ deed'[j.c].v # 0
  BY <1>2 DEF PathOf
<1> QED BY <1>1, <1>2 DEF DeedFits, Rendering

\* A version is written or activated: one is active at any time.
LEMMA DeedVersions ==
  ASSUME ContractsCalm, DeedInv, NEW t \in Tasks,
         Contracts!CreateVersion(t) \/ Contracts!ActivateVersion(t) \/ Contracts!Deactivate(t)
           \/ Contracts!Commit(t)
  PROVE  DeedInv'
<1>1. DeedTyped /\ \A s \in Tasks : DeedFits(at[s], my[s])
  BY DEF DeedInv
<1>2. my[t] \in DeedJobs /\ active \subseteq Contracts!Versions /\ active # {}
      /\ made \in Contracts!Versions
  BY <1>1 DEF DeedTyped
<1>l. {"idle", "v_lock", "v_commit"} \subseteq Contracts!Labels
  BY DEF Contracts!Labels
<1>3. ASSUME NEW l \in {"v_lock", "v_commit"}, NEW j \in DeedJobs, Contracts!Keep(t, l, j),
             UNCHANGED <<Contracts!templates, Contracts!contracts>>,
             j.op # "renderContractForOrder" \/ j.op = my[t].op, j.v \in Contracts!Versions, j.todo = {}
      PROVE  DeedInv'
  <2>1. DeedFits(l, j) /\ \A c \in Contracts!Ids : ~ Mine(l, j, c)
    BY <1>3 DEF DeedFits, Mine, Rendering
  <2>2. active' = active /\ made' = made
    BY <1>3 DEF Contracts!templates
  <2> QED BY <1>2, <1>3, <2>1, <2>2, <1>l, DeedPlain
<1>4. ASSUME NEW op \in {"createVersion", "activateVersion"}, NEW v \in Contracts!Versions,
             Contracts!Begin(t, "v_lock", [Contracts!NoJob EXCEPT !.op = op, !.v = v, !.seen = active]),
             UNCHANGED <<Contracts!templates, Contracts!contracts>>
      PROVE  DeedInv'
  <2> DEFINE j == [Contracts!NoJob EXCEPT !.op = op, !.v = v, !.seen = active]
  <2>2. v \in 0 .. MaxVersion /\ 0 \in 0 .. MaxContracts
    BY DEF Contracts!Versions, ContractsCalm
  <2>3. j \in DeedJobs /\ j.op = op /\ j.v = v /\ j.todo = {}
    BY <2>2, <1>2, DeedNames DEF DeedJobs, Contracts!HandlerNames
  <2>4. Contracts!Keep(t, "v_lock", j)
    BY <1>4 DEF Contracts!Begin, Contracts!Keep
  <2> HIDE DEF j
  <2> QED BY <1>3, <1>4, <2>3, <2>4
<1>5. CASE Contracts!CreateVersion(t)
  <2>1. made + 1 \in Contracts!Versions
    BY <1>2, <1>5 DEF Contracts!CreateVersion, Contracts!Versions, ContractsCalm
  <2> QED BY <1>4, <1>5, <2>1 DEF Contracts!CreateVersion
<1>6. CASE Contracts!ActivateVersion(t)
  <2>1. 1 .. made \subseteq Contracts!Versions
    BY <1>2 DEF Contracts!Versions, ContractsCalm
  <2> QED BY <1>4, <1>6, <2>1 DEF Contracts!ActivateVersion
<1>7. CASE Contracts!Deactivate(t)
  <2> DEFINE j == [my[t] EXCEPT !.held = @ \cup (my[t].seen \cap active)]
  <2>1. at[t] = "v_lock" /\ Contracts!Keep(t, "v_commit", j)
        /\ UNCHANGED <<Contracts!templates, Contracts!contracts>>
    BY <1>7 DEF Contracts!Deactivate, Contracts!Deactivates
  <2>2. /\ j \in DeedJobs /\ j.op = my[t].op /\ j.v = my[t].v /\ j.todo = my[t].todo
    BY <1>2 DEF DeedJobs
  <2>3. my[t].v \in Contracts!Versions /\ my[t].todo = {}
    BY <2>1, <1>1 DEF DeedFits
  <2> HIDE DEF j
  <2> QED BY <1>3, <2>1, <2>2, <2>3
<1>8. CASE Contracts!Commit(t)
  <2>1. at[t] = "v_commit" /\ Contracts!Keep(t, "idle", Contracts!NoJob)
        /\ UNCHANGED Contracts!contracts
    BY <1>8 DEF Contracts!Commit, Contracts!Stop
  <2>2. my[t].v \in Contracts!Versions
    BY <2>1, <1>1 DEF DeedFits
  <2>3. active' \subseteq Contracts!Versions /\ active' # {} /\ made' \in Contracts!Versions
    BY <1>2, <1>8, <2>2 DEF Contracts!Commit, Contracts!templates
  <2>4. /\ DeedFits("idle", Contracts!NoJob)
           /\ (\A c \in Contracts!Ids : ~ Mine("idle", Contracts!NoJob, c))
        /\ Contracts!NoJob \in DeedJobs /\ Contracts!NoJob.op # "renderContractForOrder"
    BY DeedNames DEF DeedFits, Mine, Rendering
  <2> QED BY <2>1, <2>3, <2>4, <1>l, DeedPlain
<1> QED BY <1>5, <1>6, <1>7, <1>8

\* A set of contracts or of versions has its least and its greatest.
LEMMA HasLeast ==
  ASSUME NEW S, S \subseteq Nat, S # {}
  PROVE  \E x \in S : \A y \in S : x <= y
<1> DEFINE Less == {ss \in Nat \X Nat : ss[1] < ss[2]}
<1>1. IsWellFoundedOn(Less, Nat)
  BY NatLessThanWellFounded DEF OpToRel
<1>2. PICK x \in S : \A y \in S : ~(<<y, x>> \in Less)
  <2> HIDE DEF Less
  <2> QED BY <1>1, WFMin
<1>3. \A y \in S : x <= y
  <2> SUFFICES ASSUME NEW y \in S PROVE x <= y
    OBVIOUS
  <2>1. x \in Nat /\ y \in Nat
    OBVIOUS
  <2>2. ~(y < x)
    <3>1. y < x => <<y, x>> \in Less
      BY <2>1
    <3> QED BY <1>2, <3>1
  <2> QED BY <2>1, <2>2
<1> QED BY <1>3

LEMMA HasGreatest ==
  ASSUME NEW m \in Nat, NEW S, S \subseteq 0 .. m, S # {}
  PROVE  \E x \in S : \A y \in S : y <= x
<1> DEFINE T == {m - y : y \in S}
<1>0. \A y \in S : m - y \in Nat
  OBVIOUS
<1>1. T \subseteq Nat /\ T # {}
  BY <1>0
<1>2. PICK z \in T : \A y \in T : z <= y
  <2> HIDE DEF T
  <2> QED BY <1>1, HasLeast
<1>3. PICK x \in S : z = m - x
  OBVIOUS
<1>4. \A y \in S : y <= x
  <2> SUFFICES ASSUME NEW y \in S PROVE y <= x
    OBVIOUS
  <2>1. m - y \in T /\ y \in Nat /\ x \in Nat
    OBVIOUS
  <2>2. m - x <= m - y
    BY <1>2, <1>3, <2>1
  <2> QED BY <2>1, <2>2
<1> QED BY <1>4

-----------------------------------------------------------------------------
\* A render begins, and reads the template: of those that are active the highest.
LEMMA DeedRenders ==
  ASSUME ContractsCalm, DeedInv, NEW t \in Tasks, Contracts!RenderContract(t)
         \/ Contracts!LoadActiveTemplate(t)
  PROVE  DeedInv'
<1>1. DeedTyped /\ \A s \in Tasks : DeedFits(at[s], my[s])
  BY DEF DeedInv
<1>2. my[t] \in DeedJobs /\ active \subseteq Contracts!Versions /\ active # {}
      /\ made \in Contracts!Versions
  BY <1>1 DEF DeedTyped
<1>3. UNCHANGED Contracts!contracts /\ active' = active /\ made' = made
  BY DEF Contracts!RenderContract, Contracts!LoadActiveTemplate, Contracts!templates
<1>l. {"idle", "r_template", "r_create"} \subseteq Contracts!Labels
  BY DEF Contracts!Labels
<1>4. CASE Contracts!RenderContract(t)
  <2> DEFINE j == [Contracts!NoJob EXCEPT !.op = "renderContractForOrder"]
  <2>1. /\ linked = 0 /\ Contracts!Keep(t, "r_template", j)
        /\ \A s \in Tasks : {j.op, my[s].op} \notin Apart
    BY <1>4 DEF Contracts!RenderContract, Contracts!Begin, Contracts!Keep
  <2>2. j \in DeedJobs /\ j.op = "renderContractForOrder" /\ j.todo = {}
    BY DeedNames DEF DeedJobs, Contracts!HandlerNames
  <2> HIDE DEF j
  <2>3. \A s \in Tasks : my[s].op # "renderContractForOrder"
    <3>1. ASSUME NEW s \in Tasks, my[s].op = j.op PROVE FALSE
      <4>1. {j.op, my[s].op} = {"renderContractForOrder"}
        BY <3>1, <2>2
      <4> QED BY <4>1, <2>1 DEF ContractsCalm
    <3> QED BY <3>1, <2>2
  <2>4. DeedFits("r_template", j) /\ \A c \in Contracts!Ids : ~ Mine("r_template", j, c)
    BY <2>1, <2>2 DEF DeedFits, Mine, Rendering
  <2> QED BY <1>2, <1>3, <1>l, <2>1, <2>2, <2>3, <2>4, DeedPlain
<1>5. CASE Contracts!LoadActiveTemplate(t)
  <2> DEFINE v == CHOOSE v \in active : \A w \in active : w <= v
  <2> DEFINE j == [my[t] EXCEPT !.v = v]
  <2>1. at[t] = "r_template" /\ Contracts!Keep(t, "r_create", j)
    BY <1>2, <1>5 DEF Contracts!LoadActiveTemplate
  <2>2. active \subseteq 0 .. MaxVersion
    BY <1>2 DEF Contracts!Versions, ContractsCalm
  <2>3. \E x \in active : \A y \in active : y <= x
    BY <2>2, <1>2, HasGreatest DEF ContractsCalm
  <2>4. v \in active
    BY <2>3
  <2>5. v \in Contracts!Versions /\ v \in 0 .. MaxVersion
    BY <2>2, <2>4, <1>2
  <2> HIDE DEF v
  <2>6. j \in DeedJobs /\ j.op = my[t].op /\ j.v = v /\ j.todo = my[t].todo
    BY <1>2, <2>5 DEF DeedJobs
  <2>7. my[t].op = "renderContractForOrder" /\ linked = 0 /\ my[t].todo = {}
    BY <2>1, <1>1 DEF DeedFits
  <2> HIDE DEF j
  <2>8. DeedFits("r_create", j) /\ \A c \in Contracts!Ids : ~ Mine("r_create", j, c)
    BY <2>5, <2>6, <2>7 DEF DeedFits, Mine, Rendering
  <2> QED BY <1>2, <1>3, <1>l, <2>1, <2>6, <2>8, DeedPlain
<1> QED BY <1>4, <1>5

\* The cron chooses, and goes on to its next; a PDF is there already, or its path is made;
\* the store refuses; a process dies.
LEMMA AfterPdfMoves ==
  ASSUME ContractsCalm, DeedTyped, NEW t \in Tasks, Contracts!AfterPdf(t), DeedFits(at[t], my[t]),
         at[t] \in Rendering
  PROVE  \E l \in {"idle", "b_next"}, j \in DeedJobs :
           /\ Contracts!Keep(t, l, j) /\ DeedFits(l, j)
           /\ j.op # "renderContractForOrder" \/ j.op = my[t].op
           /\ \A c \in Contracts!Ids : Mine(l, j, c) => c \in my[t].todo
<1>1. my[t] \in DeedJobs
  BY DEF DeedTyped
<1>2. CASE my[t].todo = {}
  <2>1. Contracts!Keep(t, "idle", Contracts!NoJob)
    BY <1>2 DEF Contracts!AfterPdf, Contracts!Stop
  <2>2. /\ DeedFits("idle", Contracts!NoJob)
           /\ (\A c \in Contracts!Ids : ~ Mine("idle", Contracts!NoJob, c))
        /\ Contracts!NoJob \in DeedJobs /\ Contracts!NoJob.op # "renderContractForOrder"
    BY DeedNames DEF DeedFits, Mine, Rendering
  <2> QED BY <2>1, <2>2
<1>3. CASE my[t].todo # {}
  <2> DEFINE j == [my[t] EXCEPT !.key = Contracts!NoKey]
  <2>1. Contracts!Keep(t, "b_next", j)
    BY <1>3 DEF Contracts!AfterPdf
  <2>2. j \in DeedJobs /\ j.op = my[t].op /\ j.todo = my[t].todo
    BY <1>1 DEF DeedJobs
  <2> HIDE DEF j
  <2>3. DeedFits("b_next", j) /\ \A c \in Contracts!Ids : Mine("b_next", j, c) => c \in my[t].todo
    BY <1>3, <2>2 DEF DeedFits, Mine, Rendering
  <2> QED BY <2>1, <2>2, <2>3
<1> QED BY <1>2, <1>3

LEMMA DeedCron ==
  ASSUME ContractsCalm, DeedInv, NEW t \in Tasks,
         \/ Contracts!BackfillMissingPdfs(t) \/ Contracts!BackfillNext(t) \/ Contracts!FindContract(t)
         \/ (Contracts!PutPdf(t) /\ UNCHANGED archive) \/ Contracts!Die(t)
  PROVE  DeedInv'
<1>1. DeedTyped /\ DeedKept /\ \A s \in Tasks : DeedFits(at[s], my[s])
  BY DEF DeedInv
<1>2. my[t] \in DeedJobs /\ active \subseteq Contracts!Versions /\ active # {}
      /\ made \in Contracts!Versions
  BY <1>1 DEF DeedTyped
<1>3. UNCHANGED Contracts!contracts /\ active' = active /\ made' = made
  BY DEF Contracts!BackfillMissingPdfs, Contracts!BackfillNext, Contracts!FindContract,
     Contracts!PutPdf, Contracts!Die, Contracts!templates, Contracts!contracts
<1>l. {"idle", "b_next", "p_find", "p_put", "p_row", "p_fail"} \subseteq Contracts!Labels
  BY DEF Contracts!Labels
<1>4. CASE Contracts!BackfillMissingPdfs(t)
  <2> DEFINE j == [Contracts!NoJob EXCEPT !.op = "backfillMissingPdfs", !.todo = Contracts!Missing]
  <2>1. Contracts!Missing # {} /\ Contracts!Keep(t, "b_next", j)
    BY <1>4 DEF Contracts!BackfillMissingPdfs, Contracts!Begin, Contracts!Keep
  <2>2. Contracts!Missing \subseteq Contracts!Ids /\ \A c \in Contracts!Missing : deed[c].v # 0
        /\ deed[c].n < MaxAttempts
    BY DEF Contracts!Missing
  <2>3. j \in DeedJobs /\ j.op = "backfillMissingPdfs" /\ j.todo = Contracts!Missing
    BY <2>2, DeedNames DEF DeedJobs, Contracts!HandlerNames
  <2> HIDE DEF j
  <2>4. DeedFits("b_next", j) /\ \A c \in Contracts!Ids : Mine("b_next", j, c)
        => deed[c].n < MaxAttempts
    BY <2>1, <2>2, <2>3 DEF DeedFits, Mine, Rendering
  <2> QED BY <1>2, <1>3, <1>l, <2>1, <2>3, <2>4, DeedPlain
<1>5. CASE Contracts!BackfillNext(t)
  <2> DEFINE c == CHOOSE c \in my[t].todo : \A d \in my[t].todo : c <= d
  <2> DEFINE j == [my[t] EXCEPT !.c = c, !.todo = @ \ {c}]
  <2>1. at[t] = "b_next" /\ Contracts!Keep(t, "p_find", j)
    BY <1>5 DEF Contracts!BackfillNext
  <2>2. my[t].todo \subseteq Contracts!Ids /\ my[t].todo # {} /\ \A d \in my[t].todo : deed[d].v # 0
    BY <2>1, <1>1, <1>2 DEF DeedFits, DeedJobs
  <2>3. \E x \in my[t].todo : \A y \in my[t].todo : x <= y
    BY <2>2, HasLeast, DeedNames
  <2>4. c \in my[t].todo
    BY <2>3
  <2> HIDE DEF c
  <2>5. c \in 0 .. MaxContracts
    BY <2>2, <2>4 DEF Contracts!Ids, ContractsCalm
  <2>6. j \in DeedJobs /\ j.op = my[t].op /\ j.c = c /\ j.todo = my[t].todo \ {c}
    BY <1>2, <2>5 DEF DeedJobs
  <2> HIDE DEF j
  <2>7. DeedFits("p_find", j)
    BY <2>2, <2>4, <2>6 DEF DeedFits, Rendering
  <2>8. \A d \in Contracts!Ids : Mine("p_find", j, d) => Mine(at[t], my[t], d)
    BY <2>4, <2>6 DEF Mine
  <2> QED BY <1>2, <1>3, <1>l, <2>1, <2>6, <2>7, <2>8, DeedPlain
<1>6. CASE Contracts!FindContract(t)
  <2>1. at[t] = "p_find" /\ at[t] \in Rendering
    BY <1>6 DEF Contracts!FindContract, Rendering
  <2>2. my[t].c \in Contracts!Ids /\ my[t].c \notin my[t].todo /\ deed[my[t].c].v # 0
    BY <2>1, <1>1 DEF DeedFits
  <2>3. CASE Contracts!AfterPdf(t)
    <3>1. PICK l \in {"idle", "b_next"}, j \in DeedJobs :
           /\ Contracts!Keep(t, l, j) /\ DeedFits(l, j)
           /\ j.op # "renderContractForOrder" \/ j.op = my[t].op
           /\ \A c \in Contracts!Ids : Mine(l, j, c) => c \in my[t].todo
      BY <2>1, <2>3, <1>1, AfterPdfMoves
    <3>2. \A c \in Contracts!Ids : Mine(l, j, c) => Mine(at[t], my[t], c)
      BY <3>1 DEF Mine
    <3> QED BY <1>2, <1>3, <1>l, <3>1, <3>2, DeedPlain
  <2>4. CASE Contracts!Keep(t, "p_put",
             [my[t] EXCEPT !.key = <<IF linked = my[t].c THEN 0 ELSE my[t].c, deed[my[t].c].v>>])
    <3> DEFINE k == <<IF linked = my[t].c THEN 0 ELSE my[t].c, deed[my[t].c].v>>
    <3> DEFINE j == [my[t] EXCEPT !.key = k]
    <3>1. k \in PathOf(my[t].c)
      BY DEF PathOf
    <3>2. k \in Contracts!Keys
      BY <3>1, <2>2, <1>1, PathIsKey
    <3> HIDE DEF k
    <3>3. j \in DeedJobs /\ j.op = my[t].op /\ j.c = my[t].c /\ j.todo = my[t].todo /\ j.key = k
      BY <1>2, <3>2 DEF DeedJobs
    <3>4. Contracts!Keep(t, "p_put", j)
      BY <2>4 DEF k
    <3> HIDE DEF j
    <3>5. DeedFits("p_put", j)
      BY <2>1, <2>2, <3>1, <3>3, <1>1 DEF DeedFits, Rendering
    <3>6. \A c \in Contracts!Ids : Mine("p_put", j, c) => Mine(at[t], my[t], c)
      BY <2>1, <3>3 DEF Mine, Rendering
    <3> QED BY <1>2, <1>3, <1>l, <3>3, <3>4, <3>5, <3>6, DeedPlain
  <2> QED BY <1>6, <2>3, <2>4 DEF Contracts!FindContract
<1>7. CASE Contracts!PutPdf(t) /\ UNCHANGED archive
  <2>1. PICK l \in {"p_row", "p_fail"} : Contracts!Keep(t, l, my[t])
    BY <1>7 DEF Contracts!PutPdf, Contracts!Go
  <2>2. at[t] = "p_put"
    BY <1>7 DEF Contracts!PutPdf
  <2>3. \A c \in Contracts!Ids : Mine(l, my[t], c) => Mine(at[t], my[t], c)
    BY <2>2 DEF Mine, Rendering
  <2>4. l = "p_fail" => DeedFits(l, my[t])
    BY <2>2, <1>1 DEF DeedFits, Rendering
  <2>5. l = "p_row" => archive[my[t].key] = my[t].c
    <3>1. l = "p_row" => archive' = [archive EXCEPT ![my[t].key] = my[t].c]
      <4>1. at'[t] = l /\ (Contracts!Keep(t, "p_fail", my[t]) => at'[t] = "p_fail")
        BY <2>1, <1>1 DEF Contracts!Keep, DeedTyped
      <4> QED BY <4>1, <1>7 DEF Contracts!PutPdf, Contracts!Go
    <3>2. my[t].key \in DOMAIN archive
      <4>1. my[t].key \in PathOf(my[t].c) /\ my[t].c \in Contracts!Ids /\ deed[my[t].c].v # 0
        BY <2>2, <1>1 DEF DeedFits, Rendering
      <4> QED BY <4>1, <1>1, PathIsKey DEF DeedTyped
    <3> QED BY <3>1, <3>2, <1>7
  <2>6. DeedFits(l, my[t])
    BY <2>2, <2>4, <2>5, <1>1 DEF DeedFits, Rendering
  <2> QED BY <1>2, <1>3, <1>l, <2>1, <2>3, <2>6, DeedPlain
<1>8. CASE Contracts!Die(t)
  <2>1. Contracts!Keep(t, "idle", Contracts!NoJob)
    BY <1>8 DEF Contracts!Die, Contracts!Stop
  <2>2. /\ DeedFits("idle", Contracts!NoJob)
           /\ (\A c \in Contracts!Ids : ~ Mine("idle", Contracts!NoJob, c))
        /\ Contracts!NoJob \in DeedJobs /\ Contracts!NoJob.op # "renderContractForOrder"
    BY DeedNames DEF DeedFits, Mine, Rendering
  <2> QED BY <1>2, <1>3, <1>l, <2>1, <2>2, DeedPlain
<1> QED BY <1>4, <1>5, <1>6, <1>7, <1>8

-----------------------------------------------------------------------------
\* The steps that change a contract.  Of what is to be shown, most is the same for all.
LEMMA DeedChanges ==
  ASSUME ContractsCalm, DeedInv, UNCHANGED Contracts!templates, linked' = linked, archive' = archive,
         NEW c \in Contracts!Ids, NEW r \in Deeds, deed' = [deed EXCEPT ![c] = r],
         deed[c].v # 0 => r.v = deed[c].v,
         at' \in [Tasks -> Contracts!Labels], my' \in [Tasks -> DeedJobs],
         \A s \in Tasks : \/ at'[s] = at[s] /\ my'[s] = my[s]
                          \/ DeedFits(at[s], my[s])',
         \A s \in Tasks : my'[s].op = "renderContractForOrder" => my'[s].op = my[s].op,
         r.v = 0 => r.pdf = Contracts!NoKey /\ r.n = 0,
         r.pdf # Contracts!NoKey => (r.pdf \in PathOf(c) /\ archive[r.pdf] = c /\ r.v = deed[c].v),
         r.n + Cardinality(Tries(c)') < MaxAttempts + Cardinality(Tasks),
         \A d \in Contracts!Ids : d # c => Cardinality(Tries(d)') <= Cardinality(Tries(d))
  PROVE  DeedInv'
<1>1. DeedTyped /\ DeedKept /\ OneRenders /\ DeedTried /\ \A s \in Tasks : DeedFits(at[s], my[s])
  BY DEF DeedInv
<1>2. /\ deed' \in [Contracts!Ids -> Deeds] /\ deed'[c] = r /\ \A d \in Contracts!Ids : d # c
         => deed'[d] = deed[d]
      /\ \A d \in Contracts!Ids : deed[d].v # 0 => deed'[d].v = deed[d].v
  BY <1>1 DEF DeedTyped
<1>3. DeedTyped'
  BY <1>1, <1>2 DEF DeedTyped, Contracts!templates
<1>4. DeedKept'
  <2>1. \A d \in Contracts!Ids : deed'[d].v = 0 => deed'[d].pdf = Contracts!NoKey /\ deed'[d].n = 0
    BY <1>1, <1>2 DEF DeedKept
  <2>2. \A d \in Contracts!Ids : deed'[d].pdf # Contracts!NoKey => deed'[d].pdf \in PathOf(d)'
        /\ archive[deed'[d].pdf] = d
    <3>1. ASSUME NEW d \in Contracts!Ids, d # c, deed'[d].pdf # Contracts!NoKey
          PROVE  deed'[d].pdf \in PathOf(d)' /\ archive[deed'[d].pdf] = d
      BY <1>1, <1>2, <3>1 DEF DeedKept, PathOf
    <3>2. deed'[c].pdf # Contracts!NoKey => deed'[c].pdf \in PathOf(c)' /\ archive[deed'[c].pdf] = c
      BY <1>2 DEF PathOf
    <3> QED BY <3>1, <3>2
  <2>3. linked # 0 => linked \in Contracts!Ids
    BY <1>1 DEF DeedTyped, Contracts!Ids, ContractsCalm
  <2>4. linked' # 0 => deed'[linked'].v # 0
    BY <1>1, <1>2, <2>3 DEF DeedKept
  <2> QED BY <2>1, <2>2, <2>4 DEF DeedKept
<1>5. \A s \in Tasks : DeedFits(at[s], my[s])'
  <2> SUFFICES ASSUME NEW s \in Tasks PROVE DeedFits(at[s], my[s])'
    OBVIOUS
  <2>1. my[s] \in DeedJobs /\ DeedFits(at[s], my[s])
    BY <1>1 DEF DeedTyped
  <2>2. CASE at'[s] = at[s] /\ my'[s] = my[s]
    <3>1. \A l, j : j \in DeedJobs /\ DeedFits(l, j) => DeedFits(l, j)'
      BY <1>1, <1>2, DeedOthers
    <3>2. \A l, j : l = at[s] /\ j = my[s] => DeedFits(l, j)'
      BY <2>1, <3>1
    <3> QED BY <2>2, <3>2
  <2>3. CASE DeedFits(at[s], my[s])'
    BY <2>3
  <2> QED BY <2>2, <2>3
<1>6. OneRenders'
  BY <1>1 DEF OneRenders
<1>7. DeedTried'
  <2> SUFFICES ASSUME NEW d \in Contracts!Ids
               PROVE  deed'[d].n + Cardinality(Tries(d)') < MaxAttempts + Cardinality(Tasks)
    BY DEF DeedTried
  <2>1. CASE d = c
    BY <2>1, <1>2
  <2>2. CASE d # c
    <3>1. deed'[d] = deed[d] /\ deed[d] \in Deeds
      BY <2>2, <1>1, <1>2 DEF DeedTyped
    <3>2. deed[d].n \in Nat /\ deed'[d].n = deed[d].n
      BY <3>1, DeedNames DEF Deeds
    <3>3. IsFiniteSet(Tasks) /\ Tries(d)' \subseteq Tasks
      BY DEF ContractsCalm, Tries
    <3>4. Cardinality(Tries(d)') \in Nat
      BY <3>3, FS_Subset, FS_CardinalityType
    <3>5. Cardinality(Tries(d)) \in Nat /\ Cardinality(Tasks) \in Nat /\ MaxAttempts \in Nat
      BY TriesFinite, DeedNames DEF ContractsCalm
    <3>6. Cardinality(Tries(d)') <= Cardinality(Tries(d))
      BY <2>2
    <3>7. deed[d].n + Cardinality(Tries(d)) < MaxAttempts + Cardinality(Tasks)
      BY <1>1 DEF DeedTried
    <3> QED BY <3>2, <3>4, <3>5, <3>6, <3>7
  <2> QED BY <2>1, <2>2
<1> QED BY <1>3, <1>4, <1>5, <1>6, <1>7 DEF DeedInv

LEMMA DeedMade ==
  ASSUME ContractsCalm, DeedInv, NEW t \in Tasks, Contracts!CreateContract(t)
  PROVE  DeedInv'
<1>1. DeedTyped /\ \A s \in Tasks : DeedFits(at[s], my[s])
  BY DEF DeedInv
<1>2. at[t] = "r_create" /\ UNCHANGED <<Contracts!templates, linked, archive>>
  BY DEF Contracts!CreateContract
<1>3. PICK c \in Contracts!Ids : /\ deed[c].v = 0
                                 /\ deed' = [deed EXCEPT ![c] = [Contracts!NoRow EXCEPT !.v = my[t].v]]
                                 /\ Contracts!Keep(t, "r_link", [my[t] EXCEPT !.c = c])
  BY DEF Contracts!CreateContract
<1>4. /\ my[t] \in DeedJobs /\ my[t].todo = {} /\ my[t].v \in Contracts!Versions
      /\ my[t].op = "renderContractForOrder" /\ linked = 0
  BY <1>1, <1>2 DEF DeedTyped, DeedFits
<1> DEFINE r == [Contracts!NoRow EXCEPT !.v = my[t].v]
<1> DEFINE j == [my[t] EXCEPT !.c = c]
<1>5. my[t].v \in 0 .. MaxVersion /\ my[t].v # 0
  BY <1>4 DEF Contracts!Versions, ContractsCalm
<1>6. r \in Deeds /\ r.v = my[t].v /\ r.pdf = Contracts!NoKey /\ r.n = 0
  BY <1>5, DeedNames DEF Deeds
<1>7. c \in 0 .. MaxContracts
  BY DEF Contracts!Ids, ContractsCalm
<1>8. j \in DeedJobs /\ j.op = my[t].op /\ j.c = c /\ j.todo = {}
  BY <1>4, <1>7 DEF DeedJobs
<1> HIDE DEF j, r
<1>9. "r_link" \in Contracts!Labels /\ Contracts!Keep(t, "r_link", j) /\ deed' = [deed EXCEPT ![c] = r]
  BY <1>3 DEF Contracts!Labels, j, r
<1>10. /\ at' \in [Tasks -> Contracts!Labels] /\ my' \in [Tasks -> DeedJobs]
       /\ at'[t] = "r_link" /\ my'[t] = j
       /\ \A s \in Tasks : s # t => at'[s] = at[s] /\ my'[s] = my[s]
  BY <1>1, <1>8, <1>9, DeedMoves
<1>11. DeedFits(at[t], my[t])'
  <2>1. deed'[c].v # 0
    BY <1>1, <1>5, <1>6, <1>9 DEF DeedTyped
  <2>2. linked' = 0
    BY <1>2, <1>4
  <2>3. at'[t] = "r_link" /\ my'[t].todo = {} /\ my'[t].c = c /\ my'[t].op = "renderContractForOrder"
    BY <1>4, <1>8, <1>10
  <2> QED BY <2>1, <2>2, <2>3 DEF DeedFits, Rendering
<1>12. \A d \in Contracts!Ids : d # c => ~ Mine("r_link", j, d)
  BY <1>8 DEF Mine
<1>13. \A d : /\ Cardinality(Tries(d)') \in Nat /\ Cardinality(Tries(d)') <= Cardinality(Tasks)
              /\ (Mine("r_link", j, d) => Mine(at[t], my[t], d))
                   => Cardinality(Tries(d)') <= Cardinality(Tries(d))
  BY <1>1, <1>8, <1>9, DeedTries
<1>14. r.n + Cardinality(Tries(c)') < MaxAttempts + Cardinality(Tasks)
  BY <1>6, <1>13, DeedNames DEF ContractsCalm
<1>15. \A s \in Tasks : \/ at'[s] = at[s] /\ my'[s] = my[s]
                        \/ DeedFits(at[s], my[s])'
  BY <1>10, <1>11
<1>16. \A s \in Tasks : my'[s].op = "renderContractForOrder" => my'[s].op = my[s].op
  BY <1>8, <1>10
<1>17. \A d \in Contracts!Ids : d # c => Cardinality(Tries(d)') <= Cardinality(Tries(d))
  BY <1>12, <1>13
<1> QED BY <1>2, <1>3, <1>5, <1>6, <1>9, <1>10, <1>14, <1>15, <1>16, <1>17, DeedChanges

\* The PDF is recorded, or an attempt is counted.
LEMMA DeedEnds ==
  ASSUME ContractsCalm, DeedInv, NEW t \in Tasks, Contracts!RecordPdf(t) \/ Contracts!CountAttempt(t)
  PROVE  DeedInv'
<1>1. DeedTyped /\ DeedTried /\ \A s \in Tasks : DeedFits(at[s], my[s])
  BY DEF DeedInv
<1>2. at[t] \in {"p_row", "p_fail"} /\ Contracts!AfterPdf(t)
      /\ UNCHANGED <<Contracts!templates, linked, archive>>
  BY DEF Contracts!RecordPdf, Contracts!CountAttempt
<1>3. PICK l \in {"idle", "b_next"}, j \in DeedJobs :
           /\ Contracts!Keep(t, l, j) /\ DeedFits(l, j)
           /\ j.op # "renderContractForOrder" \/ j.op = my[t].op
           /\ \A d \in Contracts!Ids : Mine(l, j, d) => d \in my[t].todo
  BY <1>1, <1>2, AfterPdfMoves DEF Rendering
<1>4. l \in Contracts!Labels
  BY DEF Contracts!Labels
<1>0. my[t].c \in Contracts!Ids
  BY <1>1, <1>2 DEF DeedFits, Rendering
<1>a. PICK c \in Contracts!Ids : c = my[t].c
  BY <1>0
<1>5. c \in Contracts!Ids /\ c \notin my[t].todo /\ deed[c].v # 0 /\ deed[c] \in Deeds
  BY <1>a, <1>1, <1>2 DEF DeedFits, Rendering, DeedTyped
<1>6. /\ at' \in [Tasks -> Contracts!Labels] /\ my' \in [Tasks -> DeedJobs]
      /\ at'[t] = l /\ my'[t] = j
      /\ \A s \in Tasks : s # t => at'[s] = at[s] /\ my'[s] = my[s]
  BY <1>1, <1>3, <1>4, DeedMoves
<1>7. /\ \A d \in Contracts!Ids : Mine(l, j, d) => Mine(at[t], my[t], d)
      /\ ~ Mine(l, j, c) /\ Mine(at[t], my[t], c)
  BY <1>a, <1>2, <1>3, <1>5 DEF Mine, Rendering
<1>8. \A d : /\ Cardinality(Tries(d)') \in Nat /\ Cardinality(Tries(d)) \in Nat
             /\ (Mine(l, j, d) => Mine(at[t], my[t], d))
                   => Cardinality(Tries(d)') <= Cardinality(Tries(d))
             /\ ~ Mine(l, j, d) /\ Mine(at[t], my[t], d)
                   => Cardinality(Tries(d)') = Cardinality(Tries(d)) - 1
  BY <1>1, <1>3, <1>4, DeedTries
<1>9. deed[c].n + Cardinality(Tries(c)) < MaxAttempts + Cardinality(Tasks)
  BY <1>1, <1>5 DEF DeedTried
<1>10. /\ Cardinality(Tries(c)') = Cardinality(Tries(c)) - 1 /\ Cardinality(Tries(c)') \in Nat
       /\ Cardinality(Tries(c)) \in Nat /\ deed[c].n \in Nat
  <2>1. deed[c].n \in Nat
    BY <1>5, DeedNames DEF Deeds
  <2> QED BY <1>7, <1>8, <2>1
<1>11. PICK r \in Deeds :
         /\ deed' = [deed EXCEPT ![c] = r] /\ r.v = deed[c].v /\ r.n \in {deed[c].n, deed[c].n + 1}
         /\ r.pdf # Contracts!NoKey => r.pdf \in PathOf(c) /\ archive[r.pdf] = c
  <2>1. CASE Contracts!RecordPdf(t)
    <3>1. at[t] = "p_row" /\ deed' = [deed EXCEPT ![c].pdf = my[t].key]
      BY <1>a, <2>1 DEF Contracts!RecordPdf
    <3>2. my[t].key \in PathOf(c) /\ archive[my[t].key] = c
      BY <1>a, <3>1, <1>1 DEF DeedFits
    <3>3. my[t].key \in Contracts!Keys
      BY <3>2, <1>1, <1>5, PathIsKey
    <3> DEFINE r == [deed[c] EXCEPT !.pdf = my[t].key]
    <3>4. r \in Deeds /\ r.v = deed[c].v /\ r.n = deed[c].n /\ r.pdf = my[t].key
      BY <1>5, <3>3 DEF Deeds
    <3>5. deed' = [deed EXCEPT ![c] = r]
      BY <3>1, <1>1, <1>5 DEF DeedTyped
    <3> HIDE DEF r
    <3> QED BY <3>2, <3>4, <3>5
  <2>2. CASE Contracts!CountAttempt(t)
    <3>1. deed' = [deed EXCEPT ![c].n = IF @ < Contracts!Highest THEN @ + 1 ELSE @]
      BY <1>a, <2>2 DEF Contracts!CountAttempt
    <3> DEFINE m == IF deed[c].n < Contracts!Highest THEN deed[c].n + 1 ELSE deed[c].n
    <3> DEFINE r == [deed[c] EXCEPT !.n = m]
    <3>2. deed[c].n \in 0 .. Contracts!Highest
      BY <1>5 DEF Deeds
    <3>3. m \in 0 .. Contracts!Highest /\ m \in {deed[c].n, deed[c].n + 1}
      BY <3>2, DeedNames
    <3>4. deed' = [deed EXCEPT ![c] = r]
      BY <3>1, <1>1, <1>5 DEF DeedTyped
    <3> HIDE DEF m
    <3>5. r \in Deeds /\ r.v = deed[c].v /\ r.n = m /\ r.pdf = deed[c].pdf
      BY <1>5, <3>3 DEF Deeds
    <3>6. deed[c].pdf # Contracts!NoKey => deed[c].pdf \in PathOf(c) /\ archive[deed[c].pdf] = c
      BY <1>5 DEF DeedInv, DeedKept
    <3> HIDE DEF r
    <3> QED BY <3>3, <3>4, <3>5, <3>6
  <2> QED BY <2>1, <2>2
<1>12. r.n + Cardinality(Tries(c)') < MaxAttempts + Cardinality(Tasks)
  BY <1>9, <1>10, <1>11, DeedNames DEF ContractsCalm
<1>13. DeedFits(at[t], my[t])'
  <2>1. \A d \in Contracts!Ids : deed[d].v # 0 => deed'[d].v = deed[d].v
    BY <1>1, <1>11 DEF DeedTyped
  <2>2. DeedFits(l, j)'
    BY <1>1, <1>2, <1>3, <2>1, DeedOthers
  <2> QED BY <1>6, <2>2
<1>14. \A s \in Tasks : \/ at'[s] = at[s] /\ my'[s] = my[s]
                        \/ DeedFits(at[s], my[s])'
  BY <1>6, <1>13
<1>15. \A s \in Tasks : my'[s].op = "renderContractForOrder" => my'[s].op = my[s].op
  BY <1>3, <1>6
<1>16. \A d \in Contracts!Ids : d # c => Cardinality(Tries(d)') <= Cardinality(Tries(d))
  BY <1>7, <1>8
<1> QED BY <1>2, <1>5, <1>6, <1>11, <1>12, <1>14, <1>15, <1>16, DeedChanges

LEMMA DeedAges ==
  ASSUME ContractsCalm, DeedInv, NEW c \in Contracts!Ids, Contracts!FiveMinutesPass(c)
  PROVE  DeedInv'
<1>1. DeedTyped /\ DeedKept /\ DeedTried
  BY DEF DeedInv
<1>2. /\ deed[c].v # 0 /\ deed' = [deed EXCEPT ![c].old = TRUE] /\ deed[c] \in Deeds
      /\ UNCHANGED <<Contracts!templates, linked, archive, at, my>>
  BY <1>1 DEF Contracts!FiveMinutesPass, DeedTyped
<1> DEFINE r == [deed[c] EXCEPT !.old = TRUE]
<1>3. r \in Deeds /\ r.v = deed[c].v /\ r.n = deed[c].n /\ r.pdf = deed[c].pdf
  BY <1>2 DEF Deeds
<1>4. deed' = [deed EXCEPT ![c] = r]
  BY <1>1, <1>2 DEF DeedTyped
<1> HIDE DEF r
<1>5. \A d : Tries(d)' = Tries(d)
  BY <1>2 DEF Tries
<1>6. r.n + Cardinality(Tries(c)') < MaxAttempts + Cardinality(Tasks)
  BY <1>1, <1>3, <1>5 DEF DeedTried
<1>7. r.pdf # Contracts!NoKey => r.pdf \in PathOf(c) /\ archive[r.pdf] = c
  BY <1>1, <1>3 DEF DeedKept
<1>8. \A d \in Contracts!Ids : d # c => Cardinality(Tries(d)') <= Cardinality(Tries(d))
  <2>1. \A d : Cardinality(Tries(d)') = Cardinality(Tries(d)) /\ Cardinality(Tries(d)) \in Nat
    BY <1>5, TriesFinite
  <2> QED BY <2>1
<1>9. at' \in [Tasks -> Contracts!Labels] /\ my' \in [Tasks -> DeedJobs]
  BY <1>1, <1>2 DEF DeedTyped
<1> QED BY <1>2, <1>3, <1>4, <1>6, <1>7, <1>8, <1>9, DeedChanges

\* The order gets its contract: it had none, and nobody else renders one for it.
LEMMA DeedLinked ==
  ASSUME ContractsCalm, DeedInv, NEW t \in Tasks, Contracts!LinkContract(t)
  PROVE  DeedInv'
<1>1. DeedTyped /\ DeedKept /\ OneRenders /\ DeedTried /\ \A s \in Tasks : DeedFits(at[s], my[s])
  BY DEF DeedInv
<1>2. /\ at[t] = "r_link" /\ linked' = my[t].c /\ Contracts!Keep(t, "p_find", my[t])
         /\ UNCHANGED <<Contracts!templates, deed, archive>>
  BY DEF Contracts!LinkContract, Contracts!Go
<1>3. /\ my[t] \in DeedJobs /\ my[t].op = "renderContractForOrder" /\ linked = 0
      /\ my[t].c \in Contracts!Ids \ my[t].todo /\ deed[my[t].c].v # 0 /\ "p_find" \in Contracts!Labels
  BY <1>1, <1>2 DEF DeedFits, DeedTyped, Contracts!Labels
<1>4. /\ at' \in [Tasks -> Contracts!Labels] /\ my' \in [Tasks -> DeedJobs]
      /\ at'[t] = "p_find" /\ my'[t] = my[t]
      /\ \A s \in Tasks : s # t => at'[s] = at[s] /\ my'[s] = my[s]
  BY <1>1, <1>2, <1>3, DeedMoves
<1>5. \A d \in Contracts!Ids : PathOf(d) \subseteq PathOf(d)'
  <2>1. 0 \notin Contracts!Ids
    BY DeedNames
  <2> QED BY <1>2, <1>3, <2>1 DEF PathOf
<1>6. DeedTyped'
  <2>1. my[t].c \in 0 .. MaxContracts
    BY <1>3 DEF DeedJobs
  <2> QED BY <1>1, <1>2, <1>4, <2>1 DEF DeedTyped, Contracts!templates
<1>7. DeedKept'
  <2>1. \A d \in Contracts!Ids : deed'[d].pdf # Contracts!NoKey => deed'[d].pdf \in PathOf(d)'
        /\ archive'[deed'[d].pdf] = d
    BY <1>1, <1>2, <1>5 DEF DeedKept
  <2>2. \A d \in Contracts!Ids : deed'[d].v = 0 => deed'[d].pdf = Contracts!NoKey /\ deed'[d].n = 0
    BY <1>1, <1>2 DEF DeedKept
  <2> QED BY <1>2, <1>3, <2>1, <2>2 DEF DeedKept
<1>8. \A s \in Tasks : DeedFits(at[s], my[s])'
  <2>1. DeedFits(at[t], my[t])'
    <3>1. /\ at'[t] = "p_find" /\ my'[t] = my[t] /\ deed' = deed
          /\ \A d \in my[t].todo : deed[d].v # 0
      BY <1>1, <1>2, <1>4 DEF DeedFits
    <3> QED BY <1>3, <3>1 DEF DeedFits, Rendering
  <2>2. ASSUME NEW s \in Tasks, s # t PROVE DeedFits(at[s], my[s])'
    <3>1. /\ at'[s] = at[s] /\ my'[s] = my[s] /\ deed' = deed /\ archive' = archive
          /\ DeedFits(at[s], my[s])
      BY <1>1, <1>2, <1>4, <2>2
    <3>2. at[s] \notin {"r_template", "r_create", "r_link"}
      BY <1>1, <1>3, <2>2, <3>1 DEF OneRenders, DeedFits
    <3>3. at[s] \in {"p_put", "p_row"} => my[s].key \in PathOf(my[s].c)'
      BY <3>1, <1>5 DEF DeedFits, Rendering
    <3> QED BY <3>1, <3>2, <3>3 DEF DeedFits
  <2> QED BY <2>1, <2>2
<1>9. OneRenders'
  BY <1>1, <1>4 DEF OneRenders
<1>10. DeedTried'
  <2>1. \A d : Mine("p_find", my[t], d) => Mine(at[t], my[t], d)
    BY <1>2 DEF Mine
  <2>2. \A d : /\ Cardinality(Tries(d)) \in Nat /\ Cardinality(Tries(d)') \in Nat
               /\ Cardinality(Tries(d)') <= Cardinality(Tries(d))
    BY <1>1, <1>2, <1>3, <2>1, DeedTries
  <2> SUFFICES ASSUME NEW d \in Contracts!Ids
               PROVE  deed[d].n + Cardinality(Tries(d)') < MaxAttempts + Cardinality(Tasks)
    BY <1>2 DEF DeedTried
  <2>3. deed[d].n \in Nat /\ Cardinality(Tasks) \in Nat /\ MaxAttempts \in Nat
    BY <1>1, DeedNames DEF DeedTyped, Deeds, ContractsCalm
  <2>4. deed[d].n + Cardinality(Tries(d)) < MaxAttempts + Cardinality(Tasks)
    BY <1>1 DEF DeedTried
  <2> QED BY <2>2, <2>3, <2>4
<1> QED BY <1>6, <1>7, <1>8, <1>9, <1>10 DEF DeedInv

\* The PDF of a contract is put under a path of its own.
LEMMA DeedStored ==
  ASSUME ContractsCalm, DeedInv, NEW t \in Tasks, Contracts!PutPdf(t),
         archive' = [archive EXCEPT ![my[t].key] = my[t].c], Contracts!Go(t, "p_row")
  PROVE  DeedInv'
<1>1. DeedTyped /\ DeedKept /\ OneRenders /\ DeedTried /\ \A s \in Tasks : DeedFits(at[s], my[s])
  BY DEF DeedInv
<1>2. at[t] = "p_put" /\ Contracts!Keep(t, "p_row", my[t])
      /\ UNCHANGED <<Contracts!templates, deed, linked>>
  BY DEF Contracts!PutPdf, Contracts!Go
<1> DEFINE c == my[t].c  k == my[t].key
<1>3. /\ my[t] \in DeedJobs /\ c \in Contracts!Ids /\ deed[c].v # 0 /\ k \in PathOf(c)
         /\ "p_row" \in Contracts!Labels
  BY <1>1, <1>2 DEF DeedFits, DeedTyped, Contracts!Labels, Rendering
<1>4. k \in DOMAIN archive
  BY <1>1, <1>3, PathIsKey DEF DeedTyped
<1>5. archive'[k] = c /\ DOMAIN archive' = DOMAIN archive /\ \A i \in DOMAIN archive : i # k
      => archive'[i] = archive[i]
  BY <1>4
<1>6. /\ at' \in [Tasks -> Contracts!Labels] /\ my' \in [Tasks -> DeedJobs]
      /\ at'[t] = "p_row" /\ my'[t] = my[t]
      /\ \A s \in Tasks : s # t => at'[s] = at[s] /\ my'[s] = my[s]
  BY <1>1, <1>2, <1>3, DeedMoves
<1> HIDE DEF c, k
<1>7. \A d \in Contracts!Ids : \A i \in PathOf(d) : deed[d].v # 0 /\ archive[i] = d => archive'[i] = d
  <2> SUFFICES ASSUME NEW d \in Contracts!Ids, NEW i \in PathOf(d), deed[d].v # 0, archive[i] = d
               PROVE  archive'[i] = d
    OBVIOUS
  <2>1. i \in DOMAIN archive
    BY <1>1, PathIsKey DEF DeedTyped
  <2>2. i = k => c = d
    BY <1>1, <1>3, PathsApart
  <2> QED BY <1>5, <2>1, <2>2
<1>8. DeedTyped'
  BY <1>1, <1>2, <1>5, <1>6 DEF DeedTyped, Contracts!templates
<1>9. DeedKept'
  <2>1. \A d : PathOf(d)' = PathOf(d)
    BY <1>2 DEF PathOf
  <2>2. \A d \in Contracts!Ids : deed[d].pdf # Contracts!NoKey => deed[d].pdf \in PathOf(d)
        /\ archive'[deed[d].pdf] = d
    BY <1>1, <1>7 DEF DeedKept
  <2> QED BY <1>1, <1>2, <2>1, <2>2 DEF DeedKept
<1>10. \A s \in Tasks : DeedFits(at[s], my[s])'
  <2>1. \A d : PathOf(d)' = PathOf(d)
    BY <1>2 DEF PathOf
  <2>2. DeedFits(at[t], my[t])'
    <3>1. /\ my'[t] = my[t] /\ at'[t] = "p_row" /\ deed' = deed /\ archive'[my[t].key] = my[t].c
      BY <1>2, <1>5, <1>6 DEF c, k
    <3>2. DeedFits("p_put", my[t])
      BY <1>1, <1>2
    <3> QED BY <2>1, <3>1, <3>2 DEF DeedFits, Rendering
  <2>3. ASSUME NEW s \in Tasks, s # t PROVE DeedFits(at[s], my[s])'
    <3>1. /\ at'[s] = at[s] /\ my'[s] = my[s] /\ deed' = deed /\ linked' = linked
          /\ DeedFits(at[s], my[s])
      BY <1>1, <1>2, <1>6, <2>3
    <3>2. at[s] = "p_row" => archive'[my[s].key] = my[s].c
      BY <3>1, <1>7 DEF DeedFits, Rendering
    <3> QED BY <2>1, <3>1, <3>2 DEF DeedFits
  <2> QED BY <2>2, <2>3
<1>11. OneRenders'
  BY <1>1, <1>6 DEF OneRenders
<1>12. DeedTried'
  <2>1. \A d : Mine("p_row", my[t], d) => Mine(at[t], my[t], d)
    BY <1>2 DEF Mine, Rendering
  <2>2. \A d : /\ Cardinality(Tries(d)) \in Nat /\ Cardinality(Tries(d)') \in Nat
               /\ Cardinality(Tries(d)') <= Cardinality(Tries(d))
    BY <1>1, <1>2, <1>3, <2>1, DeedTries
  <2> SUFFICES ASSUME NEW d \in Contracts!Ids
               PROVE  deed[d].n + Cardinality(Tries(d)') < MaxAttempts + Cardinality(Tasks)
    BY <1>2 DEF DeedTried
  <2>3. deed[d].n \in Nat /\ Cardinality(Tasks) \in Nat /\ MaxAttempts \in Nat
    BY <1>1, DeedNames DEF DeedTyped, Deeds, ContractsCalm
  <2>4. deed[d].n + Cardinality(Tries(d)) < MaxAttempts + Cardinality(Tasks)
    BY <1>1 DEF DeedTried
  <2> QED BY <2>2, <2>3, <2>4
<1> QED BY <1>8, <1>9, <1>10, <1>11, <1>12 DEF DeedInv

-----------------------------------------------------------------------------
LEMMA DeedInit == ContractsCalm /\ Contracts!Init => DeedInv
<1> SUFFICES ASSUME ContractsCalm, Contracts!Init PROVE DeedInv
  OBVIOUS
<1>1. /\ Contracts!NoJob \in DeedJobs /\ Contracts!NoJob.op = "none" /\ Contracts!NoJob.todo = {}
      /\ Contracts!NoRow \in Deeds /\ Contracts!NoRow.v = 0 /\ Contracts!NoRow.pdf = Contracts!NoKey
         /\ Contracts!NoRow.n = 0 /\ 1 \in Contracts!Versions
  BY DeedNames
<1>2. \A t \in Tasks : at[t] = "idle" /\ my[t] = Contracts!NoJob
  BY DEF Contracts!Init
<1>3. \A c \in Contracts!Ids : deed[c] = Contracts!NoRow
  BY DEF Contracts!Init
<1>4. DeedTyped
  <2>1. active \subseteq Contracts!Versions /\ active # {} /\ made \in Contracts!Versions
    BY <1>1 DEF Contracts!Init
  <2>2. deed \in [Contracts!Ids -> Deeds] /\ DOMAIN archive = Contracts!Keys
        /\ linked \in 0 .. MaxContracts
    BY <1>1 DEF Contracts!Init, ContractsCalm
  <2>3. "idle" \in Contracts!Labels
    BY DEF Contracts!Labels
  <2>4. at \in [Tasks -> Contracts!Labels] /\ my \in [Tasks -> DeedJobs]
    BY <1>1, <2>3 DEF Contracts!Init
  <2> QED BY <2>1, <2>2, <2>4 DEF DeedTyped
<1>5. DeedKept
  BY <1>1, <1>3 DEF Contracts!Init, DeedKept
<1>6. \A t \in Tasks : DeedFits(at[t], my[t])
  BY <1>1, <1>2 DEF DeedFits, Rendering
<1>7. OneRenders
  BY <1>1, <1>2 DEF OneRenders
<1>8. DeedTried
  <2> SUFFICES ASSUME NEW c \in Contracts!Ids
               PROVE  deed[c].n + Cardinality(Tries(c)) < MaxAttempts + Cardinality(Tasks)
    BY DEF DeedTried
  <2>1. Tries(c) = {}
    BY <1>1, <1>2 DEF Tries, Mine, Rendering
  <2>2. Cardinality(Tries(c)) = 0
    BY <2>1, FS_EmptySet
  <2> QED BY <1>1, <1>3, <2>2, DeedNames DEF ContractsCalm
<1> QED BY <1>4, <1>5, <1>6, <1>7, <1>8 DEF DeedInv

LEMMA DeedStep == ContractsCalm /\ DeedInv /\ [Contracts!Next]_Contracts!vars => DeedInv'
<1> SUFFICES ASSUME ContractsCalm, DeedInv, [Contracts!Next]_Contracts!vars PROVE DeedInv'
  OBVIOUS
<1>1. CASE UNCHANGED Contracts!vars
  <2>1. UNCHANGED <<made, active, deed, linked, archive, at, my>>
    BY <1>1 DEF Contracts!vars, Contracts!templates, Contracts!contracts
  <2>2. DeedTyped' /\ OneRenders' /\ DeedKept'
    BY <2>1 DEF DeedInv, DeedTyped, OneRenders, DeedKept, PathOf
  <2>3. \A s \in Tasks : DeedFits(at[s], my[s])'
    BY <2>1 DEF DeedInv, DeedFits, PathOf
  <2>4. DeedTried'
    BY <2>1 DEF DeedInv, DeedTried, Tries
  <2> QED BY <2>2, <2>3, <2>4 DEF DeedInv
<1>2. ASSUME NEW t \in Tasks, Contracts!PutPdf(t) PROVE DeedInv'
  <2>1. CASE archive' = [archive EXCEPT ![my[t].key] = my[t].c] /\ Contracts!Go(t, "p_row")
    BY <1>2, <2>1, DeedStored
  <2>2. CASE UNCHANGED archive
    BY <1>2, <2>2, DeedCron
  <2> QED BY <1>2, <2>1, <2>2 DEF Contracts!PutPdf
<1>3. ASSUME NEW t \in Tasks,
             \/ Contracts!CreateVersion(t) \/ Contracts!ActivateVersion(t) \/ Contracts!Deactivate(t)
                \/ Contracts!Commit(t)
             \/ Contracts!RenderContract(t) \/ Contracts!BackfillMissingPdfs(t) \/ Contracts!Continue(t)
                \/ Contracts!Die(t)
      PROVE  DeedInv'
  BY <1>2, <1>3, DeedVersions, DeedRenders, DeedCron, DeedMade, DeedLinked, DeedEnds
     DEF Contracts!Continue
<1>4. ASSUME NEW c \in Contracts!Ids, Contracts!FiveMinutesPass(c) PROVE DeedInv'
  BY <1>4, DeedAges
<1> QED BY <1>1, <1>3, <1>4 DEF Contracts!Next

LEMMA DeedPromises == ContractsCalm /\ DeedInv => Contracts!AlwaysATemplate
  /\ Contracts!PdfIsItsContract /\ Contracts!GivesUp
<1> SUFFICES ASSUME ContractsCalm, DeedInv PROVE Contracts!AlwaysATemplate /\ Contracts!PdfIsItsContract
                    /\ Contracts!GivesUp
  OBVIOUS
<1>1. Contracts!AlwaysATemplate
  BY DEF DeedInv, DeedTyped, Contracts!AlwaysATemplate
<1>2. Contracts!PdfIsItsContract
  BY DEF DeedInv, DeedKept, Contracts!PdfIsItsContract
<1>3. Contracts!GivesUp
  <2> SUFFICES ASSUME NEW c \in Contracts!Ids PROVE deed[c].n < MaxAttempts + Cardinality(Tasks)
    BY DeedCounting DEF Contracts!GivesUp
  <2>1. deed[c].n \in Nat /\ Cardinality(Tasks) \in Nat /\ MaxAttempts \in Nat
    BY DeedNames DEF DeedInv, DeedTyped, Deeds, ContractsCalm
  <2>2. Cardinality(Tries(c)) \in Nat
    BY TriesFinite
  <2>3. deed[c].n + Cardinality(Tries(c)) < MaxAttempts + Cardinality(Tasks)
    BY DEF DeedInv, DeedTried
  <2> QED BY <2>1, <2>2, <2>3
<1> QED BY <1>1, <1>2, <1>3

\* Only an order without a contract gets one.
LEMMA DeedStays == DeedInv /\ [Contracts!Next]_Contracts!vars => Contracts!KeepsItsContract
<1> SUFFICES ASSUME DeedInv, [Contracts!Next]_Contracts!vars PROVE Contracts!KeepsItsContract
  OBVIOUS
<1>1. ASSUME UNCHANGED linked PROVE Contracts!KeepsItsContract
  BY <1>1 DEF Contracts!KeepsItsContract
<1>2. ASSUME NEW t \in Tasks, Contracts!LinkContract(t) PROVE Contracts!KeepsItsContract
  <2>1. linked = 0
    BY <1>2 DEF Contracts!LinkContract, DeedInv, DeedFits
  <2> QED BY <2>1 DEF Contracts!KeepsItsContract
<1>3. ASSUME NEW t \in Tasks,
             \/ Contracts!CreateVersion(t) \/ Contracts!ActivateVersion(t) \/ Contracts!Deactivate(t)
                \/ Contracts!Commit(t)
             \/ Contracts!RenderContract(t) \/ Contracts!BackfillMissingPdfs(t) \/ Contracts!Die(t)
      PROVE  UNCHANGED linked
  BY <1>3 DEF Contracts!CreateVersion, Contracts!ActivateVersion, Contracts!Deactivate,
     Contracts!Commit, Contracts!RenderContract, Contracts!BackfillMissingPdfs, Contracts!Die,
     Contracts!contracts
<1>4. ASSUME NEW t \in Tasks,
             \/ Contracts!LoadActiveTemplate(t) \/ Contracts!CreateContract(t)
                \/ Contracts!FindContract(t) \/ Contracts!PutPdf(t)
             \/ Contracts!RecordPdf(t) \/ Contracts!CountAttempt(t) \/ Contracts!BackfillNext(t)
      PROVE  UNCHANGED linked
  BY <1>4 DEF Contracts!LoadActiveTemplate, Contracts!CreateContract, Contracts!FindContract,
     Contracts!PutPdf, Contracts!RecordPdf, Contracts!CountAttempt, Contracts!BackfillNext,
     Contracts!contracts
<1>5. ASSUME NEW c \in Contracts!Ids, Contracts!FiveMinutesPass(c) PROVE UNCHANGED linked
  BY <1>5 DEF Contracts!FiveMinutesPass
<1>6. CASE UNCHANGED Contracts!vars
  BY <1>1, <1>6 DEF Contracts!vars, Contracts!contracts
<1> QED BY <1>1, <1>2, <1>3, <1>4, <1>5, <1>6 DEF Contracts!Next, Contracts!Continue

-----------------------------------------------------------------------------
(***************************************************************************)
(* The account of an inspector with Stripe: one that is alive is not replaced.*)
(***************************************************************************)
\* A request replaces the account that it has read, once that is gone from Stripe.
Replacing(t) ==
  /\ at[t] \in {"n_find", "n_insert", "n_create", "n_store"} => my[t].stored = 0
     /\ (at[t] # "n_store" => my[t].made = 0)
  /\ at[t] \in {"n_kind", "n_mark"} => my[t].made = 0
  /\ at[t] \in {"n_link", "n_reset"} /\ my[t].stored # 0 => my[t].stored = profile.acct
     /\ my[t].made = 0
  /\ at[t] = "n_reset" => my[t].stored # 0 /\ ~accounts[profile.acct].alive
ReplaceInv == ConnectInv /\ \A t \in Tasks : Replacing(t)

LEMMA ReplaceInit == Connect!Init => ReplaceInv
BY ConnectInit DEF ReplaceInv, Replacing, Connect!Init

\* An account that is gone does not come back, and who has no form open leaves its number.
OnlyGoes == /\ profile'.acct = profile.acct
            /\ \A a \in Known : a \in Known' /\ (accounts'[a].alive => accounts[a].alive)
LEMMA OthersReplace ==
  ASSUME ReplaceInv, NEW t \in Tasks, \A u \in Tasks \ {t} : at'[u] = at[u] /\ my'[u] = my[u],
         OnlyGoes \/ my[t].op = Form, ConnectInv', Replacing(t)'
  PROVE  ReplaceInv'
<1>1. ASSUME NEW u \in Tasks \ {t} PROVE Replacing(u)'
  <2>1. Replacing(u) /\ FormOK(u) /\ profile.acct \in Known \cup {0}
    BY DEF ReplaceInv, ConnectInv, ProfileOK
  <2>2. CASE OnlyGoes
    BY <2>1, <2>2 DEF Replacing, OnlyGoes
  <2>3. CASE my[t].op = Form
    <3>1. my[u].op # Form
      BY <2>3 DEF ReplaceInv, ConnectInv
    <3> QED BY <2>1, <3>1 DEF Replacing, FormOK, Filling
  <2> QED BY <2>2, <2>3
<1> QED BY <1>1 DEF ReplaceInv

LEMMA TaskReplaces ==
  ASSUME ReplaceInv, ConnectInv', NEW t \in Tasks,
         \/ Connect!RegisterPushToken(t) \/ Connect!UpsertToken(t)
         \/ Connect!StartStripeOnboarding(t) \/ Connect!FindProfile(t) \/ Connect!InsertProfile(t)
         \/ Connect!CreateAccount(t) \/ Connect!StoreAccount(t) \/ Connect!UpdateKind(t)
            \/ Connect!MarkKind(t)
         \/ Connect!CreateLink(t) \/ Connect!ResetAccount(t)
         \/ Connect!SyncConnectedAccount(t) \/ Connect!FindByAccount(t) \/ Connect!WriteOnboarded(t)
  PROVE  ReplaceInv' /\ Connect!KeepsLivingAccount
<1>0. /\ ConnectTyped /\ ProfileOK /\ FormOK(t) /\ Replacing(t) /\ my[t] \in Forms
      /\ profile.acct \in Known \cup {0} /\ 0 \notin Known /\ Known \subseteq Nat
  <2>1. ConnectTyped /\ ProfileOK /\ FormOK(t) /\ Replacing(t)
    BY DEF ReplaceInv, ConnectInv
  <2>2. my[t] \in Forms /\ 0 \notin Known /\ Known \subseteq Nat
    BY <2>1 DEF ConnectTyped
  <2> QED BY <2>1, <2>2 DEF ProfileOK
<1>1. ASSUME NEW l, NEW j, Connect!Keep(t, l, j)
      PROVE  /\ at'[t] = l /\ my'[t] = j
             /\ \A u \in Tasks \ {t} : at'[u] = at[u] /\ my'[u] = my[u]
  BY <1>0, <1>1 DEF Connect!Keep, ConnectTyped
<1>2. ASSUME NEW l, NEW j, Connect!Keep(t, l, j), UNCHANGED <<profile, accounts>>,
             l = "n_find" => j.stored = 0 /\ j.made = 0,
             l \notin {"n_insert", "n_create", "n_store", "n_kind", "n_mark", "n_link", "n_reset"}
      PROVE  ReplaceInv' /\ Connect!KeepsLivingAccount
  <2>1. Replacing(t)' /\ OnlyGoes
    BY <1>1, <1>2 DEF Replacing, OnlyGoes, Known
  <2> QED BY <1>1, <1>2, <2>1, OthersReplace DEF Connect!KeepsLivingAccount
<1>3. CASE Connect!RegisterPushToken(t) \/ Connect!StartStripeOnboarding(t)
           \/ Connect!SyncConnectedAccount(t)
  <2>1. \E l \in {"f_insert", "n_find", "y_find"} : \E j : Connect!Keep(t, l, j)
        /\ (l = "n_find" => j.stored = 0 /\ j.made = 0)
    <3>1. CASE Connect!RegisterPushToken(t) \/ Connect!SyncConnectedAccount(t)
      BY <3>1 DEF Connect!RegisterPushToken, Connect!SyncConnectedAccount, Connect!Begin,
         Connect!Keep
    <3>2. CASE Connect!StartStripeOnboarding(t)
      <4>1. PICK c \in {"DE", "PL"} \cup {Connect!Unset}, k \in {"company"} \cup {Connect!Unset} :
              Connect!Begin(t, "n_find", Connect!Job(Form, c, k))
        BY <3>2 DEF Connect!StartStripeOnboarding, Form
      <4>2. Connect!Keep(t, "n_find", Connect!Job(Form, c, k))
        BY <4>1 DEF Connect!Begin, Connect!Keep
      <4> QED BY <4>2 DEF Connect!Job, Connect!None
    <3> QED BY <1>3, <3>1, <3>2
  <2> QED BY <1>2, <1>3, <2>1 DEF Connect!RegisterPushToken, Connect!StartStripeOnboarding,
             Connect!SyncConnectedAccount, Connect!connect
<1>4. CASE Connect!UpsertToken(t) \/ Connect!WriteOnboarded(t)
  <2>1. OnlyGoes /\ profile'.acct = profile.acct
    BY <1>0, <1>4 DEF Connect!UpsertToken, Connect!WriteOnboarded, OnlyGoes, Known, ConnectTyped
  <2>2. at'[t] = "idle" /\ \A u \in Tasks \ {t} : at'[u] = at[u] /\ my'[u] = my[u]
    BY <1>1, <1>4 DEF Connect!UpsertToken, Connect!WriteOnboarded, Connect!End
  <2>3. Replacing(t)'
    BY <2>2 DEF Replacing
  <2> QED BY <2>1, <2>2, <2>3, OthersReplace DEF Connect!KeepsLivingAccount
<1>5. CASE Connect!FindByAccount(t)
  <2>1. \E l \in {"idle", "y_write"} : \E j : Connect!Keep(t, l, j)
    BY <1>5 DEF Connect!FindByAccount, Connect!End, Connect!Go
  <2> QED BY <1>2, <1>5, <2>1 DEF Connect!FindByAccount, Connect!connect
<1>6. CASE Connect!FindProfile(t)
  <2>1. UNCHANGED <<profile, accounts>> /\ my[t].op = Form /\ my[t].stored = 0 /\ my[t].made = 0
    BY <1>0, <1>6 DEF Connect!FindProfile, Connect!connect, FormOK, Replacing
  <2>2. \E l \in {"idle", "n_insert", "n_create", "n_kind", "n_link"} : \E j :
          /\ Connect!Keep(t, l, j) /\ (l # "idle" => j.made = 0)
          /\ l \in {"n_insert", "n_create"} => j.stored = 0
          /\ l = "n_link" => j.stored = profile.acct
    <3> DEFINE read == [my[t] EXCEPT !.stored = profile.acct,
               !.country = Connect!CountryFor(my[t].country),
                                      !.kind = Connect!KindFor(my[t].kind)]
    <3>1. read.made = 0 /\ read.stored = profile.acct
      BY <1>0, <2>1 DEF Forms
    <3>2. \/ Connect!Keep(t, "idle", Connect!NoJob) \/ Connect!Keep(t, "n_insert", my[t])
          \/ Connect!Keep(t, "n_create", read) /\ profile.acct = 0
          \/ Connect!Keep(t, "n_kind", read) \/ Connect!Keep(t, "n_link", read)
      BY <1>6 DEF Connect!FindProfile, Connect!End, Connect!Go, Connect!None
    <3> QED BY <2>1, <3>1, <3>2
  <2>3. Replacing(t)' /\ OnlyGoes
    BY <1>1, <2>1, <2>2 DEF Replacing, OnlyGoes, Known
  <2> QED BY <1>1, <2>1, <2>2, <2>3, OthersReplace DEF Connect!KeepsLivingAccount
<1>7. CASE Connect!InsertProfile(t)
  <2>1. UNCHANGED accounts /\ profile'.acct = profile.acct /\ my[t].op = Form /\ my[t].stored = 0
        /\ my[t].made = 0
    BY <1>0, <1>7 DEF Connect!InsertProfile, FormOK, Replacing, ConnectTyped
  <2>2. \E l \in {"idle", "n_create"} : \E j :
          Connect!Keep(t, l, j) /\ (l = "n_create" => j.stored = 0 /\ j.made = 0)
    BY <1>0, <1>7, <2>1 DEF Connect!InsertProfile, Connect!End, Forms
  <2>3. Replacing(t)' /\ OnlyGoes
    BY <1>1, <2>1, <2>2 DEF Replacing, OnlyGoes, Known
  <2> QED BY <1>1, <2>1, <2>2, <2>3, OthersReplace DEF Connect!KeepsLivingAccount
<1>8. CASE Connect!CreateAccount(t)
  <2>1. UNCHANGED profile /\ my[t].op = Form
    BY <1>0, <1>8 DEF Connect!CreateAccount, FormOK, Filling
  <2>2. \E l \in {"idle", "n_store", "n_restore"} : \E j :
          Connect!Keep(t, l, j) /\ (l = "n_store" => j.stored = 0)
    BY <1>0, <1>8, <2>1 DEF Connect!CreateAccount, Connect!End, Forms, Replacing
  <2>3. Replacing(t)'
    BY <1>1, <2>2 DEF Replacing
  <2> QED BY <1>1, <2>1, <2>2, <2>3, OthersReplace DEF Connect!KeepsLivingAccount
<1>9. CASE Connect!StoreAccount(t)
  <2>1. my[t].op = Form /\ profile.acct = 0
    BY <1>0, <1>9 DEF Connect!StoreAccount, FormOK, Filling
  <2>2. \E l \in {"n_link", "n_last"} : Connect!Keep(t, l, my[t]) /\ (l = "n_link" => my[t].stored = 0)
    BY <1>0, <1>9, <2>1 DEF Connect!StoreAccount, Connect!Go, Replacing
  <2>3. Replacing(t)'
    BY <1>1, <2>2 DEF Replacing
  <2> QED BY <1>1, <2>1, <2>2, <2>3, OthersReplace DEF Connect!KeepsLivingAccount, Connect!None
<1>10. CASE Connect!UpdateKind(t) \/ Connect!MarkKind(t)
  <2>1. my[t].op = Form /\ my[t].stored = profile.acct /\ my[t].made = 0
    BY <1>0, <1>10 DEF Connect!UpdateKind, Connect!MarkKind, FormOK, Filling, Replacing
  <2>2. \E l \in {"n_mark", "n_link"} : Connect!Keep(t, l, my[t])
    BY <1>10 DEF Connect!UpdateKind, Connect!MarkKind, Connect!Go
  <2>3. profile'.acct = profile.acct
    BY <1>0, <1>10 DEF Connect!UpdateKind, Connect!MarkKind, ConnectTyped
  <2>4. Replacing(t)'
    BY <1>1, <2>1, <2>2, <2>3 DEF Replacing
  <2> QED BY <1>1, <2>1, <2>2, <2>3, <2>4, OthersReplace DEF Connect!KeepsLivingAccount
<1>11. CASE Connect!CreateLink(t)
  <2>1. my[t].op = Form /\ UNCHANGED <<profile, accounts>>
    BY <1>0, <1>11 DEF Connect!CreateLink, Connect!connect, FormOK, Filling
  <2>2. \/ Connect!Keep(t, "idle", Connect!NoJob)
        \/ /\ Connect!Keep(t, "n_reset", my[t]) /\ my[t].stored = profile.acct /\ my[t].stored # 0
           /\ my[t].made = 0 /\ ~accounts[profile.acct].alive
    BY <1>0, <1>11 DEF Connect!CreateLink, Connect!Go, Connect!End, Replacing, Connect!None
  <2>3. Replacing(t)'
    BY <1>1, <2>1, <2>2 DEF Replacing
  <2>4. \A u \in Tasks \ {t} : at'[u] = at[u] /\ my'[u] = my[u]
    BY <1>1, <2>2
  <2> QED BY <2>1, <2>3, <2>4, OthersReplace DEF Connect!KeepsLivingAccount
<1>12. CASE Connect!ResetAccount(t)
  <2>1. my[t].op = Form /\ ~accounts[profile.acct].alive
    BY <1>0, <1>12 DEF Connect!ResetAccount, FormOK, Filling, Replacing
  <2>2. Connect!Keep(t, "n_again", my[t])
    BY <1>12 DEF Connect!ResetAccount, Connect!Go
  <2>3. Replacing(t)'
    BY <1>1, <2>2 DEF Replacing
  <2> QED BY <1>1, <2>1, <2>2, <2>3, OthersReplace DEF Connect!KeepsLivingAccount
<1> QED BY <1>3, <1>4, <1>5, <1>6, <1>7, <1>8, <1>9, <1>10, <1>11, <1>12

LEMMA StripeReplaces ==
  ASSUME ReplaceInv, ConnectInv', Connect!AccountChanges \/ Connect!AccountGone
  PROVE  ReplaceInv' /\ Connect!KeepsLivingAccount
<1>1. UNCHANGED <<profile, at, my>> /\ OnlyGoes
  BY DEF ReplaceInv, ConnectInv, ConnectTyped, Connect!AccountChanges, Connect!AccountGone,
     OnlyGoes, Known, AccountRows
<1>2. ASSUME NEW t \in Tasks PROVE Replacing(t)'
  BY <1>1 DEF ReplaceInv, ConnectInv, ProfileOK, Replacing, OnlyGoes
<1> QED BY <1>1, <1>2 DEF ReplaceInv, Connect!KeepsLivingAccount

LEMMA ReplaceStep ==
  ReplaceInv /\ (Connect!Next \/ UNCHANGED Connect!vars) => ReplaceInv' /\ Connect!KeepsLivingAccount
<1>1. ASSUME ReplaceInv, Connect!Next PROVE ReplaceInv' /\ Connect!KeepsLivingAccount
  <2>1. ConnectInv'
    BY <1>1, ConnectStep DEF ReplaceInv
  <2> QED BY <1>1, <2>1, TaskReplaces, StripeReplaces DEF Connect!Next
<1>2. ASSUME ReplaceInv, UNCHANGED Connect!vars PROVE ReplaceInv' /\ Connect!KeepsLivingAccount
  <2>1. ConnectInv'
    BY <1>2, ConnectStep DEF ReplaceInv, Connect!vars, Connect!connect, connectState
  <2>2. UNCHANGED <<profile, accounts, at, my>>
    BY <1>2 DEF Connect!vars, Connect!connect
  <2>3. ASSUME NEW t \in Tasks PROVE Replacing(t)'
    BY <1>2, <2>2 DEF ReplaceInv, Replacing
  <2> QED BY <2>1, <2>2, <2>3 DEF ReplaceInv, Connect!KeepsLivingAccount
<1> QED BY <1>1, <1>2

-----------------------------------------------------------------------------
(***************************************************************************)
(* The deadline of a search: once it is set it stays.                       *)
(***************************************************************************)
\* One task records the hold of an order, and a window is opened where there is none.
OneRecords ==
  \A t, u \in Tasks : at[t] \in Holding /\ at[u] \in Holding /\ my[t].order = my[u].order => t = u
Opening(t) == at[t] = "a_window" => placed[my[t].order].until = 0
DeadlineInv == OrderInv /\ OneRecords /\ \A t \in Tasks : Opening(t)

LEMMA DeadlineInit == Ordering!Init => DeadlineInv
BY OrderInit DEF Ordering!Init, DeadlineInv, OneRecords, Opening, Holding

UntilsStay == /\ DOMAIN placed \subseteq DOMAIN placed'
              /\ \A o \in DOMAIN placed : placed'[o].until = placed[o].until
LEMMA UntilsOf ==
  ASSUME placed \in Seq(Orders), NEW o, NEW v,
         \/ placed' = [placed EXCEPT ![o].row = v] \/ placed' = [placed EXCEPT ![o].status = v]
         \/ placed' = [placed EXCEPT ![o].pi = v] \/ placed' = placed
  PROVE  UntilsStay
<1>1. \A p \in DOMAIN placed : placed[p] \in Orders
  OBVIOUS
<1>2. \A p \in DOMAIN placed : /\ [placed[p] EXCEPT !.row = v].until = placed[p].until
                               /\ [placed[p] EXCEPT !.status = v].until = placed[p].until
                               /\ [placed[p] EXCEPT !.pi = v].until = placed[p].until
  BY <1>1 DEF Orders
<1>3. /\ DOMAIN placed' = DOMAIN placed
      /\ \A p \in DOMAIN placed : placed'[p] \in {placed[p], [placed[p] EXCEPT !.row = v],
                                    [placed[p] EXCEPT !.status = v], [placed[p] EXCEPT !.pi = v]}
  OBVIOUS
<1> QED BY <1>2, <1>3 DEF UntilsStay

\* Whoever starts to record a hold is alone with that order.
LEMMA TaskRecords ==
  ASSUME DeadlineInv, OrderInv', NEW t \in Tasks, NEW l \in Ordering!Labels, NEW j \in Steps,
         Ordering!Keep(t, l, j), UntilsStay,
         l = "a_window" => j.order \in DOMAIN placed /\ placed[j.order].until = 0,
         l \in Holding => \/ at[t] \in Holding /\ j.order = my[t].order
                          \/ \A u \in Tasks \ {t} : at[u] \in Holding => my[u].order # j.order
  PROVE  DeadlineInv' /\ Ordering!DeadlineStays
<1>1. /\ at'[t] = l /\ my'[t] = j
      /\ \A u \in Tasks \ {t} : at'[u] = at[u] /\ my'[u] = my[u]
  BY OrderKeeps DEF DeadlineInv, OrderInv
<1>2. OneRecords'
  BY <1>1 DEF DeadlineInv, OneRecords
<1>3. \A u \in Tasks : at[u] = "a_window" => my[u].order \in DOMAIN placed
  BY DEF DeadlineInv, OrderInv, StepFits
<1>4. ASSUME NEW u \in Tasks PROVE Opening(u)'
  BY <1>1, <1>3 DEF DeadlineInv, Opening, UntilsStay
<1> QED BY <1>2, <1>4 DEF DeadlineInv, UntilsStay, Ordering!DeadlineStays

LEMMA NobodyElse ==
  ASSUME DeadlineInv, NEW o, ~Overlaps, Ordering!MayAuthorize(o)
  PROVE  \A u \in Tasks : at[u] \in Holding => my[u].order # o
BY DEF Ordering!MayAuthorize, Ordering!Authorizing, Holding

LEMMA WindowOpens ==
  ASSUME DeadlineInv, OrderInv', NEW t \in Tasks, Ordering!OpenWindow(t)
  PROVE  DeadlineInv' /\ Ordering!DeadlineStays
<1>1. /\ at[t] = "a_window" /\ my[t] \in Steps /\ my[t].order \in DOMAIN placed
         /\ placed[my[t].order].until = 0
      /\ placed \in Seq(Orders) /\ "a_paid" \in Ordering!Labels /\ OrderTyped
  BY DEF DeadlineInv, OrderInv, OrderTyped, StepFits, Opening, Ordering!OpenWindow, Ordering!Labels
<1>2. /\ at'[t] = "a_paid" /\ my'[t] = my[t] /\ \A u \in Tasks \ {t} : at'[u] = at[u] /\ my'[u] = my[u]
  BY <1>1, OrderKeeps DEF Ordering!OpenWindow, Ordering!Go
<1>3. DOMAIN placed' = DOMAIN placed /\ \A o \in DOMAIN placed : o # my[t].order
      => placed'[o] = placed[o]
  BY <1>1 DEF Ordering!OpenWindow
<1>4. OneRecords'
  BY <1>1, <1>2 DEF DeadlineInv, OneRecords, Holding
<1>5. ASSUME NEW u \in Tasks PROVE Opening(u)'
  <2>1. CASE u = t
    BY <1>2, <2>1 DEF Opening
  <2>2. CASE u # t /\ at[u] = "a_window"
    <3>1. my[u].order \in DOMAIN placed /\ my[u].order # my[t].order
      BY <1>1, <2>2 DEF DeadlineInv, OrderInv, StepFits, OneRecords, Holding
    <3> QED BY <1>2, <1>3, <2>2, <3>1 DEF DeadlineInv, Opening
  <2> QED BY <1>2, <2>1, <2>2 DEF Opening
<1> QED BY <1>1, <1>3, <1>4, <1>5 DEF DeadlineInv, Ordering!DeadlineStays

LEMMA TasksRecord ==
  ASSUME DeadlineInv, OrderInv', ~Overlaps, NEW t \in Tasks,
         \/ Ordering!CreateOrder(t) \/ Ordering!InsertOrder(t) \/ Ordering!CreatePayment(t)
         \/ Ordering!CreateIntent(t) \/ Ordering!LinkIntent(t)
         \/ Ordering!OpenSession(t) \/ Ordering!AnswerSession(t)
         \/ Ordering!ReportHold(t) \/ Ordering!Reconcile(t) \/ Ordering!MarkAuthorized(t)
            \/ Ordering!ReadOrder(t)
         \/ Ordering!StartSearch(t)
         \/ Ordering!Cancel(t) \/ Ordering!SettleCancelled(t) \/ Ordering!WriteCancelled(t)
         \/ Ordering!Expire(t) \/ Ordering!SettleExpired(t) \/ Ordering!Die(t)
  PROVE  DeadlineInv' /\ Ordering!DeadlineStays
<1>0. /\ OrderTyped /\ placed \in Seq(Orders) /\ StepFits(t) /\ my[t] \in Steps
         /\ Ordering!NoJob \in Steps
      /\ intents \in Seq(Cards) /\ hooks \subseteq DOMAIN intents
      /\ \A l \in {"idle", "c_insert", "c_payment", "c_intent", "c_link", "s_payment", "a_mark",
                   "a_read", "a_window", "a_paid", "x_settle", "x_write", "e_settle"} :
                     l \in Ordering!Labels
  BY OrderSteps DEF DeadlineInv, OrderInv, OrderTyped, Ordering!Labels
<1>1. ASSUME NEW l \in Ordering!Labels \ Holding, NEW j \in Steps, Ordering!Keep(t, l, j), UntilsStay
      PROVE  DeadlineInv' /\ Ordering!DeadlineStays
  BY <1>1, TaskRecords DEF Holding
<1>2. ASSUME Ordering!End(t), UntilsStay PROVE DeadlineInv' /\ Ordering!DeadlineStays
  BY <1>0, <1>1, <1>2 DEF Ordering!End, Holding
<1>3. placed' = placed => UntilsStay
  BY DEF UntilsStay
<1>4. \A o \in DOMAIN placed : o \in Nat
  BY <1>0
<1>5. CASE Ordering!CreateOrder(t) \/ Ordering!OpenSession(t) \/ Ordering!Cancel(t)
           \/ Ordering!Expire(t)
  <2>1. \E l \in {"c_insert", "s_payment", "x_settle", "e_settle"} : Ordering!Keep(t, l, my'[t])
    BY <1>0, <1>5 DEF Ordering!CreateOrder, Ordering!OpenSession, Ordering!Cancel,
       Ordering!Expire, Ordering!Begin, Ordering!Keep, OrderTyped
  <2>2. UntilsStay
    BY <1>0, <1>3, <1>5, UntilsOf DEF Ordering!CreateOrder, Ordering!OpenSession, Ordering!Cancel,
       Ordering!Expire
  <2>3. my'[t] \in Steps
    BY DEF OrderInv, OrderTyped
  <2> QED BY <1>0, <1>1, <2>1, <2>2, <2>3 DEF Holding
<1>6. CASE Ordering!InsertOrder(t)
  <2>1. UntilsStay
    <3>1. placed' = placed \/ \E r : placed' = Append(placed, r)
      BY <1>6 DEF Ordering!InsertOrder
    <3> QED BY <1>0, <1>3, <3>1 DEF UntilsStay
  <2>2. \E l \in {"idle", "c_payment"} : Ordering!Keep(t, l, my'[t])
    BY <1>0, <1>6 DEF Ordering!InsertOrder, Ordering!End, Ordering!Keep, OrderTyped
  <2>3. my'[t] \in Steps
    BY DEF OrderInv, OrderTyped
  <2> QED BY <1>0, <1>1, <2>1, <2>2, <2>3 DEF Holding
<1>7. CASE Ordering!CreatePayment(t)
  <2>1. UntilsStay
    BY <1>0, <1>7, UntilsOf DEF Ordering!CreatePayment
  <2>2. CASE Ordering!Keep(t, "c_intent", my[t])
    BY <1>0, <1>1, <2>1, <2>2 DEF Holding
  <2>3. CASE Ordering!Keep(t, "a_mark", my[t])
    <3>1. placed[my[t].order].row = "none"
      BY <1>0, <1>7 DEF Ordering!CreatePayment, StepFits
    <3>2. \A u \in Tasks : at[u] \in Holding => my[u].order # my[t].order
      BY <3>1 DEF DeadlineInv, OrderInv, StepFits
    <3> QED BY <1>0, <2>1, <2>3, <3>2, TaskRecords
  <2> QED BY <1>7, <2>2, <2>3 DEF Ordering!CreatePayment, Ordering!Go
<1>8. CASE Ordering!CreateIntent(t) \/ Ordering!LinkIntent(t) \/ Ordering!AnswerSession(t)
           \/ Ordering!Die(t)
  <2>1. UntilsStay
    BY <1>0, <1>3, <1>8, UntilsOf DEF Ordering!CreateIntent, Ordering!LinkIntent,
       Ordering!AnswerSession, Ordering!Die
  <2>2. \E l \in {"idle", "c_link"} : Ordering!Keep(t, l, my'[t])
    BY <1>0, <1>8 DEF Ordering!CreateIntent, Ordering!LinkIntent, Ordering!AnswerSession,
       Ordering!Die, Ordering!End, Ordering!Keep, OrderTyped
  <2>3. my'[t] \in Steps
    BY DEF OrderInv, OrderTyped
  <2> QED BY <1>0, <1>1, <2>1, <2>2, <2>3 DEF Holding
<1>9. CASE Ordering!ReportHold(t) \/ Ordering!Reconcile(t)
  <2>1. PICK o : Ordering!MayAuthorize(o) /\ my'[t].order = o /\ Ordering!Keep(t, "a_mark", my'[t])
    <3>1. CASE Ordering!ReportHold(t)
      <4>1. PICK i \in hooks : Ordering!MayAuthorize(intents[i].of)
                 /\ Ordering!Begin(t, "a_mark", Ordering!Job(intents[i].of, i, 0))
        BY <3>1 DEF Ordering!ReportHold
      <4>2. my'[t] = Ordering!Job(intents[i].of, i, 0)
        BY <1>0, <4>1 DEF Ordering!Begin, OrderTyped
      <4>3. Ordering!Keep(t, "a_mark", my'[t])
        BY <4>1, <4>2 DEF Ordering!Begin, Ordering!Keep
      <4>4. my'[t].order = intents[i].of
        BY <4>2 DEF Ordering!Job
      <4> QED BY <4>1, <4>3, <4>4
    <3>2. CASE Ordering!Reconcile(t)
      <4>1. PICK o \in DOMAIN placed : Ordering!MayAuthorize(o)
                 /\ Ordering!Begin(t, "a_mark", Ordering!Job(o, 0, 0))
        BY <3>2 DEF Ordering!Reconcile
      <4>2. my'[t] = Ordering!Job(o, 0, 0)
        BY <1>0, <4>1 DEF Ordering!Begin, OrderTyped
      <4>3. Ordering!Keep(t, "a_mark", my'[t])
        BY <4>1, <4>2 DEF Ordering!Begin, Ordering!Keep
      <4>4. my'[t].order = o
        BY <4>2 DEF Ordering!Job
      <4> QED BY <4>1, <4>3, <4>4
    <3> QED BY <1>9, <3>1, <3>2
  <2>2. UntilsStay /\ my'[t] \in Steps
    BY <1>3, <1>9 DEF Ordering!ReportHold, Ordering!Reconcile, OrderInv, OrderTyped
  <2> QED BY <1>0, <2>1, <2>2, NobodyElse, TaskRecords
<1>10. CASE Ordering!MarkAuthorized(t)
  <2>1. UntilsStay
    BY <1>0, <1>10, UntilsOf DEF Ordering!MarkAuthorized
  <2>2. at[t] \in Holding /\ Ordering!Keep(t, "a_read", my[t])
    BY <1>10 DEF Ordering!MarkAuthorized, Ordering!Go, Holding
  <2> QED BY <1>0, <2>1, <2>2, TaskRecords
<1>11. CASE Ordering!ReadOrder(t)
  <2>1. UntilsStay /\ at[t] \in Holding /\ my[t].order \in DOMAIN placed
    BY <1>0, <1>3, <1>11 DEF Ordering!ReadOrder, Holding, StepFits
  <2>2. \/ Ordering!End(t) \/ Ordering!Keep(t, "a_paid", my[t])
        \/ Ordering!Keep(t, "a_window", my[t]) /\ placed[my[t].order].until = 0
    BY <1>11 DEF Ordering!ReadOrder, Ordering!Go, Ordering!Mine
  <2> QED BY <1>0, <1>2, <2>1, <2>2, TaskRecords
<1>12. CASE Ordering!StartSearch(t) \/ Ordering!WriteCancelled(t)
  <2>1. UntilsStay
    BY <1>0, <1>12, UntilsOf DEF Ordering!StartSearch, Ordering!WriteCancelled
  <2> QED BY <1>2, <1>12, <2>1 DEF Ordering!StartSearch, Ordering!WriteCancelled
<1>13. CASE Ordering!SettleCancelled(t) \/ Ordering!SettleExpired(t)
  <2>1. UntilsStay
    BY <1>0, <1>3, <1>13, UntilsOf DEF Ordering!SettleCancelled, Ordering!SettleExpired,
       Ordering!Release
  <2>2. Ordering!End(t) \/ Ordering!Keep(t, "x_write", my[t])
    BY <1>13 DEF Ordering!SettleCancelled, Ordering!SettleExpired, Ordering!Go
  <2>3. "x_write" \notin Holding
    BY DEF Holding
  <2> QED BY <1>0, <1>1, <1>2, <2>1, <2>2, <2>3
<1> QED BY <1>5, <1>6, <1>7, <1>8, <1>9, <1>10, <1>11, <1>12, <1>13

LEMMA OthersKeepUntil ==
  ASSUME DeadlineInv, OrderInv', Ordering!Confirm \/ Ordering!ReleaseStranded \/ Ordering!Tick
  PROVE  DeadlineInv' /\ Ordering!DeadlineStays
<1>1. placed \in Seq(Orders)
  BY DEF DeadlineInv, OrderInv, OrderTyped
<1>2. UNCHANGED <<at, my>>
  BY DEF Ordering!Confirm, Ordering!ReleaseStranded, Ordering!Tick
<1>3. UntilsStay
  BY <1>1, UntilsOf DEF Ordering!Confirm, Ordering!ReleaseStranded, Ordering!Tick, Ordering!Release
<1>4. \A u \in Tasks : at[u] = "a_window" => my[u].order \in DOMAIN placed
  BY DEF DeadlineInv, OrderInv, StepFits
<1>5. ASSUME NEW u \in Tasks PROVE Opening(u)'
  BY <1>2, <1>3, <1>4 DEF DeadlineInv, Opening, UntilsStay
<1> QED BY <1>2, <1>3, <1>5 DEF DeadlineInv, OneRecords, UntilsStay, Ordering!DeadlineStays

LEMMA DeadlineStep ==
  ASSUME CountsDown, ~Overlaps
  PROVE  DeadlineInv /\ (Ordering!Next \/ UNCHANGED <<orderingState, at, my>>)
           => DeadlineInv' /\ Ordering!DeadlineStays
<1> SUFFICES ASSUME DeadlineInv, Ordering!Next \/ UNCHANGED <<orderingState, at, my>>
             PROVE  DeadlineInv' /\ Ordering!DeadlineStays
  OBVIOUS
<1>1. OrderInv'
  BY OrderStep DEF DeadlineInv
<1>2. CASE Ordering!Next
  BY <1>1, <1>2, TasksRecord, WindowOpens, OthersKeepUntil DEF Ordering!Next
<1>3. CASE UNCHANGED <<orderingState, at, my>>
  <2>1. UNCHANGED <<placed, at, my>>
    BY <1>3 DEF orderingState
  <2>2. \A u \in Tasks : Opening(u)'
    BY <2>1 DEF DeadlineInv, Opening
  <2> QED BY <1>1, <2>1, <2>2 DEF DeadlineInv, OneRecords, Ordering!DeadlineStays
<1> QED BY <1>2, <1>3
=============================================================================
