------------------------ MODULE CounterHandover_proofs ------------------------
(***************************************************************************)
(* The theorems of CounterHandover, for any number of overlapping functions,  *)
(* of payments and of prices: that it implements Sale, and that a hold covers  *)
(* the order while it is in the search.                                     *)
(***************************************************************************)
EXTENDS CounterHandover, WellFoundedInduction, TLAPS

-----------------------------------------------------------------------------
\* The payments are numbered: a set of them has a first.
LEMMA FirstIn ==
  ASSUME NEW S \in SUBSET Payments, S # {}
  PROVE  First(S) \in S
<1>1. S \subseteq Nat
  BY PaymentsAssumption DEF Payments, Base
<1> DEFINE Less == {ss \in Nat \X Nat : ss[1] < ss[2]}
<1>2. IsWellFoundedOn(Less, Nat)
  BY NatLessThanWellFounded DEF OpToRel
<1>3. PICK x \in S : \A y \in S : ~(<<y, x>> \in Less)
  <2> HIDE DEF Less
  <2> QED BY <1>1, <1>2, WFMin
<1>4. \A y \in S : x <= y
  <2> SUFFICES ASSUME NEW y \in S PROVE x <= y
    OBVIOUS
  <2>1. x \in Nat /\ y \in Nat
    BY <1>1
  <2>2. ~(y < x)
    <3>1. y < x => <<y, x>> \in Less
      BY <2>1
    <3> QED BY <1>3, <3>1
  <2> QED BY <2>1, <2>2
<1> QED BY <1>1, <1>4 DEF First

LEMMA FirstOfOne == \A p \in Payments : First({p}) = p
<1> SUFFICES ASSUME NEW p \in Payments PROVE First({p}) = p
  OBVIOUS
<1> QED BY FirstIn

-----------------------------------------------------------------------------
\* What the moves of one function do to the two functions that every task is in.
LocalsOK == at \in [Tasks -> Labels] /\ my \in [Tasks -> Jobs]
Others(t) == \A u \in Tasks : u # t => at'[u] = at[u] /\ my'[u] = my[u]
Moves(t) == LocalsOK' /\ Others(t)

LEMMA JobsAreTyped ==
  /\ \A op \in HandlerNames \cup {"none"}, p \in Payments :
       /\ Job(op, p) \in Jobs
       /\ Job(op, p).op = op /\ Job(op, p).p = p /\ Job(op, p).todo = {}
  /\ NoJob \in Jobs /\ NoJob.op = "none"
  /\ \A j \in Jobs, p \in Payments, S \in SUBSET Payments, c \in Prices \cup {Tariff},
        b \in BOOLEAN :
       /\ [j EXCEPT !.ok = b] \in Jobs /\ [j EXCEPT !.p = p] \in Jobs
       /\ [j EXCEPT !.todo = S] \in Jobs /\ [j EXCEPT !.todo = S, !.ok = b] \in Jobs
       /\ [j EXCEPT !.price = c] \in Jobs /\ [j EXCEPT !.pull = b] \in Jobs
<1> Tariff \in Prices \cup {Tariff} /\ Base \in Payments
  BY DEF Payments
<1>1. /\ \A op \in HandlerNames \cup {"none"}, p \in Payments :
            /\ Job(op, p) \in Jobs
            /\ Job(op, p).op = op /\ Job(op, p).p = p /\ Job(op, p).todo = {}
      /\ NoJob \in Jobs /\ NoJob.op = "none"
  BY DEF Job, Jobs, NoJob
<1>2. \A j \in Jobs, p \in Payments, S \in SUBSET Payments, c \in Prices \cup {Tariff},
         b \in BOOLEAN :
       /\ [j EXCEPT !.ok = b] \in Jobs /\ [j EXCEPT !.p = p] \in Jobs
       /\ [j EXCEPT !.todo = S] \in Jobs /\ [j EXCEPT !.todo = S, !.ok = b] \in Jobs
       /\ [j EXCEPT !.price = c] \in Jobs /\ [j EXCEPT !.pull = b] \in Jobs
  BY DEF Jobs
<1> QED BY <1>1, <1>2

LEMMA KeepMoves ==
  ASSUME LocalsOK, NEW t \in Tasks, NEW l \in Labels, NEW j \in Jobs, Keep(t, l, j)
  PROVE  Moves(t) /\ at'[t] = l /\ my'[t] = j
BY DEF Keep, LocalsOK, Others, Moves

LEMMA GoMoves ==
  ASSUME LocalsOK, NEW t \in Tasks, NEW l \in Labels, Go(t, l)
  PROVE  Moves(t) /\ at'[t] = l /\ my'[t] = my[t]
BY KeepMoves DEF Go, LocalsOK

LEMMA EndMoves ==
  ASSUME LocalsOK, NEW t \in Tasks, End(t)
  PROVE  Moves(t) /\ at'[t] = "idle" /\ my'[t] = NoJob
<1> "idle" \in Labels
  BY DEF Labels
<1> QED BY KeepMoves, JobsAreTyped DEF End

LEMMA BeginMoves ==
  ASSUME LocalsOK, NEW t \in Tasks, NEW l \in Labels, NEW op \in HandlerNames,
         NEW p \in Payments, Begin(t, l, Job(op, p))
  PROVE  Moves(t) /\ at[t] = "idle" /\ at'[t] = l /\ my'[t] = Job(op, p)
<1> Job(op, p) \in Jobs
  BY JobsAreTyped
<1> HIDE DEF Job
<1> QED BY DEF Begin, LocalsOK, Others, Moves

\* The updates of the locals that the functions make.
LEMMA KeepP ==
  ASSUME LocalsOK, NEW t \in Tasks, NEW l \in Labels, NEW p \in Payments,
         Keep(t, l, [my[t] EXCEPT !.p = p])
  PROVE  Moves(t) /\ at'[t] = l /\ my'[t].op = my[t].op /\ my'[t].p = p
         /\ my'[t].todo = my[t].todo /\ my'[t].price = my[t].price
<1>1. my[t] \in Jobs
  BY DEF LocalsOK
<1>2. [my[t] EXCEPT !.p = p] \in Jobs
  BY <1>1 DEF Jobs
<1>3. Moves(t) /\ at'[t] = l /\ my'[t] = [my[t] EXCEPT !.p = p]
  BY <1>2, KeepMoves
<1> QED BY <1>1, <1>3 DEF Jobs

LEMMA KeepTodo ==
  ASSUME LocalsOK, NEW t \in Tasks, NEW l \in Labels, NEW S \in SUBSET Payments,
         Keep(t, l, [my[t] EXCEPT !.todo = S])
  PROVE  Moves(t) /\ at'[t] = l /\ my'[t].op = my[t].op /\ my'[t].todo = S
         /\ my'[t].p = my[t].p /\ my'[t].price = my[t].price
<1>1. my[t] \in Jobs
  BY DEF LocalsOK
<1>2. [my[t] EXCEPT !.todo = S] \in Jobs
  BY <1>1 DEF Jobs
<1>3. Moves(t) /\ at'[t] = l /\ my'[t] = [my[t] EXCEPT !.todo = S]
  BY <1>2, KeepMoves
<1> QED BY <1>1, <1>3 DEF Jobs

LEMMA KeepTodoOk ==
  ASSUME LocalsOK, NEW t \in Tasks, NEW l \in Labels, NEW S \in SUBSET Payments,
         NEW b \in BOOLEAN,
         Keep(t, l, [my[t] EXCEPT !.todo = S, !.ok = b])
  PROVE  Moves(t) /\ at'[t] = l /\ my'[t].op = my[t].op /\ my'[t].todo = S
         /\ my'[t].p = my[t].p /\ my'[t].price = my[t].price
<1>1. my[t] \in Jobs
  BY DEF LocalsOK
<1>2. [my[t] EXCEPT !.todo = S, !.ok = b] \in Jobs
  BY <1>1 DEF Jobs
<1>3. Moves(t) /\ at'[t] = l /\ my'[t] = [my[t] EXCEPT !.todo = S, !.ok = b]
  BY <1>2, KeepMoves
<1> QED BY <1>1, <1>3 DEF Jobs

LEMMA KeepPrice ==
  ASSUME LocalsOK, NEW t \in Tasks, NEW l \in Labels, NEW c \in Prices \cup {Tariff},
         Keep(t, l, [my[t] EXCEPT !.price = c])
  PROVE  Moves(t) /\ at'[t] = l /\ my'[t].op = my[t].op /\ my'[t].price = c
         /\ my'[t].p = my[t].p /\ my'[t].todo = my[t].todo
<1>1. my[t] \in Jobs
  BY DEF LocalsOK
<1>2. [my[t] EXCEPT !.price = c] \in Jobs
  BY <1>1 DEF Jobs
<1>3. Moves(t) /\ at'[t] = l /\ my'[t] = [my[t] EXCEPT !.price = c]
  BY <1>2, KeepMoves
<1> QED BY <1>1, <1>3 DEF Jobs

LEMMA KeepOk ==
  ASSUME LocalsOK, NEW t \in Tasks, NEW l \in Labels, NEW b \in BOOLEAN,
         Keep(t, l, [my[t] EXCEPT !.ok = b])
  PROVE  Moves(t) /\ at'[t] = l /\ my'[t].op = my[t].op /\ my'[t].ok = b
         /\ my'[t].p = my[t].p /\ my'[t].todo = my[t].todo /\ my'[t].price = my[t].price
<1>1. my[t] \in Jobs
  BY DEF LocalsOK
<1>2. [my[t] EXCEPT !.ok = b] \in Jobs
  BY <1>1 DEF Jobs
<1>3. Moves(t) /\ at'[t] = l /\ my'[t] = [my[t] EXCEPT !.ok = b]
  BY <1>2, KeepMoves
<1> QED BY <1>1, <1>3 DEF Jobs

LEMMA KeepPull ==
  ASSUME LocalsOK, NEW t \in Tasks, NEW l \in Labels, NEW b \in BOOLEAN,
         Keep(t, l, [my[t] EXCEPT !.pull = b])
  PROVE  Moves(t) /\ at'[t] = l /\ my'[t].op = my[t].op /\ my'[t].pull = b
         /\ my'[t].p = my[t].p /\ my'[t].todo = my[t].todo /\ my'[t].price = my[t].price
<1>1. my[t] \in Jobs
  BY DEF LocalsOK
<1>2. [my[t] EXCEPT !.pull = b] \in Jobs
  BY <1>1 DEF Jobs
<1>3. Moves(t) /\ at'[t] = l /\ my'[t] = [my[t] EXCEPT !.pull = b]
  BY <1>2, KeepMoves
<1> QED BY <1>1, <1>3 DEF Jobs

\* Which payments the functions are about: Stripe tells of replacements only.
Finalizes == {"f_screen", "f_claim", "f_others", "f_cancel", "f_dead", "f_mark", "back",
              "back_dead"}
Placed(t) ==
  /\ at[t] \in Finalizes => my[t].op = "finalize"
  /\ at[t] \in {"claim", "row"} => my[t].op \notin {"finalize", "failed", "canceled"}
  /\ my[t].op \in {"finalize", "failed", "canceled"} => my[t].p \in Replacements
  /\ at[t] \in {"intent", "name", "h_cancel", "h_mark"} => my[t].p \in Replacements
  /\ at[t] \in {"c_claim", "e_claim", "r_find"} => my[t].op \notin {"finalize", "failed", "canceled"}
  /\ at[t] = "a_cancel" => Base \notin my[t].todo
  /\ at[t] \in {"f_dead", "capture", "captured"} => my[t].todo # {}
TypeInv == TypeOK /\ \A t \in Tasks : Placed(t)

MoneyTyped == pay \in [Payments -> PayRows] /\ intent \in [Payments -> Intents]
              /\ events \subseteq Events
SaleTyped ==
  /\ sale \in [st : {"open", "assigned", "cancelled"},
                by : {"nobody", "pool", "expert"}, total : Prices \cup {Tariff}]
  /\ ended \in BOOLEAN /\ screen \in Screens

LEMMA TypeParts == TypeOK <=> SaleTyped /\ MoneyTyped /\ LocalsOK
BY DEF TypeOK, SaleTyped, MoneyTyped, LocalsOK

LEMMA TypeOf ==
  ASSUME TypeInv, NEW t \in Tasks, SaleTyped', MoneyTyped', Moves(t), Placed(t)'
  PROVE  TypeInv'
<1>1. \A u \in Tasks : Placed(u)'
  BY DEF TypeInv, Moves, Others, Placed
<1> QED BY <1>1, TypeParts DEF TypeInv, TypeOK, SaleTyped, MoneyTyped, LocalsOK, Moves

\* A cancel touches one intent and leaves the function where it goes on.
LEMMA CancelMoves ==
  ASSUME TypeInv, NEW t \in Tasks, NEW p \in Payments, NEW l \in Labels,
         CancelIntent(t, p, l)
  PROVE  /\ Moves(t) /\ at'[t] = l /\ my'[t] \in Jobs
         /\ my'[t].op = my[t].op /\ my'[t].p = my[t].p /\ my'[t].todo = my[t].todo
         /\ my'[t].price = my[t].price
         /\ \/ intent' = intent
            \/ intent[p] \in {"unpaid", "held"} /\ intent' = [intent EXCEPT ![p] = "canceled"]
         /\ intent' \in [Payments -> Intents]
         /\ events \subseteq events'
         /\ \A e \in events' \ events : p # Base /\ e = [type |-> "canceled", p |-> p]
         /\ my'[t].ok => intent'[p] = "canceled"
         /\ events' \subseteq Events
<1>1. my[t] \in Jobs /\ intent \in [Payments -> Intents] /\ events \subseteq Events /\ LocalsOK
  BY DEF TypeInv, TypeOK, LocalsOK
<1>2. ASSUME NEW b \in BOOLEAN, Keep(t, l, [my[t] EXCEPT !.ok = b])
      PROVE  /\ Moves(t) /\ at'[t] = l /\ my'[t] \in Jobs
             /\ my'[t].op = my[t].op /\ my'[t].p = my[t].p /\ my'[t].todo = my[t].todo
             /\ my'[t].ok = b /\ my'[t].price = my[t].price
  <2> DEFINE j == [my[t] EXCEPT !.ok = b]
  <2>1. j \in Jobs
    BY <1>1, JobsAreTyped
  <2>2. j.op = my[t].op /\ j.p = my[t].p /\ j.todo = my[t].todo /\ j.ok = b
        /\ j.price = my[t].price
    BY <1>1 DEF Jobs
  <2>3. Moves(t) /\ at'[t] = l /\ my'[t] = j
    BY <1>1, <1>2, <2>1, KeepMoves
  <2> HIDE DEF j
  <2> QED BY <2>1, <2>2, <2>3
<1>3. TRUE \in BOOLEAN /\ FALSE \in BOOLEAN
  OBVIOUS
<1>4. p # Base => [type |-> "canceled", p |-> p] \in Events
  BY DEF Payments, Events
<1>5. "canceled" \in Intents
  BY DEF Intents
<1>6. CASE /\ intent[p] \in {"unpaid", "held"}
           /\ intent' = [intent EXCEPT ![p] = "canceled"]
           /\ events' = IF p = Base THEN events ELSE events \cup {[type |-> "canceled", p |-> p]}
           /\ Keep(t, l, [my[t] EXCEPT !.ok = TRUE])
  BY <1>1, <1>2, <1>3, <1>4, <1>5, <1>6
<1>7. CASE /\ intent[p] = "canceled"
           /\ UNCHANGED <<intent, events>>
           /\ Keep(t, l, [my[t] EXCEPT !.ok = TRUE])
  BY <1>1, <1>2, <1>3, <1>7
<1>8. CASE /\ UNCHANGED <<intent, events>>
           /\ Keep(t, l, [my[t] EXCEPT !.ok = FALSE])
  BY <1>1, <1>2, <1>3, <1>8
<1> QED BY <1>6, <1>7, <1>8 DEF CancelIntent

\* What a statement about one payment does to the rows.
Statuses == {"none", "pending", "failed", "authorized", "succeeded", "cancelled"}
OnlyRow(q) == /\ pay' \in [Payments -> PayRows]
              /\ \A p \in Payments : p # q => pay'[p] = pay[p]

LEMMA RowMoves ==
  ASSUME MoneyTyped, NEW q \in Payments
  PROVE  /\ \A b \in BOOLEAN :
              pay' = [pay EXCEPT ![q].dead = TRUE, ![q].st = IF b THEN "cancelled" ELSE @] =>
                /\ OnlyRow(q) /\ pay'[q].dead /\ pay'[q].named = pay[q].named
                /\ pay'[q].amount = pay[q].amount
                /\ pay'[q].st = IF b THEN "cancelled" ELSE pay[q].st
         /\ \A s \in Statuses : pay' = [pay EXCEPT ![q].st = s] =>
                /\ OnlyRow(q) /\ pay'[q].dead = pay[q].dead /\ pay'[q].named = pay[q].named
                /\ pay'[q].amount = pay[q].amount /\ pay'[q].st = s
         /\ pay' = [pay EXCEPT ![q].named = TRUE] =>
                /\ OnlyRow(q) /\ pay'[q].dead = pay[q].dead /\ pay'[q].named
                /\ pay'[q].amount = pay[q].amount /\ pay'[q].st = pay[q].st
<1>1. pay \in [Payments -> PayRows] /\ pay[q] \in PayRows
  BY DEF MoneyTyped
<1>2. ASSUME NEW r \in PayRows, pay' = [pay EXCEPT ![q] = r]
      PROVE  OnlyRow(q) /\ pay'[q] = r
  BY <1>1, <1>2 DEF OnlyRow
<1>3. ASSUME NEW b \in BOOLEAN,
             pay' = [pay EXCEPT ![q].dead = TRUE, ![q].st = IF b THEN "cancelled" ELSE @]
      PROVE  /\ OnlyRow(q) /\ pay'[q].dead /\ pay'[q].named = pay[q].named
             /\ pay'[q].amount = pay[q].amount
             /\ pay'[q].st = IF b THEN "cancelled" ELSE pay[q].st
  <2> DEFINE r == [pay[q] EXCEPT !.dead = TRUE, !.st = IF b THEN "cancelled" ELSE @]
  <2>1. r \in PayRows /\ r.dead /\ r.named = pay[q].named /\ r.amount = pay[q].amount
        /\ r.st = IF b THEN "cancelled" ELSE pay[q].st
    BY <1>1 DEF PayRows
  <2>2. pay' = [pay EXCEPT ![q] = r]
    BY <1>1, <1>3 DEF PayRows
  <2> HIDE DEF r
  <2> QED BY <1>2, <2>1, <2>2
<1>4. ASSUME NEW s \in Statuses, pay' = [pay EXCEPT ![q].st = s]
      PROVE  /\ OnlyRow(q) /\ pay'[q].dead = pay[q].dead /\ pay'[q].named = pay[q].named
             /\ pay'[q].amount = pay[q].amount /\ pay'[q].st = s
  <2> DEFINE r == [pay[q] EXCEPT !.st = s]
  <2>1. r \in PayRows /\ r.dead = pay[q].dead /\ r.named = pay[q].named
        /\ r.amount = pay[q].amount /\ r.st = s
    BY <1>1 DEF PayRows, Statuses
  <2>2. pay' = [pay EXCEPT ![q] = r]
    BY <1>1, <1>4
  <2> HIDE DEF r
  <2> QED BY <1>2, <2>1, <2>2
<1>5. ASSUME pay' = [pay EXCEPT ![q].named = TRUE]
      PROVE  /\ OnlyRow(q) /\ pay'[q].dead = pay[q].dead /\ pay'[q].named
             /\ pay'[q].amount = pay[q].amount /\ pay'[q].st = pay[q].st
  <2> DEFINE r == [pay[q] EXCEPT !.named = TRUE]
  <2>1. r \in PayRows /\ r.dead = pay[q].dead /\ r.named
        /\ r.amount = pay[q].amount /\ r.st = pay[q].st
    BY <1>1 DEF PayRows
  <2>2. pay' = [pay EXCEPT ![q] = r]
    BY <1>1, <1>5
  <2> HIDE DEF r
  <2> QED BY <1>2, <2>1, <2>2
<1> QED BY <1>3, <1>4, <1>5

-----------------------------------------------------------------------------
\* Type correctness, action by action: first the steps that leave the payments alone.
LEMMA TypeOfQuiet ==
  ASSUME TypeInv, NEW t \in Tasks, UNCHANGED moneyVars, SaleTyped', Moves(t), Placed(t)'
  PROVE  TypeInv'
BY TypeOf, TypeParts DEF TypeInv, MoneyTyped, moneyVars

LEMMA LabelsAre ==
  \A l \in {"idle", "claim", "row", "intent", "name", "f_screen", "f_claim",
    "f_others", "f_cancel", "f_dead", "f_mark", "find", "capture", "captured",
    "failed", "sold", "assign", "back", "back_dead", "pull", "a_screen", "a_find",
    "a_cancel", "a_dead", "c_claim", "e_claim", "r_find", "r_cancel", "r_mark",
    "stop", "h_cancel", "h_mark"} : l \in Labels
BY DEF Labels

LEMMA TypeBegins ==
  ASSUME TypeInv, NEW t \in Tasks,
         \/ Accept(t) \/ AcceptOffer(t) \/ Webhooks(t) \/ Crons(t)
  PROVE  TypeInv'
<1>1. LocalsOK /\ SaleTyped /\ MoneyTyped /\ Base \in Payments
  BY TypeParts DEF TypeInv, Payments
<1>2. ASSUME NEW l \in Labels, NEW op \in HandlerNames, NEW p \in Payments,
             Begin(t, l, Job(op, p)), UNCHANGED <<orderVars, pay, intent>>, events' \subseteq events,
             op \in {"finalize", "failed", "canceled"} \/ l = "h_cancel" => p \in Replacements,
             l \in {"c_claim", "e_claim", "r_find", "claim", "row"} =>
               op \notin {"finalize", "failed", "canceled"},
             l \in Finalizes => op = "finalize",
             l \notin {"intent", "name", "h_mark", "a_cancel", "f_dead", "capture", "captured"}
      PROVE  TypeInv'
  <2>1. Moves(t) /\ at'[t] = l /\ my'[t] = Job(op, p)
    BY <1>1, <1>2, BeginMoves
  <2>2. my'[t].op = op /\ my'[t].p = p
    BY <2>1 DEF Job
  <2>3. Placed(t)'
    BY <1>2, <2>1, <2>2 DEF Placed, Finalizes
  <2>4. SaleTyped' /\ MoneyTyped'
    BY <1>1, <1>2 DEF SaleTyped, MoneyTyped, orderVars
  <2> QED BY <2>1, <2>3, <2>4, TypeOf
<1>3. \A e \in events : e.p \in Replacements /\ e.p \in Payments
                        /\ e.type \in {"capturable", "failed", "canceled"}
  BY <1>1 DEF MoneyTyped, Events, Payments
<1>4. ASSUME Accept(t) PROVE TypeInv'
  BY <1>1, <1>2, <1>4, LabelsAre DEF Accept, HandlerNames, moneyVars, Finalizes
<1>5. ASSUME AcceptOffer(t) PROVE TypeInv'
  BY <1>1, <1>2, <1>5, LabelsAre DEF AcceptOffer, HandlerNames, moneyVars, Finalizes
<1>6. ASSUME Finalize(t) PROVE TypeInv'
  <2>1. PICK e \in events :
          /\ events' = events \ {e}
          /\ \/ Begin(t, "f_screen", Job("finalize", e.p))
             \/ UNCHANGED <<at, my>>
    BY <1>6 DEF Finalize
  <2>2. UNCHANGED <<orderVars, pay, intent>>
    BY <1>6 DEF Finalize
  <2>3. CASE Begin(t, "f_screen", Job("finalize", e.p))
    BY <1>2, <1>3, <2>1, <2>2, <2>3, LabelsAre DEF HandlerNames, Finalizes
  <2>4. CASE UNCHANGED <<at, my>>
    BY <2>1, <2>2, <2>4 DEF TypeInv, TypeOK, Placed, orderVars
  <2> QED BY <2>1, <2>3, <2>4
<1>7. ASSUME NEW type \in {"failed", "canceled"}, Given(t, type) PROVE TypeInv'
  <2>1. PICK e \in events :
          /\ events' = events \ {e}
          /\ Begin(t, "a_screen", Job(type, e.p))
          /\ UNCHANGED <<orderVars, pay, intent>>
    BY <1>7 DEF Given
  <2> QED BY <1>2, <1>3, <2>1, LabelsAre DEF HandlerNames, Finalizes
<1>8. ASSUME SweepExpired(t) PROVE TypeInv'
  BY <1>1, <1>2, <1>8, LabelsAre DEF SweepExpired, HandlerNames, moneyVars, Finalizes
<1>9. ASSUME ExpireUnfilledSearches(t) PROVE TypeInv'
  BY <1>1, <1>2, <1>9, LabelsAre DEF ExpireUnfilledSearches, HandlerNames, moneyVars, Finalizes
<1>10. ASSUME Stranded(t) PROVE TypeInv'
  BY <1>1, <1>2, <1>10, LabelsAre DEF Stranded, HandlerNames, moneyVars, Finalizes
<1>11. ASSUME Reconcile(t) PROVE TypeInv'
  <2>1. PICK p \in Abandoned : Begin(t, "h_cancel", Job("reconcile", p))
    BY <1>11 DEF Reconcile
  <2>2. p \in Payments /\ p \in Replacements
    BY DEF Abandoned, Rows, Payments
  <2>3. UNCHANGED <<orderVars, moneyVars>>
    BY <1>11 DEF Reconcile
  <2> QED BY <1>2, <2>1, <2>2, <2>3, LabelsAre DEF HandlerNames, Finalizes, moneyVars
<1> QED BY <1>4, <1>5, <1>6, <1>7, <1>8, <1>9, <1>10, <1>11
        DEF Webhooks, Crons, PaymentFailed, PaymentCanceled

LEMMA TypeContinues ==
  ASSUME TypeInv, NEW t \in Tasks, Continue(t) \/ Crash(t)
  PROVE  TypeInv'
<1>0. /\ LocalsOK /\ SaleTyped /\ MoneyTyped /\ Base \in Payments /\ my[t] \in Jobs
      /\ Replacements \subseteq Payments
  BY TypeParts DEF TypeInv, Payments, LocalsOK
<1>1. /\ Placed(t) /\ my[t].p \in Payments /\ my[t].todo \in SUBSET Payments
      /\ my[t].price \in Prices \cup {Tariff}
  BY <1>0 DEF TypeInv, Jobs
<1>2. ASSUME NEW l \in Labels, Go(t, l), UNCHANGED moneyVars, SaleTyped',
             l \in {"c_claim", "e_claim", "r_find"} => my[t].op \notin {"finalize", "failed", "canceled"},
             l \in Finalizes => my[t].op = "finalize",
             l \notin {"claim", "row", "intent", "name", "h_cancel", "h_mark", "a_cancel", "f_dead", "capture",
                       "captured"}
      PROVE  TypeInv'
  BY <1>0, <1>1, <1>2, GoMoves, TypeOfQuiet DEF Placed, Finalizes
<1>3. ASSUME End(t), UNCHANGED moneyVars, SaleTyped'
      PROVE  TypeInv'
  <2>1. Moves(t) /\ at'[t] = "idle" /\ my'[t].op = "none"
    BY <1>0, <1>3, EndMoves, JobsAreTyped
  <2> QED BY <1>3, <2>1, TypeOfQuiet DEF Placed, Finalizes
<1>4. UNCHANGED orderVars => SaleTyped'
  BY <1>0 DEF SaleTyped, orderVars
<1>5. ASSUME AcceptClaim(t) PROVE TypeInv'
  <2>1. CASE screen.st = "PENDING"
    <3>1. screen.price \in Prices \cup {Tariff}
      BY <1>0 DEF SaleTyped, Screens
    <3>2. Keep(t, "row", [my[t] EXCEPT !.price = screen.price])
      BY <1>5, <2>1 DEF AcceptClaim
    <3>3. Moves(t) /\ at'[t] = "row" /\ my'[t].op = my[t].op /\ my'[t].p = my[t].p
      BY <1>0, <3>1, <3>2, LabelsAre, KeepPrice
    <3>4. SaleTyped' /\ UNCHANGED moneyVars
      BY <1>0, <1>5, <2>1 DEF AcceptClaim, SaleTyped, Screens
    <3> QED BY <1>1, <1>5, <3>3, <3>4, TypeOfQuiet DEF Placed, Finalizes, AcceptClaim
  <2>2. CASE screen.st # "PENDING"
    BY <1>0, <1>3, <1>5, <2>2 DEF AcceptClaim, SaleTyped
  <2> QED BY <2>1, <2>2
<1>6. ASSUME AcceptRow(t) PROVE TypeInv'
  <2>1. CASE End(t) /\ UNCHANGED pay
    BY <1>3, <1>4, <1>6, <2>1 DEF AcceptRow, moneyVars
  <2>2. ASSUME NEW p \in Replacements \ Rows,
               pay' = [pay EXCEPT ![p] = [st |-> "pending", amount |-> my[t].price,
                                          named |-> FALSE, dead |-> FALSE]],
               Keep(t, "intent", [my[t] EXCEPT !.p = p])
        PROVE  TypeInv'
    <3>1. Moves(t) /\ at'[t] = "intent" /\ my'[t].p = p
      BY <1>0, <2>2, LabelsAre, KeepP
    <3>2. [st |-> "pending", amount |-> my[t].price, named |-> FALSE, dead |-> FALSE] \in PayRows
      BY <1>1 DEF PayRows
    <3>3. MoneyTyped' /\ SaleTyped'
      BY <1>0, <1>4, <1>6, <2>2, <3>2 DEF AcceptRow, MoneyTyped
    <3> QED BY <1>1, <2>2, <3>1, <3>3, TypeOf DEF Placed, Finalizes
  <2> QED BY <1>6, <2>1, <2>2 DEF AcceptRow
<1>7. ASSUME AcceptIntent(t) PROVE TypeInv'
  <2>1. Moves(t) /\ at'[t] = "name" /\ my'[t] = my[t]
    BY <1>0, <1>7, LabelsAre, GoMoves DEF AcceptIntent
  <2>2. MoneyTyped' /\ SaleTyped'
    BY <1>0, <1>4, <1>7 DEF AcceptIntent, MoneyTyped, Intents
  <2> QED BY <1>1, <1>7, <2>1, <2>2, TypeOf DEF Placed, Finalizes, AcceptIntent
<1>8. ASSUME NEW q \in Payments, OnlyRow(q), UNCHANGED <<orderVars, intent, events>>, Moves(t),
             Placed(t)'
      PROVE  TypeInv'
  <2>1. MoneyTyped' /\ SaleTyped'
    BY <1>0, <1>4, <1>8 DEF MoneyTyped, OnlyRow
  <2> QED BY <1>8, <2>1, TypeOf
<1>9. End(t) => Moves(t) /\ Placed(t)'
  <2>1. End(t) => Moves(t) /\ at'[t] = "idle" /\ my'[t].op = "none"
    BY <1>0, EndMoves, JobsAreTyped
  <2> QED BY <2>1 DEF Placed, Finalizes
<1>10. \A l \in Labels \ {"claim", "row", "intent", "name", "h_cancel", "h_mark", "a_cancel", "f_dead", "capture",
                     "captured", "c_claim", "e_claim", "r_find"} :
         l \notin Finalizes /\ Go(t, l) => Moves(t) /\ Placed(t)'
  BY <1>0, <1>1, GoMoves DEF Placed, Finalizes
<1>11. ASSUME AcceptName(t) PROVE TypeInv'
  BY <1>0, <1>1, <1>8, <1>9, <1>11, RowMoves DEF AcceptName
<1>12. ASSUME FinalizeScreen(t) PROVE TypeInv'
  <2>1. screen.price \in Prices \cup {Tariff} /\ UNCHANGED moneyVars /\ SaleTyped'
    BY <1>0, <1>4, <1>12 DEF SaleTyped, Screens, FinalizeScreen
  <2>2. CASE Keep(t, "f_claim", [my[t] EXCEPT !.price = screen.price])
    <3>1. Moves(t) /\ at'[t] = "f_claim" /\ my'[t].op = my[t].op /\ my'[t].p = my[t].p
      BY <1>0, <2>1, <2>2, LabelsAre, KeepPrice
    <3> QED BY <1>1, <1>12, <2>1, <3>1, TypeOfQuiet DEF Placed, Finalizes, FinalizeScreen
  <2>3. CASE Keep(t, "back", [my[t] EXCEPT !.pull = TRUE])
    <3>1. Moves(t) /\ at'[t] = "back" /\ my'[t].op = my[t].op /\ my'[t].p = my[t].p
      BY <1>0, <2>3, LabelsAre, KeepPull
    <3> QED BY <1>1, <1>12, <2>1, <3>1, TypeOfQuiet DEF Placed, Finalizes, FinalizeScreen
  <2> QED BY <1>1, <1>2, <1>3, <1>12, <2>1, <2>2, <2>3, LabelsAre DEF FinalizeScreen, Placed, Finalizes
<1>13. ASSUME Pull(t) PROVE TypeInv'
  <2>1. SaleTyped'
    BY <1>0, <1>13 DEF Pull, SaleTyped, Screens, NoScreen
  <2> QED BY <1>3, <1>13, <2>1 DEF Pull
<1>14. ASSUME Claim(t) PROVE TypeInv'
  <2>1. SaleTyped'
    BY <1>0, <1>14 DEF Claim, SaleTyped
  <2> QED BY <1>1, <1>2, <1>3, <1>14, <2>1, LabelsAre DEF Claim, Placed, Finalizes
<1>15. ASSUME FinalizeOthers(t) PROVE TypeInv'
  <2>1. Live \ {my[t].p} \in SUBSET Payments
    BY DEF Live, Rows
  <2>2. Moves(t) /\ at'[t] = "f_cancel" /\ my'[t].op = my[t].op /\ my'[t].p = my[t].p
    BY <1>0, <1>15, <2>1, LabelsAre, KeepTodo DEF FinalizeOthers
  <2> QED BY <1>1, <1>4, <1>15, <2>2, TypeOfQuiet DEF Placed, Finalizes, FinalizeOthers
<1>16. ASSUME NEW p \in Payments, NEW l \in Labels, CancelIntent(t, p, l),
              UNCHANGED <<orderVars, pay>>,
              l \in {"h_cancel", "h_mark"} => my[t].p \in Replacements,
              l \notin {"claim", "row", "intent", "name", "a_cancel", "capture", "captured",
                        "c_claim", "e_claim", "r_find"},
              l \in Finalizes => my[t].op = "finalize",
              l = "f_dead" => my[t].todo # {}
       PROVE  TypeInv'
  <2>1. /\ Moves(t) /\ at'[t] = l /\ my'[t].op = my[t].op /\ my'[t].p = my[t].p
        /\ my'[t].todo = my[t].todo
        /\ intent' \in [Payments -> Intents] /\ events' \subseteq Events
    BY <1>16, CancelMoves
  <2>2. MoneyTyped' /\ SaleTyped'
    BY <1>0, <1>4, <1>16, <2>1 DEF MoneyTyped
  <2> QED BY <1>1, <1>16, <2>1, <2>2, TypeOf DEF Placed, Finalizes
<1>17. ASSUME FinalizeCancel(t) PROVE TypeInv'
  <2>1. my[t].todo # {} => First(my[t].todo) \in Payments
    BY <1>1, FirstIn
  <2>2. UNCHANGED <<orderVars, pay>>
    BY <1>17 DEF FinalizeCancel
  <2>3. CASE my[t].todo = {} /\ Go(t, "f_mark") /\ UNCHANGED <<intent, events>>
    BY <1>1, <1>2, <1>4, <1>17, <2>2, <2>3, LabelsAre DEF moneyVars, Placed, Finalizes, FinalizeCancel
  <2>4. CASE my[t].todo # {} /\ CancelIntent(t, First(my[t].todo), "f_dead")
    BY <1>1, <1>16, <1>17, <2>1, <2>2, <2>4, LabelsAre DEF Placed, Finalizes, FinalizeCancel
  <2>5. CASE /\ my[t].todo # {} /\ Keep(t, "f_dead", [my[t] EXCEPT !.ok = FALSE])
             /\ UNCHANGED <<intent, events>>
    <3>1. Moves(t) /\ at'[t] = "f_dead" /\ my'[t].op = my[t].op /\ my'[t].p = my[t].p /\ my'[t].todo = my[t].todo
      BY <1>0, <2>5, LabelsAre, KeepOk
    <3> QED BY <1>1, <1>4, <1>17, <2>2, <2>5, <3>1, TypeOfQuiet DEF Placed, FinalizeCancel, Finalizes, moneyVars
  <2> QED BY <1>17, <2>3, <2>4, <2>5 DEF FinalizeCancel
<1>18. ASSUME FinalizeDead(t) PROVE TypeInv'
  <2> DEFINE q == First(my[t].todo)
  <2>1. q \in Payments /\ my[t].ok \in BOOLEAN /\ my[t].todo \ {q} \in SUBSET Payments
    BY <1>0, <1>1, <1>18, FirstIn DEF Placed, Finalizes, FinalizeDead, Jobs
  <2>2. /\ pay' = [pay EXCEPT ![q].dead = TRUE, ![q].st = IF my[t].ok THEN "cancelled" ELSE @]
        /\ Keep(t, "f_cancel", [my[t] EXCEPT !.todo = my[t].todo \ {q}, !.ok = FALSE])
    BY <1>0, <1>18 DEF FinalizeDead, Jobs
  <2> HIDE DEF q
  <2>3. OnlyRow(q)
    BY <1>0, <2>1, <2>2, RowMoves
  <2>4. Moves(t) /\ at'[t] = "f_cancel" /\ my'[t].op = my[t].op /\ my'[t].p = my[t].p
    BY <1>0, <2>1, <2>2, LabelsAre, KeepTodoOk
  <2>5. Placed(t)'
    BY <1>1, <1>18, <2>4 DEF Placed, FinalizeDead, Finalizes
  <2> QED BY <1>8, <1>18, <2>1, <2>3, <2>4, <2>5 DEF FinalizeDead
<1>19. ASSUME FinalizeMark(t) PROVE TypeInv'
  <2>1. pay' = [pay EXCEPT ![my[t].p].st = "authorized"] \/ pay' = pay
    BY <1>19 DEF FinalizeMark
  <2>2. OnlyRow(my[t].p)
    BY <1>0, <1>1, <2>1, RowMoves DEF Statuses, OnlyRow, MoneyTyped
  <2>3. Moves(t) /\ Placed(t)'
    BY <1>10, <1>19, LabelsAre DEF FinalizeMark, Finalizes
  <2> QED BY <1>1, <1>8, <1>19, <2>2, <2>3 DEF FinalizeMark
<1>20. ASSUME FindActive(t) PROVE TypeInv'
  <2>1. SaleTyped' /\ UNCHANGED moneyVars
    BY <1>4, <1>20 DEF FindActive
  <2>2. ASSUME NEW p \in Active, Keep(t, "capture", [my[t] EXCEPT !.todo = {p}])
        PROVE  TypeInv'
    <3> DEFINE S == {p}
    <3>1. S \in SUBSET Payments /\ S # {} /\ Keep(t, "capture", [my[t] EXCEPT !.todo = S])
      BY <2>2 DEF Active, Holding, Live, Rows
    <3> HIDE DEF S
    <3>2. /\ Moves(t) /\ at'[t] = "capture" /\ my'[t].op = my[t].op /\ my'[t].p = my[t].p
          /\ my'[t].todo # {}
      BY <1>0, <3>1, LabelsAre, KeepTodo
    <3> QED BY <1>1, <2>1, <3>2, TypeOfQuiet DEF Placed, Finalizes
  <2>3. \/ Go(t, "failed") \/ Go(t, "sold")
        \/ \E p \in Active : Keep(t, "capture", [my[t] EXCEPT !.todo = {p}])
    BY <1>20 DEF FindActive
  <2> QED BY <1>2, <2>1, <2>2, <2>3, LabelsAre DEF Finalizes
<1>21. ASSUME Capture(t) PROVE TypeInv'
  <2>1. /\ intent' = intent \/ intent' = [intent EXCEPT ![First(my[t].todo)] = "captured"]
        /\ Go(t, "captured") \/ Go(t, "failed")
    BY <1>21 DEF Capture
  <2>2. Moves(t) /\ at'[t] \in {"captured", "failed"} /\ my'[t] = my[t]
    BY <1>0, <2>1, LabelsAre, GoMoves
  <2>3. MoneyTyped' /\ SaleTyped'
    BY <1>0, <1>4, <1>21, <2>1 DEF Capture, MoneyTyped, Intents
  <2> QED BY <1>1, <1>21, <2>2, <2>3, TypeOf DEF Placed, Finalizes, Capture
<1>22. ASSUME MarkCaptured(t) PROVE TypeInv'
  <2>1. First(my[t].todo) \in Payments
    BY <1>1, <1>22, FirstIn DEF Placed, Finalizes, MarkCaptured
  <2>2. OnlyRow(First(my[t].todo))
    BY <1>0, <1>22, <2>1, RowMoves DEF MarkCaptured, Statuses
  <2> QED BY <1>8, <1>10, <1>22, <2>1, <2>2, LabelsAre DEF MarkCaptured, Finalizes
<1>23. ASSUME Failed(t) PROVE TypeInv'
  <2>1. SaleTyped'
    BY <1>0, <1>23 DEF Failed, SaleTyped
  <2> QED BY <1>2, <1>3, <1>23, <2>1, LabelsAre DEF Failed, Finalizes
<1>24. ASSUME Sold(t) PROVE TypeInv'
  <2>0. /\ NoScreen \in Screens /\ [screen EXCEPT !.st = "ACCEPTED", !.paying = FALSE] \in Screens
        /\ [sale EXCEPT !.total = my[t].price] \in
             [st : {"open", "assigned", "cancelled"}, by : {"nobody", "pool", "expert"},
              total : Prices \cup {Tariff}]
    BY <1>0, <1>1 DEF SaleTyped, Screens, NoScreen
  <2>1. SaleTyped'
    BY <1>0, <1>24, <2>0 DEF Sold, SaleTyped
  <2> QED BY <1>2, <1>24, <2>1, LabelsAre DEF Sold, Finalizes
<1>25. ASSUME Assign(t) PROVE TypeInv'
  <2>1. SaleTyped'
    BY <1>0, <1>25 DEF Assign, SaleTyped
  <2> QED BY <1>3, <1>25, <2>1 DEF Assign
<1>26. ASSUME BackCancel(t) PROVE TypeInv'
  <2>1. UNCHANGED <<orderVars, pay>>
    BY <1>26 DEF BackCancel
  <2>2. CASE CancelIntent(t, my[t].p, "back_dead")
    BY <1>1, <1>16, <1>26, <2>1, <2>2, LabelsAre DEF Placed, Finalizes, BackCancel
  <2>3. CASE Keep(t, "back_dead", [my[t] EXCEPT !.ok = FALSE]) /\ UNCHANGED <<intent, events>>
    <3>1. Moves(t) /\ at'[t] = "back_dead" /\ my'[t].op = my[t].op /\ my'[t].p = my[t].p
      BY <1>0, <2>3, LabelsAre, KeepOk
    <3> QED BY <1>1, <1>4, <1>26, <2>1, <2>3, <3>1, TypeOfQuiet DEF Placed, BackCancel, Finalizes, moneyVars
  <2> QED BY <1>26, <2>2, <2>3 DEF BackCancel
<1>27. ASSUME BackDead(t) PROVE TypeInv'
  <2>1. my[t].ok \in BOOLEAN
    BY <1>0 DEF Jobs
  <2>2. OnlyRow(my[t].p)
    BY <1>0, <1>1, <1>27, <2>1, RowMoves DEF BackDead
  <2>3. Moves(t) /\ Placed(t)'
    BY <1>9, <1>10, <1>27, LabelsAre DEF BackDead, Finalizes
  <2> QED BY <1>1, <1>8, <1>27, <2>2, <2>3 DEF BackDead
<1>28. ASSUME AbandonScreen(t) PROVE TypeInv'
  <2>0. /\ NoScreen \in Screens /\ [screen EXCEPT !.st = "PENDING", !.paying = FALSE] \in Screens
    BY <1>0 DEF SaleTyped, Screens, NoScreen
  <2>1. SaleTyped'
    BY <1>0, <1>28, <2>0 DEF AbandonScreen, SaleTyped
  <2> QED BY <1>2, <1>3, <1>28, <2>1, LabelsAre DEF AbandonScreen, Finalizes
<1>29. ASSUME AbandonFind(t) PROVE TypeInv'
  <2> DEFINE S == IF my[t].op = "canceled" THEN {} ELSE {p \in Live \ {Base} : pay[p].named}
  <2>1. S \in SUBSET Payments /\ Base \notin S
    BY DEF Live, Rows
  <2>2. Keep(t, "a_cancel", [my[t] EXCEPT !.todo = S])
    BY <1>29 DEF AbandonFind
  <2> HIDE DEF S
  <2>3. Moves(t) /\ at'[t] = "a_cancel" /\ my'[t].op = my[t].op /\ my'[t].p = my[t].p /\ my'[t].todo = S
    BY <1>0, <2>1, <2>2, LabelsAre, KeepTodo
  <2> QED BY <1>1, <1>4, <1>29, <2>1, <2>3, TypeOfQuiet DEF Placed, Finalizes, AbandonFind
<1>30. ASSUME AbandonCancel(t) PROVE TypeInv'
  <2> DEFINE q == First(my[t].todo)
  <2>1. UNCHANGED <<orderVars, pay>>
    BY <1>30 DEF AbandonCancel
  <2>2. CASE my[t].todo = {} /\ Go(t, "a_dead") /\ UNCHANGED <<intent, events>>
    BY <1>2, <1>4, <2>1, <2>2, LabelsAre DEF moneyVars, Finalizes
  <2>3. CASE /\ my[t].todo # {} /\ Keep(t, "a_cancel", [my[t] EXCEPT !.todo = my[t].todo \ {q}])
             /\ \/ intent' = intent /\ events' = events
                \/ /\ intent' = [intent EXCEPT ![q] = "canceled"]
                   /\ events' = events \cup {[type |-> "canceled", p |-> q]}
    <3>1. q \in my[t].todo /\ Base \notin my[t].todo /\ my[t].todo \ {q} \in SUBSET Payments
      BY <1>1, <1>30, <2>3, FirstIn DEF Placed, Finalizes, AbandonCancel
    <3>2. q \in Replacements
      BY <1>1, <3>1 DEF Payments
    <3> DEFINE S == my[t].todo \ {q}
    <3>0. Keep(t, "a_cancel", [my[t] EXCEPT !.todo = S]) /\ S \in SUBSET Payments
          /\ Base \notin S
      BY <2>3, <3>1
    <3> HIDE DEF q, S
    <3>3. /\ Moves(t) /\ at'[t] = "a_cancel" /\ my'[t].op = my[t].op /\ my'[t].p = my[t].p
          /\ my'[t].todo = S
      BY <1>0, <3>0, LabelsAre, KeepTodo
    <3>4. [type |-> "canceled", p |-> q] \in Events /\ "canceled" \in Intents
      BY <3>2 DEF Events, Intents
    <3>5. MoneyTyped' /\ SaleTyped'
      BY <1>0, <1>4, <2>1, <2>3, <3>4 DEF MoneyTyped
    <3>6. Placed(t)'
      BY <1>1, <3>0, <3>3 DEF Placed, Finalizes
    <3> QED BY <3>3, <3>5, <3>6, TypeOf
  <2>4. my[t].todo # {} => [my[t] EXCEPT !.todo = @ \ {q}] = [my[t] EXCEPT !.todo = my[t].todo \ {q}]
    BY <1>0 DEF Jobs
  <2> QED BY <1>30, <2>2, <2>3, <2>4 DEF AbandonCancel
<1>31. ASSUME AbandonDead(t) PROVE TypeInv'
  <2>1. \A p \in Payments : pay[p] \in PayRows /\ [pay[p] EXCEPT !.st = "failed", !.dead = TRUE] \in PayRows
    BY <1>0 DEF MoneyTyped, PayRows
  <2>2. MoneyTyped' /\ SaleTyped'
    BY <1>0, <1>4, <1>31, <2>1 DEF MoneyTyped, AbandonDead
  <2> QED BY <1>9, <1>31, <2>2, TypeOf DEF AbandonDead
<1>32. ASSUME ExpireClaim(t) PROVE TypeInv'
  <2>1. SaleTyped'
    BY <1>0, <1>32 DEF ExpireClaim, SaleTyped
  <2> QED BY <1>1, <1>2, <1>3, <1>32, <2>1, LabelsAre DEF ExpireClaim, Placed, Finalizes
<1>33. ASSUME ReleaseFind(t) PROVE TypeInv'
  <2>1. SaleTyped' /\ UNCHANGED moneyVars
    BY <1>4, <1>33 DEF ReleaseFind
  <2>2. ASSUME NEW p \in Active, Keep(t, "r_cancel", [my[t] EXCEPT !.p = p])
        PROVE  TypeInv'
    <3>1. p \in Payments
      BY DEF Active, Holding, Live, Rows
    <3>2. Moves(t) /\ at'[t] = "r_cancel" /\ my'[t].op = my[t].op
      BY <1>0, <2>2, <3>1, LabelsAre, KeepP
    <3> QED BY <1>1, <1>33, <2>1, <3>2, TypeOfQuiet DEF Placed, Finalizes, ReleaseFind
  <2> QED BY <1>3, <1>33, <2>1, <2>2 DEF ReleaseFind
<1>34. ASSUME ReleaseCancel(t) PROVE TypeInv'
  BY <1>1, <1>16, <1>34, LabelsAre DEF ReleaseCancel, Finalizes
<1>35. ASSUME ReleaseMark(t) PROVE TypeInv'
  <2>1. OnlyRow(my[t].p)
    BY <1>0, <1>1, <1>35, RowMoves DEF ReleaseMark, Statuses, OnlyRow, MoneyTyped
  <2> QED BY <1>1, <1>8, <1>9, <1>35, <2>1 DEF ReleaseMark
<1>36. ASSUME HoldCancel(t) PROVE TypeInv'
  <2>1. my[t].p \in Replacements
    BY <1>1, <1>36 DEF Placed, Finalizes, HoldCancel
  <2>2. Go(t, "h_mark") => Moves(t) /\ Placed(t)'
    BY <1>0, <1>1, <2>1, LabelsAre, GoMoves DEF Placed, Finalizes
  <2>3. [type |-> "canceled", p |-> my[t].p] \in Events /\ "canceled" \in Intents
    BY <2>1 DEF Events, Intents
  <2>4. MoneyTyped' /\ SaleTyped'
    BY <1>0, <1>4, <1>36, <2>3 DEF HoldCancel, MoneyTyped
  <2>5. Moves(t) /\ Placed(t)'
    BY <1>9, <1>36, <2>2 DEF HoldCancel
  <2> QED BY <2>4, <2>5, TypeOf
<1>37. ASSUME HoldMark(t) PROVE TypeInv'
  BY <1>0, <1>1, <1>8, <1>9, <1>37, RowMoves DEF HoldMark, Statuses
<1>38. ASSUME Crash(t) PROVE TypeInv'
  <2>1. my[t].op \in {"finalize", "failed", "canceled"} =>
          /\ [type |-> "capturable", p |-> my[t].p] \in Events
          /\ my[t].op # "finalize" => [type |-> my[t].op, p |-> my[t].p] \in Events
    BY <1>1 DEF Placed, Finalizes, Events
  <2>2. Redelivered(my[t]) \subseteq Events
    BY <2>1 DEF Redelivered
  <2>3. MoneyTyped' /\ SaleTyped'
    BY <1>0, <1>4, <1>38, <2>2 DEF Crash, MoneyTyped
  <2> QED BY <1>9, <1>38, <2>3, TypeOf DEF Crash
<1> QED BY <1>5, <1>6, <1>7, <1>11, <1>12, <1>13, <1>14, <1>15, <1>17, <1>18, <1>19, <1>20, <1>21,
          <1>22, <1>23, <1>24, <1>25, <1>26, <1>27, <1>28, <1>29, <1>30, <1>31, <1>32, <1>33,
          <1>34, <1>35, <1>36, <1>37, <1>38 DEF Continue, FinalizeSteps

\* What happens beside the functions: the customer, the screen and the clocks.
Outside == CustomerPays \/ Present \/ Decline \/ SearchEnds \/ PaymentLapses

LEMMA TypeOutside ==
  ASSUME TypeInv, Outside
  PROVE  TypeInv'
<1>1. SaleTyped /\ MoneyTyped /\ LocalsOK
  BY TypeParts DEF TypeInv
<1>2. ASSUME UNCHANGED <<at, my>>, SaleTyped', MoneyTyped' PROVE TypeInv'
  BY <1>2 DEF TypeInv, TypeOK, SaleTyped, MoneyTyped, Placed
<1>3. ASSUME CustomerPays PROVE TypeInv'
  <2>1. PICK p \in Replacements :
          \/ /\ intent' = [intent EXCEPT ![p] = "held"]
             /\ events' = events \cup {[type |-> "capturable", p |-> p]}
          \/ /\ events' = events \cup {[type |-> "failed", p |-> p]}
             /\ UNCHANGED intent
    BY <1>3 DEF CustomerPays
  <2>2. UNCHANGED <<orderVars, pay, at, my>>
    BY <1>3 DEF CustomerPays
  <2>3. MoneyTyped' /\ SaleTyped'
    BY <1>1, <2>1, <2>2 DEF MoneyTyped, SaleTyped, Events, Intents, orderVars
  <2> QED BY <1>2, <2>2, <2>3
<1>4. ASSUME Present \/ Decline \/ SearchEnds \/ PaymentLapses PROVE TypeInv'
  <2>1. /\ NoScreen \in Screens /\ [screen EXCEPT !.paying = FALSE] \in Screens
        /\ \A c \in Prices : [st |-> "PENDING", price |-> c, paying |-> FALSE] \in Screens
    BY <1>1 DEF SaleTyped, Screens, NoScreen
  <2>2. SaleTyped' /\ UNCHANGED <<at, my>> /\ UNCHANGED moneyVars
    BY <1>1, <1>4, <2>1 DEF Present, Decline, SearchEnds, PaymentLapses, SaleTyped
  <2> QED BY <1>1, <1>2, <2>2 DEF MoneyTyped, moneyVars
<1> QED BY <1>3, <1>4 DEF Outside

LEMMA TypeStep == TypeInv /\ [Next]_vars => TypeInv'
<1>1. TypeInv /\ UNCHANGED vars => TypeInv'
  BY DEF TypeInv, TypeOK, Placed, vars, orderVars, moneyVars
<1> QED BY <1>1, TypeBegins, TypeContinues, TypeOutside DEF Next, Outside

LEMMA TypeInit == Init => TypeInv
<1> SUFFICES ASSUME Init PROVE TypeInv
  OBVIOUS
<1>1. SaleTyped
  BY DEF Init, SaleTyped, Screens, NoScreen
<1>2. [st |-> "authorized", amount |-> Tariff, named |-> TRUE, dead |-> FALSE] \in PayRows
      /\ NoPay \in PayRows
  BY DEF PayRows, NoPay
<1>3. MoneyTyped
  BY <1>2 DEF Init, MoneyTyped, Intents
<1>4. LocalsOK
  BY LabelsAre, JobsAreTyped DEF Init, LocalsOK
<1>5. \A t \in Tasks : Placed(t)
  BY JobsAreTyped DEF Init, Placed, Finalizes
<1> QED BY <1>1, <1>3, <1>4, <1>5, TypeParts DEF TypeInv

\* Every variable keeps its type, and Stripe's news is of replacements.
THEOREM TypeCorrect == Spec => []TypeOK
<1>1. TypeInv => TypeOK
  BY DEF TypeInv
<1> QED BY <1>1, TypeInit, TypeStep, PTL DEF Spec

-----------------------------------------------------------------------------
\* The money.  Stripe knows the intents that the rows name, and what the rows call
\* succeeded it has captured; a function that is told of a payment is told of a hold.
Touched(p) == intent[p] \in {"held", "captured", "canceled"}
Told(p) == p \in Replacements /\ pay[p].named /\ Touched(p)

RowOK(p) ==
  /\ pay[p].st = "succeeded" => intent[p] = "captured"
  /\ pay[p].st \in {"authorized", "succeeded"} => pay[p].named
  /\ pay[p].named => intent[p] # "none"
  /\ intent[p] # "none" => pay[p].st # "none"

Aware(t) ==
  /\ my[t].op = "finalize" => Told(my[t].p)
  /\ at[t] = "intent" => /\ pay[my[t].p].st # "none" /\ ~pay[my[t].p].named
                         /\ intent[my[t].p] = "none"
  /\ at[t] = "name" => intent[my[t].p] # "none"
  /\ at[t] \in {"h_cancel", "h_mark"} => pay[my[t].p].named
  /\ at[t] \in {"capture", "captured"} => pay[First(my[t].todo)].named
  /\ at[t] = "captured" => intent[First(my[t].todo)] = "captured"

MoneyInv ==
  /\ \A p \in Payments : RowOK(p)
  /\ pay[Base].amount = Tariff /\ pay[Base].st # "none"
  /\ \A e \in events : e.type = "capturable" => Told(e.p)
  /\ \A t \in Tasks : Aware(t)
  /\ \A t, u \in Tasks :
       at[t] = "intent" /\ at[u] = "intent" /\ my[t].p = my[u].p => t = u

\* Nothing the ledger or Stripe has written is undone: a payment keeps its price and its
\* name, and what was captured or canceled stays so.
Keeps == \A p \in Payments :
  /\ pay[p].st # "none" => pay'[p].st # "none" /\ pay'[p].amount = pay[p].amount
  /\ pay[p].named => pay'[p].named
  /\ intent[p] # "none" => intent'[p] # "none"
  /\ Touched(p) => Touched(p)'
  /\ intent[p] \in {"captured", "canceled"} => intent'[p] = intent[p]

LEMMA MoneyOf ==
  ASSUME TypeInv, MoneyInv, NEW t \in Tasks, Moves(t), Keeps, Aware(t)',
         \A p \in Payments : RowOK(p)',
         \A e \in events' \ events : e.type = "capturable" => Told(e.p)',
         \A u \in Tasks \ {t} : at[u] = "intent" =>
           /\ pay'[my[u].p].st # "none" /\ ~pay'[my[u].p].named
           /\ intent'[my[u].p] = intent[my[u].p]
           /\ at'[t] = "intent" => my'[t].p # my[u].p
  PROVE  MoneyInv'
<1>1. /\ Replacements \subseteq Payments /\ Base \in Payments
      /\ \A u \in Tasks : my[u] \in Jobs /\ my[u].p \in Payments
      /\ \A e \in events : e.p \in Payments
  BY DEF TypeInv, TypeOK, Payments, Jobs, Events
<1>2. \A p \in Payments : Told(p) => Told(p)'
  BY DEF Told, Keeps
<1>3. ASSUME NEW u \in Tasks \ {t} PROVE Aware(u)'
  <2>1. at'[u] = at[u] /\ my'[u] = my[u] /\ Aware(u) /\ my[u].p \in Payments
    BY <1>1 DEF Moves, Others, MoneyInv
  <2>2. at[u] \in {"capture", "captured"} => First(my[u].todo) \in Payments
    BY <1>1, FirstIn DEF TypeInv, Placed, Jobs
  <2> QED BY <1>2, <2>1, <2>2 DEF Aware, Keeps
<1>4. pay'[Base].amount = Tariff /\ pay'[Base].st # "none"
  BY <1>1 DEF MoneyInv, Keeps
<1>5. \A e \in events' : e.type = "capturable" => Told(e.p)'
  BY <1>1, <1>2 DEF MoneyInv
<1>6. ASSUME NEW u \in Tasks, NEW v \in Tasks, at'[u] = "intent", at'[v] = "intent",
             my'[u].p = my'[v].p
      PROVE  u = v
  BY <1>6 DEF Moves, Others, MoneyInv
<1>7. \A u \in Tasks : Aware(u)'
  BY <1>3
<1> QED BY <1>4, <1>5, <1>6, <1>7 DEF MoneyInv

\* The three kinds of step: one that writes no money, one that rewrites a row, and one at Stripe.
NoNews == \A e \in events' \ events : e.type # "capturable"

LEMMA MoneyOfQuiet ==
  ASSUME TypeInv, MoneyInv, NEW t \in Tasks, Moves(t), UNCHANGED <<pay, intent>>, Aware(t)',
         \A e \in events' \ events : e.type = "capturable" => Told(e.p), at'[t] # "intent"
  PROVE  MoneyInv' /\ Keeps
<1>1. Keeps /\ \A p \in Payments : RowOK(p)'
  BY DEF Keeps, RowOK, Touched, MoneyInv
<1>2. \A e \in events' \ events : e.type = "capturable" => Told(e.p)'
  BY DEF Told, Touched
<1>3. \A u \in Tasks : at[u] = "intent" => pay[my[u].p].st # "none" /\ ~pay[my[u].p].named
  BY DEF MoneyInv, Aware
<1> QED BY <1>1, <1>2, <1>3, MoneyOf

LEMMA MoneyOfRow ==
  ASSUME TypeInv, MoneyInv, NEW t \in Tasks, NEW q \in Payments, OnlyRow(q), Moves(t),
         UNCHANGED <<intent, events>>,
         pay'[q].amount = pay[q].amount, pay'[q].named = pay[q].named,
         pay[q].st # "none" => pay'[q].st # "none",
         pay'[q].st \in {"authorized", "succeeded"} => pay[q].named,
         pay'[q].st = "succeeded" => intent[q] = "captured",
         Aware(t)', at'[t] # "intent"
  PROVE  MoneyInv' /\ Keeps
<1>1. Keeps
  BY DEF Keeps, OnlyRow, Touched
<1>2. \A p \in Payments : RowOK(p)'
  BY DEF MoneyInv, RowOK, OnlyRow
<1>3. \A u \in Tasks : at[u] = "intent" =>
        pay'[my[u].p].st # "none" /\ ~pay'[my[u].p].named
  <2> SUFFICES ASSUME NEW u \in Tasks, at[u] = "intent"
               PROVE  pay'[my[u].p].st # "none" /\ ~pay'[my[u].p].named
    OBVIOUS
  <2>1. my[u].p \in Payments /\ pay[my[u].p].st # "none" /\ ~pay[my[u].p].named
    BY DEF TypeInv, TypeOK, Jobs, MoneyInv, Aware
  <2> QED BY <2>1 DEF OnlyRow
<1> QED BY <1>1, <1>2, <1>3, MoneyOf

LEMMA MoneyOfIntent ==
  ASSUME TypeInv, MoneyInv, NEW t \in Tasks, NEW q \in Payments, NEW v, Moves(t), UNCHANGED pay,
         intent' = [intent EXCEPT ![q] = v], v \in {"held", "captured", "canceled"},
         intent[q] # "none", intent[q] \in {"captured", "canceled"} => v = intent[q], NoNews,
         Aware(t)', at'[t] # "intent"
  PROVE  MoneyInv' /\ Keeps
<1>1. intent \in [Payments -> Intents]
  BY DEF TypeInv, TypeOK
<1>2. Keeps
  BY <1>1 DEF Keeps, Touched
<1>3. \A p \in Payments : RowOK(p)'
  BY <1>1 DEF MoneyInv, RowOK
<1>4. \A u \in Tasks : at[u] = "intent" => intent'[my[u].p] = intent[my[u].p]
  <2> SUFFICES ASSUME NEW u \in Tasks, at[u] = "intent" PROVE intent'[my[u].p] = intent[my[u].p]
    OBVIOUS
  <2>1. my[u].p \in Payments /\ intent[my[u].p] = "none"
    BY DEF TypeInv, TypeOK, Jobs, MoneyInv, Aware
  <2> QED BY <1>1, <2>1
<1>5. \A u \in Tasks : at[u] = "intent" => pay[my[u].p].st # "none" /\ ~pay[my[u].p].named
  BY DEF MoneyInv, Aware
<1> QED BY <1>2, <1>3, <1>4, <1>5, MoneyOf DEF NoNews

LEMMA MoneyBegins ==
  ASSUME TypeInv, MoneyInv, NEW t \in Tasks,
         \/ Accept(t) \/ AcceptOffer(t) \/ Webhooks(t) \/ Crons(t)
  PROVE  MoneyInv' /\ Keeps
<1>1. /\ LocalsOK /\ Base \in Payments /\ \A p \in Replacements : p \in Payments
      /\ \A e \in events : e.p \in Replacements /\ e.type \in {"capturable", "failed", "canceled"}
  BY DEF TypeInv, TypeOK, LocalsOK, Payments, Events
<1>2. ASSUME NEW l \in Labels, NEW op \in HandlerNames, NEW p \in Payments,
             Begin(t, l, Job(op, p)), UNCHANGED <<pay, intent>>, events' \subseteq events,
             op = "finalize" => Told(p), l = "h_cancel" => pay[p].named,
             l \notin {"intent", "name", "h_mark", "capture", "captured"}
      PROVE  MoneyInv' /\ Keeps
  <2>1. Moves(t) /\ at'[t] = l /\ my'[t] = Job(op, p)
    BY <1>1, <1>2, BeginMoves
  <2>2. my'[t].op = op /\ my'[t].p = p
    BY <2>1 DEF Job
  <2>3. Aware(t)'
    BY <1>2, <2>1, <2>2 DEF Aware, Told, Touched
  <2> QED BY <1>2, <2>1, <2>3, MoneyOfQuiet
<1>3. ASSUME Accept(t) \/ AcceptOffer(t) \/ SweepExpired(t) \/ ExpireUnfilledSearches(t) \/ Stranded(t)
      PROVE  MoneyInv' /\ Keeps
  <2>1. PICK op \in HandlerNames \ {"finalize"},
             l \in {"claim", "c_claim", "a_screen", "e_claim", "r_find"} : Begin(t, l, Job(op, Base))
    BY <1>3 DEF Accept, AcceptOffer, SweepExpired, ExpireUnfilledSearches, Stranded, HandlerNames
  <2>2. UNCHANGED <<pay, intent, events>>
    BY <1>3 DEF Accept, AcceptOffer, SweepExpired, ExpireUnfilledSearches, Stranded, moneyVars
  <2>3. l \in Labels
    BY LabelsAre
  <2> QED BY <1>1, <1>2, <2>1, <2>2, <2>3
<1>4. ASSUME Finalize(t) PROVE MoneyInv' /\ Keeps
  <2>1. PICK e \in events :
          /\ e.type = "capturable"
          /\ events' = events \ {e}
          /\ \/ Begin(t, "f_screen", Job("finalize", e.p))
             \/ UNCHANGED <<at, my>>
    BY <1>4 DEF Finalize
  <2>2. UNCHANGED <<pay, intent>> /\ Told(e.p)
    BY <1>4, <2>1 DEF Finalize, MoneyInv
  <2>3. CASE Begin(t, "f_screen", Job("finalize", e.p))
    BY <1>1, <1>2, <2>1, <2>2, <2>3, LabelsAre DEF HandlerNames
  <2>4. CASE UNCHANGED <<at, my>>
    <3>1. Keeps
      BY <2>2 DEF Keeps, Touched
    <3> QED BY <2>1, <2>2, <2>4, <3>1 DEF MoneyInv, RowOK, Aware, Told, Touched
  <2> QED BY <2>1, <2>3, <2>4
<1>5. ASSUME NEW type \in {"failed", "canceled"}, Given(t, type) PROVE MoneyInv' /\ Keeps
  <2>1. PICK e \in events :
          /\ events' = events \ {e}
          /\ Begin(t, "a_screen", Job(type, e.p))
          /\ UNCHANGED <<orderVars, pay, intent>>
    BY <1>5 DEF Given
  <2> QED BY <1>1, <1>2, <2>1, LabelsAre DEF HandlerNames
<1>6. ASSUME Reconcile(t) PROVE MoneyInv' /\ Keeps
  <2>1. PICK p \in Abandoned : Begin(t, "h_cancel", Job("reconcile", p))
    BY <1>6 DEF Reconcile
  <2>2. p \in Payments /\ pay[p].named
    BY DEF Abandoned, Rows
  <2>3. UNCHANGED <<orderVars, moneyVars>>
    BY <1>6 DEF Reconcile
  <2> QED BY <1>2, <2>1, <2>2, <2>3, LabelsAre DEF HandlerNames, moneyVars
<1> QED BY <1>3, <1>4, <1>5, <1>6 DEF Webhooks, Crons, PaymentFailed, PaymentCanceled

LEMMA MoneyContinues ==
  ASSUME TypeInv, MoneyInv, NEW t \in Tasks, Continue(t) \/ Crash(t)
  PROVE  MoneyInv' /\ Keeps
<1>0. /\ LocalsOK /\ MoneyTyped /\ Base \in Payments /\ my[t] \in Jobs
      /\ Replacements \subseteq Payments
  BY TypeParts DEF TypeInv, Payments, LocalsOK
<1>1. /\ Placed(t) /\ my[t].p \in Payments /\ my[t].todo \in SUBSET Payments
      /\ my[t].price \in Prices \cup {Tariff} /\ Aware(t)
      /\ my[t].todo # {} => First(my[t].todo) \in my[t].todo /\ First(my[t].todo) \in Payments
  BY <1>0, FirstIn DEF TypeInv, Jobs, MoneyInv
<1>2. ASSUME NEW l \in Labels, Go(t, l),
             l \notin {"intent", "name", "h_cancel", "h_mark", "capture", "captured"}
      PROVE  Moves(t) /\ at'[t] = l /\ my'[t] = my[t]
             /\ (UNCHANGED <<pay, intent>> => Aware(t)')
  BY <1>0, <1>1, <1>2, GoMoves DEF Aware, Told, Touched
<1>3. ASSUME End(t)
      PROVE  Moves(t) /\ at'[t] = "idle" /\ Aware(t)'
  <2>1. Moves(t) /\ at'[t] = "idle" /\ my'[t].op = "none"
    BY <1>0, <1>3, EndMoves, JobsAreTyped
  <2> QED BY <2>1 DEF Aware
<1>4. ASSUME Moves(t), UNCHANGED <<pay, intent>>, events' \subseteq events,
             at'[t] \in Labels \ {"intent", "name", "h_cancel", "h_mark", "capture", "captured"},
             my'[t].op = "finalize" => my[t].op = "finalize" /\ my'[t].p = my[t].p
      PROVE  MoneyInv' /\ Keeps
  <2>1. Aware(t)'
    BY <1>1, <1>4 DEF Aware, Told, Touched
  <2> QED BY <1>4, <2>1, MoneyOfQuiet
<1>5. ASSUME End(t), UNCHANGED <<pay, intent>>, events' \subseteq events
      PROVE  MoneyInv' /\ Keeps
  BY <1>3, <1>5, MoneyOfQuiet
<1>6. ASSUME NEW l \in Labels, Go(t, l), UNCHANGED <<pay, intent>>, events' \subseteq events,
             l \notin {"intent", "name", "h_cancel", "h_mark", "capture", "captured"}
      PROVE  MoneyInv' /\ Keeps
  BY <1>2, <1>6, MoneyOfQuiet
<1>7. ASSUME AcceptClaim(t) PROVE MoneyInv' /\ Keeps
  <2>1. UNCHANGED <<pay, intent, events>>
    BY <1>7 DEF AcceptClaim, moneyVars
  <2>2. CASE screen.st = "PENDING"
    <3>1. screen.price \in Prices \cup {Tariff}
      BY DEF TypeInv, TypeOK, Screens
    <3>2. Keep(t, "row", [my[t] EXCEPT !.price = screen.price])
      BY <1>7, <2>2 DEF AcceptClaim
    <3>3. Moves(t) /\ at'[t] = "row" /\ my'[t].op = my[t].op /\ my'[t].p = my[t].p
      BY <1>0, <3>1, <3>2, LabelsAre, KeepPrice
    <3> QED BY <1>4, <2>1, <3>3, LabelsAre
  <2> QED BY <1>5, <1>7, <2>1, <2>2 DEF AcceptClaim
<1>8. ASSUME AcceptRow(t) PROVE MoneyInv' /\ Keeps
  <2>1. UNCHANGED <<intent, events>>
    BY <1>8 DEF AcceptRow
  <2>2. ASSUME NEW p \in Replacements \ Rows,
               pay' = [pay EXCEPT ![p] = [st |-> "pending", amount |-> my[t].price,
                                          named |-> FALSE, dead |-> FALSE]],
               Keep(t, "intent", [my[t] EXCEPT !.p = p])
        PROVE  MoneyInv' /\ Keeps
    <3>1. Moves(t) /\ at'[t] = "intent" /\ my'[t].p = p /\ my'[t].op = my[t].op
      BY <1>0, <2>2, LabelsAre, KeepP
    <3>2. p \in Payments /\ pay[p].st = "none" /\ intent[p] = "none" /\ ~pay[p].named
      BY <1>0, <2>2 DEF Rows, MoneyInv, RowOK
    <3>3. /\ \A q \in Payments : q # p => pay'[q] = pay[q]
          /\ pay'[p].st = "pending" /\ ~pay'[p].named
      BY <1>0, <2>2 DEF MoneyTyped
    <3>4. Keeps
      BY <2>1, <3>2, <3>3 DEF Keeps, Touched
    <3>5. \A q \in Payments : RowOK(q)'
      BY <2>1, <3>2, <3>3 DEF MoneyInv, RowOK
    <3>6. Aware(t)'
      <4>1. my[t].op # "finalize"
        BY <1>1, <1>8 DEF Placed, AcceptRow
      <4> QED BY <2>1, <3>1, <3>2, <3>3, <4>1 DEF Aware
    <3>7. ASSUME NEW u \in Tasks \ {t}, at[u] = "intent"
          PROVE  /\ pay'[my[u].p].st # "none" /\ ~pay'[my[u].p].named
                 /\ intent'[my[u].p] = intent[my[u].p] /\ my'[t].p # my[u].p
      <4>1. my[u].p \in Payments /\ pay[my[u].p].st # "none" /\ ~pay[my[u].p].named
        BY <3>7 DEF TypeInv, TypeOK, Jobs, MoneyInv, Aware
      <4> QED BY <2>1, <3>1, <3>2, <3>3, <4>1
    <3> QED BY <2>1, <3>1, <3>4, <3>5, <3>6, <3>7, MoneyOf
  <2> QED BY <1>5, <1>8, <2>1, <2>2 DEF AcceptRow
<1>9. ASSUME AcceptIntent(t) PROVE MoneyInv' /\ Keeps
  <2>1. Moves(t) /\ at'[t] = "name" /\ my'[t] = my[t]
    BY <1>0, <1>9, LabelsAre, GoMoves DEF AcceptIntent
  <2>2. /\ UNCHANGED <<pay, events>> /\ intent' = [intent EXCEPT ![my[t].p] = "unpaid"]
        /\ intent[my[t].p] = "none" /\ pay[my[t].p].st # "none" /\ ~pay[my[t].p].named
    BY <1>1, <1>9 DEF AcceptIntent, Aware
  <2>3. Keeps
    BY <1>0, <1>1, <2>2 DEF Keeps, Touched, MoneyTyped
  <2>4. \A p \in Payments : RowOK(p)'
    BY <1>0, <1>1, <2>2 DEF RowOK, MoneyInv, MoneyTyped
  <2>5. Aware(t)'
    BY <1>0, <1>1, <2>1, <2>2 DEF Aware, MoneyTyped, Told, Touched
  <2>6. ASSUME NEW u \in Tasks \ {t}, at[u] = "intent"
        PROVE  /\ pay'[my[u].p].st # "none" /\ ~pay'[my[u].p].named
               /\ intent'[my[u].p] = intent[my[u].p]
    <3>1. my[u].p \in Payments /\ pay[my[u].p].st # "none" /\ ~pay[my[u].p].named
          /\ my[u].p # my[t].p
      BY <1>9, <2>6 DEF TypeInv, TypeOK, Jobs, MoneyInv, Aware, AcceptIntent
    <3> QED BY <1>0, <2>2, <3>1 DEF MoneyTyped
  <2> QED BY <2>1, <2>2, <2>3, <2>4, <2>5, <2>6, MoneyOf
<1>10. ASSUME AcceptName(t) PROVE MoneyInv' /\ Keeps
  <2>1. /\ Moves(t) /\ at'[t] = "idle" /\ Aware(t)' /\ UNCHANGED <<intent, events>>
    BY <1>3, <1>10 DEF AcceptName
  <2>2. /\ OnlyRow(my[t].p) /\ pay'[my[t].p].named /\ pay'[my[t].p].amount = pay[my[t].p].amount
        /\ pay'[my[t].p].st = pay[my[t].p].st
    BY <1>0, <1>1, <1>10, RowMoves DEF AcceptName
  <2>3. intent[my[t].p] # "none"
    BY <1>1, <1>10 DEF Aware, AcceptName
  <2>4. Keeps
    BY <1>1, <2>1, <2>2 DEF Keeps, OnlyRow, Touched
  <2>5. \A p \in Payments : RowOK(p)'
    BY <1>1, <2>1, <2>2, <2>3 DEF RowOK, MoneyInv, OnlyRow
  <2>6. ASSUME NEW u \in Tasks \ {t}, at[u] = "intent"
        PROVE  /\ pay'[my[u].p].st # "none" /\ ~pay'[my[u].p].named
               /\ intent'[my[u].p] = intent[my[u].p]
    <3>1. my[u].p \in Payments /\ pay[my[u].p].st # "none" /\ ~pay[my[u].p].named
          /\ intent[my[u].p] = "none"
      BY <2>6 DEF TypeInv, TypeOK, Jobs, MoneyInv, Aware
    <3> QED BY <2>1, <2>2, <2>3, <3>1 DEF OnlyRow
  <2> QED BY <2>1, <2>4, <2>5, <2>6, MoneyOf
<1>11. ASSUME FinalizeScreen(t) PROVE MoneyInv' /\ Keeps
  <2>1. screen.price \in Prices \cup {Tariff} /\ UNCHANGED <<pay, intent, events>>
    BY <1>11 DEF TypeInv, TypeOK, Screens, FinalizeScreen, moneyVars
  <2>2. CASE Keep(t, "f_claim", [my[t] EXCEPT !.price = screen.price])
    <3>1. Moves(t) /\ at'[t] = "f_claim" /\ my'[t].op = my[t].op /\ my'[t].p = my[t].p
      BY <1>0, <2>1, <2>2, LabelsAre, KeepPrice
    <3> QED BY <1>4, <2>1, <3>1, LabelsAre
  <2>3. CASE Keep(t, "back", [my[t] EXCEPT !.pull = TRUE])
    <3>1. Moves(t) /\ at'[t] = "back" /\ my'[t].op = my[t].op /\ my'[t].p = my[t].p
      BY <1>0, <2>3, LabelsAre, KeepPull
    <3> QED BY <1>4, <2>1, <3>1, LabelsAre
  <2>4. CASE End(t)
    BY <1>5, <2>1, <2>4
  <2>5. CASE Go(t, "back")
    BY <1>6, <2>1, <2>5, LabelsAre
  <2> QED BY <1>11, <2>2, <2>3, <2>4, <2>5 DEF FinalizeScreen
<1>12. ASSUME Pull(t) \/ Assign(t) PROVE MoneyInv' /\ Keeps
  BY <1>5, <1>12 DEF Pull, Assign, moneyVars
<1>13. ASSUME \/ Claim(t) \/ Failed(t) \/ Sold(t) \/ AbandonScreen(t) \/ ExpireClaim(t)
       PROVE  MoneyInv' /\ Keeps
  <2>1. UNCHANGED <<pay, intent, events>>
    BY <1>13 DEF Claim, Failed, Sold, AbandonScreen, ExpireClaim, moneyVars
  <2>2. End(t) \/ \E l \in {"f_others", "find", "back", "assign", "a_find", "r_find"} : Go(t, l)
    BY <1>13 DEF Claim, Failed, Sold, AbandonScreen, ExpireClaim
  <2> QED BY <1>5, <1>6, <2>1, <2>2, LabelsAre
<1>14. ASSUME FinalizeOthers(t) PROVE MoneyInv' /\ Keeps
  <2> DEFINE S == Live \ {my[t].p}
  <2>1. S \in SUBSET Payments /\ Keep(t, "f_cancel", [my[t] EXCEPT !.todo = S])
    BY <1>14 DEF Live, Rows, FinalizeOthers
  <2> HIDE DEF S
  <2>2. Moves(t) /\ at'[t] = "f_cancel" /\ my'[t].op = my[t].op /\ my'[t].p = my[t].p
    BY <1>0, <2>1, LabelsAre, KeepTodo
  <2> QED BY <1>4, <1>14, <2>2, LabelsAre DEF FinalizeOthers, moneyVars
<1>15. ASSUME AbandonFind(t) PROVE MoneyInv' /\ Keeps
  <2> DEFINE S == IF my[t].op = "canceled" THEN {} ELSE {p \in Live \ {Base} : pay[p].named}
  <2>1. S \in SUBSET Payments /\ Keep(t, "a_cancel", [my[t] EXCEPT !.todo = S])
    BY <1>15 DEF Live, Rows, AbandonFind
  <2> HIDE DEF S
  <2>2. Moves(t) /\ at'[t] = "a_cancel" /\ my'[t].op = my[t].op /\ my'[t].p = my[t].p
    BY <1>0, <2>1, LabelsAre, KeepTodo
  <2> QED BY <1>4, <1>15, <2>2, LabelsAre DEF AbandonFind, moneyVars
<1>16. ASSUME NEW p \in Payments, NEW l \in Labels, CancelIntent(t, p, l), UNCHANGED pay,
              l \notin {"intent", "name", "h_cancel", "h_mark", "capture", "captured"}
       PROVE  MoneyInv' /\ Keeps
  <2>1. /\ Moves(t) /\ at'[t] = l /\ my'[t].op = my[t].op /\ my'[t].p = my[t].p
        /\ \/ intent' = intent
           \/ intent[p] \in {"unpaid", "held"} /\ intent' = [intent EXCEPT ![p] = "canceled"]
        /\ NoNews
    BY <1>16, CancelMoves DEF NoNews
  <2>2. Aware(t)'
    BY <1>0, <1>1, <1>16, <2>1 DEF Aware, Told, Touched, MoneyTyped
  <2>3. CASE intent' = intent
    BY <1>16, <2>1, <2>2, <2>3, MoneyOfQuiet DEF NoNews
  <2>4. CASE intent[p] \in {"unpaid", "held"} /\ intent' = [intent EXCEPT ![p] = "canceled"]
    BY <1>16, <2>1, <2>2, <2>4, MoneyOfIntent
  <2> QED BY <2>1, <2>3, <2>4
<1>17. ASSUME Keep(t, "f_dead", [my[t] EXCEPT !.ok = FALSE]) \/
              Keep(t, "back_dead", [my[t] EXCEPT !.ok = FALSE]), UNCHANGED <<pay, intent, events>>
       PROVE  MoneyInv' /\ Keeps
  <2>1. Moves(t) /\ at'[t] \in {"f_dead", "back_dead"} /\ my'[t].op = my[t].op /\ my'[t].p = my[t].p
    BY <1>0, <1>17, LabelsAre, KeepOk
  <2> QED BY <1>4, <1>17, <2>1, LabelsAre
<1>18. ASSUME FinalizeCancel(t) PROVE MoneyInv' /\ Keeps
  BY <1>1, <1>6, <1>16, <1>17, <1>18, LabelsAre DEF FinalizeCancel
<1>19. ASSUME BackCancel(t) \/ ReleaseCancel(t) PROVE MoneyInv' /\ Keeps
  BY <1>1, <1>16, <1>17, <1>19, LabelsAre DEF BackCancel, ReleaseCancel
<1>20. ASSUME FinalizeDead(t) PROVE MoneyInv' /\ Keeps
  <2> DEFINE q == First(my[t].todo)
             S == my[t].todo \ {q}
  <2>1. q \in Payments /\ my[t].ok \in BOOLEAN /\ S \in SUBSET Payments
    BY <1>0, <1>1, <1>20 DEF Placed, FinalizeDead, Jobs
  <2>2. /\ pay' = [pay EXCEPT ![q].dead = TRUE, ![q].st = IF my[t].ok THEN "cancelled" ELSE @]
        /\ Keep(t, "f_cancel", [my[t] EXCEPT !.todo = S, !.ok = FALSE])
    BY <1>0, <1>20 DEF FinalizeDead, Jobs
  <2>3. UNCHANGED <<intent, events>>
    BY <1>20 DEF FinalizeDead
  <2> HIDE DEF q, S
  <2>4. /\ OnlyRow(q) /\ pay'[q].named = pay[q].named /\ pay'[q].amount = pay[q].amount
        /\ pay'[q].st = IF my[t].ok THEN "cancelled" ELSE pay[q].st
    BY <1>0, <2>1, <2>2, RowMoves
  <2>5. Moves(t) /\ at'[t] = "f_cancel" /\ my'[t].op = my[t].op /\ my'[t].p = my[t].p
    BY <1>0, <2>1, <2>2, LabelsAre, KeepTodoOk
  <2>6. Aware(t)'
    BY <1>1, <2>1, <2>3, <2>4, <2>5 DEF Aware, Told, Touched, OnlyRow
  <2> QED BY <2>1, <2>3, <2>4, <2>5, <2>6, MoneyOfRow DEF MoneyInv, RowOK
<1>21. ASSUME BackDead(t) PROVE MoneyInv' /\ Keeps
  <2> DEFINE q == my[t].p
  <2>1. my[t].ok \in BOOLEAN /\ q \in Payments
    BY <1>0, <1>1 DEF Jobs
  <2>2. pay' = [pay EXCEPT ![q].dead = TRUE, ![q].st = IF my[t].ok THEN "cancelled" ELSE @]
        /\ UNCHANGED <<intent, events>>
    BY <1>21 DEF BackDead
  <2>3. /\ OnlyRow(q) /\ pay'[q].named = pay[q].named /\ pay'[q].amount = pay[q].amount
        /\ pay'[q].st = IF my[t].ok THEN "cancelled" ELSE pay[q].st
    BY <1>0, <2>1, <2>2, RowMoves
  <2>4. Moves(t) /\ at'[t] \in {"pull", "idle"} /\ Aware(t)'
    <3>1. CASE End(t)
      BY <1>3, <3>1
    <3>2. CASE Go(t, "pull")
      <4>1. Moves(t) /\ at'[t] = "pull" /\ my'[t] = my[t]
        BY <1>2, <3>2, LabelsAre
      <4> QED BY <1>1, <2>2, <2>3, <4>1 DEF Aware, Told, Touched
    <3> QED BY <1>21, <3>1, <3>2 DEF BackDead
  <2>5. UNCHANGED <<intent, events>>
    BY <1>21 DEF BackDead
  <2>6. RowOK(q)
    BY <2>1 DEF MoneyInv
  <2> HIDE DEF q
  <2> QED BY <2>1, <2>3, <2>4, <2>5, <2>6, MoneyOfRow DEF RowOK
<1>22. ASSUME FinalizeMark(t) PROVE MoneyInv' /\ Keeps
  <2>1. pay' = [pay EXCEPT ![my[t].p].st = "authorized"] \/ pay' = pay
    BY <1>22 DEF FinalizeMark
  <2>2. /\ Go(t, "find") /\ UNCHANGED <<intent, events>>
    BY <1>22 DEF FinalizeMark
  <2>3. CASE pay' = pay
    BY <1>6, <2>2, <2>3, LabelsAre
  <2>4. CASE pay' = [pay EXCEPT ![my[t].p].st = "authorized"] /\ pay[my[t].p].named
    <3>1. /\ OnlyRow(my[t].p) /\ pay'[my[t].p].named = pay[my[t].p].named
          /\ pay'[my[t].p].amount = pay[my[t].p].amount /\ pay'[my[t].p].st = "authorized"
      BY <1>0, <1>1, <2>4, RowMoves DEF Statuses
    <3>2. Moves(t) /\ at'[t] = "find" /\ my'[t] = my[t]
      BY <1>2, <2>2, LabelsAre
    <3>3. Aware(t)'
      BY <1>1, <2>2, <3>1, <3>2 DEF Aware, Told, Touched
    <3> QED BY <1>1, <2>2, <2>4, <3>1, <3>2, <3>3, MoneyOfRow
  <2>5. my[t].op = "finalize" => pay[my[t].p].named
    BY <1>1 DEF Aware, Told
  <2> QED BY <1>1, <1>22, <2>1, <2>3, <2>4, <2>5 DEF Placed, Finalizes, FinalizeMark
<1>23. ASSUME FindActive(t) PROVE MoneyInv' /\ Keeps
  <2>1. UNCHANGED <<pay, intent, events>>
    BY <1>23 DEF FindActive, moneyVars
  <2>2. ASSUME NEW p \in Active, pay[p].named, Keep(t, "capture", [my[t] EXCEPT !.todo = {p}])
        PROVE  MoneyInv' /\ Keeps
    <3> DEFINE S == {p}
    <3>1. S \in SUBSET Payments /\ First(S) = p /\ Keep(t, "capture", [my[t] EXCEPT !.todo = S])
      BY <2>2, FirstOfOne DEF Active, Holding, Live, Rows
    <3> HIDE DEF S
    <3>2. /\ Moves(t) /\ at'[t] = "capture" /\ my'[t].op = my[t].op /\ my'[t].p = my[t].p
          /\ my'[t].todo = S
      BY <1>0, <3>1, LabelsAre, KeepTodo
    <3>3. Aware(t)'
      BY <1>1, <2>1, <2>2, <3>1, <3>2 DEF Aware, Told, Touched
    <3> QED BY <2>1, <3>2, <3>3, MoneyOfQuiet
  <2>3. \/ Go(t, "failed") \/ Go(t, "sold")
        \/ \E p \in Active : pay[p].named /\ Keep(t, "capture", [my[t] EXCEPT !.todo = {p}])
    BY <1>23 DEF FindActive
  <2> QED BY <1>6, <2>1, <2>2, <2>3, LabelsAre
<1>24. ASSUME Capture(t) PROVE MoneyInv' /\ Keeps
  <2> DEFINE q == First(my[t].todo)
  <2>1. q \in Payments /\ pay[q].named /\ UNCHANGED <<pay, events>>
    BY <1>1, <1>24 DEF Placed, Aware, Capture
  <2>2. CASE intent[q] \in {"held", "captured"} /\ intent' = [intent EXCEPT ![q] = "captured"]
             /\ (Go(t, "captured") \/ Go(t, "failed"))
    <3>1. Moves(t) /\ at'[t] \in {"captured", "failed"} /\ my'[t] = my[t]
      BY <1>0, <2>2, LabelsAre, GoMoves
    <3>2. Aware(t)'
      BY <1>0, <1>1, <2>1, <2>2, <3>1 DEF Aware, Told, Touched, MoneyTyped
    <3> HIDE DEF q
    <3> QED BY <2>1, <2>2, <3>1, <3>2, MoneyOfIntent DEF NoNews
  <2>3. CASE Go(t, "failed") /\ UNCHANGED intent
    BY <1>6, <2>1, <2>3, LabelsAre
  <2> QED BY <1>24, <2>2, <2>3 DEF Capture
<1>25. ASSUME MarkCaptured(t) PROVE MoneyInv' /\ Keeps
  <2> DEFINE q == First(my[t].todo)
  <2>1. q \in Payments /\ pay[q].named /\ intent[q] = "captured"
    BY <1>1, <1>25 DEF Placed, Aware, MarkCaptured
  <2>2. pay' = [pay EXCEPT ![q].st = "succeeded"] /\ Go(t, "sold") /\ UNCHANGED <<intent, events>>
    BY <1>25 DEF MarkCaptured
  <2> HIDE DEF q
  <2>3. /\ OnlyRow(q) /\ pay'[q].named = pay[q].named /\ pay'[q].amount = pay[q].amount
        /\ pay'[q].st = "succeeded"
    BY <1>0, <2>1, <2>2, RowMoves DEF Statuses
  <2>4. Moves(t) /\ at'[t] = "sold" /\ my'[t] = my[t]
    BY <1>2, <2>2, LabelsAre
  <2>5. Aware(t)'
    BY <1>1, <2>1, <2>2, <2>3, <2>4 DEF Aware, Told, Touched, OnlyRow
  <2> QED BY <2>1, <2>2, <2>3, <2>4, <2>5, MoneyOfRow
<1>26. ASSUME AbandonCancel(t) PROVE MoneyInv' /\ Keeps
  <2> DEFINE q == First(my[t].todo)
             S == my[t].todo \ {q}
  <2>1. UNCHANGED pay
    BY <1>26 DEF AbandonCancel
  <2>2. CASE my[t].todo = {} /\ Go(t, "a_dead") /\ UNCHANGED <<intent, events>>
    BY <1>6, <2>1, <2>2, LabelsAre
  <2>3. CASE /\ my[t].todo # {} /\ Keep(t, "a_cancel", [my[t] EXCEPT !.todo = S])
             /\ \/ intent' = intent /\ events' = events
                \/ /\ intent[q] \in {"unpaid", "held"}
                   /\ intent' = [intent EXCEPT ![q] = "canceled"]
                   /\ events' = events \cup {[type |-> "canceled", p |-> q]}
    <3>1. q \in Payments /\ S \in SUBSET Payments
      BY <1>1, <2>3
    <3>2. NoNews
      BY <2>3 DEF NoNews
    <3> HIDE DEF q, S
    <3>3. Moves(t) /\ at'[t] = "a_cancel" /\ my'[t].op = my[t].op /\ my'[t].p = my[t].p
      BY <1>0, <2>3, <3>1, LabelsAre, KeepTodo
    <3>4. Aware(t)'
      BY <1>0, <1>1, <2>1, <2>3, <3>1, <3>3 DEF Aware, Told, Touched, MoneyTyped
    <3>5. CASE intent' = intent /\ events' = events
      BY <2>1, <3>3, <3>4, <3>5, MoneyOfQuiet
    <3>6. CASE intent[q] \in {"unpaid", "held"} /\ intent' = [intent EXCEPT ![q] = "canceled"]
      BY <2>1, <3>1, <3>2, <3>3, <3>4, <3>6, MoneyOfIntent
    <3> QED BY <2>3, <3>5, <3>6
  <2>4. my[t].todo # {} => [my[t] EXCEPT !.todo = @ \ {q}] = [my[t] EXCEPT !.todo = S]
    BY <1>0 DEF Jobs
  <2> QED BY <1>26, <2>2, <2>3, <2>4 DEF AbandonCancel
<1>27. ASSUME AbandonDead(t) PROVE MoneyInv' /\ Keeps
  <2>1. Moves(t) /\ at'[t] = "idle" /\ Aware(t)' /\ UNCHANGED <<intent, events>>
    BY <1>3, <1>27 DEF AbandonDead
  <2>2. \A p \in Payments :
          \/ pay'[p] = pay[p]
          \/ /\ pay[p].st # "none" /\ pay'[p].st = "failed"
             /\ pay'[p].named = pay[p].named /\ pay'[p].amount = pay[p].amount
    <3> SUFFICES ASSUME NEW p \in Payments
                 PROVE \/ pay'[p] = pay[p]
                       \/ /\ pay[p].st # "none" /\ pay'[p].st = "failed"
                          /\ pay'[p].named = pay[p].named /\ pay'[p].amount = pay[p].amount
      OBVIOUS
    <3>1. pay[p] \in PayRows
      BY <1>0 DEF MoneyTyped
    <3> QED BY <1>27, <3>1 DEF AbandonDead, Live, Rows, PayRows
  <2>3. Keeps
    BY <2>1, <2>2 DEF Keeps, Touched
  <2>4. \A p \in Payments : RowOK(p)'
    BY <2>1, <2>2 DEF RowOK, MoneyInv
  <2>5. ASSUME NEW u \in Tasks \ {t}, at[u] = "intent"
        PROVE  /\ pay'[my[u].p].st # "none" /\ ~pay'[my[u].p].named
    <3>1. my[u].p \in Payments /\ pay[my[u].p].st # "none" /\ ~pay[my[u].p].named
      BY <2>5 DEF TypeInv, TypeOK, Jobs, MoneyInv, Aware
    <3> QED BY <2>2, <3>1
  <2> QED BY <2>1, <2>3, <2>4, <2>5, MoneyOf
<1>28. ASSUME ReleaseFind(t) PROVE MoneyInv' /\ Keeps
  <2>1. UNCHANGED <<pay, intent, events>> /\ my[t].op # "finalize"
    BY <1>1, <1>28 DEF ReleaseFind, moneyVars, Placed
  <2>2. ASSUME NEW p \in Active, Keep(t, "r_cancel", [my[t] EXCEPT !.p = p])
        PROVE  MoneyInv' /\ Keeps
    <3>1. p \in Payments
      BY DEF Active, Holding, Live, Rows
    <3>2. Moves(t) /\ at'[t] = "r_cancel" /\ my'[t].op = my[t].op
      BY <1>0, <2>2, <3>1, LabelsAre, KeepP
    <3> QED BY <1>4, <2>1, <3>2, LabelsAre
  <2> QED BY <1>5, <1>28, <2>1, <2>2 DEF ReleaseFind
<1>29. ASSUME NEW s \in Statuses \ {"none", "authorized", "succeeded"},
              pay' = [pay EXCEPT ![my[t].p].st = s], UNCHANGED <<intent, events>>, End(t)
       PROVE  MoneyInv' /\ Keeps
  <2>1. /\ OnlyRow(my[t].p) /\ pay'[my[t].p].named = pay[my[t].p].named
        /\ pay'[my[t].p].amount = pay[my[t].p].amount /\ pay'[my[t].p].st = s
    BY <1>0, <1>1, <1>29, RowMoves
  <2> QED BY <1>1, <1>3, <1>29, <2>1, MoneyOfRow
<1>30. ASSUME ReleaseMark(t) \/ HoldMark(t) PROVE MoneyInv' /\ Keeps
  BY <1>5, <1>29, <1>30 DEF ReleaseMark, HoldMark, Statuses
<1>31. ASSUME HoldCancel(t) PROVE MoneyInv' /\ Keeps
  <2> DEFINE q == my[t].p
  <2>1. q \in Payments /\ pay[q].named /\ intent[q] # "none" /\ UNCHANGED pay
    BY <1>1, <1>31 DEF HoldCancel, Aware, MoneyInv, RowOK
  <2>2. CASE /\ intent[q] \notin {"captured", "canceled"} /\ intent' = [intent EXCEPT ![q] = "canceled"]
             /\ events' = events \cup {[type |-> "canceled", p |-> q]} /\ Go(t, "h_mark")
    <3>1. Moves(t) /\ at'[t] = "h_mark" /\ my'[t] = my[t]
      BY <1>0, <2>2, LabelsAre, GoMoves
    <3>2. Aware(t)'
      BY <1>0, <1>1, <2>1, <2>2, <3>1 DEF Aware, Told, Touched, MoneyTyped
    <3>3. NoNews
      BY <2>2 DEF NoNews
    <3> HIDE DEF q
    <3> QED BY <2>1, <2>2, <3>1, <3>2, <3>3, MoneyOfIntent
  <2>3. CASE UNCHANGED <<intent, events>> /\ Go(t, "h_mark")
    <3>1. Moves(t) /\ at'[t] = "h_mark" /\ my'[t] = my[t]
      BY <1>0, <2>3, LabelsAre, GoMoves
    <3>2. Aware(t)'
      BY <1>1, <2>1, <2>3, <3>1 DEF Aware, Told, Touched
    <3> QED BY <2>1, <2>3, <3>1, <3>2, MoneyOfQuiet
  <2>4. CASE UNCHANGED <<intent, events>> /\ End(t)
    BY <1>5, <2>1, <2>4
  <2> QED BY <1>31, <2>2, <2>3, <2>4 DEF HoldCancel
<1>32. ASSUME Crash(t) PROVE MoneyInv' /\ Keeps
  <2>1. UNCHANGED <<pay, intent>> /\ events' = events \cup Redelivered(my[t]) /\ End(t)
    BY <1>32 DEF Crash
  <2>2. \A e \in Redelivered(my[t]) : e.type = "capturable" => Told(e.p)
    BY <1>1 DEF Redelivered, Aware
  <2>3. \A e \in events' \ events : e.type = "capturable" => Told(e.p)
    BY <2>1, <2>2
  <2> QED BY <1>3, <2>1, <2>3, MoneyOfQuiet
<1> QED BY <1>7, <1>8, <1>9, <1>10, <1>11, <1>12, <1>13, <1>14, <1>15, <1>18, <1>19, <1>20, <1>21,
          <1>22, <1>23, <1>24, <1>25, <1>26, <1>27, <1>28, <1>30, <1>31, <1>32
        DEF Continue, FinalizeSteps

LEMMA MoneyOutside ==
  ASSUME TypeInv, MoneyInv, Outside
  PROVE  MoneyInv' /\ Keeps
<1>1. ASSUME UNCHANGED <<moneyVars, at, my>> PROVE MoneyInv' /\ Keeps
  BY <1>1 DEF MoneyInv, RowOK, Aware, Told, Touched, Keeps, moneyVars
<1>2. ASSUME CustomerPays PROVE MoneyInv' /\ Keeps
  <2>1. UNCHANGED <<pay, at, my>> /\ intent \in [Payments -> Intents]
    BY <1>2 DEF CustomerPays, TypeInv, TypeOK
  <2>2. PICK p \in Replacements :
          /\ intent[p] = "unpaid" /\ pay[p].named
          /\ \/ /\ intent' = [intent EXCEPT ![p] = "held"]
                /\ events' = events \cup {[type |-> "capturable", p |-> p]}
             \/ /\ events' = events \cup {[type |-> "failed", p |-> p]}
                /\ UNCHANGED intent
    BY <1>2 DEF CustomerPays
  <2>3. Keeps
    BY <2>1, <2>2 DEF Keeps, Touched
  <2>4. \A q \in Payments : RowOK(q)'
    BY <2>1, <2>2 DEF MoneyInv, RowOK
  <2>5. p \in Payments /\ \A e \in events : e.p \in Payments
    BY DEF Payments, TypeInv, TypeOK, Events
  <2>6. \A q \in Payments : Told(q) => Told(q)'
    BY <2>3 DEF Told, Keeps
  <2>7. \A e \in events' : e.type = "capturable" => Told(e.p)'
    <3>1. CASE /\ intent' = [intent EXCEPT ![p] = "held"]
               /\ events' = events \cup {[type |-> "capturable", p |-> p]}
      <4>1. Told(p)'
        BY <2>1, <2>2, <2>5, <3>1 DEF Told, Touched
      <4> QED BY <2>5, <2>6, <3>1, <4>1 DEF MoneyInv
    <3>2. CASE events' = events \cup {[type |-> "failed", p |-> p]}
      BY <2>5, <2>6, <3>2 DEF MoneyInv
    <3> QED BY <2>2, <3>1, <3>2
  <2>8. ASSUME NEW u \in Tasks PROVE Aware(u)'
    <3>1. my[u].p \in Payments /\ Aware(u)
      BY DEF TypeInv, TypeOK, Jobs, MoneyInv
    <3>2. at[u] \in {"capture", "captured"} => First(my[u].todo) \in Payments
      BY FirstIn DEF TypeInv, TypeOK, Placed, Jobs
    <3> QED BY <2>1, <2>2, <2>3, <2>6, <3>1, <3>2 DEF Aware, Keeps
  <2>9. pay'[Base].amount = Tariff /\ pay'[Base].st # "none"
    BY <2>1 DEF MoneyInv
  <2> QED BY <2>1, <2>3, <2>4, <2>7, <2>8, <2>9 DEF MoneyInv
<1> QED BY <1>1, <1>2 DEF Outside, Present, Decline, SearchEnds, PaymentLapses, moneyVars

LEMMA MoneyStep == TypeInv /\ MoneyInv /\ Next => MoneyInv' /\ Keeps
BY MoneyBegins, MoneyContinues, MoneyOutside DEF Next, Outside

\* A capture that is refused, or whose answer is lost, lets another take the order whose
\* money is still held or already taken: the
\* code leaves that to an operator.
CapturesTell == "captureFails" \notin Faults /\ "lost" \notin Faults

-----------------------------------------------------------------------------
\* The sale.  Of the functions at work on one order one has claimed it, and has taken its
\* money only when it says so; a claim that is given back has taken nothing.
Selling == {"f_others", "f_cancel", "f_dead", "f_mark", "find", "capture", "captured",
            "failed", "sold", "assign"}
Seller(t) == at[t] \in Selling
Unpaid(t) == Seller(t) /\ at[t] \notin {"captured", "sold", "assign"}
For(j) == IF j.op = "finalize" THEN "expert" ELSE "pool"
Captured == {p \in Payments : intent[p] = "captured"}

\* A replacement the ledger calls authorized is worth something to its expert only.
OthersDead == \A p \in Holding \ {Base} : intent[p] = "canceled"

\* The price a function reads is that of its payment, and what is left to release is known.
Worth(t) ==
  /\ my[t].op = "finalize" /\ at[t] \in {"f_claim", "f_others", "f_cancel", "f_dead", "f_mark",
                                         "find", "capture"}
       => pay[my[t].p].amount = my[t].price
  /\ at[t] \in {"f_cancel", "f_dead"} => Holding \subseteq my[t].todo \cup {my[t].p}
  /\ at[t] = "f_mark" => Holding \subseteq {my[t].p}
  /\ at[t] \in {"find", "capture"} /\ my[t].op = "finalize" => Holding \subseteq {my[t].p}
  /\ at[t] = "failed" => OthersDead
  /\ at[t] = "capture" => \E p \in Payments :
       /\ my[t].todo = {p}
       /\ IF my[t].op = "finalize" THEN p = my[t].p ELSE p = Base \/ intent[p] = "canceled"
  /\ at[t] \in {"captured", "sold"} =>
       /\ Captured # {}
       /\ \A p \in Captured : pay[p].amount = (IF my[t].op = "finalize" THEN my[t].price
                                               ELSE sale.total)
  /\ at[t] = "captured" => \E p \in Captured :
       my[t].todo = {p} /\ (my[t].op # "finalize" => p = Base)
  /\ at[t] = "assign" => Captured # {} /\ \A p \in Captured : pay[p].amount = sale.total

OrderInv ==
  /\ sale.by = "nobody" => Captured = {}
  /\ Captured = {} => sale.total = Tariff
  /\ sale.by # "expert" => sale.total = Tariff /\ OthersDead
  /\ sale.st = "cancelled" => sale.by = "nobody"
  /\ \A p, q \in Captured : p = q

SellInv ==
  /\ OrderInv
  /\ \A t, u \in Tasks : Seller(t) /\ Seller(u) => t = u
  /\ \A t \in Tasks : Seller(t) => Open /\ sale.by = For(my[t])
  /\ \A t \in Tasks : Unpaid(t) => Captured = {}
  /\ \A t \in Tasks : Worth(t)

SaleInv == TypeInv /\ MoneyInv /\ SellInv

\* A function that is not the seller leaves the sale alone.
Aside == sale' = sale /\ Captured' = Captured /\ Holding' \subseteq Holding

LEMMA AsideKeeps ==
  ASSUME TypeInv, SellInv, Keeps, Aside
  PROVE  OrderInv'
<1>1. OthersDead => OthersDead'
  BY DEF OthersDead, Aside, Keeps, Holding, Live, Rows
<1> QED BY <1>1 DEF SellInv, OrderInv, Aside

LEMMA SellOf ==
  ASSUME SaleInv, Keeps, NEW t \in Tasks, Moves(t), OrderInv', Worth(t)',
         Seller(t)' => /\ Open' /\ sale'.by = For(my'[t]) /\ \A u \in Tasks \ {t} : ~Seller(u)
                       /\ Unpaid(t)' => Captured' = {},
         \A u \in Tasks \ {t} : Seller(u) => Aside
  PROVE  SellInv'
<1>1. ASSUME NEW u \in Tasks \ {t}
      PROVE  /\ Seller(u)' <=> Seller(u)
             /\ Unpaid(u)' <=> Unpaid(u)
             /\ my'[u] = my[u] /\ at'[u] = at[u]
  BY DEF Moves, Others, Seller, Unpaid
<1>2. ASSUME NEW u \in Tasks \ {t} PROVE Worth(u)'
  <2>1. Worth(u) /\ my[u].p \in Payments /\ my[u].todo \subseteq Payments
    BY DEF SaleInv, SellInv, TypeInv, TypeOK, Jobs
  <2>2. my[u].op = "finalize" => pay[my[u].p].st # "none"
    BY <2>1 DEF SaleInv, MoneyInv, Aware, Told, Touched, RowOK
  <2>3. my[u].op = "finalize" => pay'[my[u].p].amount = pay[my[u].p].amount
    BY <2>1, <2>2 DEF Keeps
  <2>4. CASE ~Seller(u)
    BY <1>1, <2>1, <2>3, <2>4 DEF Worth, Seller, Selling
  <2>5. CASE Seller(u)
    <3>1. Aside
      BY <2>5
    <3>2. \A p \in Captured : pay'[p].amount = pay[p].amount
      BY DEF Captured, Keeps, SaleInv, MoneyInv, RowOK
    <3>3. OthersDead => OthersDead'
      BY <3>1 DEF OthersDead, Aside, Keeps, Holding, Live, Rows
    <3>4. \A p \in Payments : intent[p] = "canceled" => intent'[p] = "canceled"
      BY DEF Keeps
    <3> QED BY <1>1, <2>1, <2>3, <3>1, <3>2, <3>3, <3>4 DEF Worth, Aside
  <2> QED BY <2>4, <2>5
<1>3. \A u \in Tasks : Worth(u)'
  BY <1>2
<1>4. \A u, v \in Tasks : Seller(u)' /\ Seller(v)' => u = v
  BY <1>1 DEF SaleInv, SellInv
<1>5. \A u \in Tasks : Seller(u)' => Open' /\ sale'.by = For(my'[u])
  BY <1>1 DEF SaleInv, SellInv, Aside, Open
<1>6. \A u \in Tasks : Unpaid(u)' => Captured' = {}
  BY <1>1 DEF SaleInv, SellInv, Aside, Unpaid
<1> QED BY <1>3, <1>4, <1>5, <1>6 DEF SellInv

LEMMA Keeping ==
  ASSUME TypeInv, TypeInv', NEW t \in Tasks, NEW l, NEW j, Keep(t, l, j)
  PROVE  Moves(t) /\ at'[t] = l /\ my'[t] = j
BY DEF Keep, Moves, Others, LocalsOK, TypeInv, TypeOK

LEMMA SellAside ==
  ASSUME SaleInv, TypeInv', Keeps, NEW t \in Tasks, NEW l, NEW j, Keep(t, l, j), l \notin Selling,
         l = "f_claim" => pay'[j.p].amount = j.price, Aside
  PROVE  SellInv'
<1>1. Moves(t) /\ at'[t] = l /\ my'[t] = j
  BY Keeping DEF SaleInv
<1>2. ~Seller(t)' /\ Worth(t)'
  BY <1>1 DEF Seller, Selling, Worth
<1>3. OrderInv'
  BY AsideKeeps DEF SaleInv
<1> QED BY <1>1, <1>2, <1>3, SellOf

LEMMA Quietly == UNCHANGED <<pay, intent, sale>> => Aside
BY DEF Aside, Captured, Holding, Live, Rows

LEMMA RowAside ==
  ASSUME NEW q \in Payments, OnlyRow(q), UNCHANGED <<intent, sale>>,
         \/ pay'[q].st \notin {"authorized", "succeeded"}
         \/ pay'[q].dead
         \/ pay'[q].st = pay[q].st /\ pay'[q].dead = pay[q].dead
  PROVE  Aside
BY DEF OnlyRow, Aside, Captured, Holding, Live, Rows

LEMMA IntentAside ==
  ASSUME TypeInv, NEW q \in Payments, NEW v, v # "captured", intent[q] # "captured",
         intent' = [intent EXCEPT ![q] = v], UNCHANGED <<pay, sale>>
  PROVE  Aside
<1>1. intent \in [Payments -> Intents]
  BY DEF TypeInv, TypeOK
<1> QED BY <1>1 DEF Aside, Captured, Holding, Live, Rows

LEMMA SellBegins ==
  ASSUME SaleInv, TypeInv', Keeps, NEW t \in Tasks,
         \/ Accept(t) \/ AcceptOffer(t) \/ Webhooks(t) \/ Crons(t)
  PROVE  SellInv'
<1>1. UNCHANGED <<pay, intent, sale>> /\ Aside
  BY Quietly DEF Accept, AcceptOffer, Webhooks, Crons, Finalize, PaymentFailed, PaymentCanceled,
     Given, SweepExpired, ExpireUnfilledSearches, Stranded, Reconcile, orderVars, moneyVars
<1>2. \/ UNCHANGED <<at, my>>
      \/ \E l \in {"claim", "c_claim", "f_screen", "a_screen", "e_claim", "r_find", "h_cancel"} :
           \E j : Keep(t, l, j)
  BY DEF Accept, AcceptOffer, Webhooks, Crons, Finalize, PaymentFailed, PaymentCanceled,
     Given, SweepExpired, ExpireUnfilledSearches, Stranded, Reconcile, Begin, Keep
<1>3. CASE UNCHANGED <<at, my>>
  BY <1>1, <1>3 DEF SaleInv, SellInv, OrderInv, OthersDead, Seller, Unpaid, Worth, Captured, Holding,
     Live, Rows, Open
<1>4. CASE \E l \in {"claim", "c_claim", "f_screen", "a_screen", "e_claim", "r_find", "h_cancel"} :
             \E j : Keep(t, l, j)
  BY <1>1, <1>4, SellAside DEF Selling
<1> QED BY <1>2, <1>3, <1>4

LEMMA SellOutside ==
  ASSUME SaleInv, Outside
  PROVE  SellInv'
<1>1. UNCHANGED <<pay, sale, at, my>> /\ Captured' = Captured
      /\ \A p \in Payments : intent[p] = "canceled" => intent'[p] = "canceled"
  <2>1. intent \in [Payments -> Intents] /\ Replacements \subseteq Payments
    BY DEF SaleInv, TypeInv, TypeOK, Payments
  <2>2. CASE CustomerPays
    BY <2>1, <2>2 DEF CustomerPays, Captured, orderVars
  <2>3. CASE Present \/ Decline \/ SearchEnds \/ PaymentLapses
    BY <2>3 DEF Present, Decline, SearchEnds, PaymentLapses, Captured, moneyVars
  <2> QED BY <2>2, <2>3 DEF Outside
<1>2. Holding' = Holding /\ (OthersDead => OthersDead')
  BY <1>1 DEF OthersDead, Holding, Live, Rows
<1>3. OrderInv'
  BY <1>1, <1>2 DEF SaleInv, SellInv, OrderInv
<1>4. ASSUME NEW t \in Tasks PROVE Worth(t)'
  <2>1. Worth(t)
    BY DEF SaleInv, SellInv
  <2>2. my[t].todo \subseteq Payments
    BY DEF SaleInv, TypeInv, TypeOK, Jobs
  <2> QED BY <1>1, <1>2, <2>1, <2>2 DEF Worth
<1> QED BY <1>1, <1>3, <1>4 DEF SaleInv, SellInv, Seller, Unpaid, Open

LEMMA SellOn ==
  ASSUME SaleInv, TypeInv', Keeps, NEW t \in Tasks, NEW l \in Selling, NEW j, Keep(t, l, j),
         Seller(t), j.op = my[t].op, sale' = sale, OrderInv', Worth(t)',
         l \notin {"captured", "sold", "assign"} => Captured' = {}
  PROVE  SellInv'
<1>1. Moves(t) /\ at'[t] = l /\ my'[t] = j
  BY Keeping DEF SaleInv
<1>2. /\ Open' /\ sale'.by = For(my'[t]) /\ \A u \in Tasks \ {t} : ~Seller(u)
      /\ Unpaid(t)' => Captured' = {}
  BY <1>1 DEF SaleInv, SellInv, For, Open, Unpaid
<1> QED BY <1>1, <1>2, SellOf

\* The functions that have not claimed the order.
LEMMA SellOfOthers ==
  ASSUME SaleInv, TypeInv', Keeps, NEW t \in Tasks,
         \/ AcceptClaim(t) \/ AcceptRow(t) \/ AcceptIntent(t) \/ AcceptName(t)
         \/ FinalizeScreen(t) \/ Pull(t) \/ BackCancel(t) \/ BackDead(t)
         \/ AbandonScreen(t) \/ AbandonFind(t) \/ AbandonCancel(t) \/ AbandonDead(t)
         \/ ReleaseFind(t) \/ ReleaseCancel(t) \/ ReleaseMark(t) \/ HoldCancel(t) \/ HoldMark(t)
         \/ Crash(t)
  PROVE  SellInv'
<1>0. /\ TypeInv /\ MoneyTyped /\ my[t].p \in Payments /\ my[t].todo \in SUBSET Payments
      /\ Aware(t) /\ Placed(t) /\ my[t].ok \in BOOLEAN /\ my[t] \in Jobs
      /\ my[t].todo # {} => First(my[t].todo) \in Payments
  BY TypeParts, FirstIn DEF SaleInv, TypeInv, TypeOK, Jobs, MoneyInv
<1>1. ASSUME NEW l, NEW j, Keep(t, l, j), l \notin Selling \cup {"f_claim"}, Aside
      PROVE  SellInv'
  BY <1>1, SellAside
<1>2. ASSUME NEW l, NEW j, Keep(t, l, j), l \notin Selling \cup {"f_claim"},
             UNCHANGED <<pay, intent, sale>>
      PROVE  SellInv'
  BY <1>1, <1>2, Quietly
<1>3. ASSUME AcceptClaim(t) PROVE SellInv'
  <2>1. UNCHANGED <<pay, intent, sale>>
    BY <1>3 DEF AcceptClaim, moneyVars
  <2>2. \E l \in {"row", "idle"} : \E j : Keep(t, l, j)
    BY <1>3 DEF AcceptClaim, End
  <2> QED BY <1>2, <2>1, <2>2 DEF Selling
<1>4. ASSUME AcceptRow(t) PROVE SellInv'
  <2>1. UNCHANGED <<intent, sale>>
    BY <1>4 DEF AcceptRow, orderVars
  <2>2. CASE End(t) /\ UNCHANGED pay
    BY <1>2, <2>1, <2>2 DEF End, Selling
  <2>3. ASSUME NEW p \in Replacements \ Rows,
               pay' = [pay EXCEPT ![p] = [st |-> "pending", amount |-> my[t].price,
                                          named |-> FALSE, dead |-> FALSE]],
               Keep(t, "intent", [my[t] EXCEPT !.p = p])
        PROVE  SellInv'
    <3>1. /\ \A q \in Payments : q # p => pay'[q] = pay[q]
          /\ pay'[p].st = "pending" /\ p \in Payments
      BY <1>0, <2>3 DEF MoneyTyped, Payments
    <3>2. Aside
      BY <2>1, <3>1 DEF Aside, Captured, Holding, Live, Rows
    <3> QED BY <1>1, <2>3, <3>2 DEF Selling
  <2> QED BY <1>4, <2>2, <2>3 DEF AcceptRow
<1>5. ASSUME AcceptIntent(t) PROVE SellInv'
  <2>1. intent' = [intent EXCEPT ![my[t].p] = "unpaid"] /\ intent[my[t].p] = "none"
        /\ UNCHANGED <<pay, sale>> /\ Keep(t, "name", my[t])
    BY <1>0, <1>5 DEF AcceptIntent, Aware, orderVars, Go
  <2>2. Aside
    BY <1>0, <2>1, IntentAside
  <2> QED BY <1>1, <2>1, <2>2 DEF Selling
<1>6. ASSUME AcceptName(t) PROVE SellInv'
  <2>1. OnlyRow(my[t].p) /\ pay'[my[t].p].st = pay[my[t].p].st /\ pay'[my[t].p].dead = pay[my[t].p].dead
    BY <1>0, <1>6, RowMoves DEF AcceptName
  <2>2. UNCHANGED <<intent, sale>> /\ Keep(t, "idle", NoJob)
    BY <1>6 DEF AcceptName, orderVars, End
  <2> QED BY <1>0, <1>1, <2>1, <2>2, RowAside DEF Selling
<1>7. ASSUME FinalizeScreen(t) PROVE SellInv'
  <2>1. UNCHANGED <<pay, intent, sale>>
    BY <1>7 DEF FinalizeScreen, orderVars, moneyVars
  <2>2. CASE pay[my[t].p].amount = screen.price /\ Keep(t, "f_claim", [my[t] EXCEPT !.price = screen.price])
    <3> DEFINE j == [my[t] EXCEPT !.price = screen.price]
    <3>1. j.p = my[t].p /\ j.price = screen.price
      BY <1>0 DEF Jobs
    <3>2. pay'[j.p].amount = j.price /\ Keep(t, "f_claim", j)
      BY <2>1, <2>2, <3>1
    <3> HIDE DEF j
    <3> QED BY <2>1, <3>2, SellAside, Quietly DEF Selling
  <2>3. CASE \E l \in {"idle", "back"} : \E j : Keep(t, l, j)
    BY <1>2, <2>1, <2>3 DEF Selling
  <2> QED BY <1>7, <2>2, <2>3 DEF FinalizeScreen, End, Go
<1>8. ASSUME Pull(t) \/ AbandonScreen(t) \/ AbandonFind(t) \/ ReleaseFind(t) PROVE SellInv'
  <2>1. UNCHANGED <<pay, intent, sale>>
    BY <1>8 DEF Pull, AbandonScreen, AbandonFind, ReleaseFind, orderVars, moneyVars
  <2>2. \E l \in {"idle", "a_find", "a_cancel", "r_cancel"} : \E j : Keep(t, l, j)
    BY <1>8 DEF Pull, AbandonScreen, AbandonFind, ReleaseFind, End, Go
  <2> QED BY <1>2, <2>1, <2>2 DEF Selling
<1>9. ASSUME NEW l, NEW p \in Payments, CancelIntent(t, p, l), l \notin Selling \cup {"f_claim"},
             UNCHANGED <<pay, sale>>
      PROVE  SellInv'
  <2>1. \E j : Keep(t, l, j)
    BY <1>9 DEF CancelIntent
  <2>2. \/ intent' = intent
        \/ intent[p] \in {"unpaid", "held"} /\ intent' = [intent EXCEPT ![p] = "canceled"]
    BY <1>9 DEF CancelIntent
  <2>3. Aside
    BY <1>0, <1>9, <2>2, IntentAside, Quietly
  <2> QED BY <1>1, <1>9, <2>1, <2>3
<1>10. ASSUME BackCancel(t) \/ ReleaseCancel(t) PROVE SellInv'
  <2>1. UNCHANGED <<pay, sale>>
    BY <1>10 DEF BackCancel, ReleaseCancel, orderVars
  <2>2. CASE \E l \in {"back_dead", "r_mark"} : CancelIntent(t, my[t].p, l)
    BY <1>0, <1>9, <2>1, <2>2 DEF Selling
  <2>3. CASE Keep(t, "back_dead", [my[t] EXCEPT !.ok = FALSE]) /\ UNCHANGED <<intent, events>>
    BY <1>2, <2>1, <2>3 DEF Selling
  <2> QED BY <1>10, <2>2, <2>3 DEF BackCancel, ReleaseCancel
<1>11. ASSUME BackDead(t) PROVE SellInv'
  <2>1. OnlyRow(my[t].p) /\ pay'[my[t].p].dead
    BY <1>0, <1>11, RowMoves DEF BackDead
  <2>2. UNCHANGED <<intent, sale>> /\ \E l \in {"pull", "idle"} : \E j : Keep(t, l, j)
    BY <1>11 DEF BackDead, orderVars, End, Go
  <2> QED BY <1>0, <1>1, <2>1, <2>2, RowAside DEF Selling
<1>12. ASSUME AbandonCancel(t) PROVE SellInv'
  <2>1. UNCHANGED <<pay, sale>> /\ \E l \in {"a_cancel", "a_dead"} : \E j : Keep(t, l, j)
    BY <1>12 DEF AbandonCancel, orderVars, Go
  <2>2. \/ intent' = intent
        \/ /\ my[t].todo # {} /\ intent[First(my[t].todo)] \in {"unpaid", "held"}
           /\ intent' = [intent EXCEPT ![First(my[t].todo)] = "canceled"]
    BY <1>12 DEF AbandonCancel
  <2>3. Aside
    BY <1>0, <2>1, <2>2, IntentAside, Quietly
  <2> QED BY <1>1, <2>1, <2>3 DEF Selling
<1>13. ASSUME AbandonDead(t) PROVE SellInv'
  <2>1. UNCHANGED <<intent, sale>> /\ Keep(t, "idle", NoJob)
    BY <1>13 DEF AbandonDead, orderVars, End
  <2>2. \A p \in Payments : pay'[p] = pay[p] \/ pay'[p].st = "failed"
    <3> SUFFICES ASSUME NEW p \in Payments PROVE pay'[p] = pay[p] \/ pay'[p].st = "failed"
      OBVIOUS
    <3>1. pay[p] \in PayRows
      BY <1>0 DEF MoneyTyped
    <3> QED BY <1>13, <3>1 DEF AbandonDead, PayRows
  <2>3. Aside
    BY <2>1, <2>2 DEF Aside, Captured, Holding, Live, Rows
  <2> QED BY <1>1, <2>1, <2>3 DEF Selling
<1>14. ASSUME ReleaseMark(t) \/ HoldMark(t) PROVE SellInv'
  <2>1. UNCHANGED <<intent, sale>> /\ Keep(t, "idle", NoJob)
    BY <1>14 DEF ReleaseMark, HoldMark, orderVars, End
  <2>2. pay' = pay \/ pay' = [pay EXCEPT ![my[t].p].st = "cancelled"]
    BY <1>14 DEF ReleaseMark, HoldMark
  <2>3. CASE pay' = [pay EXCEPT ![my[t].p].st = "cancelled"]
    <3>1. OnlyRow(my[t].p) /\ pay'[my[t].p].st = "cancelled"
      BY <1>0, <2>3, RowMoves DEF Statuses
    <3> QED BY <1>0, <1>1, <2>1, <3>1, RowAside DEF Selling
  <2> QED BY <1>2, <2>1, <2>2, <2>3 DEF Selling
<1>15. ASSUME HoldCancel(t) PROVE SellInv'
  <2>1. UNCHANGED <<pay, sale>> /\ \E l \in {"h_mark", "idle"} : \E j : Keep(t, l, j)
    BY <1>15 DEF HoldCancel, orderVars, Go, End
  <2>2. \/ intent' = intent
        \/ intent[my[t].p] # "captured" /\ intent' = [intent EXCEPT ![my[t].p] = "canceled"]
    BY <1>15 DEF HoldCancel
  <2>3. Aside
    BY <1>0, <2>1, <2>2, IntentAside, Quietly
  <2> QED BY <1>1, <2>1, <2>3 DEF Selling
<1>16. ASSUME Crash(t) PROVE SellInv'
  BY <1>2, <1>16 DEF Crash, orderVars, End, Selling
<1> QED BY <1>3, <1>4, <1>5, <1>6, <1>7, <1>8, <1>10, <1>11, <1>12, <1>13, <1>14, <1>15, <1>16

\* The function that claims the order, and the one that has.
LEMMA SellOfClaims ==
  ASSUME SaleInv, TypeInv', Keeps, NEW t \in Tasks, Claim(t) \/ ExpireClaim(t)
  PROVE  SellInv'
<1>0. /\ TypeInv /\ my[t].p \in Payments /\ Worth(t) /\ Placed(t) /\ OrderInv
      /\ UNCHANGED <<pay, intent>>
  BY DEF SaleInv, TypeInv, TypeOK, Jobs, SellInv, Claim, ExpireClaim, moneyVars
<1>1. Holding' = Holding /\ Captured' = Captured /\ OthersDead' = OthersDead
  BY <1>0 DEF Holding, Live, Rows, Captured, OthersDead
<1>2. Searching => \A u \in Tasks : ~Seller(u)
  BY DEF SaleInv, SellInv, Searching, For
<1>3. sale \in [st : {"open", "assigned", "cancelled"},
                by : {"nobody", "pool", "expert"}, total : Prices \cup {Tariff}]
  BY <1>0 DEF TypeInv, TypeOK
<1>4. CASE ~Searching
  <2>1. sale' = sale /\ \E l \in {"back", "idle"} : \E j : Keep(t, l, j)
    BY <1>4 DEF Claim, ExpireClaim, Go, End
  <2> QED BY <1>0, <2>1, SellAside, Quietly DEF Selling
<1>5. CASE Searching /\ at[t] = "f_claim" /\ Claim(t)
  <2>1. sale' = [sale EXCEPT !.by = "expert"] /\ Keep(t, "f_others", my[t])
    BY <1>5 DEF Claim, Go
  <2>2. Moves(t) /\ at'[t] = "f_others" /\ my'[t] = my[t]
    BY <2>1, Keeping DEF SaleInv
  <2>3. sale'.st = "open" /\ sale'.by = "expert" /\ sale'.total = sale.total
    BY <1>3, <1>5, <2>1 DEF Searching, Open
  <2>4. my[t].op = "finalize" /\ pay[my[t].p].amount = my[t].price
    BY <1>0, <1>5 DEF Placed, Finalizes, Worth
  <2>5. OrderInv' /\ Captured' = {}
    BY <1>0, <1>1, <1>5, <2>3 DEF OrderInv, Searching
  <2>6. Worth(t)'
    BY <1>0, <2>2, <2>4 DEF Worth
  <2> QED BY <1>2, <1>5, <2>2, <2>3, <2>4, <2>5, <2>6, SellOf DEF Open, For
<1>6. CASE Searching /\ at[t] = "c_claim" /\ Claim(t) /\ my[t].op # "finalize"
  <2>1. sale' = [sale EXCEPT !.by = "pool"] /\ Keep(t, "find", my[t])
    BY <1>6 DEF Claim, Go
  <2>2. Moves(t) /\ at'[t] = "find" /\ my'[t] = my[t]
    BY <2>1, Keeping DEF SaleInv
  <2>3. sale'.st = "open" /\ sale'.by = "pool" /\ sale'.total = sale.total
    BY <1>3, <1>6, <2>1 DEF Searching, Open
  <2>5. OrderInv' /\ Captured' = {}
    BY <1>0, <1>1, <1>6, <2>3 DEF OrderInv, Searching
  <2>6. Worth(t)'
    BY <1>6, <2>2 DEF Worth
  <2> QED BY <1>2, <1>6, <2>2, <2>3, <2>5, <2>6, SellOf DEF Open, For
<1>7. CASE Searching /\ ExpireClaim(t)
  <2>1. sale' = [sale EXCEPT !.st = "cancelled"] /\ Keep(t, "r_find", my[t])
    BY <1>7 DEF ExpireClaim, Go
  <2>2. Moves(t) /\ at'[t] = "r_find" /\ my'[t] = my[t]
    BY <2>1, Keeping DEF SaleInv
  <2>3. sale'.st = "cancelled" /\ sale'.by = sale.by /\ sale'.total = sale.total
    BY <1>3, <2>1
  <2>5. OrderInv'
    BY <1>0, <1>1, <1>7, <2>3 DEF OrderInv, Searching
  <2>6. Worth(t)' /\ ~Seller(t)'
    BY <2>2 DEF Worth, Seller, Selling
  <2> QED BY <1>2, <1>7, <2>2, <2>5, <2>6, SellOf
<1>8. at[t] = "c_claim" => my[t].op # "finalize"
  BY <1>0 DEF Placed
<1> QED BY <1>4, <1>5, <1>6, <1>7, <1>8 DEF Claim

LEMMA SellOfSellers ==
  ASSUME SaleInv, TypeInv', MoneyInv', Keeps, CapturesTell, NEW t \in Tasks,
         \/ FinalizeOthers(t) \/ FinalizeCancel(t) \/ FinalizeDead(t) \/ FinalizeMark(t)
         \/ FindActive(t) \/ Capture(t) \/ MarkCaptured(t) \/ Failed(t) \/ Sold(t) \/ Assign(t)
  PROVE  SellInv'
<1>0. /\ TypeInv /\ MoneyTyped /\ my[t].p \in Payments /\ my[t].todo \in SUBSET Payments
      /\ Aware(t) /\ Placed(t) /\ my[t].ok \in BOOLEAN /\ my[t] \in Jobs
      /\ my[t].todo # {} => First(my[t].todo) \in Payments /\ First(my[t].todo) \in my[t].todo
      /\ Worth(t) /\ OrderInv
  BY TypeParts, FirstIn DEF SaleInv, TypeInv, TypeOK, Jobs, MoneyInv, SellInv
<1>1. Seller(t)
  BY DEF Seller, Selling, FinalizeOthers, FinalizeCancel, FinalizeDead, FinalizeMark, FindActive,
     Capture, MarkCaptured, Failed, Sold, Assign
<1>2. Open /\ sale.by = For(my[t]) /\ (Unpaid(t) => Captured = {})
      /\ \A u \in Tasks \ {t} : ~Seller(u)
  BY <1>1 DEF SaleInv, SellInv
<1>3. UNCHANGED pay => Holding' = Holding
  BY DEF Holding, Live, Rows
<1>4. UNCHANGED intent => Captured' = Captured
  BY DEF Captured
<1>5. Aside => OrderInv'
  BY <1>0, AsideKeeps DEF SaleInv
<1>6. ASSUME NEW l \in Selling, NEW j, Keep(t, l, j), Unpaid(t), j.op = my[t].op, Aside,
             Worth(t)'
      PROVE  SellInv'
  BY <1>1, <1>2, <1>5, <1>6, SellOn DEF Aside
<1>7. ASSUME FinalizeOthers(t) PROVE SellInv'
  <2> DEFINE j == [my[t] EXCEPT !.todo = Live \ {my[t].p}]
  <2>1. /\ j.op = my[t].op /\ j.p = my[t].p /\ j.price = my[t].price /\ j.todo = Live \ {my[t].p}
        /\ Keep(t, "f_cancel", j) /\ UNCHANGED <<pay, intent, sale>>
    BY <1>0, <1>7 DEF Jobs, FinalizeOthers, orderVars, moneyVars
  <2>2. Unpaid(t) /\ at[t] = "f_others"
    BY <1>1, <1>7 DEF Unpaid, FinalizeOthers
  <2> HIDE DEF j
  <2>3. at'[t] = "f_cancel" /\ my'[t] = j
    BY <1>0, <2>1, Keeping
  <2>4. Worth(t)'
    BY <1>0, <1>3, <2>1, <2>2, <2>3 DEF Worth, Holding
  <2> QED BY <1>6, <2>1, <2>2, <2>4, Quietly DEF Selling
<1>8. ASSUME FinalizeCancel(t) PROVE SellInv'
  <2>0. Unpaid(t) /\ at[t] = "f_cancel" /\ UNCHANGED <<pay, sale>> /\ my[t].op = "finalize"
    BY <1>0, <1>1, <1>8 DEF Unpaid, FinalizeCancel, orderVars, Placed, Finalizes
  <2>1. CASE my[t].todo = {} /\ Go(t, "f_mark") /\ UNCHANGED <<intent, events>>
    <3>1. at'[t] = "f_mark" /\ my'[t] = my[t] /\ Keep(t, "f_mark", my[t])
      BY <1>0, <2>1, Keeping DEF Go
    <3>2. Worth(t)'
      BY <1>0, <1>3, <2>0, <2>1, <3>1 DEF Worth
    <3> QED BY <1>6, <2>0, <2>1, <3>1, <3>2, Quietly DEF Selling
  <2>2. ASSUME NEW j, Keep(t, "f_dead", j), j.op = my[t].op, j.p = my[t].p, j.todo = my[t].todo,
               j.price = my[t].price, Aside
        PROVE  SellInv'
    <3>1. at'[t] = "f_dead" /\ my'[t] = j
      BY <1>0, <2>2, Keeping
    <3>2. Worth(t)'
      BY <1>0, <1>3, <2>0, <2>2, <3>1 DEF Worth
    <3> QED BY <1>6, <2>0, <2>2, <3>2 DEF Selling
  <2>3. CASE my[t].todo # {} /\ CancelIntent(t, First(my[t].todo), "f_dead")
    <3> DEFINE p == First(my[t].todo)
    <3>1. PICK b \in BOOLEAN : Keep(t, "f_dead", [my[t] EXCEPT !.ok = b])
      BY <2>3 DEF CancelIntent
    <3>2. \/ intent' = intent
          \/ intent[p] \in {"unpaid", "held"} /\ intent' = [intent EXCEPT ![p] = "canceled"]
      BY <2>3 DEF CancelIntent
    <3>3. p \in Payments
      BY <1>0, <2>3
    <3> HIDE DEF p
    <3>4. Aside
      BY <1>0, <2>0, <3>2, <3>3, IntentAside, Quietly
    <3> DEFINE j == [my[t] EXCEPT !.ok = b]
    <3>5. j.op = my[t].op /\ j.p = my[t].p /\ j.todo = my[t].todo /\ j.price = my[t].price
      BY <1>0 DEF Jobs
    <3>6. Keep(t, "f_dead", j)
      BY <3>1
    <3> HIDE DEF j
    <3> QED BY <2>2, <3>4, <3>5, <3>6
  <2>4. CASE Keep(t, "f_dead", [my[t] EXCEPT !.ok = FALSE]) /\ UNCHANGED <<intent, events>>
    <3> DEFINE j == [my[t] EXCEPT !.ok = FALSE]
    <3>1. j.op = my[t].op /\ j.p = my[t].p /\ j.todo = my[t].todo /\ j.price = my[t].price
      BY <1>0 DEF Jobs
    <3>2. Keep(t, "f_dead", j)
      BY <2>4
    <3> HIDE DEF j
    <3> QED BY <2>0, <2>2, <2>4, <3>1, <3>2, Quietly
  <2> QED BY <1>8, <2>1, <2>3, <2>4 DEF FinalizeCancel
<1>9. ASSUME FinalizeDead(t) PROVE SellInv'
  <2> DEFINE q == First(my[t].todo)
             j == [my[t] EXCEPT !.todo = @ \ {q}, !.ok = FALSE]
  <2>1. /\ pay' = [pay EXCEPT ![q].dead = TRUE, ![q].st = IF my[t].ok THEN "cancelled" ELSE @]
        /\ Keep(t, "f_cancel", j) /\ UNCHANGED <<intent, sale>>
        /\ at[t] = "f_dead" /\ Unpaid(t)
    BY <1>1, <1>9 DEF FinalizeDead, orderVars, Unpaid
  <2>2. q \in Payments /\ my[t].op = "finalize"
    BY <1>0, <2>1 DEF Placed, Finalizes
  <2>3. j.op = my[t].op /\ j.p = my[t].p /\ j.todo = my[t].todo \ {q} /\ j.price = my[t].price
    BY <1>0 DEF Jobs
  <2> HIDE DEF q, j
  <2>4. OnlyRow(q) /\ pay'[q].dead /\ pay'[q].amount = pay[q].amount
    BY <1>0, <2>1, <2>2, RowMoves
  <2>5. Aside /\ q \notin Holding'
    BY <2>1, <2>2, <2>4, RowAside DEF Holding, Live
  <2>6. at'[t] = "f_cancel" /\ my'[t] = j
    BY <1>0, <2>1, Keeping
  <2>7. pay'[my[t].p].amount = pay[my[t].p].amount
    BY <1>0, <2>4 DEF OnlyRow
  <2>8. Worth(t)'
    BY <1>0, <2>1, <2>2, <2>3, <2>5, <2>6, <2>7 DEF Worth, Aside
  <2> QED BY <1>6, <2>1, <2>3, <2>5, <2>8 DEF Selling
<1>10. ASSUME FinalizeMark(t) PROVE SellInv'
  <2>1. /\ pay' = pay \/ pay' = [pay EXCEPT ![my[t].p].st = "authorized"]
        /\ Keep(t, "find", my[t]) /\ UNCHANGED <<intent, sale>> /\ at[t] = "f_mark" /\ Unpaid(t)
    BY <1>1, <1>10 DEF FinalizeMark, orderVars, Unpaid, Go
  <2>2. my[t].op = "finalize" /\ sale.by = "expert"
    BY <1>0, <1>2, <2>1 DEF Placed, Finalizes, For
  <2>3. OnlyRow(my[t].p) /\ pay'[my[t].p].amount = pay[my[t].p].amount
    BY <1>0, <2>1, RowMoves DEF Statuses, OnlyRow, MoneyTyped
  <2>4. Holding' \subseteq {my[t].p}
    BY <1>0, <2>1, <2>3 DEF Worth, Holding, Live, Rows, OnlyRow
  <2>5. at'[t] = "find" /\ my'[t] = my[t]
    BY <1>0, <2>1, Keeping
  <2>6. Worth(t)'
    BY <1>0, <2>1, <2>2, <2>3, <2>4, <2>5 DEF Worth
  <2>7. OrderInv' /\ Captured' = {}
    BY <1>0, <1>2, <1>4, <2>1, <2>2 DEF OrderInv
  <2> QED BY <1>1, <2>1, <2>6, <2>7, SellOn DEF Selling
<1>11. ASSUME FindActive(t) PROVE SellInv'
  <2>1. UNCHANGED <<pay, intent, sale>> /\ at[t] = "find" /\ Unpaid(t) /\ Aside
    BY <1>1, <1>11, Quietly DEF FindActive, orderVars, moneyVars, Unpaid
  <2>2. \A p \in Payments : RowOK(p) /\ p \notin Captured
    BY <1>2, <2>1 DEF SaleInv, MoneyInv
  <2>3. \A p \in Holding : pay[p].st = "authorized" /\ pay[p].named
    BY <2>2 DEF Holding, Live, Rows, RowOK, Captured
  <2>4. Holding # {} => Active = Holding
    BY DEF Active
  <2>5. CASE Go(t, "failed") /\ Holding = {}
    <3>1. at'[t] = "failed" /\ my'[t] = my[t] /\ Keep(t, "failed", my[t])
      BY <1>0, <2>5, Keeping DEF Go
    <3>2. OthersDead'
      BY <1>3, <2>1, <2>5 DEF OthersDead
    <3>3. Worth(t)'
      BY <3>1, <3>2 DEF Worth
    <3> QED BY <1>6, <2>1, <3>1, <3>3 DEF Selling
  <2>6. ASSUME NEW p \in Holding, Keep(t, "capture", [my[t] EXCEPT !.todo = {p}])
        PROVE  SellInv'
    <3> DEFINE j == [my[t] EXCEPT !.todo = {p}]
    <3>1. /\ j.op = my[t].op /\ j.p = my[t].p /\ j.todo = {p} /\ j.price = my[t].price
          /\ Keep(t, "capture", j) /\ p \in Payments
      BY <1>0, <2>6 DEF Jobs, Holding, Live, Rows
    <3> HIDE DEF j
    <3>2. at'[t] = "capture" /\ my'[t] = j
      BY <1>0, <3>1, Keeping
    <3>3. IF my[t].op = "finalize" THEN p = my[t].p ELSE p = Base \/ intent[p] = "canceled"
      BY <1>0, <1>2, <2>1, <2>6 DEF Worth, OrderInv, OthersDead, For
    <3>4. Worth(t)'
      BY <1>0, <1>3, <2>1, <3>1, <3>2, <3>3 DEF Worth
    <3> QED BY <1>6, <2>1, <3>1, <3>4 DEF Selling
  <2>7. Holding = {} => \A p \in Active : pay[p].st \notin {"authorized", "succeeded"}
    BY DEF Active, Holding
  <2> QED BY <1>11, <2>3, <2>4, <2>5, <2>6, <2>7 DEF FindActive
<1>12. ASSUME Capture(t) PROVE SellInv'
  <2>0. /\ UNCHANGED <<pay, sale>> /\ at[t] = "capture" /\ Unpaid(t) /\ Captured = {}
    BY <1>1, <1>2, <1>12 DEF Capture, orderVars, Unpaid
  <2>1. PICK p \in Payments :
          /\ my[t].todo = {p}
          /\ IF my[t].op = "finalize" THEN p = my[t].p ELSE p = Base \/ intent[p] = "canceled"
    BY <1>0, <2>0 DEF Worth
  <2>2. First(my[t].todo) = p /\ intent \in [Payments -> Intents]
    BY <1>0, <2>1, FirstOfOne DEF MoneyTyped
  <2>3. CASE intent[p] \in {"held", "captured"} /\ intent' = [intent EXCEPT ![p] = "captured"]
             /\ Go(t, "captured")
    <3>1. Captured' = {p}
      BY <2>0, <2>2, <2>3 DEF Captured
    <3>2. at'[t] = "captured" /\ my'[t] = my[t] /\ Keep(t, "captured", my[t])
      BY <1>0, <2>3, Keeping DEF Go
    <3>3. my[t].op # "finalize" => p = Base
      BY <2>1, <2>3
    <3>4. sale.by # "expert" => my[t].op # "finalize"
      BY <1>2 DEF For
    <3>5. pay[Base].amount = Tariff
      BY DEF SaleInv, MoneyInv
    <3>6. OrderInv'
      <4>1. OthersDead => OthersDead'
        BY <1>3, <2>0, <2>2, <2>3 DEF OthersDead
      <4>2. sale.by # "nobody"
        BY <1>2 DEF For
      <4> QED BY <1>0, <1>2, <2>0, <3>1, <4>1, <4>2 DEF OrderInv, Open
    <3>7. pay[p].amount = (IF my[t].op = "finalize" THEN my[t].price ELSE sale.total)
      BY <1>0, <1>2, <2>0, <2>1, <3>3, <3>5 DEF Worth, OrderInv, For
    <3>8. Worth(t)'
      BY <2>0, <2>1, <3>1, <3>2, <3>3, <3>7 DEF Worth
    <3> QED BY <1>1, <2>0, <3>2, <3>6, <3>8, SellOn DEF Selling
  <2>4. CASE intent[p] \notin {"held", "captured"} /\ Go(t, "failed") /\ UNCHANGED intent
    <3>1. at'[t] = "failed" /\ my'[t] = my[t] /\ Keep(t, "failed", my[t])
      BY <1>0, <2>4, Keeping DEF Go
    <3>2. OthersDead
      <4>1. CASE my[t].op = "finalize"
        <5>1. intent[p] = "canceled"
          BY <1>0, <2>1, <2>4, <4>1 DEF Aware, Told, Touched
        <5> QED BY <1>0, <2>0, <2>1, <4>1, <5>1 DEF Worth, OthersDead
      <4>2. CASE my[t].op # "finalize"
        BY <1>0, <1>2, <4>2 DEF OrderInv, For
      <4> QED BY <4>1, <4>2
    <3>3. OthersDead'
      BY <1>3, <2>0, <2>4, <3>2 DEF OthersDead
    <3>4. Worth(t)'
      BY <3>1, <3>3 DEF Worth
    <3> QED BY <1>6, <2>0, <2>4, <3>1, <3>4, Quietly DEF Selling
  <2> QED BY <1>12, <2>2, <2>3, <2>4 DEF Capture, CapturesTell
<1>13. ASSUME MarkCaptured(t) PROVE SellInv'
  <2>0. /\ pay' = [pay EXCEPT ![First(my[t].todo)].st = "succeeded"]
        /\ UNCHANGED <<intent, sale>> /\ at[t] = "captured" /\ Keep(t, "sold", my[t])
    BY <1>13 DEF MarkCaptured, orderVars, Go
  <2>1. PICK q \in Captured : my[t].todo = {q} /\ (my[t].op # "finalize" => q = Base)
    BY <1>0, <2>0 DEF Worth
  <2>2. First(my[t].todo) = q /\ q \in Payments
    BY <2>1, FirstOfOne DEF Captured
  <2>3. OnlyRow(q) /\ pay'[q].amount = pay[q].amount
    BY <1>0, <2>0, <2>2, RowMoves DEF Statuses
  <2>4. Holding' \subseteq Holding \cup {q}
    BY <2>2, <2>3 DEF Holding, Live, Rows, OnlyRow
  <2>5. sale.by # "expert" => q = Base
    BY <1>2, <2>1 DEF For
  <2>6. OrderInv'
    BY <1>0, <1>4, <2>0, <2>4, <2>5 DEF OrderInv, OthersDead
  <2>7. at'[t] = "sold" /\ my'[t] = my[t]
    BY <1>0, <2>0, Keeping
  <2>8. \A p \in Captured : pay'[p].amount = pay[p].amount
    BY <2>2, <2>3 DEF OnlyRow, Captured
  <2>9. Worth(t)'
    BY <1>0, <1>4, <2>0, <2>7, <2>8 DEF Worth
  <2> QED BY <1>1, <2>0, <2>6, <2>9, SellOn DEF Selling
<1>14. ASSUME Failed(t) PROVE SellInv'
  <2>0. /\ UNCHANGED <<pay, intent>> /\ at[t] = "failed" /\ Unpaid(t) /\ Captured = {} /\ OthersDead
    BY <1>0, <1>1, <1>2, <1>14 DEF Failed, moneyVars, Unpaid, Worth
  <2>1. sale' = [sale EXCEPT !.by = "nobody"]
    BY <1>2, <1>14 DEF Failed, For
  <2>2. sale'.st = "open" /\ sale'.by = "nobody" /\ sale'.total = Tariff
    BY <1>0, <1>2, <2>0, <2>1 DEF TypeInv, TypeOK, Open, OrderInv
  <2>3. OrderInv'
    BY <1>3, <1>4, <2>0, <2>2 DEF OrderInv, OthersDead
  <2>4. PICK l, j : l \in {"back", "idle"} /\ Keep(t, l, j)
    BY <1>14 DEF Failed, Go, End
  <2>5. Moves(t) /\ at'[t] \in {"back", "idle"}
    BY <1>0, <2>4, Keeping
  <2>6. ~Seller(t)' /\ Worth(t)'
    BY <2>5 DEF Seller, Selling, Worth
  <2> QED BY <1>2, <2>3, <2>5, <2>6, SellOf
<1>15. ASSUME Sold(t) PROVE SellInv'
  <2>0. /\ UNCHANGED <<pay, intent>> /\ at[t] = "sold" /\ Keep(t, "assign", my[t])
    BY <1>15 DEF Sold, moneyVars, Go
  <2>1. /\ sale'.st = sale.st /\ sale'.by = sale.by
        /\ sale'.total = IF my[t].op = "finalize" THEN my[t].price ELSE sale.total
    BY <1>0, <1>15 DEF Sold, TypeInv, TypeOK
  <2>2. Captured # {} /\ \A p \in Captured : pay[p].amount = sale'.total
    BY <1>0, <2>0, <2>1 DEF Worth
  <2>3. sale.by # "expert" => sale'.total = sale.total
    BY <1>2, <2>1 DEF For
  <2>4. OrderInv'
    BY <1>0, <1>3, <1>4, <2>0, <2>1, <2>2, <2>3 DEF OrderInv, OthersDead
  <2>5. Moves(t) /\ at'[t] = "assign" /\ my'[t] = my[t]
    BY <1>0, <2>0, Keeping
  <2>6. Worth(t)'
    BY <1>4, <2>0, <2>2, <2>5 DEF Worth
  <2>7. Open' /\ sale'.by = For(my'[t]) /\ ~Unpaid(t)'
    BY <1>2, <2>1, <2>5 DEF Open, Unpaid
  <2> QED BY <1>2, <2>4, <2>5, <2>6, <2>7, SellOf
<1>16. ASSUME Assign(t) PROVE SellInv'
  <2>0. /\ UNCHANGED <<pay, intent>> /\ at[t] = "assign" /\ Keep(t, "idle", NoJob)
        /\ sale' = [sale EXCEPT !.st = "assigned"]
    BY <1>2, <1>16 DEF Assign, moneyVars, End
  <2>1. sale'.st = "assigned" /\ sale'.by = sale.by /\ sale'.total = sale.total
    BY <1>0, <2>0 DEF TypeInv, TypeOK
  <2>2. OrderInv'
    BY <1>0, <1>3, <1>4, <2>0, <2>1 DEF OrderInv, OthersDead
  <2>3. Moves(t) /\ at'[t] = "idle"
    BY <1>0, <2>0, Keeping
  <2>4. ~Seller(t)' /\ Worth(t)'
    BY <2>3 DEF Seller, Selling, Worth
  <2> QED BY <1>2, <2>2, <2>3, <2>4, SellOf
<1> QED BY <1>7, <1>8, <1>9, <1>10, <1>11, <1>12, <1>13, <1>14, <1>15, <1>16

LEMMA SaleStep ==
  ASSUME CapturesTell, SaleInv, [Next]_vars
  PROVE  SaleInv'
<1>1. CASE UNCHANGED vars
  BY <1>1 DEF vars, orderVars, moneyVars, SaleInv, TypeInv, TypeOK, Placed, MoneyInv, RowOK, Aware,
     Told, Touched, SellInv, OrderInv, OthersDead, Seller, Unpaid, Worth, Captured, Holding, Live,
     Rows, Open
<1>2. CASE Next
  <2>1. TypeInv' /\ MoneyInv' /\ Keeps
    BY <1>2, TypeStep, MoneyStep DEF SaleInv
  <2>2. SellInv'
    BY <1>2, <2>1, SellBegins, SellOutside, SellOfOthers, SellOfClaims, SellOfSellers
       DEF Next, Outside, Continue, FinalizeSteps
  <2> QED BY <2>1, <2>2 DEF SaleInv
<1> QED BY <1>1, <1>2

LEMMA SaleBegins == Init => SaleInv
<1> SUFFICES ASSUME Init PROVE SaleInv
  OBVIOUS
<1>1. TypeInv
  BY TypeInit
<1>2. \A p \in Payments : p # Base => pay[p] = NoPay /\ intent[p] = "none"
  BY DEF Init
<1>3. pay[Base] = [st |-> "authorized", amount |-> Tariff, named |-> TRUE, dead |-> FALSE]
      /\ intent[Base] = "held" /\ Base \in Payments
  BY DEF Init, Payments
<1>4. MoneyInv
  BY <1>2, <1>3, JobsAreTyped DEF Init, MoneyInv, RowOK, Aware, NoPay
<1>5. Captured = {} /\ OthersDead
  BY <1>2, <1>3 DEF Captured, OthersDead, Holding, Live, Rows, NoPay
<1>6. SellInv
  BY <1>5 DEF Init, SellInv, OrderInv, Seller, Selling, Unpaid, Worth
<1> QED BY <1>1, <1>4, <1>6 DEF SaleInv

-----------------------------------------------------------------------------
\* The hand-over implements Sale.  One step captures, one agrees on the price, one sells and
\* one cancels; all the others leave what the customer was promised as it was.
Still == sale'.st = sale.st /\ sale'.total = sale.total /\ Captured' = Captured

LEMMA OneIntent ==
  ASSUME TypeInv, NEW q \in Payments, NEW v, v # "captured", intent[q] # "captured",
         intent' = [intent EXCEPT ![q] = v]
  PROVE  Captured' = Captured
<1>1. intent \in [Payments -> Intents]
  BY DEF TypeInv, TypeOK
<1> QED BY <1>1 DEF Captured

LEMMA FourSteps ==
  ASSUME SaleInv, Next
  PROVE  \/ Still
         \/ \E t \in Tasks : Capture(t) \/ Sold(t) \/ Assign(t) \/ ExpireClaim(t)
<1>0. /\ TypeInv
      /\ sale \in [st : {"open", "assigned", "cancelled"},
                   by : {"nobody", "pool", "expert"}, total : Prices \cup {Tariff}]
  BY DEF SaleInv, TypeInv, TypeOK
<1>1. UNCHANGED <<sale, intent>> => Still
  BY DEF Still, Captured
<1>2. ASSUME NEW q \in Payments, NEW v, v # "captured", intent[q] # "captured",
             intent' = [intent EXCEPT ![q] = v], UNCHANGED sale
      PROVE  Still
  BY <1>0, <1>2, OneIntent DEF Still
<1>3. ASSUME Outside PROVE Still
  <2>1. UNCHANGED sale
    BY <1>3 DEF Outside, CustomerPays, Present, Decline, SearchEnds, PaymentLapses, orderVars
  <2>2. \/ intent' = intent
        \/ \E p \in Payments : intent[p] = "unpaid" /\ intent' = [intent EXCEPT ![p] = "held"]
    BY <1>3 DEF Outside, CustomerPays, Present, Decline, SearchEnds, PaymentLapses, moneyVars,
       Payments
  <2> QED BY <1>1, <1>2, <2>1, <2>2
<1>4. ASSUME NEW t \in Tasks,
             \/ Accept(t) \/ AcceptOffer(t) \/ Webhooks(t) \/ Crons(t) \/ Crash(t)
             \/ AcceptClaim(t) \/ AcceptRow(t) \/ AcceptName(t)
             \/ FinalizeScreen(t) \/ FinalizeOthers(t) \/ FinalizeDead(t) \/ FinalizeMark(t)
             \/ BackDead(t) \/ Pull(t) \/ FindActive(t) \/ MarkCaptured(t)
             \/ AbandonScreen(t) \/ AbandonFind(t) \/ AbandonDead(t)
             \/ ReleaseFind(t) \/ ReleaseMark(t) \/ HoldMark(t)
      PROVE  Still
  <2>1. UNCHANGED <<sale, intent>>
    BY <1>4 DEF Accept, AcceptOffer, Webhooks, Crons, Finalize, PaymentFailed, PaymentCanceled,
       Given, SweepExpired, ExpireUnfilledSearches, Stranded, Reconcile, Crash, AcceptClaim,
       AcceptRow, AcceptName, FinalizeScreen, FinalizeOthers, FinalizeDead, FinalizeMark, BackDead,
       Pull, FindActive, MarkCaptured, AbandonScreen, AbandonFind, AbandonDead, ReleaseFind,
       ReleaseMark, HoldMark, orderVars, moneyVars
  <2> QED BY <1>1, <2>1
<1>5. ASSUME NEW t \in Tasks, Claim(t) \/ Failed(t) PROVE Still
  <2>1. UNCHANGED intent /\ sale'.st = sale.st /\ sale'.total = sale.total
    BY <1>0, <1>5 DEF Claim, Failed, moneyVars
  <2> QED BY <2>1 DEF Still, Captured
<1>6. ASSUME NEW t \in Tasks,
             \/ AcceptIntent(t) \/ FinalizeCancel(t) \/ BackCancel(t) \/ AbandonCancel(t)
             \/ ReleaseCancel(t) \/ HoldCancel(t)
      PROVE  Still
  <2>0. /\ my[t].p \in Payments /\ Aware(t)
        /\ my[t].todo # {} => First(my[t].todo) \in Payments
    BY FirstIn DEF SaleInv, TypeInv, TypeOK, Jobs, MoneyInv
  <2>1. UNCHANGED sale
    BY <1>6 DEF AcceptIntent, FinalizeCancel, BackCancel, AbandonCancel, ReleaseCancel, HoldCancel,
       orderVars
  <2>2. ASSUME NEW p \in Payments, NEW l, CancelIntent(t, p, l) PROVE Still
    BY <1>1, <1>2, <2>1, <2>2 DEF CancelIntent
  <2>3. CASE AcceptIntent(t)
    BY <1>2, <2>0, <2>1, <2>3 DEF AcceptIntent, Aware
  <2>4. CASE FinalizeCancel(t)
    BY <1>1, <2>0, <2>1, <2>2, <2>4 DEF FinalizeCancel
  <2>5. CASE BackCancel(t) \/ ReleaseCancel(t)
    BY <1>1, <2>0, <2>1, <2>2, <2>5 DEF BackCancel, ReleaseCancel
  <2>6. CASE AbandonCancel(t)
    BY <1>1, <1>2, <2>0, <2>1, <2>6 DEF AbandonCancel
  <2>7. CASE HoldCancel(t)
    BY <1>1, <1>2, <2>0, <2>1, <2>7 DEF HoldCancel
  <2> QED BY <1>6, <2>3, <2>4, <2>5, <2>6, <2>7
<1> QED BY <1>3, <1>4, <1>5, <1>6 DEF Next, Outside, Continue, FinalizeSteps

\* The state of the promise, as the refinement mapping reads it.
State == CASE sale.st = "open" -> "open" [] sale.st = "assigned" -> "sold"
           [] sale.st = "cancelled" -> "cancelled"
Charges == {[hold |-> p, amount |-> pay[p].amount] :
              p \in {q \in Payments : intent[q] = "captured"}}

LEMMA PromiseStep ==
  ASSUME CapturesTell, SaleInv, [Next]_vars
  PROVE  [Promise!Charge \/ Promise!Agree \/ Promise!Sell \/ Promise!Cancel]_(Promise!saleVars)
<1>0. /\ sale \in [st : {"open", "assigned", "cancelled"},
                   by : {"nobody", "pool", "expert"}, total : Prices \cup {Tariff}]
      /\ TypeInv /\ MoneyInv /\ SellInv
  BY DEF SaleInv, TypeInv, TypeOK
<1>1. \A p \in Captured : pay[p].st # "none"
  BY <1>0 DEF Captured, MoneyInv, RowOK
<1>2. ASSUME Keeps, Captured' = Captured PROVE Charges' = Charges
  <2>1. \A p \in Captured : pay'[p].amount = pay[p].amount
    BY <1>1, <1>2 DEF Keeps, Captured
  <2> QED BY <1>2, <2>1 DEF Charges, Captured
<1>3. ASSUME Keeps, Still PROVE UNCHANGED Promise!saleVars
  <2>1. State' = State /\ Charges' = Charges /\ sale'.total = sale.total
    BY <1>2, <1>3 DEF Still, State
  <2> QED BY <2>1 DEF Promise!saleVars, State, Charges
<1>4. CASE UNCHANGED vars
  <2>1. UNCHANGED <<sale, pay, intent>>
    BY <1>4 DEF vars, orderVars, moneyVars
  <2> QED BY <2>1 DEF Promise!saleVars
<1>5. CASE Next
  <2>1. MoneyInv' /\ Keeps /\ SaleInv'
    BY <1>0, <1>5, MoneyStep, SaleStep
  <2>2. ASSUME NEW t \in Tasks, Seller(t), ~Unpaid(t)
        PROVE  Open /\ Worth(t)
    BY <1>0, <2>2 DEF SellInv
  <2>3. ASSUME NEW t \in Tasks, Capture(t) PROVE Promise!Charge \/ Still
    <3>1. /\ UNCHANGED <<pay, sale>> /\ at[t] = "capture" /\ Unpaid(t) /\ Seller(t)
      BY <2>3 DEF Capture, orderVars, Unpaid, Seller, Selling
    <3>2. Open /\ Captured = {} /\ Worth(t)
      BY <1>0, <3>1 DEF SellInv
    <3>3. PICK p \in Payments : my[t].todo = {p}
      BY <3>1, <3>2 DEF Worth
    <3>4. First(my[t].todo) = p /\ intent \in [Payments -> Intents] /\ pay[p] \in PayRows
      BY <1>0, <3>3, FirstOfOne DEF TypeInv, TypeOK
    <3>5. CASE UNCHANGED intent
      BY <3>1, <3>5 DEF Still, Captured
    <3>6. CASE intent' = [intent EXCEPT ![p] = "captured"]
      <4>1. Captured' = {p}
        BY <3>2, <3>4, <3>6 DEF Captured
      <4>2. Charges' = {[hold |-> p, amount |-> pay[p].amount]} /\ Charges = {}
        BY <3>1, <3>2, <4>1 DEF Charges, Captured
      <4>3. State = "open" /\ State' = State /\ sale'.total = sale.total
        BY <3>1, <3>2 DEF State, Open
      <4>4. pay[p].amount \in Prices \cup {Tariff}
        BY <3>4 DEF PayRows
      <4> QED BY <4>2, <4>3, <4>4 DEF Promise!Charge, State, Charges
    <3> QED BY <2>3, <3>4, <3>5, <3>6 DEF Capture
  <2>4. ASSUME NEW t \in Tasks, Sold(t) PROVE Promise!Agree \/ Still
    <3>1. /\ UNCHANGED <<pay, intent>> /\ at[t] = "sold" /\ Seller(t) /\ ~Unpaid(t)
      BY <2>4 DEF Sold, moneyVars, Unpaid, Seller, Selling
    <3>2. Open /\ Worth(t)
      BY <2>2, <3>1
    <3>3. /\ sale'.st = sale.st
          /\ sale'.total = IF my[t].op = "finalize" THEN my[t].price ELSE sale.total
      BY <1>0, <2>4 DEF Sold
    <3>4. PICK p \in Captured : TRUE
      BY <3>1, <3>2 DEF Worth
    <3>5. pay[p].amount = sale'.total
      BY <3>1, <3>2, <3>3, <3>4 DEF Worth
    <3>6. [hold |-> p, amount |-> pay[p].amount] \in Charges
      BY <3>4 DEF Charges, Captured
    <3>7. State = "open" /\ State' = State /\ Charges' = Charges
      BY <3>1, <3>2, <3>3 DEF State, Open, Charges
    <3>8. \E c \in Charges : sale'.total = c.amount
      BY <3>5, <3>6
    <3> QED BY <3>7, <3>8 DEF Promise!Agree, State, Charges
  <2>5. ASSUME NEW t \in Tasks, Assign(t) PROVE Promise!Sell
    <3>1. /\ UNCHANGED <<pay, intent>> /\ at[t] = "assign" /\ Seller(t) /\ ~Unpaid(t)
      BY <2>5 DEF Assign, moneyVars, Unpaid, Seller, Selling
    <3>2. Open /\ Worth(t)
      BY <2>2, <3>1
    <3>3. sale'.st = "assigned" /\ sale'.total = sale.total
      BY <1>0, <2>5, <3>2 DEF Assign
    <3>4. PICK p \in Captured : pay[p].amount = sale.total
      BY <3>1, <3>2 DEF Worth
    <3>5. [hold |-> p, amount |-> pay[p].amount] \in Charges
      BY <3>4 DEF Charges, Captured
    <3>6. State = "open" /\ State' = "sold" /\ Charges' = Charges
      BY <3>1, <3>2, <3>3 DEF State, Open, Charges
    <3>7. \E c \in Charges : c.amount = sale.total
      BY <3>4, <3>5
    <3> QED BY <3>3, <3>6, <3>7 DEF Promise!Sell, State, Charges
  <2>6. ASSUME NEW t \in Tasks, ExpireClaim(t) PROVE Promise!Cancel \/ Still
    <3>1. UNCHANGED <<pay, intent>>
      BY <2>6 DEF ExpireClaim, moneyVars
    <3>2. CASE Searching
      <4>1. sale'.st = "cancelled" /\ sale'.total = sale.total
        BY <1>0, <2>6, <3>2 DEF ExpireClaim
      <4>2. Captured = {}
        BY <1>0, <3>2 DEF SellInv, OrderInv, Searching
      <4>3. State = "open" /\ State' = "cancelled" /\ Charges' = Charges /\ Charges = {}
        BY <3>1, <3>2, <4>1, <4>2 DEF State, Searching, Open, Charges, Captured
      <4> QED BY <4>1, <4>3 DEF Promise!Cancel, State, Charges
    <3>3. CASE ~Searching
      BY <2>6, <3>1, <3>3 DEF ExpireClaim, Still, Captured
    <3> QED BY <3>2, <3>3
  <2> QED BY <1>3, <1>5, <2>1, <2>3, <2>4, <2>5, <2>6, FourSteps
<1> QED BY <1>4, <1>5

LEMMA PromiseBegins == Init => Promise!SaleInit
<1> SUFFICES ASSUME Init PROVE Promise!SaleInit
  OBVIOUS
<1>1. \A p \in Payments : intent[p] # "captured"
  BY DEF Init
<1> QED BY <1>1 DEF Init, Promise!SaleInit

\* The customer is charged once at most and only while the order is being sold, it is sold for
\* what was charged, and an order that is cancelled was never charged, whatever overlaps.
THEOREM HandoverKeepsThePromise ==
  ASSUME CapturesTell
  PROVE  Spec => SaleKept
<1>1. Init => SaleInv
  BY SaleBegins
<1>2. SaleInv /\ [Next]_vars => SaleInv'
  BY SaleStep
<1>3. SaleInv /\ [Next]_vars =>
        [Promise!Charge \/ Promise!Agree \/ Promise!Sell \/ Promise!Cancel]_(Promise!saleVars)
  BY PromiseStep
<1> QED BY <1>1, <1>2, <1>3, PromiseBegins, PTL DEF Spec, SaleKept, Promise!SaleSpec
-----------------------------------------------------------------------------
\* That a hold covers the order.  It is shown where cancels may fail but captures do not, no
\* process dies, and a payment is not finalized and abandoned at once: a capture that fails,
\* or a process that dies over it, gives back the second hold when the first is gone.
Calm == Faults \subseteq {"cancelFails"}

Abandons == {"failed", "canceled", "sweepExpired"}
Paying(t) == my[t].op = "finalize"

\* A hold that an order may be sold on, and an order that no such hold has claimed yet.
Sound(p) == ~pay[p].dead /\ pay[p].st # "cancelled" /\ intent[p] \in {"held", "captured"}
Untaken == Open /\ sale.by # "expert"
Counted(p) == pay[p].st \in {"authorized", "succeeded"}

\* Where a function is tells what it works on.
Steady(t) ==
  /\ at[t] \in {"r_find", "r_cancel", "r_mark"} => sale.st = "cancelled"
  /\ at[t] \in {"h_cancel", "h_mark"} => pay[my[t].p].dead
  /\ at[t] \in {"a_screen", "a_find", "a_cancel", "a_dead"} => my[t].op \in Abandons
  /\ at[t] \in {"f_cancel", "f_dead"} => my[t].p \notin my[t].todo
  /\ at[t] = "failed" => ~Paying(t)

\* The seller's own hold stands until it is captured.
Stands(t) ==
  Seller(t) /\ Paying(t) =>
    /\ Sound(my[t].p)
    /\ at[t] \in {"find", "capture", "captured", "sold", "assign"} => Counted(my[t].p)
    /\ at[t] = "capture" => my[t].todo = {my[t].p}

\* Stripe tells of a hold once, and nobody gives up a price that is being paid.
OneEach ==
  /\ \A t, u \in Tasks : Paying(t) /\ Paying(u) /\ my[t].p = my[u].p => t = u
  /\ \A t \in Tasks, e \in events : Paying(t) /\ e.type = "capturable" => my[t].p # e.p
  /\ ~(Finalizing /\ Abandoning)

\* A hold that Stripe has told of, or will, is sound as long as nobody has the order, or is
\* about to be written off.
Dropping(t) == at[t] \in {"a_cancel", "a_dead"}
Expected(p) == pay[p].dead \/ pay[p].st = "cancelled" \/ Sound(p) \/ \E u \in Tasks : Dropping(u)
Waits ==
  Untaken =>
    /\ intent[Base] \in {"held", "captured"}
    /\ \A t \in Tasks : at[t] \in {"f_screen", "f_claim"} => Sound(my[t].p)
    /\ \A e \in events : e.type = "capturable" => Expected(e.p)

CoverInv ==
  /\ \A t \in Tasks : Steady(t) /\ Stands(t)
  /\ OneEach /\ Waits
  /\ Open /\ sale.by = "expert" => \E t \in Tasks : Seller(t)

\* What a step of t owes to the functions that wait, and to the seller if that is another.
Spares(t) ==
  /\ \A p \in Payments : pay[p].dead /\ pay[p].st # "none" => pay'[p].dead
  /\ sale.st = "cancelled" => sale'.st = "cancelled"
  /\ Untaken' => Untaken
  /\ \A u \in Tasks \ {t} : Paying(u) /\ Sound(my[u].p) /\ (Untaken' \/ (Seller(u) /\ Open')) =>
       Sound(my[u].p)' /\ (Counted(my[u].p) => Counted(my[u].p)')
  /\ Untaken' => \A e \in events : e.type = "capturable" /\ Expected(e.p) => Expected(e.p)'

\* A step neither begins to finalize nor to abandon.
Goes(t) ==
  /\ Moves(t)
  /\ Paying(t)' => Paying(t) /\ my'[t].p = my[t].p
  /\ my'[t].op \in Abandons => my[t].op \in Abandons

LEMMA CoverOf ==
  ASSUME SaleInv, SaleInv', CoverInv, NEW t \in Tasks, Goes(t), Spares(t), NoNews,
         Steady(t)', Stands(t)',
         Untaken' => intent'[Base] \in {"held", "captured"},
         Untaken' => (at'[t] \in {"f_screen", "f_claim"} => Sound(my[t].p)'),
         Open' /\ sale'.by = "expert" => Seller(t)' \/ (sale.by = "expert" /\ Open /\ ~Seller(t))
  PROVE  CoverInv'
<1>0. /\ \A u \in Tasks : my[u] \in Jobs /\ my[u].p \in Payments /\ Placed(u) /\ Placed(u)'
      /\ \A u \in Tasks : Seller(u)' => Open'
  BY DEF SaleInv, SellInv, TypeInv, TypeOK, Jobs
<1>1. \A u \in Tasks \ {t} : at'[u] = at[u] /\ my'[u] = my[u]
  BY DEF Goes, Moves, Others
<1>2. ASSUME NEW u \in Tasks PROVE Steady(u)'
  <2>1. CASE u = t
    BY <2>1
  <2>2. CASE u # t
    <3>1. at[u] \in {"h_cancel", "h_mark"} => pay[my[u].p].st # "none"
      BY <1>0 DEF SaleInv, MoneyInv, Aware, RowOK
    <3> QED BY <1>0, <1>1, <2>2, <3>1 DEF CoverInv, Steady, Spares, Paying
  <2> QED BY <2>1, <2>2
<1>3. ASSUME NEW u \in Tasks PROVE Stands(u)'
  <2>1. CASE u = t
    BY <2>1
  <2>2. CASE u # t
    <3> SUFFICES ASSUME Seller(u)', Paying(u)'
                 PROVE  Stands(u)'
      BY DEF Stands
    <3>1. Seller(u) /\ Paying(u) /\ Open'
      BY <1>0, <1>1, <2>2 DEF Seller, Paying
    <3>2. Stands(u) /\ Sound(my[u].p)
      BY <3>1 DEF CoverInv, Stands
    <3>3. Sound(my[u].p)' /\ (Counted(my[u].p) => Counted(my[u].p)')
      BY <2>2, <3>1, <3>2 DEF Spares
    <3> QED BY <1>1, <2>2, <3>1, <3>2, <3>3 DEF Stands
  <2> QED BY <2>1, <2>2
<1>4. OneEach'
  <2>1. \A u \in Tasks : Paying(u)' => Paying(u) /\ my'[u].p = my[u].p
    BY <1>1 DEF Goes, Paying
  <2>2. \A u \in Tasks : my'[u].op \in Abandons => my[u].op \in Abandons
    BY <1>1 DEF Goes
  <2>3. ASSUME NEW u \in Tasks, NEW v \in Tasks, Paying(u)', Paying(v)', my'[u].p = my'[v].p
        PROVE  u = v
    BY <2>1, <2>3 DEF CoverInv, OneEach
  <2>4. ASSUME NEW u \in Tasks, NEW e \in events', Paying(u)', e.type = "capturable"
        PROVE  my'[u].p # e.p
    BY <2>1, <2>4 DEF CoverInv, OneEach, NoNews
  <2>5. ~(Finalizing' /\ Abandoning')
    BY <2>1, <2>2 DEF CoverInv, OneEach, Finalizing, Abandoning, Paying, Abandons
  <2> QED BY <2>3, <2>4, <2>5 DEF OneEach
<1>5. Waits'
  <2> SUFFICES ASSUME Untaken' PROVE Waits'
    BY DEF Waits
  <2>0. Untaken
    BY DEF Spares
  <2>1. ASSUME NEW u \in Tasks, at'[u] \in {"f_screen", "f_claim"} PROVE Sound(my[u].p)'
    <3>1. CASE u = t
      BY <2>1, <3>1
    <3>2. CASE u # t
      <4>1. at[u] \in {"f_screen", "f_claim"} /\ Paying(u)
        BY <1>0, <1>1, <2>1, <3>2 DEF Placed, Finalizes, Paying
      <4>2. Sound(my[u].p)
        BY <2>0, <4>1 DEF CoverInv, Waits
      <4> QED BY <3>2, <4>1, <4>2 DEF Spares
    <3> QED BY <3>1, <3>2
  <2>2. ASSUME NEW u \in Tasks, at'[u] \in {"f_screen", "f_claim"} PROVE my'[u].p = my[u].p
    BY <1>0, <1>1, <2>2 DEF Goes, Placed, Finalizes, Paying
  <2>3. ASSUME NEW e \in events', e.type = "capturable" PROVE Expected(e.p)'
    <3>1. e \in events
      BY <2>3 DEF NoNews
    <3>2. Expected(e.p)
      BY <2>0, <2>3, <3>1 DEF CoverInv, Waits
    <3> QED BY <2>3, <3>1, <3>2 DEF Spares
  <2> QED BY <2>1, <2>2, <2>3 DEF Waits, Sound
<1>6. Open' /\ sale'.by = "expert" => \E u \in Tasks : Seller(u)'
  <2> SUFFICES ASSUME Open', sale'.by = "expert", ~Seller(t)' PROVE \E u \in Tasks : Seller(u)'
    OBVIOUS
  <2>1. PICK u \in Tasks : Seller(u)
    BY DEF CoverInv
  <2>2. u # t
    BY <2>1
  <2> QED BY <1>1, <2>1, <2>2 DEF Seller
<1> QED BY <1>2, <1>3, <1>4, <1>5, <1>6 DEF CoverInv
\* Steps that write neither the ledger nor the order.
LEMMA CoverOfQuiet ==
  ASSUME SaleInv, SaleInv', CoverInv, NEW t \in Tasks, Goes(t), NoNews,
         UNCHANGED <<sale, pay, intent>>, Steady(t)', Stands(t)',
         at'[t] \in {"f_screen", "f_claim"} => at[t] = "f_screen",
         Dropping(t) => Dropping(t)', Seller(t) => Seller(t)'
  PROVE  CoverInv'
<1>1. \A p \in Payments : /\ Sound(p)' <=> Sound(p)
                          /\ Counted(p)' <=> Counted(p)
  BY DEF Sound, Counted
<1>2. (Untaken' <=> Untaken) /\ (Open' <=> Open)
  BY DEF Untaken, Open
<1>3. \A u \in Tasks : my[u].p \in Payments
  BY DEF SaleInv, TypeInv, TypeOK, Jobs
<1>4. \A u \in Tasks : Dropping(u) => Dropping(u)'
  BY DEF Goes, Moves, Others, Dropping
<1>5. \A e \in events : Expected(e.p) => Expected(e.p)'
  BY <1>4 DEF Expected, Sound
<1>6. Spares(t)
  <2>1. sale' = sale /\ pay' = pay
    OBVIOUS
  <2>2. \A u \in Tasks \ {t} : Sound(my[u].p) =>
          Sound(my[u].p)' /\ (Counted(my[u].p) => Counted(my[u].p)')
    <3> SUFFICES ASSUME NEW u \in Tasks \ {t}, Sound(my[u].p)
                 PROVE  Sound(my[u].p)' /\ (Counted(my[u].p) => Counted(my[u].p)')
      OBVIOUS
    <3>1. my'[u] = my[u]
      BY DEF Goes, Moves, Others
    <3> QED BY <2>1, <3>1 DEF Sound, Counted
  <2> QED BY <1>2, <1>5, <2>1, <2>2 DEF Spares
<1>7. Untaken' => intent'[Base] \in {"held", "captured"}
  BY <1>2 DEF CoverInv, Waits
<1>8. Untaken' => (at'[t] \in {"f_screen", "f_claim"} => Sound(my[t].p)')
  <2>1. ASSUME Untaken', at'[t] \in {"f_screen", "f_claim"} PROVE Sound(my[t].p)'
    <3>1. at[t] = "f_screen" /\ Sound(my[t].p)
      BY <1>2, <2>1 DEF CoverInv, Waits
    <3>2. Paying(t)'
      BY <2>1 DEF SaleInv, TypeInv, Placed, Finalizes, Paying
    <3> QED BY <1>1, <1>3, <3>1, <3>2 DEF Goes
  <2> QED BY <2>1
<1> QED BY <1>2, <1>6, <1>7, <1>8, CoverOf

\* A function that starts.
LEMMA CoverBegins ==
  ASSUME Calm, SaleInv, SaleInv', CoverInv, NEW t \in Tasks,
         \/ Accept(t) \/ AcceptOffer(t) \/ Webhooks(t) \/ Crons(t)
  PROVE  CoverInv'
<1>0. /\ TypeInv /\ LocalsOK /\ Base \in Payments /\ Replacements \subseteq Payments
      /\ \A e \in events : e \in Events /\ e.p \in Payments
  BY TypeParts DEF SaleInv, TypeInv, TypeOK, Payments, Events
<1>1. ASSUME NEW l \in {"claim", "c_claim", "e_claim", "r_find", "h_cancel"},
             NEW op \in HandlerNames \ ({"finalize"} \cup Abandons), NEW p \in Payments,
             Begin(t, l, Job(op, p)), UNCHANGED <<sale, moneyVars>>,
             l = "r_find" => sale.st = "cancelled", l = "h_cancel" => pay[p].dead
      PROVE  CoverInv'
  <2>0. l \in Labels
    BY LabelsAre
  <2>1. Moves(t) /\ at[t] = "idle" /\ at'[t] = l /\ my'[t] = Job(op, p)
    BY <1>0, <1>1, <2>0, BeginMoves
  <2>2. my'[t].op = op /\ my'[t].p = p
    BY <2>1 DEF Job
  <2>3. Goes(t) /\ Steady(t)' /\ Stands(t)' /\ NoNews /\ UNCHANGED <<sale, pay, intent>>
    BY <1>1, <2>1, <2>2 DEF Goes, Steady, Stands, Seller, Selling, NoNews, moneyVars, Paying, Abandons
  <2> QED BY <1>1, <2>1, <2>3, CoverOfQuiet DEF Dropping, Seller, Selling
<1>2. ASSUME Accept(t) \/ AcceptOffer(t) \/ ExpireUnfilledSearches(t) \/ Stranded(t) PROVE CoverInv'
  <2>1. UNCHANGED <<sale, moneyVars>>
    BY <1>2 DEF Accept, AcceptOffer, ExpireUnfilledSearches, Stranded, orderVars, moneyVars
  <2>2. CASE Accept(t)
    BY <1>0, <1>1, <2>1, <2>2 DEF Accept, HandlerNames, Abandons
  <2>3. CASE AcceptOffer(t)
    BY <1>0, <1>1, <2>1, <2>3 DEF AcceptOffer, HandlerNames, Abandons
  <2>4. CASE ExpireUnfilledSearches(t)
    BY <1>0, <1>1, <2>1, <2>4 DEF ExpireUnfilledSearches, HandlerNames, Abandons
  <2>5. CASE Stranded(t)
    BY <1>0, <1>1, <2>1, <2>5 DEF Stranded, HandlerNames, Abandons
  <2> QED BY <1>2, <2>2, <2>3, <2>4, <2>5
<1>3. ASSUME Reconcile(t) PROVE CoverInv'
  <2>1. PICK p \in Abandoned : Begin(t, "h_cancel", Job("reconcile", p))
    BY <1>3 DEF Reconcile
  <2>2. p \in Payments /\ pay[p].dead
    BY DEF Abandoned, Rows
  <2>3. UNCHANGED <<sale, moneyVars>>
    BY <1>3 DEF Reconcile, orderVars
  <2> QED BY <1>1, <2>1, <2>2, <2>3 DEF HandlerNames, Abandons
<1>4. ASSUME NEW op \in Abandons, NEW p \in Payments, ~Finalizing,
             Begin(t, "a_screen", Job(op, p)), UNCHANGED <<sale, pay, intent>>,
             events' \subseteq events
      PROVE  CoverInv'
  <2>0. "a_screen" \in Labels /\ op \in HandlerNames
    BY LabelsAre DEF Abandons, HandlerNames
  <2>1. Moves(t) /\ at[t] = "idle" /\ at'[t] = "a_screen" /\ my'[t] = Job(op, p)
    BY <1>0, <1>4, <2>0, BeginMoves
  <2>2. my'[t].op = op
    BY <2>1 DEF Job
  <2>3. \A u \in Tasks : ~Paying(u)'
    BY <1>4, <2>1, <2>2 DEF Moves, Others, Finalizing, Paying, Abandons
  <2>4. OneEach'
    BY <2>3 DEF OneEach, Finalizing, Paying
  <2>5. \A u \in Tasks \ {t} : at'[u] = at[u] /\ my'[u] = my[u]
    BY <2>1 DEF Moves, Others
  <2>6. \A u \in Tasks : Steady(u)' /\ Stands(u)'
    BY <1>4, <2>1, <2>2, <2>3, <2>5 DEF CoverInv, Steady, Stands, Paying
  <2>7. Waits'
    <3>1. \A u \in Tasks : at'[u] \in {"f_screen", "f_claim"} => Paying(u)'
      BY DEF SaleInv, TypeInv, Placed, Finalizes, Paying
    <3>2. \A u \in Tasks : Dropping(u) => Dropping(u)'
      BY <2>1, <2>5 DEF Dropping
    <3>3. \A e \in events : Expected(e.p) => Expected(e.p)'
      BY <1>4, <3>2 DEF Expected, Sound
    <3> QED BY <1>4, <2>3, <3>1, <3>3 DEF CoverInv, Waits, Untaken, Open
  <2>8. Open' /\ sale'.by = "expert" => \E u \in Tasks : Seller(u)'
    BY <1>4, <2>1, <2>5 DEF CoverInv, Open, Seller, Selling
  <2> QED BY <2>4, <2>6, <2>7, <2>8 DEF CoverInv
<1>5. ASSUME PaymentFailed(t) \/ PaymentCanceled(t) PROVE CoverInv'
  <2>1. PICK type \in {"failed", "canceled"} : Given(t, type)
    BY <1>5 DEF PaymentFailed, PaymentCanceled
  <2>2. PICK e \in events : /\ "crossed" \in Faults \/ ~Finalizing
                            /\ events' = events \ {e}
                            /\ Begin(t, "a_screen", Job(type, e.p))
                            /\ UNCHANGED <<orderVars, pay, intent>>
    BY <2>1 DEF Given
  <2> QED BY <1>0, <1>4, <2>2 DEF Calm, Abandons, orderVars
<1>6. ASSUME SweepExpired(t) PROVE CoverInv'
  <2>1. /\ ~Finalizing /\ Begin(t, "a_screen", Job("sweepExpired", Base))
        /\ UNCHANGED <<sale, pay, intent, events>>
    BY <1>6 DEF SweepExpired, Calm, orderVars, moneyVars
  <2> QED BY <1>0, <1>4, <2>1 DEF Abandons
<1>7. ASSUME Finalize(t) PROVE CoverInv'
  <2>1. PICK e \in events :
          /\ e.type = "capturable" /\ events' = events \ {e}
          /\ "crossed" \in Faults \/ ~Abandoning
          /\ \/ /\ ~pay[e.p].dead /\ pay[e.p].st # "cancelled"
                /\ Begin(t, "f_screen", Job("finalize", e.p))
             \/ UNCHANGED <<at, my>>
    BY <1>7 DEF Finalize
  <2>2. UNCHANGED <<sale, pay, intent>> /\ ~Abandoning
    BY <1>7, <2>1 DEF Finalize, orderVars, Calm
  <2>3. CASE UNCHANGED <<at, my>>
    <3>1. \A u \in Tasks : Steady(u)' /\ Stands(u)'
      BY <2>2, <2>3 DEF CoverInv, Steady, Stands, Seller, Paying, Sound, Counted
    <3>2. OneEach'
      BY <2>1, <2>3 DEF CoverInv, OneEach, Paying, Finalizing, Abandoning
    <3>3. Waits'
      BY <2>1, <2>2, <2>3 DEF CoverInv, Waits, Untaken, Open, Expected, Sound, Dropping
    <3> QED BY <2>2, <2>3, <3>1, <3>2, <3>3 DEF CoverInv, Open, Seller
  <2>4. CASE /\ ~pay[e.p].dead /\ pay[e.p].st # "cancelled"
             /\ Begin(t, "f_screen", Job("finalize", e.p))
    <3>0. "f_screen" \in Labels /\ "finalize" \in HandlerNames
      BY LabelsAre DEF HandlerNames
    <3>1. Moves(t) /\ at[t] = "idle" /\ at'[t] = "f_screen" /\ my'[t] = Job("finalize", e.p)
      BY <1>0, <2>4, <3>0, BeginMoves
    <3>2. my'[t].op = "finalize" /\ my'[t].p = e.p
      BY <3>1 DEF Job
    <3>3. \A u \in Tasks \ {t} : at'[u] = at[u] /\ my'[u] = my[u]
      BY <3>1 DEF Moves, Others
    <3>4. \A u \in Tasks : Steady(u)' /\ Stands(u)'
      BY <2>2, <3>1, <3>3 DEF CoverInv, Steady, Stands, Seller, Selling, Paying, Sound, Counted
    <3>5. OneEach'
      <4>1. ASSUME NEW u \in Tasks, NEW v \in Tasks, Paying(u)', Paying(v)', my'[u].p = my'[v].p
            PROVE  u = v
        BY <2>1, <3>2, <3>3, <4>1 DEF CoverInv, OneEach, Paying
      <4>2. ASSUME NEW u \in Tasks, NEW d \in events', Paying(u)', d.type = "capturable"
            PROVE  my'[u].p # d.p
        <5>1. d \in events /\ d # e
          BY <2>1
        <5>2. d.p # e.p
          BY <1>0, <2>1, <4>2, <5>1 DEF Events
        <5> QED BY <3>2, <3>3, <4>2, <5>1, <5>2 DEF CoverInv, OneEach, Paying
      <4>3. ~Abandoning'
        BY <2>2, <3>2, <3>3 DEF Abandoning
      <4> QED BY <4>1, <4>2, <4>3 DEF OneEach
    <3>6. Waits'
      <4>1. Untaken => Sound(e.p)
        <5>1. \A u \in Tasks : ~Dropping(u)
          BY <2>2 DEF CoverInv, Steady, Dropping, Abandoning, Abandons
        <5> QED BY <2>1, <2>4, <5>1 DEF CoverInv, Waits, Expected
      <4>2. \A u \in Tasks : Dropping(u) => Dropping(u)'
        BY <3>1, <3>3 DEF Dropping
      <4>3. \A d \in events : Expected(d.p) => Expected(d.p)'
        BY <2>2, <4>2 DEF Expected, Sound
      <4>4. \A u \in Tasks : at'[u] \in {"f_screen", "f_claim"} =>
              (Untaken => Sound(my'[u].p))
        BY <3>2, <3>3, <4>1 DEF CoverInv, Waits
      <4> QED BY <2>1, <2>2, <4>3, <4>4 DEF CoverInv, Waits, Untaken, Open, Sound
    <3>7. Open' /\ sale'.by = "expert" => \E u \in Tasks : Seller(u)'
      BY <2>2, <3>1, <3>3 DEF CoverInv, Open, Seller, Selling
    <3> QED BY <3>4, <3>5, <3>6, <3>7 DEF CoverInv
  <2> QED BY <2>1, <2>3, <2>4
<1> QED BY <1>2, <1>3, <1>5, <1>6, <1>7 DEF Webhooks, Crons

\* The customer pays, the queue shows a price, and time passes.
LEMMA CoverOutside ==
  ASSUME SaleInv, SaleInv', CoverInv, Outside
  PROVE  CoverInv'
<1>1. UNCHANGED <<sale, pay, at, my>>
  BY DEF Outside, CustomerPays, Present, Decline, SearchEnds, PaymentLapses, orderVars, moneyVars
<1>2. CASE UNCHANGED <<intent, events>>
  <2>1. \A u \in Tasks : Steady(u)' /\ Stands(u)'
    BY <1>1, <1>2 DEF CoverInv, Steady, Stands, Seller, Paying, Sound, Counted
  <2>2. OneEach' /\ Waits'
    BY <1>1, <1>2 DEF CoverInv, OneEach, Paying, Finalizing, Abandoning, Waits, Untaken, Open,
       Expected, Sound, Dropping
  <2> QED BY <1>1, <2>1, <2>2 DEF CoverInv, Open, Seller
<1>3. CASE CustomerPays
  <2>1. PICK p \in Replacements :
          /\ intent[p] = "unpaid"
          /\ \/ /\ intent' = [intent EXCEPT ![p] = "held"]
                /\ events' = events \cup {[type |-> "capturable", p |-> p]}
             \/ /\ events' = events \cup {[type |-> "failed", p |-> p]}
                /\ UNCHANGED intent
    BY <1>3 DEF CustomerPays
  <2>2. intent \in [Payments -> Intents] /\ Replacements \subseteq Payments
    BY DEF SaleInv, TypeInv, TypeOK, Payments
  <2>3. \A q \in Payments : Sound(q) => Sound(q)'
    BY <1>1, <2>1, <2>2 DEF Sound
  <2>4. \A u \in Tasks : my[u].p \in Payments
    BY DEF SaleInv, TypeInv, TypeOK, Jobs
  <2>5. \A u \in Tasks : Steady(u)' /\ Stands(u)'
    BY <1>1, <2>3, <2>4 DEF CoverInv, Steady, Stands, Seller, Paying, Counted
  <2>6. \A u \in Tasks : Paying(u) => my[u].p # p
    BY <2>1 DEF SaleInv, MoneyInv, Aware, Told, Touched, Paying
  <2>7. OneEach'
    BY <1>1, <2>1, <2>6 DEF CoverInv, OneEach, Paying, Finalizing, Abandoning
  <2>8. Waits'
    <3>1. intent[Base] \in {"held", "captured"} => intent'[Base] \in {"held", "captured"}
      BY <2>1, <2>2 DEF Payments
    <3>2. \A e \in events : e.p \in Payments
      BY <2>2 DEF SaleInv, TypeInv, TypeOK, Events
    <3>3. \A e \in events : Expected(e.p) => Expected(e.p)'
      BY <1>1, <2>3, <3>2 DEF Expected, Dropping
    <3>4. ASSUME NEW e \in events', e \notin events, e.type = "capturable" PROVE Expected(e.p)'
      <4>1. e.p = p /\ intent'[p] = "held"
        BY <2>1, <2>2, <3>4
      <4> QED BY <1>1, <4>1 DEF Expected, Sound
    <3> QED BY <1>1, <2>3, <2>4, <3>1, <3>3, <3>4 DEF CoverInv, Waits, Untaken, Open
  <2> QED BY <1>1, <2>5, <2>7, <2>8 DEF CoverInv, Open, Seller
<1> QED BY <1>2, <1>3 DEF Outside, Present, Decline, SearchEnds, PaymentLapses, moneyVars
\* The steps of a function that read, or that write what the order is worth.
LEMMA CoverOfReads ==
  ASSUME SaleInv, SaleInv', CoverInv, NEW t \in Tasks,
         \/ AcceptClaim(t) \/ FinalizeScreen(t) \/ FinalizeOthers(t) \/ FindActive(t)
         \/ AbandonScreen(t) \/ AbandonFind(t) \/ ReleaseFind(t) \/ Pull(t)
  PROVE  CoverInv'
<1>0. /\ TypeInv /\ TypeInv' /\ LocalsOK /\ my[t] \in Jobs /\ Placed(t) /\ Worth(t) /\ Aware(t)
      /\ Steady(t) /\ Stands(t)
  BY TypeParts DEF SaleInv, SellInv, TypeInv, LocalsOK, CoverInv, MoneyInv
<1>1. UNCHANGED <<sale, pay, intent>> /\ NoNews
  BY DEF AcceptClaim, FinalizeScreen, FinalizeOthers, FindActive, AbandonScreen, AbandonFind,
     ReleaseFind, Pull, orderVars, moneyVars, NoNews
<1>2. ASSUME NEW l, NEW j, Keep(t, l, j), j.op = my[t].op, j.p = my[t].p,
             Steady(t)', Stands(t)',
             l \in {"f_screen", "f_claim"} => at[t] = "f_screen",
             Dropping(t) => l \in {"a_cancel", "a_dead"}, Seller(t) => l \in Selling
      PROVE  CoverInv'
  <2>1. Moves(t) /\ at'[t] = l /\ my'[t] = j
    BY <1>0, <1>2, Keeping
  <2>2. Goes(t)
    BY <1>2, <2>1 DEF Goes, Paying
  <2> QED BY <1>1, <1>2, <2>1, <2>2, CoverOfQuiet DEF Dropping, Seller
<1>3. ASSUME End(t), ~Seller(t), ~Dropping(t) PROVE CoverInv'
  <2>1. Moves(t) /\ at'[t] = "idle" /\ my'[t] = NoJob /\ NoJob.op = "none"
    BY <1>0, <1>3, EndMoves, JobsAreTyped
  <2>2. Goes(t) /\ Steady(t)' /\ Stands(t)'
    BY <2>1 DEF Goes, Paying, Abandons, Steady, Stands
  <2> QED BY <1>1, <1>3, <2>1, <2>2, CoverOfQuiet
<1>4. ASSUME NEW l, Go(t, l), ~Seller(t), ~Dropping(t), l \notin Selling,
             l \notin {"f_screen", "f_claim", "r_find", "r_cancel", "r_mark", "h_cancel", "h_mark",
                       "f_cancel", "f_dead"},
             l \in {"a_screen", "a_find", "a_cancel", "a_dead"} => my[t].op \in Abandons
      PROVE  CoverInv'
  <2>1. Moves(t) /\ at'[t] = l /\ my'[t] = my[t]
    BY <1>0, <1>4, Keeping DEF Go
  <2>2. Steady(t)' /\ Stands(t)'
    BY <1>4, <2>1 DEF Steady, Stands, Seller, Selling
  <2> QED BY <1>2, <1>4, <2>2 DEF Go
<1>5. ASSUME AcceptClaim(t) PROVE CoverInv'
  <2>1. at[t] = "claim" /\ ~Seller(t) /\ ~Dropping(t)
    BY <1>5 DEF AcceptClaim, Seller, Selling, Dropping
  <2>2. ASSUME Keep(t, "row", [my[t] EXCEPT !.price = screen.price]) PROVE CoverInv'
    <3>1. Moves(t) /\ at'[t] = "row" /\ my'[t] = [my[t] EXCEPT !.price = screen.price]
      BY <1>0, <2>2, Keeping
    <3>2. [my[t] EXCEPT !.price = screen.price].op = my[t].op
          /\ [my[t] EXCEPT !.price = screen.price].p = my[t].p
      BY <1>0 DEF Jobs
    <3>3. Steady(t)' /\ Stands(t)'
      BY <3>1 DEF Steady, Stands, Seller, Selling
    <3> QED BY <1>2, <2>1, <2>2, <3>2, <3>3
  <2> QED BY <1>3, <1>5, <2>1, <2>2 DEF AcceptClaim
<1>6. ASSUME FinalizeScreen(t) PROVE CoverInv'
  <2>1. at[t] = "f_screen" /\ ~Seller(t) /\ ~Dropping(t)
    BY <1>6 DEF FinalizeScreen, Seller, Selling, Dropping
  <2>2. ASSUME NEW l \in {"f_claim", "back"}, NEW j, Keep(t, l, j), j.op = my[t].op, j.p = my[t].p
        PROVE  CoverInv'
    <3>1. Moves(t) /\ at'[t] = l /\ my'[t] = j
      BY <1>0, <2>2, Keeping
    <3>2. Steady(t)' /\ Stands(t)'
      BY <3>1 DEF Steady, Stands, Seller, Selling
    <3> QED BY <1>2, <2>1, <2>2, <3>2
  <2>3. /\ [my[t] EXCEPT !.price = screen.price].op = my[t].op
        /\ [my[t] EXCEPT !.price = screen.price].p = my[t].p
        /\ [my[t] EXCEPT !.pull = TRUE].op = my[t].op
        /\ [my[t] EXCEPT !.pull = TRUE].p = my[t].p
    BY <1>0 DEF Jobs
  <2> QED BY <1>3, <1>6, <2>1, <2>2, <2>3 DEF FinalizeScreen, Go
<1>7. ASSUME FinalizeOthers(t) PROVE CoverInv'
  <2> DEFINE j == [my[t] EXCEPT !.todo = Live \ {my[t].p}]
  <2>1. Keep(t, "f_cancel", j) /\ at[t] = "f_others"
    BY <1>7 DEF FinalizeOthers
  <2>2. j.op = my[t].op /\ j.p = my[t].p /\ j.todo = Live \ {my[t].p}
    BY <1>0 DEF Jobs
  <2> HIDE DEF j
  <2>3. Moves(t) /\ at'[t] = "f_cancel" /\ my'[t] = j
    BY <1>0, <2>1, Keeping
  <2>4. Steady(t)' /\ Stands(t)' /\ Seller(t) /\ ~Dropping(t)
    BY <1>0, <1>1, <2>1, <2>2, <2>3 DEF Steady, Stands, Seller, Selling, Dropping, Sound, Paying
  <2> QED BY <1>2, <2>1, <2>2, <2>4 DEF Selling
<1>8. ASSUME FindActive(t) PROVE CoverInv'
  <2>1. at[t] = "find" /\ Seller(t) /\ ~Dropping(t)
    BY <1>8 DEF FindActive, Seller, Selling, Dropping
  <2>2. ASSUME Paying(t) PROVE my[t].p \in Payments /\ Counted(my[t].p) /\ pay[my[t].p].named
                               /\ Active = {my[t].p} /\ Active # {}
    <3>1. my[t].p \in Payments /\ Holding \subseteq {my[t].p} /\ Sound(my[t].p) /\ Counted(my[t].p)
      BY <1>0, <2>1, <2>2 DEF Worth, Stands, Paying, Jobs
    <3>2. my[t].p \in Holding
      BY <3>1 DEF Holding, Live, Rows, Sound, Counted
    <3>3. pay[my[t].p].named
      BY <1>0, <2>2 DEF Aware, Told, Paying
    <3> QED BY <3>1, <3>2, <3>3 DEF Active
  <2>3. Active \subseteq Payments
    BY DEF Active, Holding, Live, Rows
  <2>4. ASSUME Go(t, "failed"), ~Paying(t) PROVE CoverInv'
    <3>1. Moves(t) /\ at'[t] = "failed" /\ my'[t] = my[t]
      BY <1>0, <2>4, Keeping DEF Go
    <3>2. Steady(t)' /\ Stands(t)'
      BY <2>4, <3>1 DEF Steady, Stands, Paying
    <3> QED BY <1>2, <2>1, <2>4, <3>2 DEF Go, Selling
  <2>5. ASSUME Go(t, "sold") PROVE CoverInv'
    <3>1. Moves(t) /\ at'[t] = "sold" /\ my'[t] = my[t]
      BY <1>0, <2>5, Keeping DEF Go
    <3>2. Steady(t)' /\ Stands(t)'
      BY <1>0, <1>1, <2>1, <3>1 DEF Steady, Stands, Paying, Sound, Counted, Seller
    <3> QED BY <1>2, <2>1, <2>5, <3>2 DEF Go, Selling
  <2>6. ASSUME NEW p \in Active, Keep(t, "capture", [my[t] EXCEPT !.todo = {p}]) PROVE CoverInv'
    <3> DEFINE j == [my[t] EXCEPT !.todo = {p}]
    <3>1. j.op = my[t].op /\ j.p = my[t].p /\ j.todo = {p}
      BY <1>0 DEF Jobs
    <3>2. Keep(t, "capture", j)
      BY <2>6
    <3> HIDE DEF j
    <3>3. Moves(t) /\ at'[t] = "capture" /\ my'[t] = j
      BY <1>0, <3>2, Keeping
    <3>4. Paying(t) => p = my[t].p
      BY <2>2, <2>6
    <3>5. Steady(t)' /\ Stands(t)'
      BY <1>0, <1>1, <2>1, <3>1, <3>3, <3>4 DEF Steady, Stands, Paying, Sound, Counted, Seller
    <3> QED BY <1>2, <2>1, <3>1, <3>2, <3>5 DEF Selling
  <2>7. ASSUME Active = {} PROVE ~Paying(t)
    BY <2>2, <2>7
  <2>8. ASSUME NEW p \in Active, Paying(t)
        PROVE  pay[p].st \in {"authorized", "succeeded"} /\ pay[p].named
    BY <2>2, <2>8 DEF Counted
  <2> QED BY <1>8, <2>4, <2>5, <2>6, <2>7, <2>8 DEF FindActive
<1>9. ASSUME AbandonScreen(t) PROVE CoverInv'
  <2>1. /\ at[t] = "a_screen" /\ ~Seller(t) /\ ~Dropping(t) /\ my[t].op \in Abandons
    BY <1>0, <1>9 DEF AbandonScreen, Seller, Selling, Dropping, Steady
  <2>2. End(t) \/ Go(t, "a_find")
    BY <1>9 DEF AbandonScreen
  <2> QED BY <1>3, <1>4, <2>1, <2>2 DEF Selling
<1>10. ASSUME AbandonFind(t) PROVE CoverInv'
  <2>1. /\ at[t] = "a_find" /\ ~Seller(t) /\ ~Dropping(t) /\ my[t].op \in Abandons
    BY <1>0, <1>10 DEF AbandonFind, Seller, Selling, Dropping, Steady
  <2>2. PICK S \in SUBSET Payments : Keep(t, "a_cancel", [my[t] EXCEPT !.todo = S])
    <3>1. {p \in Live \ {Base} : pay[p].named} \in SUBSET Payments /\ {} \in SUBSET Payments
      BY DEF Live, Rows
    <3> QED BY <1>10, <3>1 DEF AbandonFind
  <2> DEFINE j == [my[t] EXCEPT !.todo = S]
  <2>3. j.op = my[t].op /\ j.p = my[t].p
    BY <1>0 DEF Jobs
  <2>4. Keep(t, "a_cancel", j)
    BY <2>2
  <2> HIDE DEF j
  <2>5. Moves(t) /\ at'[t] = "a_cancel" /\ my'[t] = j
    BY <1>0, <2>4, Keeping
  <2>6. Steady(t)' /\ Stands(t)'
    BY <2>1, <2>3, <2>5 DEF Steady, Stands, Seller, Selling
  <2> QED BY <1>2, <2>1, <2>3, <2>4, <2>6
<1>11. ASSUME ReleaseFind(t) PROVE CoverInv'
  <2>1. at[t] = "r_find" /\ ~Seller(t) /\ ~Dropping(t) /\ sale.st = "cancelled" /\ ~Paying(t)
    BY <1>0, <1>11 DEF ReleaseFind, Seller, Selling, Dropping, Steady, Placed, Paying
  <2>2. ASSUME NEW p \in Active, Keep(t, "r_cancel", [my[t] EXCEPT !.p = p]) PROVE CoverInv'
    <3> DEFINE j == [my[t] EXCEPT !.p = p]
    <3>1. j.op = my[t].op
      BY <1>0 DEF Jobs
    <3>2. Keep(t, "r_cancel", j)
      BY <2>2
    <3> HIDE DEF j
    <3>3. Moves(t) /\ at'[t] = "r_cancel" /\ my'[t] = j
      BY <1>0, <3>2, Keeping
    <3>4. Goes(t) /\ Steady(t)' /\ Stands(t)'
      BY <1>1, <2>1, <3>1, <3>3 DEF Goes, Steady, Stands, Seller, Selling, Paying
    <3> QED BY <1>1, <2>1, <3>3, <3>4, CoverOfQuiet
  <2> QED BY <1>3, <1>11, <2>1, <2>2 DEF ReleaseFind
<1>12. ASSUME Pull(t) PROVE CoverInv'
  <2>1. ~Seller(t) /\ ~Dropping(t) /\ End(t)
    BY <1>12 DEF Pull, Seller, Selling, Dropping
  <2> QED BY <1>3, <2>1
<1> QED BY <1>5, <1>6, <1>7, <1>8, <1>9, <1>10, <1>11, <1>12
\* The steps that write one row of the ledger.
LEMMA CoverOfRow ==
  ASSUME SaleInv, SaleInv', CoverInv, NEW t \in Tasks, NEW q \in Payments, NEW l, NEW j,
         Keep(t, l, j), j.op = "finalize" => Paying(t) /\ j.p = my[t].p,
         j.op \in Abandons => my[t].op \in Abandons,
         UNCHANGED <<sale, intent, events>>, OnlyRow(q),
         pay[q].dead /\ pay[q].st # "none" => pay'[q].dead,
         Steady(t)', Stands(t)', l \notin {"f_screen", "f_claim"}, ~Dropping(t),
         Seller(t) => l \in Selling,
         \A u \in Tasks \ {t} :
           Paying(u) /\ my[u].p = q /\ Sound(q) /\ (Untaken \/ (Seller(u) /\ Open)) =>
             Sound(q)' /\ (Counted(q) => Counted(q)'),
         Untaken => \A e \in events : e.type = "capturable" /\ e.p = q /\ Expected(q) => Expected(q)'
  PROVE  CoverInv'
<1>1. Moves(t) /\ at'[t] = l /\ my'[t] = j
  BY Keeping DEF SaleInv
<1>2. Goes(t)
  BY <1>1 DEF Goes, Paying
<1>3. /\ sale' = sale /\ intent' = intent /\ events' = events
      /\ \A p \in Payments : p # q => pay'[p] = pay[p]
  BY DEF OnlyRow
<1>4. (Untaken' <=> Untaken) /\ (Open' <=> Open)
  BY DEF Untaken, Open
<1>5. \A u \in Tasks : my[u].p \in Payments
  BY DEF SaleInv, TypeInv, TypeOK, Jobs
<1>6. \A u \in Tasks : Dropping(u) => Dropping(u)'
  BY <1>1 DEF Moves, Others, Dropping
<1>7. Spares(t)
  <2>1. \A p \in Payments : pay[p].dead /\ pay[p].st # "none" => pay'[p].dead
    BY <1>3
  <2>2. ASSUME NEW u \in Tasks \ {t}, Paying(u), Sound(my[u].p), Untaken' \/ (Seller(u) /\ Open')
        PROVE  Sound(my[u].p)' /\ (Counted(my[u].p) => Counted(my[u].p)')
    <3>1. my'[u] = my[u]
      BY <1>1 DEF Moves, Others
    <3>2. CASE my[u].p = q
      BY <1>4, <2>2, <3>1, <3>2 DEF Sound, Counted
    <3>3. CASE my[u].p # q
      <4>1. pay'[my[u].p] = pay[my[u].p]
        BY <1>3, <1>5, <3>3
      <4> QED BY <1>3, <2>2, <3>1, <4>1 DEF Sound, Counted
    <3> QED BY <3>2, <3>3
  <2>3. ASSUME Untaken, NEW e \in events, e.type = "capturable", Expected(e.p) PROVE Expected(e.p)'
    <3>1. e.p \in Payments
      BY DEF SaleInv, TypeInv, TypeOK, Events, Payments
    <3>2. CASE e.p = q
      <4>1. Expected(q)'
        BY <2>3, <3>2
      <4> QED BY <3>2, <4>1 DEF Expected, Sound
    <3>3. CASE e.p # q
      <4>1. pay'[e.p] = pay[e.p]
        BY <1>3, <3>1, <3>3
      <4> QED BY <1>3, <1>6, <2>3, <4>1 DEF Expected, Sound
    <3> QED BY <3>2, <3>3
  <2> QED BY <1>3, <1>4, <2>1, <2>2, <2>3 DEF Spares
<1>8. Untaken' => intent'[Base] \in {"held", "captured"}
  BY <1>3, <1>4 DEF CoverInv, Waits
<1>9. NoNews /\ (Seller(t) => Seller(t)')
  BY <1>1, <1>3 DEF NoNews, Seller
<1>10. at'[t] \notin {"f_screen", "f_claim"}
  BY <1>1
<1> QED BY <1>2, <1>3, <1>4, <1>7, <1>8, <1>9, <1>10, CoverOf

LEMMA CoverOfRows ==
  ASSUME SaleInv, SaleInv', CoverInv, NEW t \in Tasks,
         \/ AcceptRow(t) \/ AcceptName(t) \/ FinalizeDead(t) \/ FinalizeMark(t)
         \/ MarkCaptured(t) \/ BackDead(t) \/ ReleaseMark(t) \/ HoldMark(t)
  PROVE  CoverInv'
<1>0. /\ TypeInv /\ TypeInv' /\ LocalsOK /\ MoneyTyped /\ my[t] \in Jobs /\ Placed(t) /\ Worth(t)
      /\ Aware(t) /\ Steady(t) /\ Stands(t) /\ Replacements \subseteq Payments /\ my[t].p \in Payments
      /\ my[t].todo \in SUBSET Payments
  BY TypeParts DEF SaleInv, SellInv, TypeInv, LocalsOK, CoverInv, MoneyInv, Jobs, Payments
<1>1. ASSUME Seller(t) PROVE Open /\ sale.by = For(my[t]) /\ \A u \in Tasks \ {t} : ~Seller(u)
  BY <1>1 DEF SaleInv, SellInv
<1>2. ASSUME Seller(t), Paying(t) PROVE ~Untaken /\ Sound(my[t].p)
  BY <1>0, <1>1, <1>2 DEF Untaken, For, Paying, Stands
<1>3. NoJob.op \notin Abandons \cup {"finalize"}
  BY JobsAreTyped DEF Abandons
<1>4. ASSUME UNCHANGED <<sale, pay, intent, events>>, ~Seller(t), ~Dropping(t), End(t)
      PROVE  CoverInv'
  <2>1. Moves(t) /\ at'[t] = "idle" /\ my'[t] = NoJob /\ NoJob.op = "none"
    BY <1>0, <1>4, EndMoves, JobsAreTyped
  <2>2. Goes(t) /\ Steady(t)' /\ Stands(t)' /\ NoNews
    BY <1>4, <2>1 DEF Goes, Paying, Abandons, Steady, Stands, NoNews
  <2> QED BY <1>4, <2>1, <2>2, CoverOfQuiet
<1>5. ASSUME AcceptRow(t) PROVE CoverInv'
  <2>0. at[t] = "row" /\ ~Seller(t) /\ ~Dropping(t) /\ UNCHANGED <<sale, intent, events>>
    BY <1>5 DEF AcceptRow, Seller, Selling, Dropping, orderVars
  <2>1. ASSUME NEW p \in Replacements \ Rows,
               pay' = [pay EXCEPT ![p] = [st |-> "pending", amount |-> my[t].price,
                                          named |-> FALSE, dead |-> FALSE]],
               Keep(t, "intent", [my[t] EXCEPT !.p = p])
        PROVE  CoverInv'
    <3> DEFINE j == [my[t] EXCEPT !.p = p]
    <3>1. j.op = my[t].op /\ Keep(t, "intent", j)
      BY <1>0, <2>1 DEF Jobs
    <3> HIDE DEF j
    <3>2. p \in Payments /\ pay[p].st = "none" /\ intent[p] = "none" /\ ~pay[p].named
      BY <1>0, <2>1 DEF Rows, SaleInv, MoneyInv, RowOK
    <3>3. OnlyRow(p)
      BY <1>0, <2>1 DEF OnlyRow, MoneyTyped, TypeInv, TypeOK
    <3>4. Moves(t) /\ at'[t] = "intent" /\ my'[t] = j
      BY <1>0, <3>1, Keeping
    <3>5. Steady(t)' /\ Stands(t)'
      BY <3>4 DEF Steady, Stands, Seller, Selling
    <3>6. j.op # "finalize" /\ (j.op \in Abandons => my[t].op \in Abandons)
      BY <1>0, <2>0, <3>1 DEF Placed
    <3>7. \A u \in Tasks : Paying(u) => my[u].p # p
      BY <3>2 DEF SaleInv, MoneyInv, Aware, Told, Paying
    <3>8. \A e \in events : e.type = "capturable" => e.p # p
      BY <3>2 DEF SaleInv, MoneyInv, Told
    <3> QED BY <2>0, <3>1, <3>2, <3>3, <3>5, <3>6, <3>7, <3>8, CoverOfRow
  <2> QED BY <1>4, <1>5, <2>0, <2>1 DEF AcceptRow
<1>6. ASSUME NEW q \in Payments, NEW l, NEW j, Keep(t, l, j), j.op = my[t].op, j.p = my[t].p,
             UNCHANGED <<sale, intent, events>>, OnlyRow(q), pay[q].dead => pay'[q].dead,
             Steady(t)', Stands(t)', l \in Selling, Seller(t), Paying(t)
      PROVE  CoverInv'
  <2>1. ~Dropping(t) /\ l \notin {"f_screen", "f_claim"}
    BY <1>6 DEF Seller, Selling, Dropping
  <2> QED BY <1>1, <1>2, <1>6, <2>1, CoverOfRow DEF Paying
<1>7. ASSUME FinalizeDead(t) PROVE CoverInv'
  <2> DEFINE q == First(my[t].todo)
             j == [my[t] EXCEPT !.todo = @ \ {q}, !.ok = FALSE]
  <2>1. at[t] = "f_dead" /\ Paying(t) /\ Seller(t) /\ q \in my[t].todo /\ my[t].p \notin my[t].todo
    BY <1>0, <1>7, FirstIn DEF FinalizeDead, Placed, Finalizes, Paying, Seller, Selling, Steady
  <2>2. q \in Payments /\ q # my[t].p
    BY <1>0, <2>1
  <2>3. /\ UNCHANGED <<sale, intent, events>> /\ Keep(t, "f_cancel", j)
        /\ pay' = [pay EXCEPT ![q].dead = TRUE, ![q].st = IF my[t].ok THEN "cancelled" ELSE @]
    BY <1>7 DEF FinalizeDead, orderVars
  <2>4. j.op = my[t].op /\ j.p = my[t].p /\ j.todo = my[t].todo \ {q} /\ my[t].ok \in BOOLEAN
    BY <1>0 DEF Jobs
  <2> HIDE DEF q, j
  <2>5. OnlyRow(q) /\ pay'[q].dead
    BY <1>0, <2>2, <2>3, <2>4, RowMoves
  <2>6. Moves(t) /\ at'[t] = "f_cancel" /\ my'[t] = j
    BY <1>0, <2>3, Keeping
  <2>7. pay'[my[t].p] = pay[my[t].p]
    BY <1>0, <2>2, <2>5 DEF OnlyRow
  <2>8. Steady(t)' /\ Stands(t)'
    BY <1>2, <2>1, <2>3, <2>4, <2>6, <2>7 DEF Steady, Stands, Sound
  <2> QED BY <1>6, <2>1, <2>2, <2>3, <2>4, <2>5, <2>8 DEF Selling
<1>8. ASSUME FinalizeMark(t) PROVE CoverInv'
  <2> PICK q \in Payments : q = my[t].p
    BY <1>0
  <2>1. at[t] = "f_mark" /\ Paying(t) /\ Seller(t) /\ Go(t, "find")
        /\ UNCHANGED <<sale, intent, events>>
    BY <1>0, <1>8 DEF FinalizeMark, Placed, Finalizes, Paying, Seller, Selling, orderVars
  <2>2. Sound(q) /\ Holding \subseteq {q}
    BY <1>0, <1>2, <2>1 DEF Worth
  <2>3. pay[q].st # "none"
    BY <1>0, <2>1 DEF SaleInv, MoneyInv, Aware, Told, Touched, RowOK, Paying
  <2>4. /\ OnlyRow(q) /\ pay'[q].dead = pay[q].dead
        /\ pay'[q].st = IF pay[q].st \in {"pending", "failed"} THEN "authorized" ELSE pay[q].st
    <3>1. CASE pay[q].st \in {"pending", "failed"}
      <4>1. pay' = [pay EXCEPT ![q].st = "authorized"]
        BY <1>8, <2>2, <3>1 DEF FinalizeMark
      <4>2. /\ OnlyRow(q) /\ pay'[q].dead = pay[q].dead /\ pay'[q].st = "authorized"
        BY <1>0, <4>1, RowMoves DEF Statuses
      <4> QED BY <3>1, <4>2
    <3>2. CASE pay[q].st \notin {"pending", "failed"}
      <4>1. pay' = pay
        BY <1>8, <3>2 DEF FinalizeMark
      <4> QED BY <1>0, <3>2, <4>1 DEF OnlyRow, MoneyTyped
    <3> QED BY <3>1, <3>2
  <2>5. Moves(t) /\ at'[t] = "find" /\ my'[t] = my[t]
    BY <1>0, <2>1, Keeping DEF Go
  <2>6. Counted(q)' /\ Sound(q)'
    <3>1. pay[q].st \in Statuses
      BY <1>0 DEF MoneyTyped, PayRows, Statuses
    <3> QED BY <2>1, <2>2, <2>3, <2>4, <2>5, <3>1 DEF Counted, Sound, Statuses
  <2>7. Steady(t)' /\ Stands(t)'
    BY <2>5, <2>6 DEF Steady, Stands
  <2> QED BY <1>0, <1>6, <2>1, <2>4, <2>7 DEF Go, Selling
<1>9. ASSUME MarkCaptured(t) PROVE CoverInv'
  <2>0. at[t] = "captured"
    BY <1>9 DEF MarkCaptured
  <2> PICK q \in Payments : q = First(my[t].todo)
    BY <1>0, <2>0, FirstIn DEF Placed
  <2>1. at[t] = "captured" /\ Seller(t) /\ ~Dropping(t) /\ Go(t, "sold")
        /\ UNCHANGED <<sale, intent, events>> /\ intent[q] = "captured"
        /\ pay' = [pay EXCEPT ![q].st = "succeeded"]
    BY <1>0, <1>9 DEF MarkCaptured, Seller, Selling, Dropping, orderVars, Aware
  <2>2. q \in Payments
    OBVIOUS
  <2>3. OnlyRow(q) /\ pay'[q].dead = pay[q].dead /\ pay'[q].st = "succeeded"
    BY <1>0, <2>1, <2>2, RowMoves DEF Statuses
  <2>4. Moves(t) /\ at'[t] = "sold" /\ my'[t] = my[t]
    BY <1>0, <2>1, Keeping DEF Go
  <2>5. /\ Sound(q) => Sound(q)'
        /\ Counted(q)' /\ (Expected(q) => Expected(q)')
    <3>1. pay[q].dead \/ Sound(q)'
      BY <2>1, <2>3 DEF Sound
    <3> QED BY <2>3, <3>1 DEF Sound, Counted, Expected
  <2>6. Steady(t)' /\ Stands(t)'
    <3>1. CASE my[t].p = q
      <4>1. Paying(t) => Sound(q) /\ Counted(q)
        BY <1>0, <2>1, <3>1 DEF Stands
      <4> QED BY <2>4, <2>5, <3>1, <4>1 DEF Steady, Stands, Sound, Counted, Paying
    <3>2. CASE my[t].p # q
      <4>1. pay'[my[t].p] = pay[my[t].p]
        BY <1>0, <2>3, <3>2 DEF OnlyRow
      <4> QED BY <1>0, <2>1, <2>4, <4>1 DEF Steady, Stands, Sound, Counted, Paying, Seller
    <3> QED BY <3>1, <3>2
  <2>7. Keep(t, "sold", my[t])
    BY <2>1 DEF Go
  <2> QED BY <2>1, <2>2, <2>3, <2>5, <2>6, <2>7, CoverOfRow DEF Paying, Selling
<1>10. ASSUME NEW q \in Payments, NEW l, NEW j, Keep(t, l, j), at[t] \notin Selling,
              l \notin Selling, ~Dropping(t),
              l \notin {"f_screen", "f_claim", "r_find", "r_cancel", "r_mark", "h_cancel", "h_mark",
                        "f_cancel", "f_dead", "a_screen", "a_find", "a_cancel", "a_dead"},
              j.op = "finalize" => Paying(t) /\ j.p = my[t].p,
              j.op \in Abandons => my[t].op \in Abandons,
              UNCHANGED <<sale, intent, events>>, OnlyRow(q), pay[q].dead => pay'[q].dead,
              \A u \in Tasks \ {t} :
                Paying(u) /\ my[u].p = q /\ Sound(q) /\ (Untaken \/ (Seller(u) /\ Open)) =>
                  Sound(q)' /\ (Counted(q) => Counted(q)'),
              Untaken => \A e \in events : e.type = "capturable" /\ e.p = q /\ Expected(q) =>
                           Expected(q)'
       PROVE  CoverInv'
  <2>1. Moves(t) /\ at'[t] = l /\ my'[t] = j
    BY <1>0, <1>10, Keeping
  <2>2. Steady(t)' /\ Stands(t)'
    BY <1>10, <2>1 DEF Steady, Stands, Seller, Selling
  <2> QED BY <1>10, <2>2, CoverOfRow DEF Seller
<1>11. ASSUME AcceptName(t) PROVE CoverInv'
  <2> PICK q \in Payments : q = my[t].p
    BY <1>0
  <2>1. /\ at[t] = "name" /\ UNCHANGED <<sale, intent, events>>
        /\ pay' = [pay EXCEPT ![q].named = TRUE] /\ Keep(t, "idle", NoJob)
    BY <1>11 DEF AcceptName, End, orderVars
  <2>2. OnlyRow(q) /\ pay'[q].dead = pay[q].dead /\ pay'[q].st = pay[q].st
    BY <1>0, <2>1, RowMoves
  <2>3. Moves(t) /\ at'[t] = "idle"
    BY <1>0, <2>1, Keeping
  <2>4. \A u \in Tasks : Dropping(u) => Dropping(u)'
    BY <2>1, <2>3 DEF Moves, Others, Dropping
  <2>5. (Sound(q) => Sound(q)') /\ (Counted(q) => Counted(q)') /\ (Expected(q) => Expected(q)')
    BY <2>1, <2>2, <2>4 DEF Sound, Counted, Expected
  <2> QED BY <1>3, <1>10, <2>1, <2>2, <2>5 DEF Selling, Dropping
<1>12. ASSUME BackDead(t) PROVE CoverInv'
  <2> PICK q \in Payments : q = my[t].p
    BY <1>0
  <2>1. /\ at[t] = "back_dead" /\ Paying(t) /\ UNCHANGED <<sale, intent, events>>
        /\ pay' = [pay EXCEPT ![q].dead = TRUE, ![q].st = IF my[t].ok THEN "cancelled" ELSE @]
    BY <1>0, <1>12 DEF BackDead, orderVars, Placed, Finalizes, Paying
  <2>2. OnlyRow(q) /\ pay'[q].dead
    <3>1. my[t].ok \in BOOLEAN
      BY <1>0 DEF Jobs
    <3> QED BY <1>0, <2>1, <3>1, RowMoves
  <2>3. /\ \A u \in Tasks \ {t} : Paying(u) => my[u].p # q
        /\ \A e \in events : e.type = "capturable" => e.p # q
    BY <2>1 DEF CoverInv, OneEach
  <2>4. Keep(t, "pull", my[t]) \/ Keep(t, "idle", NoJob)
    BY <1>12 DEF BackDead, Go, End
  <2> QED BY <1>3, <1>10, <2>1, <2>2, <2>3, <2>4 DEF Selling, Dropping
<1>13. ASSUME ReleaseMark(t) PROVE CoverInv'
  <2> PICK q \in Payments : q = my[t].p
    BY <1>0
  <2>1. /\ at[t] = "r_mark" /\ sale.st = "cancelled" /\ UNCHANGED <<sale, intent, events>>
        /\ Keep(t, "idle", NoJob)
        /\ pay' = IF my[t].ok THEN [pay EXCEPT ![q].st = "cancelled"] ELSE pay
    BY <1>0, <1>13 DEF ReleaseMark, orderVars, Steady, End
  <2>2. OnlyRow(q) /\ pay'[q].dead = pay[q].dead
    <3>1. CASE my[t].ok
      BY <1>0, <2>1, <3>1, RowMoves DEF Statuses
    <3>2. CASE ~my[t].ok
      BY <1>0, <2>1, <3>2 DEF OnlyRow, MoneyTyped
    <3> QED BY <3>1, <3>2
  <2>3. ~Open /\ ~Untaken
    BY <2>1 DEF Open, Untaken
  <2> QED BY <1>3, <1>10, <2>1, <2>2, <2>3 DEF Selling, Dropping
<1>14. ASSUME HoldMark(t) PROVE CoverInv'
  <2> PICK q \in Payments : q = my[t].p
    BY <1>0
  <2>1. /\ at[t] = "h_mark" /\ pay[q].dead /\ UNCHANGED <<sale, intent, events>>
        /\ Keep(t, "idle", NoJob) /\ pay' = [pay EXCEPT ![q].st = "cancelled"]
    BY <1>0, <1>14 DEF HoldMark, orderVars, Steady, End
  <2>2. OnlyRow(q) /\ pay'[q].dead = pay[q].dead
    BY <1>0, <2>1, RowMoves DEF Statuses
  <2>3. ~Sound(q) /\ Expected(q)'
    BY <2>1, <2>2 DEF Sound, Expected
  <2> QED BY <1>3, <1>10, <2>1, <2>2, <2>3 DEF Selling, Dropping
<1> QED BY <1>5, <1>7, <1>8, <1>9, <1>11, <1>12, <1>13, <1>14
\* The steps at Stripe.
OnlyIntent(q) == \A p \in Payments : p # q => intent'[p] = intent[p]

LEMMA CoverOfIntent ==
  ASSUME SaleInv, SaleInv', CoverInv, NEW t \in Tasks, NEW q \in Payments, Goes(t),
         UNCHANGED <<sale, pay>>, NoNews, OnlyIntent(q), Steady(t)', Stands(t)',
         at'[t] \notin {"f_screen", "f_claim"}, Dropping(t) => Dropping(t)',
         Seller(t) => Seller(t)',
         \A u \in Tasks \ {t} :
           Paying(u) /\ my[u].p = q /\ Sound(q) /\ (Untaken \/ (Seller(u) /\ Open)) => Sound(q)',
         Untaken /\ q = Base => intent'[Base] \in {"held", "captured"},
         Untaken => \A e \in events : e.type = "capturable" /\ e.p = q /\ Expected(q) => Expected(q)'
  PROVE  CoverInv'
<1>1. (Untaken' <=> Untaken) /\ (Open' <=> Open)
  BY DEF Untaken, Open
<1>2. \A u \in Tasks : my[u].p \in Payments
  BY DEF SaleInv, TypeInv, TypeOK, Jobs
<1>3. \A u \in Tasks : Dropping(u) => Dropping(u)'
  BY DEF Goes, Moves, Others, Dropping
<1>4. sale' = sale /\ pay' = pay
  OBVIOUS
<1>5. Spares(t)
  <2>1. ASSUME NEW u \in Tasks \ {t}, Paying(u), Sound(my[u].p), Untaken' \/ (Seller(u) /\ Open')
        PROVE  Sound(my[u].p)' /\ (Counted(my[u].p) => Counted(my[u].p)')
    <3>1. my'[u] = my[u]
      BY DEF Goes, Moves, Others
    <3>2. CASE my[u].p = q
      BY <1>1, <1>4, <2>1, <3>1, <3>2 DEF Sound, Counted
    <3>3. CASE my[u].p # q
      <4>1. intent'[my[u].p] = intent[my[u].p]
        BY <1>2, <3>3 DEF OnlyIntent
      <4> QED BY <1>4, <2>1, <3>1, <4>1 DEF Sound, Counted
    <3> QED BY <3>2, <3>3
  <2>2. ASSUME Untaken, NEW e \in events, e.type = "capturable", Expected(e.p) PROVE Expected(e.p)'
    <3>1. e.p \in Payments
      BY DEF SaleInv, TypeInv, TypeOK, Events, Payments
    <3>2. CASE e.p = q
      <4>1. Expected(q)'
        BY <2>2, <3>2
      <4> QED BY <3>2, <4>1 DEF Expected, Sound
    <3>3. CASE e.p # q
      <4>1. intent'[e.p] = intent[e.p]
        BY <3>1, <3>3 DEF OnlyIntent
      <4> QED BY <1>3, <1>4, <2>2, <4>1 DEF Expected, Sound
    <3> QED BY <3>2, <3>3
  <2> QED BY <1>1, <1>4, <2>1, <2>2 DEF Spares
<1>6. Untaken' => intent'[Base] \in {"held", "captured"}
  BY <1>1 DEF CoverInv, Waits, OnlyIntent, Payments
<1> QED BY <1>1, <1>5, <1>6, CoverOf

LEMMA CoverOfIntents ==
  ASSUME Calm, SaleInv, SaleInv', CoverInv, NEW t \in Tasks,
         \/ AcceptIntent(t) \/ Capture(t) \/ FinalizeCancel(t) \/ BackCancel(t)
         \/ AbandonCancel(t) \/ ReleaseCancel(t) \/ HoldCancel(t)
  PROVE  CoverInv'
<1>0. /\ TypeInv /\ TypeInv' /\ LocalsOK /\ MoneyTyped /\ my[t] \in Jobs /\ Placed(t) /\ Worth(t)
      /\ Aware(t) /\ Steady(t) /\ Stands(t) /\ Replacements \subseteq Payments /\ my[t].p \in Payments
      /\ my[t].todo \in SUBSET Payments /\ Base \in Payments /\ Base \notin Replacements
  BY TypeParts, PaymentsAssumption
     DEF SaleInv, SellInv, TypeInv, LocalsOK, CoverInv, MoneyInv, Jobs, Payments, Base
<1>1. ASSUME Seller(t) PROVE Open /\ sale.by = For(my[t]) /\ \A u \in Tasks \ {t} : ~Seller(u)
  BY <1>1 DEF SaleInv, SellInv
<1>2. ASSUME Seller(t), Paying(t) PROVE ~Untaken /\ Sound(my[t].p)
  BY <1>0, <1>1, <1>2 DEF Untaken, For, Paying, Stands
<1>3. ASSUME NEW l, Go(t, l) PROVE Goes(t) /\ at'[t] = l /\ my'[t] = my[t]
  BY <1>0, <1>3, Keeping DEF Go, Goes, Paying
<1>4. ASSUME End(t) PROVE Goes(t) /\ at'[t] = "idle" /\ Steady(t)' /\ Stands(t)'
  <2>1. Moves(t) /\ at'[t] = "idle" /\ my'[t] = NoJob /\ NoJob.op = "none"
    BY <1>0, <1>4, EndMoves, JobsAreTyped
  <2> QED BY <2>1 DEF Goes, Paying, Abandons, Steady, Stands
<1>5. ASSUME NEW p \in Payments, NEW l \in Labels, CancelIntent(t, p, l)
      PROVE  /\ Goes(t) /\ at'[t] = l /\ my'[t].op = my[t].op /\ my'[t].p = my[t].p
             /\ my'[t].todo = my[t].todo /\ OnlyIntent(p) /\ NoNews
  <2>1. /\ Moves(t) /\ at'[t] = l /\ my'[t].op = my[t].op /\ my'[t].p = my[t].p
        /\ my'[t].todo = my[t].todo
        /\ \/ intent' = intent
           \/ intent' = [intent EXCEPT ![p] = "canceled"]
        /\ \A e \in events' \ events : e = [type |-> "canceled", p |-> p]
    BY <1>0, <1>5, CancelMoves
  <2>2. OnlyIntent(p)
    BY <1>0, <2>1 DEF OnlyIntent, MoneyTyped
  <2> QED BY <2>1, <2>2 DEF Goes, Paying, NoNews
<1>6. ASSUME AcceptIntent(t) PROVE CoverInv'
  <2> PICK q \in Payments : q = my[t].p
    BY <1>0
  <2>1. /\ at[t] = "intent" /\ UNCHANGED <<sale, pay, events>> /\ Go(t, "name")
        /\ intent' = [intent EXCEPT ![q] = "unpaid"] /\ intent[q] = "none"
    BY <1>0, <1>6 DEF AcceptIntent, orderVars, Aware
  <2>2. Goes(t) /\ at'[t] = "name" /\ my'[t] = my[t] /\ NoNews /\ OnlyIntent(q)
    BY <1>0, <1>3, <2>1 DEF NoNews, OnlyIntent, MoneyTyped
  <2>3. Steady(t)' /\ Stands(t)' /\ ~Dropping(t) /\ ~Seller(t)
    BY <2>1, <2>2 DEF Steady, Stands, Seller, Selling, Dropping
  <2>4. \A u \in Tasks : Paying(u) => my[u].p # q
    BY <2>1 DEF SaleInv, MoneyInv, Aware, Told, Touched, Paying
  <2>5. \A e \in events : e.type = "capturable" => e.p # q
    BY <2>1 DEF SaleInv, MoneyInv, Told, Touched
  <2>6. Untaken => q # Base
    BY <2>1 DEF CoverInv, Waits
  <2> QED BY <2>1, <2>2, <2>3, <2>4, <2>5, <2>6, CoverOfIntent
<1>7. ASSUME Capture(t) PROVE CoverInv'
  <2>0. at[t] = "capture" /\ Seller(t) /\ ~Dropping(t)
    BY <1>7 DEF Capture, Seller, Selling, Dropping
  <2> PICK q \in Payments : q = First(my[t].todo)
    BY <1>0, <2>0, FirstIn DEF Placed
  <2>1. Paying(t) => q = my[t].p /\ Sound(q) /\ Counted(q)
    BY <1>0, <2>0, FirstOfOne DEF Stands
  <2>2. UNCHANGED <<sale, pay, events>>
    BY <1>7 DEF Capture, orderVars
  <2>3. CASE intent' = [intent EXCEPT ![q] = "captured"] /\ Go(t, "captured")
    <3>1. /\ Goes(t) /\ at'[t] = "captured" /\ my'[t] = my[t] /\ NoNews /\ OnlyIntent(q)
          /\ intent'[q] = "captured"
      BY <1>0, <1>3, <2>2, <2>3 DEF NoNews, OnlyIntent, MoneyTyped
    <3>2. Sound(q) => Sound(q)'
      BY <2>2, <3>1 DEF Sound
    <3>3. Steady(t)' /\ Stands(t)' /\ Seller(t)'
      BY <2>1, <2>2, <3>1, <3>2 DEF Steady, Stands, Seller, Selling, Sound, Counted, Paying
    <3>4. \A u \in Tasks : Dropping(u) => Dropping(u)'
      BY <2>0, <3>1 DEF Goes, Moves, Others, Dropping
    <3>5. Expected(q) => Expected(q)'
      BY <2>2, <3>2, <3>4 DEF Expected
    <3> QED BY <2>0, <2>2, <3>1, <3>2, <3>3, <3>5, CoverOfIntent
  <2>4. CASE intent[q] \notin {"held", "captured"} /\ Go(t, "failed") /\ UNCHANGED intent
    <3>1. ~Paying(t)
      BY <2>1, <2>4 DEF Sound
    <3>2. Goes(t) /\ at'[t] = "failed" /\ my'[t] = my[t] /\ NoNews
      BY <1>3, <2>2, <2>4 DEF NoNews
    <3>3. Steady(t)' /\ Stands(t)' /\ Seller(t)'
      BY <3>1, <3>2 DEF Steady, Stands, Seller, Selling, Paying
    <3> QED BY <2>0, <2>2, <2>4, <3>2, <3>3, CoverOfQuiet
  <2> QED BY <1>7, <2>3, <2>4 DEF Capture, Calm
<1>8. ASSUME FinalizeCancel(t) PROVE CoverInv'
  <2>1. at[t] = "f_cancel" /\ Seller(t) /\ ~Dropping(t) /\ Paying(t) /\ UNCHANGED <<sale, pay>>
        /\ my[t].p \notin my[t].todo
    BY <1>0, <1>8 DEF FinalizeCancel, Seller, Selling, Dropping, Paying, Placed, Finalizes, Steady,
       orderVars
  <2>2. ASSUME UNCHANGED intent, NoNews, Goes(t), at'[t] \in {"f_mark", "f_dead"},
               my'[t].p = my[t].p, my'[t].todo = my[t].todo
        PROVE  CoverInv'
    <3>1. Steady(t)' /\ Stands(t)' /\ Seller(t)'
      BY <1>2, <2>1, <2>2 DEF Steady, Stands, Seller, Selling, Sound
    <3> QED BY <2>1, <2>2, <3>1, CoverOfQuiet
  <2>3. CASE my[t].todo = {}
    <3>1. Go(t, "f_mark") /\ UNCHANGED <<intent, events>>
      BY <1>8, <2>3 DEF FinalizeCancel
    <3> QED BY <1>3, <2>2, <3>1 DEF NoNews
  <2>4. ASSUME my[t].todo # {} PROVE CoverInv'
    <3> PICK q \in Payments : q = First(my[t].todo) /\ q # my[t].p
      BY <1>0, <2>1, <2>4, FirstIn
    <3>1. CASE CancelIntent(t, q, "f_dead")
      <4>1. /\ Goes(t) /\ at'[t] = "f_dead" /\ my'[t].p = my[t].p /\ my'[t].todo = my[t].todo
            /\ OnlyIntent(q) /\ NoNews
        BY <1>5, <3>1, LabelsAre
      <4>2. intent'[my[t].p] = intent[my[t].p]
        BY <1>0, <4>1 DEF OnlyIntent
      <4>3. Steady(t)' /\ Stands(t)' /\ Seller(t)'
        BY <1>2, <2>1, <4>1, <4>2 DEF Steady, Stands, Seller, Selling, Sound
      <4> QED BY <1>1, <1>2, <2>1, <4>1, <4>3, CoverOfIntent
    <3>2. CASE Keep(t, "f_dead", [my[t] EXCEPT !.ok = FALSE]) /\ UNCHANGED <<intent, events>>
      <4>1. /\ Moves(t) /\ at'[t] = "f_dead" /\ my'[t].op = my[t].op /\ my'[t].p = my[t].p
            /\ my'[t].todo = my[t].todo
        BY <1>0, <3>2, LabelsAre, KeepOk
      <4> QED BY <2>2, <3>2, <4>1 DEF Goes, Paying, NoNews
    <3> QED BY <1>8, <2>4, <3>1, <3>2 DEF FinalizeCancel
  <2> QED BY <2>3, <2>4
<1>9. ASSUME BackCancel(t) PROVE CoverInv'
  <2>1. at[t] = "back" /\ Paying(t) /\ ~Seller(t) /\ ~Dropping(t) /\ UNCHANGED <<sale, pay>>
        /\ my[t].p \in Replacements
    BY <1>0, <1>9 DEF BackCancel, Seller, Selling, Dropping, Paying, Placed, Finalizes, orderVars
  <2> PICK q \in Payments : q = my[t].p
    BY <1>0
  <2>2. CASE CancelIntent(t, q, "back_dead")
    <3>1. /\ Goes(t) /\ at'[t] = "back_dead" /\ OnlyIntent(q) /\ NoNews
      BY <1>5, <2>2, LabelsAre
    <3>2. Steady(t)' /\ Stands(t)'
      BY <3>1 DEF Steady, Stands, Seller, Selling
    <3>3. /\ \A u \in Tasks \ {t} : Paying(u) => my[u].p # q
          /\ \A e \in events : e.type = "capturable" => e.p # q
      BY <2>1 DEF CoverInv, OneEach
    <3> QED BY <1>0, <2>1, <3>1, <3>2, <3>3, CoverOfIntent
  <2>3. CASE Keep(t, "back_dead", [my[t] EXCEPT !.ok = FALSE]) /\ UNCHANGED <<intent, events>>
    <3>1. /\ Moves(t) /\ at'[t] = "back_dead" /\ my'[t].op = my[t].op /\ my'[t].p = my[t].p
      BY <1>0, <2>3, LabelsAre, KeepOk
    <3>2. Steady(t)' /\ Stands(t)' /\ Goes(t) /\ NoNews
      BY <2>3, <3>1 DEF Steady, Stands, Seller, Selling, Goes, Paying, NoNews
    <3> QED BY <2>1, <2>3, <3>1, <3>2, CoverOfQuiet
  <2> QED BY <1>9, <2>2, <2>3 DEF BackCancel
<1>10. ASSUME AbandonCancel(t) PROVE CoverInv'
  <2>1. at[t] = "a_cancel" /\ ~Seller(t) /\ UNCHANGED <<sale, pay>> /\ my[t].op \in Abandons
        /\ Base \notin my[t].todo
    BY <1>0, <1>10 DEF AbandonCancel, Seller, Selling, Steady, Placed, orderVars
  <2>2. \A u \in Tasks : ~Paying(u)
    BY <2>1 DEF CoverInv, OneEach, Finalizing, Abandoning, Abandons, Paying
  <2>3. CASE my[t].todo = {}
    <3>1. Go(t, "a_dead") /\ UNCHANGED <<intent, events>>
      BY <1>10, <2>3 DEF AbandonCancel
    <3>2. Goes(t) /\ at'[t] = "a_dead" /\ my'[t] = my[t]
      BY <1>3, <3>1
    <3>3. Steady(t)' /\ Stands(t)' /\ NoNews /\ Dropping(t)'
      BY <2>1, <3>1, <3>2 DEF Steady, Stands, Seller, Selling, NoNews, Dropping
    <3> QED BY <2>1, <3>1, <3>2, <3>3, CoverOfQuiet
  <2>4. ASSUME my[t].todo # {} PROVE CoverInv'
    <3> PICK q \in Payments : q = First(my[t].todo) /\ q # Base
      BY <1>0, <2>1, <2>4, FirstIn
    <3> DEFINE j == [my[t] EXCEPT !.todo = @ \ {q}]
    <3>1. /\ Keep(t, "a_cancel", j)
          /\ \/ intent' = intent
             \/ intent' = [intent EXCEPT ![q] = "canceled"]
          /\ \A e \in events' \ events : e.type = "canceled"
      BY <1>10, <2>4 DEF AbandonCancel
    <3>2. j.op = my[t].op
      BY <1>0 DEF Jobs
    <3> HIDE DEF j
    <3>3. Moves(t) /\ at'[t] = "a_cancel" /\ my'[t] = j
      BY <1>0, <3>1, Keeping
    <3>4. Goes(t) /\ NoNews /\ OnlyIntent(q) /\ Dropping(t)'
      BY <1>0, <2>1, <2>2, <3>1, <3>2, <3>3
         DEF Goes, Paying, NoNews, OnlyIntent, MoneyTyped, Dropping, Abandons
    <3>5. Steady(t)' /\ Stands(t)'
      BY <2>1, <3>2, <3>3 DEF Steady, Stands, Seller, Selling
    <3>6. Expected(q)'
      BY <3>4 DEF Expected
    <3>7. at'[t] \notin {"f_screen", "f_claim"}
      BY <3>3
    <3> QED BY <2>1, <2>2, <3>4, <3>5, <3>6, <3>7, CoverOfIntent
  <2> QED BY <2>3, <2>4
<1>11. ASSUME ReleaseCancel(t) PROVE CoverInv'
  <2>1. at[t] = "r_cancel" /\ ~Seller(t) /\ ~Dropping(t) /\ UNCHANGED <<sale, pay>>
        /\ sale.st = "cancelled"
    BY <1>0, <1>11 DEF ReleaseCancel, Seller, Selling, Dropping, orderVars, Steady
  <2> PICK q \in Payments : q = my[t].p
    BY <1>0
  <2>2. CancelIntent(t, q, "r_mark")
    BY <1>11 DEF ReleaseCancel
  <2>3. /\ Goes(t) /\ at'[t] = "r_mark" /\ OnlyIntent(q) /\ NoNews
    BY <1>5, <2>2, LabelsAre
  <2>4. Steady(t)' /\ Stands(t)'
    BY <2>1, <2>3 DEF Steady, Stands, Seller, Selling
  <2>5. ~Open /\ ~Untaken
    BY <2>1 DEF Open, Untaken
  <2> QED BY <2>1, <2>3, <2>4, <2>5, CoverOfIntent
<1>12. ASSUME HoldCancel(t) PROVE CoverInv'
  <2>1. at[t] = "h_cancel" /\ ~Seller(t) /\ ~Dropping(t) /\ UNCHANGED <<sale, pay>>
        /\ my[t].p \in Replacements /\ pay[my[t].p].dead
    BY <1>0, <1>12 DEF HoldCancel, Seller, Selling, Dropping, orderVars, Steady, Placed
  <2> PICK q \in Payments : q = my[t].p
    BY <1>0
  <2>2. /\ \/ Go(t, "h_mark") \/ End(t)
        /\ \/ intent' = intent
           \/ intent' = [intent EXCEPT ![q] = "canceled"]
        /\ \A e \in events' \ events : e.type = "canceled"
    BY <1>12 DEF HoldCancel
  <2>3. Goes(t) /\ at'[t] \in {"h_mark", "idle"}
    BY <1>3, <1>4, <2>2
  <2>4. NoNews /\ OnlyIntent(q)
    BY <1>0, <2>2 DEF NoNews, OnlyIntent, MoneyTyped
  <2>5. Steady(t)' /\ Stands(t)'
    <3>1. CASE Go(t, "h_mark")
      BY <1>3, <2>1, <3>1 DEF Steady, Stands, Seller, Selling
    <3> QED BY <1>4, <2>2, <3>1
  <2>6. ~Sound(q) /\ Expected(q)'
    BY <2>1 DEF Sound, Expected
  <2>7. q # Base
    BY <1>0, <2>1
  <2> QED BY <2>1, <2>3, <2>4, <2>5, <2>6, <2>7, CoverOfIntent
<1> QED BY <1>6, <1>7, <1>8, <1>9, <1>10, <1>11, <1>12
\* The steps that write the order.
LEMMA CoverOfOrder ==
  ASSUME SaleInv, SaleInv', CoverInv, NEW t \in Tasks, Goes(t),
         UNCHANGED <<pay, intent, events>>, Steady(t)', Stands(t)',
         at'[t] \notin {"f_screen", "f_claim"}, ~Dropping(t),
         sale.st = "cancelled" => sale'.st = "cancelled", Untaken' => Untaken,
         Open' /\ sale'.by = "expert" => Seller(t)' \/ (sale.by = "expert" /\ Open /\ ~Seller(t))
  PROVE  CoverInv'
<1>1. \A p \in Payments : /\ Sound(p)' <=> Sound(p)
                          /\ Counted(p)' <=> Counted(p)
  BY DEF Sound, Counted
<1>2. \A u \in Tasks : my[u].p \in Payments
  BY DEF SaleInv, TypeInv, TypeOK, Jobs
<1>3. \A u \in Tasks : Dropping(u) => Dropping(u)'
  BY DEF Goes, Moves, Others, Dropping
<1>4. \A e \in events : Expected(e.p) => Expected(e.p)'
  BY <1>3 DEF Expected, Sound
<1>5. \A u \in Tasks \ {t} : Sound(my[u].p) =>
        Sound(my[u].p)' /\ (Counted(my[u].p) => Counted(my[u].p)')
  <2> SUFFICES ASSUME NEW u \in Tasks \ {t}, Sound(my[u].p)
               PROVE  Sound(my[u].p)' /\ (Counted(my[u].p) => Counted(my[u].p)')
    OBVIOUS
  <2>1. my'[u] = my[u]
    BY DEF Goes, Moves, Others
  <2> QED BY <2>1 DEF Sound, Counted
<1>6. pay' = pay /\ NoNews
  BY DEF NoNews
<1>7. Spares(t)
  BY <1>4, <1>5, <1>6 DEF Spares
<1>8. Untaken' => intent'[Base] \in {"held", "captured"}
  BY DEF CoverInv, Waits
<1> QED BY <1>6, <1>7, <1>8, CoverOf

LEMMA CoverOfOrders ==
  ASSUME SaleInv, SaleInv', CoverInv, NEW t \in Tasks,
         \/ Claim(t) \/ Failed(t) \/ Sold(t) \/ Assign(t) \/ ExpireClaim(t)
  PROVE  CoverInv'
<1>0. /\ TypeInv /\ TypeInv' /\ LocalsOK /\ Placed(t) /\ Steady(t) /\ Stands(t) /\ my[t].p \in Payments
      /\ UNCHANGED <<pay, intent, events>>
      /\ sale \in [st : {"open", "assigned", "cancelled"},
                   by : {"nobody", "pool", "expert"}, total : Prices \cup {Tariff}]
  BY TypeParts DEF SaleInv, TypeInv, TypeOK, LocalsOK, CoverInv, Jobs,
     Claim, Failed, Sold, Assign, ExpireClaim, moneyVars
<1>1. Seller(t) => Open /\ sale.by = For(my[t])
  BY DEF SaleInv, SellInv
<1>2. ASSUME NEW l, Go(t, l) PROVE Goes(t) /\ at'[t] = l /\ my'[t] = my[t]
  BY <1>0, <1>2, Keeping DEF Go, Goes, Paying
<1>3. ASSUME End(t) PROVE Goes(t) /\ at'[t] = "idle" /\ Steady(t)' /\ Stands(t)' /\ ~Seller(t)'
  <2>1. Moves(t) /\ at'[t] = "idle" /\ my'[t] = NoJob /\ NoJob.op = "none"
    BY <1>0, <1>3, EndMoves, JobsAreTyped
  <2> QED BY <2>1 DEF Goes, Paying, Abandons, Steady, Stands, Seller, Selling
<1>4. ASSUME Claim(t) PROVE CoverInv'
  <2>1. at[t] \in {"f_claim", "c_claim"} /\ ~Seller(t) /\ ~Dropping(t)
    BY <1>4 DEF Claim, Seller, Selling, Dropping
  <2>2. CASE Searching /\ at[t] = "f_claim" /\ sale' = [sale EXCEPT !.by = "expert"]
             /\ Go(t, "f_others")
    <3>1. at'[t] = "f_others" /\ my'[t] = my[t] /\ Goes(t)
      BY <1>2, <2>2
    <3>2. sale'.by = "expert" /\ sale'.st = "open"
      BY <1>0, <2>2 DEF Searching, Open
    <3>3. Sound(my[t].p)
      BY <2>2 DEF CoverInv, Waits, Untaken, Searching
    <3>4. Steady(t)' /\ Stands(t)' /\ Seller(t)'
      BY <1>0, <3>1, <3>3 DEF Steady, Stands, Seller, Selling, Sound
    <3> QED BY <1>0, <2>1, <2>2, <3>1, <3>2, <3>4, CoverOfOrder DEF Untaken, Searching, Open
  <2>3. CASE Searching /\ at[t] = "c_claim" /\ sale' = [sale EXCEPT !.by = "pool"]
             /\ Go(t, "find")
    <3>1. at'[t] = "find" /\ my'[t] = my[t] /\ Goes(t)
      BY <1>2, <2>3
    <3>2. sale'.by = "pool" /\ sale'.st = "open"
      BY <1>0, <2>3 DEF Searching, Open
    <3>3. ~Paying(t)
      BY <1>0, <2>3 DEF Placed, Paying
    <3>4. Steady(t)' /\ Stands(t)'
      BY <3>1, <3>3 DEF Steady, Stands, Paying
    <3> QED BY <1>0, <2>1, <2>3, <3>1, <3>2, <3>4, CoverOfOrder DEF Untaken, Searching, Open
  <2>4. CASE Go(t, "back") /\ UNCHANGED sale
    <3>1. at'[t] = "back" /\ my'[t] = my[t] /\ Goes(t)
      BY <1>2, <2>4
    <3>2. Steady(t)' /\ Stands(t)'
      BY <3>1 DEF Steady, Stands, Seller, Selling
    <3> QED BY <1>0, <2>1, <2>4, <3>1, <3>2, CoverOfOrder DEF Untaken, Open
  <2>5. CASE End(t) /\ UNCHANGED sale
    BY <1>0, <1>3, <2>1, <2>5, CoverOfOrder DEF Untaken, Open
  <2> QED BY <1>4, <2>2, <2>3, <2>4, <2>5 DEF Claim
<1>5. ASSUME Failed(t) PROVE CoverInv'
  <2>1. at[t] = "failed" /\ Seller(t) /\ ~Dropping(t)
    BY <1>5 DEF Failed, Seller, Selling, Dropping
  <2>2. ~Paying(t) /\ Open /\ sale.by = "pool"
    BY <1>0, <1>1, <2>1 DEF Steady, For, Paying
  <2>3. End(t) /\ sale' = [sale EXCEPT !.by = "nobody"]
    BY <1>5, <2>2 DEF Failed, Paying
  <2>4. sale'.by = "nobody" /\ sale'.st = sale.st
    BY <1>0, <2>3
  <2> QED BY <1>0, <1>3, <2>1, <2>2, <2>3, <2>4, CoverOfOrder DEF Untaken, Open
<1>6. ASSUME Sold(t) PROVE CoverInv'
  <2>1. at[t] = "sold" /\ Seller(t) /\ ~Dropping(t) /\ Go(t, "assign")
    BY <1>6 DEF Sold, Seller, Selling, Dropping
  <2>2. sale'.by = sale.by /\ sale'.st = sale.st
    BY <1>0, <1>6 DEF Sold
  <2>3. at'[t] = "assign" /\ my'[t] = my[t] /\ Goes(t)
    BY <1>2, <2>1
  <2>4. Steady(t)' /\ Stands(t)' /\ Seller(t)'
    BY <1>0, <2>1, <2>3 DEF Steady, Stands, Seller, Selling, Sound, Counted, Paying
  <2> QED BY <1>0, <2>1, <2>2, <2>3, <2>4, CoverOfOrder DEF Untaken, Open
<1>7. ASSUME Assign(t) PROVE CoverInv'
  <2>1. at[t] = "assign" /\ Seller(t) /\ ~Dropping(t) /\ End(t)
    BY <1>7 DEF Assign, Seller, Selling, Dropping
  <2>2. Open /\ sale'.st = "assigned"
    BY <1>0, <1>1, <1>7, <2>1 DEF Assign
  <2> QED BY <1>0, <1>3, <2>1, <2>2, CoverOfOrder DEF Untaken, Open
<1>8. ASSUME ExpireClaim(t) PROVE CoverInv'
  <2>1. at[t] = "e_claim" /\ ~Seller(t) /\ ~Dropping(t)
    BY <1>8 DEF ExpireClaim, Seller, Selling, Dropping
  <2>2. CASE Searching
    <3>1. sale'.st = "cancelled" /\ Go(t, "r_find")
      BY <1>0, <1>8, <2>2 DEF ExpireClaim
    <3>2. at'[t] = "r_find" /\ my'[t] = my[t] /\ Goes(t)
      BY <1>2, <3>1
    <3>3. Steady(t)' /\ Stands(t)'
      BY <3>1, <3>2 DEF Steady, Stands, Seller, Selling
    <3> QED BY <1>0, <2>1, <3>1, <3>2, <3>3, CoverOfOrder DEF Untaken, Open
  <2>3. CASE ~Searching
    <3>1. End(t) /\ UNCHANGED sale
      BY <1>8, <2>3 DEF ExpireClaim
    <3> QED BY <1>0, <1>3, <2>1, <3>1, CoverOfOrder DEF Untaken, Open
  <2> QED BY <2>2, <2>3
<1> QED BY <1>4, <1>5, <1>6, <1>7, <1>8

\* The write-off: nobody is paying, and every hold that Stripe may still tell of is dead.
LEMMA CoverOfDead ==
  ASSUME SaleInv, SaleInv', CoverInv, NEW t \in Tasks, AbandonDead(t)
  PROVE  CoverInv'
<1>0. /\ TypeInv /\ TypeInv' /\ LocalsOK /\ pay \in [Payments -> PayRows] /\ Steady(t)
      /\ Base \notin Replacements /\ Replacements \subseteq Payments
  BY TypeParts, PaymentsAssumption
     DEF SaleInv, TypeInv, TypeOK, LocalsOK, CoverInv, Payments, Base
<1>1. /\ at[t] = "a_dead" /\ UNCHANGED <<sale, intent, events>> /\ End(t)
      /\ pay' = [p \in Payments |-> IF p \in Live \ {Base}
                   THEN [pay[p] EXCEPT !.st = "failed", !.dead = TRUE] ELSE pay[p]]
  BY DEF AbandonDead, orderVars
<1>2. ~Seller(t) /\ my[t].op \in Abandons
  BY <1>0, <1>1 DEF Seller, Selling, Steady
<1>3. \A u \in Tasks : ~Paying(u)
  BY <1>2 DEF CoverInv, OneEach, Finalizing, Abandoning, Abandons, Paying
<1>4. Moves(t) /\ at'[t] = "idle" /\ my'[t] = NoJob /\ NoJob.op = "none"
  BY <1>0, <1>1, EndMoves, JobsAreTyped
<1>5. Goes(t) /\ Steady(t)' /\ Stands(t)' /\ ~Seller(t)' /\ NoNews
  BY <1>1, <1>4 DEF Goes, Paying, Abandons, Steady, Stands, Seller, Selling, NoNews
<1>6. ASSUME NEW p \in Payments, pay[p].dead PROVE pay'[p].dead
  BY <1>1, <1>6 DEF Live
<1>7. ASSUME NEW e \in events, e.type = "capturable" PROVE pay'[e.p].dead
  <2>1. e.p \in Replacements /\ e.p \in Payments /\ e.p # Base
    BY <1>0 DEF SaleInv, TypeInv, TypeOK, Events
  <2>2. e.p \in Rows
    BY <1>7, <2>1 DEF SaleInv, MoneyInv, Told, Touched, RowOK, Rows
  <2>3. CASE pay[e.p].dead
    BY <1>6, <2>1, <2>3
  <2>4. CASE ~pay[e.p].dead
    <3>1. pay'[e.p] = [pay[e.p] EXCEPT !.st = "failed", !.dead = TRUE]
      BY <1>1, <2>1, <2>2, <2>4 DEF Live
    <3>2. pay[e.p] \in PayRows
      BY <1>0, <2>1
    <3> QED BY <3>1, <3>2 DEF PayRows
  <2> QED BY <2>3, <2>4
<1>8. (Untaken' <=> Untaken) /\ (Open' <=> Open)
  BY <1>1 DEF Untaken, Open
<1>9. Spares(t)
  BY <1>1, <1>3, <1>6, <1>7, <1>8 DEF Spares, Expected
<1>10. Untaken' => intent'[Base] \in {"held", "captured"}
  BY <1>1, <1>8 DEF CoverInv, Waits
<1> QED BY <1>1, <1>2, <1>4, <1>5, <1>8, <1>9, <1>10, CoverOf

LEMMA CoverStep ==
  ASSUME Calm, SaleInv, CoverInv, [Next]_vars
  PROVE  SaleInv' /\ CoverInv'
<1>1. SaleInv'
  BY SaleStep DEF Calm, CapturesTell
<1>2. CASE UNCHANGED vars
  <2>1. UNCHANGED <<sale, pay, intent, events, at, my>>
    BY <1>2 DEF vars, orderVars, moneyVars
  <2>2. \A t \in Tasks : Steady(t)' /\ Stands(t)'
    BY <2>1 DEF CoverInv, Steady, Stands, Seller, Paying, Sound, Counted
  <2>3. OneEach'
    BY <2>1 DEF CoverInv, OneEach, Paying, Finalizing, Abandoning
  <2>4. Waits'
    BY <2>1 DEF CoverInv, Waits, Untaken, Open, Expected, Sound, Dropping
  <2> QED BY <1>1, <2>1, <2>2, <2>3, <2>4 DEF CoverInv, Open, Seller
<1>3. CASE Next
  BY <1>1, <1>3, CoverBegins, CoverOutside, CoverOfReads, CoverOfRows, CoverOfIntents,
     CoverOfOrders, CoverOfDead
     DEF Next, Outside, Continue, FinalizeSteps, Crash, Calm
<1> QED BY <1>1, <1>2, <1>3

LEMMA CoverInit == Init => CoverInv
<1> SUFFICES ASSUME Init PROVE CoverInv
  OBVIOUS
<1>1. /\ \A t \in Tasks : at[t] = "idle" /\ my[t].op = "none"
      /\ events = {} /\ sale.by = "nobody" /\ Base \in Payments /\ intent[Base] = "held"
  BY JobsAreTyped DEF Init, Payments
<1> QED BY <1>1 DEF CoverInv, Steady, Stands, Seller, Selling, OneEach, Paying, Finalizing, Abandoning,
     Waits

LEMMA CoverHolds == SaleInv /\ CoverInv => AlwaysCovered
<1> SUFFICES ASSUME SaleInv, CoverInv, Open PROVE \E p \in Payments : intent[p] \in {"held", "captured"}
  BY DEF AlwaysCovered
<1>1. CASE sale.by # "expert"
  BY <1>1 DEF CoverInv, Waits, Untaken, Payments
<1>2. CASE sale.by = "expert"
  <2>1. PICK t \in Tasks : Seller(t)
    BY <1>2 DEF CoverInv
  <2>2. Paying(t) /\ my[t].p \in Payments
    BY <1>2, <2>1 DEF SaleInv, SellInv, TypeInv, TypeOK, Jobs, For, Paying
  <2> QED BY <2>1, <2>2 DEF CoverInv, Stands, Sound
<1> QED BY <1>1, <1>2

\* While the order is in the search a hold covers it at Stripe, whoever takes it, however many
\* payments were opened for it and abandoned: the first hold is given back by
\* releaseReplacedHold only once the claim is the second one's.
THEOREM OrderStaysCovered ==
  ASSUME Calm
  PROVE  Spec => []AlwaysCovered
<1>1. Init => SaleInv /\ CoverInv
  BY SaleBegins, CoverInit
<1>2. SaleInv /\ CoverInv /\ [Next]_vars => SaleInv' /\ CoverInv'
  BY CoverStep
<1>3. SaleInv /\ CoverInv => AlwaysCovered
  BY CoverHolds
<1> QED BY <1>1, <1>2, <1>3, PTL DEF Spec
=============================================================================
