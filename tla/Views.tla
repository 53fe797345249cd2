-------------------------------- MODULE Views --------------------------------
(***************************************************************************)
(* Who is shown what of one order: the lists of the customer and of the       *)
(* inspectors it was offered to, the page a row of them opens, the parties'    *)
(* contacts and the report.                                                  *)
(*                                                                          *)
(* The handlers that move the order are those of OrderEscrow, Dispatch and      *)
(* Settlement: here each is one step, but a claim that has yet to take the     *)
(* money.  A reader is a task, one action one of its queries.                  *)
(* Abstracted: paging, sorting, amounts; an offer's age is told by the window   *)
(* of the missed offers, and later offers expire later.                       *)
(***************************************************************************)
EXTENDS OrderStates, Naturals, Sequences, FiniteSets

CONSTANTS
  Readers,      \* tasks
  Experts,      \* inspectors; one to whom nothing was offered is a stranger
  Nobody,       \* order.inspectorId IS NULL
  MaxOffered    \* bound on the offers made

VARIABLES
  job,        \* the order: its status and its inspector
  offered,    \* its OrderOffer rows, in the order they were made
  draft,      \* a Report row names the order
  filed,      \* history: the report was submitted
  erased,     \* the parties whose accounts are erased
  reader,     \* locals of each reader
  page        \* what it has just been shown

world == <<job, offered, draft, filed, erased>>
viewVars == <<world, reader, page>>

People == Experts \cup {"customer", "admin"}
Ages == {"open", "lapsed", "old"}     \* expiresAt: ahead, within the window, before it
Offer(i, st) == [to |-> i, st |-> st, age |-> "open"]
Hidden == [inspector |-> FALSE, customer |-> FALSE, seller |-> FALSE, report |-> FALSE]
Idle == [who |-> Nobody, st |-> "CREATED", by |-> Nobody]

\* OrderDetail: what a page of the order may carry beside the order itself.
OrderDetail == [inspector : BOOLEAN, customer : BOOLEAN, seller : BOOLEAN, report : BOOLEAN]

Init ==
  /\ job = [st |-> "PAID", by |-> Nobody]
  /\ offered = <<>>
  /\ draft = FALSE /\ filed = FALSE /\ erased = {}
  /\ reader = [r \in Readers |-> Idle] /\ page = [r \in Readers |-> Hidden]

TypeOK ==
  /\ job \in [st : Statuses, by : Experts \cup {Nobody}]
  /\ Len(offered) <= MaxOffered
  /\ \A k \in DOMAIN offered :
       offered[k] \in [to : Experts, st : {"PENDING", "ACCEPTED", "DECLINED", "EXPIRED"},
                       age : Ages]
  /\ draft \in BOOLEAN /\ filed \in BOOLEAN
  /\ erased \subseteq Experts \cup {"customer"}
  /\ reader \in [Readers -> [who : People \cup {Nobody}, st : Statuses,
                             by : Experts \cup {Nobody}]]
  /\ page \in [Readers -> OrderDetail]

OffersTo(i) == {k \in DOMAIN offered : offered[k].to = i}
Live(k) == offered[k].st = "PENDING" /\ offered[k].age = "open"
InWindow(k) == offered[k].age # "old"
Latest(S) == CHOOSE k \in S : \A n \in S : n <= k

-----------------------------------------------------------------------------
\* listMine and listMissedOffers: the rows an inspector sees of the order.
ActiveStatuses == {"ASSIGNED", "EN_ROUTE", "IN_PROGRESS"}
CompletedUncancelled == {"SUBMITTED", "APPROVED", "DISPUTED", "COMPLETED", "REFUNDED"}
CompletedStatuses == {"SUBMITTED", "APPROVED", "DISPUTED", "CANCELLED", "COMPLETED", "REFUNDED"}
InOffers(i) == \E k \in OffersTo(i) : Live(k)
InActive(i) == job.by = i /\ job.st \in ActiveStatuses
InCompleted(i) == job.by = i /\ job.st \in CompletedStatuses
Missed(i) ==
  {k \in OffersTo(i) : offered[k].st \in {"EXPIRED", "DECLINED"} /\ InWindow(k) /\ job.by # i}

\* getDetail: who is let in.  Of the offers made to the reader the latest speaks.
AdmitsActive(i) == OffersTo(i) # {} /\ LET k == Latest(OffersTo(i)) IN
  offered[k].st = "ACCEPTED" \/ Live(k)
AdmitsOffered(i) == OffersTo(i) # {} /\ LET k == Latest(OffersTo(i)) IN
  offered[k].st = "ACCEPTED" \/ Live(k) \/ InWindow(k)
Admits(u, by) == u \in {"customer", "admin"} \/ by = u \/ AdmitsOffered(u)

\* resolveContact: an erased account discloses nothing.
ContactAnyway(u) == TRUE
ResolveContact(u) == u \notin erased
DisclosedSooner(st) == st \in {"APPROVED", "COMPLETED"}
DisclosedToCustomer(st) == st = "COMPLETED"
SubmittedOrLater == {"SUBMITTED", "APPROVED", "COMPLETED", "DISPUTED"}

\* The page, of the order as it was read first, and of the rest as it is now.
Detail(u, st, by) ==
  LET holds == u \in {"customer", "admin"} \/ u = by IN
  [inspector |-> /\ by # Nobody /\ ResolveContact(by)
                 /\ u = "admin" \/ (u = "customer" /\ DisclosedToCustomer(st)),
   customer  |-> u = "admin" /\ ResolveContact("customer"),
   seller    |-> holds,
   report    |-> holds /\ st \in SubmittedOrLater /\ draft]

ReadOrder(r) ==
  /\ reader[r] = Idle
  /\ \E u \in People : reader' = [reader EXCEPT ![r] = [who |-> u, st |-> job.st, by |-> job.by]]
  /\ page' = [page EXCEPT ![r] = Hidden]
  /\ UNCHANGED world

GetDetail(r) ==
  /\ reader[r] # Idle
  /\ page' = [page EXCEPT ![r] =
       IF Admits(reader[r].who, reader[r].by)
       THEN Detail(reader[r].who, reader[r].st, reader[r].by) ELSE Hidden]
  /\ reader' = [reader EXCEPT ![r] = Idle]
  /\ UNCHANGED world

-----------------------------------------------------------------------------
\* What the other modules do to the order.
Write(k, st) == offered' = [offered EXCEPT ![k].st = st]
OthersOver(i) == [n \in DOMAIN offered |->
  IF offered[n].to # i /\ offered[n].st = "PENDING" THEN [offered[n] EXCEPT !.st = "EXPIRED"]
  ELSE offered[n]]

Dispatch(i) ==
  /\ job.st \in Pool /\ job.by = Nobody /\ Len(offered) < MaxOffered
  /\ \A k \in DOMAIN offered : offered[k].st # "PENDING"
  /\ \A k \in OffersTo(i) : offered[k].st = "EXPIRED"
  /\ offered' = Append(offered, Offer(i, "PENDING"))
  /\ UNCHANGED <<job, draft, filed, erased>>

DeclineOffer ==
  /\ \E k \in DOMAIN offered : Live(k) /\ Write(k, "DECLINED")
  /\ UNCHANGED <<job, draft, filed, erased>>

ExpireStaleOffers ==
  /\ \E k \in DOMAIN offered :
       offered[k].st = "PENDING" /\ offered[k].age # "open" /\ Write(k, "EXPIRED")
  /\ UNCHANGED <<job, draft, filed, erased>>

\* acceptOffer and adminAssign: the claim, then the money, then the assignment or the claim
\* given back.  adminAssign takes some offer of its inspector, whichever it finds first.
Claim(i) ==
  /\ job.st \in Pool /\ job.by = Nobody
  /\ job' = [job EXCEPT !.by = i]
  /\ UNCHANGED <<offered, draft, filed, erased>>

GiveBack ==
  /\ job.st \in Pool /\ job.by # Nobody
  /\ job' = [job EXCEPT !.by = Nobody]
  /\ UNCHANGED <<offered, draft, filed, erased>>

Assign ==
  /\ job.st \in Pool /\ job.by # Nobody
  /\ job' = [job EXCEPT !.st = "ASSIGNED"]
  /\ \/ /\ OffersTo(job.by) = {}
        /\ offered' = Append(OthersOver(job.by), Offer(job.by, "ACCEPTED"))
     \/ \E k \in OffersTo(job.by) :
          offered' = [OthersOver(job.by) EXCEPT ![k].st = "ACCEPTED"]
  /\ Len(offered') <= MaxOffered
  /\ UNCHANGED <<draft, filed, erased>>

\* From status to status; the dispatch that finds nobody, the trip, the cancellations, the
\* settlement.  A report comes in while somebody holds the order, and is filed as SUBMITTED.
Move ==
  /\ \E st \in OrderTransitions[job.st] \ {"ASSIGNED"} :
       /\ st = "UNASSIGNED" => job.by = Nobody
       /\ st = "SUBMITTED" => draft
       /\ job' = [job EXCEPT !.st = st] /\ filed' = (filed \/ st = "SUBMITTED")
  /\ UNCHANGED <<offered, draft, erased>>

Report ==
  /\ job.st \in Attachable /\ ~draft /\ draft' = TRUE
  /\ UNCHANGED <<job, offered, filed, erased>>

\* Bound: one of the parties, and not while the order is in the pool.
Erase ==
  /\ erased = {} /\ job.st \notin Pool
  /\ \E u \in {job.by, "customer"} \ {Nobody} : erased' = {u}
  /\ UNCHANGED <<job, offered, draft, filed>>

\* The clock: an earlier offer ends and falls out of the window no later than the next.
OfferAges ==
  /\ \E k \in DOMAIN offered : \E to \in Ages :
       /\ <<offered[k].age, to>> \in {<<"open", "lapsed">>, <<"lapsed", "old">>}
       /\ \A n \in 1 .. k - 1 : offered[n].age \in {"old", to}
       /\ offered' = [offered EXCEPT ![k].age = to]
  /\ UNCHANGED <<job, draft, filed, erased>>

Handled ==
  \/ \E i \in Experts : Dispatch(i) \/ Claim(i)
  \/ DeclineOffer \/ ExpireStaleOffers \/ GiveBack \/ Assign
  \/ Move \/ Report \/ Erase \/ OfferAges

Next ==
  \/ Handled /\ UNCHANGED reader /\ page' = [r \in Readers |-> Hidden]
  \/ \E r \in Readers : ReadOrder(r) \/ GetDetail(r)

Spec == Init /\ [][Next]_viewVars

-----------------------------------------------------------------------------
\* A row in a list never opens a 403: whoever has the order in one of the tabs, or among
\* the missed offers, is let in by the page, whatever became of the offer meanwhile.
WhatIsListedOpens ==
  \A i \in Experts :
    InOffers(i) \/ InActive(i) \/ InCompleted(i) \/ Missed(i) # {} => Admits(i, job.by)

\* An order somebody was given is in one of the two tabs of its inspector, whichever way it
\* went on, and never among what the inspector missed.
HeldIsInOneTab ==
  \A i \in Experts : job.by = i /\ job.st \notin Pool \cup {"CREATED"} =>
    (InActive(i) # InCompleted(i)) /\ Missed(i) = {}

\* A page as it is answered never shows the channels of somebody who is erased, the
\* inspector's before the order is over, or a report that nobody filed or disputed.
ShownAtMost ==
  \A r \in Readers : page'[r] # page[r] /\ page'[r] # Hidden =>
    /\ page'[r].inspector => /\ reader[r].by \notin erased
                             /\ reader[r].who = "admin" \/ job.st = "COMPLETED"
    /\ page'[r].report => filed \/ job.st \notin ActiveStatuses
=============================================================================
