------------------------------ MODULE Dispatch ------------------------------
(***************************************************************************)
(* The search for an inspector: dispatch offers a paid order to one           *)
(* candidate of the pool after the other, who accepts, refuses or is silent;  *)
(* a sweep expires the silent ones, another opens the next round, a third     *)
(* ends the search; an operator may assign the order by hand.                 *)
(*                                                                          *)
(* A task is a running async function, one action one SQL statement, as in    *)
(* OrderEscrow, whose money is abstracted here to how a capture ends.         *)
(* Abstracted: distances and prices (any candidate may be the best one), what *)
(* makes an inspector a candidate (one bit), notifications and events.        *)
(***************************************************************************)
EXTENDS Naturals, Sequences, FiniteSets, OrderStates

CONSTANTS
  Tasks,
  Inspectors,
  NoOne,      \* order.inspectorId IS NULL
  Handlers,   \* the handlers that may start (all of them, or a subset)
  Alone,      \* handlers no two of which run at the same time
  MaxRound,   \* bound on order.dispatchRound
  MaxRows     \* bound on the OrderOffer rows of the order

HandlerNames == {"authorize", "decline", "acceptOffer", "adminAssign", "cancel",
  "expireStaleOffers", "redispatch", "expireUnfilledSearches", "abandon"}

ASSUME NoOneIsNobody == NoOne \notin Inspectors
ASSUME BoundsAssumption == MaxRound \in Nat /\ MaxRows \in Nat \ {0}

VARIABLES
  order,     \* status, inspectorId, dispatchRound
  over,      \* whether searchExpiresAt has passed
  locked,    \* whether a counter-offer is being paid for
  free,      \* the inspectors findNearestInspectors would return
  offers,    \* the OrderOffer rows of the order, oldest first
  refused,   \* history: who has refused, whatever the rows say by now
  pc, job

env == <<over, locked, free>>
vars == <<order, env, offers, refused, pc, job>>

\* live: expiresAt is ahead.  It is read of PENDING rows, and kept of them only.
Offers == [who : Inspectors, st : {"PENDING", "ACCEPTED", "DECLINED", "EXPIRED"},
           round : 0 .. MaxRound, live : BOOLEAN]

Searching == order.st \in Pool /\ order.by = NoOne
RowIds == 1 .. Len(offers)
Of(i) == {k \in RowIds : offers[k].who = i}
Pending == {k \in RowIds : offers[k].st = "PENDING"}

\* The rows of S that are in one of the states From go to the state to.
Answer(S, From, to) ==
  offers' = [k \in RowIds |->
    IF k \in S /\ offers[k].st \in From
    THEN [offers[k] EXCEPT !.st = to, !.live = FALSE] ELSE offers[k]]
AnyState == {"PENDING", "ACCEPTED", "DECLINED", "EXPIRED"}

Labels == {"idle", "d_read", "d_lock", "d_choose", "d_write", "t_read", "t_write",
  "x_write", "s_write", "s_next", "r_claim", "c_claim", "c_accept", "c_capture",
  "c_undo", "c_undo_offer", "c_kill", "c_others", "m_claim", "m_capture", "m_find",
  "m_expire", "m_own", "e_claim", "e_find", "e_write"}

\* Locals: the handler, its inspector, the row it is about, the rows it goes
\* through, the status and round it read, and the status it moves the order to.
Jobs == [op : HandlerNames \cup {"none"}, who : Inspectors \cup {NoOne},
         row : 0 .. MaxRows, todo : SUBSET (1 .. MaxRows),
         st : Statuses, round : 0 .. MaxRound, to : Statuses]
Job(op, who, row) == [op |-> op, who |-> who, row |-> row, todo |-> {},
                      st |-> "CREATED", round |-> 0, to |-> "CANCELLED"]
NoJob == Job("none", NoOne, 0)

Begin(t, label, j) ==
  /\ pc[t] = "idle" /\ j.op \in Handlers
  /\ j.op \in Alone => \A u \in Tasks : job[u].op \notin Alone
  /\ pc' = [pc EXCEPT ![t] = label]
  /\ job' = [job EXCEPT ![t] = j]

Keep(t, label, j) == pc' = [pc EXCEPT ![t] = label] /\ job' = [job EXCEPT ![t] = j]
Go(t, label) == Keep(t, label, job[t])
End(t) == Keep(t, "idle", NoJob)

-----------------------------------------------------------------------------
Init ==
  /\ order = [st |-> "CREATED", by |-> NoOne, round |-> 0]
  /\ over = FALSE /\ locked = FALSE /\ free \in SUBSET Inspectors
  /\ offers = <<>> /\ refused = {}
  /\ pc = [t \in Tasks |-> "idle"] /\ job = [t \in Tasks |-> NoJob]

TypeOK ==
  /\ order \in [st : Statuses, by : Inspectors \cup {NoOne}, round : 0 .. MaxRound]
  /\ over \in BOOLEAN /\ locked \in BOOLEAN /\ free \subseteq Inspectors
  /\ Len(offers) <= MaxRows /\ \A k \in RowIds : offers[k] \in Offers
  /\ refused \subseteq Inspectors
  /\ pc \in [Tasks -> Labels] /\ job \in [Tasks -> Jobs]

-----------------------------------------------------------------------------
\* dispatch, and where its callers go on: the sweep to its next row.
Return(t) == IF job[t].op = "expireStaleOffers" THEN Go(t, "s_next") ELSE End(t)

DispatchRead(t) ==
  /\ pc[t] = "d_read"
  /\ \/ /\ order.st \in Pool
        /\ Keep(t, "d_lock", [job[t] EXCEPT !.st = order.st, !.round = order.round])
     \/ order.st \notin Pool /\ Return(t)
  /\ UNCHANGED <<order, env, offers, refused>>

DispatchLock(t) ==
  /\ pc[t] = "d_lock"
  /\ IF locked THEN Return(t) ELSE Go(t, "d_choose")
  /\ UNCHANGED <<order, env, offers, refused>>

\* Out for ever, out while they hold an offer, and out for the round that was read.
ExcludedWhoAnswered(round) ==
  {offers[k].who : k \in {r \in RowIds : offers[r].st # "EXPIRED"}}

ExcludedAsAsked(round) ==
  {offers[k].who : k \in {r \in RowIds : offers[r].round = round}}

Excluded(round) ==
  {offers[k].who : k \in {r \in RowIds : offers[r].st # "EXPIRED" \/ offers[r].round = round}}

DispatchChoose(t) ==
  /\ pc[t] = "d_choose"
  /\ LET candidates == free \ Excluded(job[t].round)
     IN \/ \E i \in candidates : Keep(t, "d_write", [job[t] EXCEPT !.who = i])
        \/ candidates = {} /\ job[t].st = "UNASSIGNED" /\ Return(t)
        \/ candidates = {} /\ job[t].st # "UNASSIGNED" /\
           Keep(t, "t_read", [job[t] EXCEPT !.to = "UNASSIGNED"])
  /\ UNCHANGED <<order, env, offers, refused>>

\* With no row left under the bound, the model's function stops here.
DispatchWrite(t) ==
  /\ pc[t] = "d_write"
  /\ offers' = IF Len(offers) = MaxRows THEN offers
               ELSE Append(offers, [who |-> job[t].who, st |-> "PENDING",
                                    round |-> job[t].round, live |-> TRUE])
  /\ Return(t)
  /\ UNCHANGED <<order, env, refused>>

\* transition: a read, the table of edges, a write by id.  Its error ends the caller.
TransitionRead(t) ==
  /\ pc[t] = "t_read"
  /\ IF order.st # job[t].to /\ CanTransition(order.st, job[t].to)
     THEN Go(t, "t_write") ELSE IF order.st = job[t].to THEN Return(t) ELSE End(t)
  /\ UNCHANGED <<order, env, offers, refused>>

TransitionWrite(t) ==
  /\ pc[t] = "t_write"
  /\ order' = [order EXCEPT !.st = job[t].to]
  /\ Return(t)
  /\ UNCHANGED <<env, offers, refused>>

Move(t, to) == Keep(t, "t_read", [job[t] EXCEPT !.to = to])

-----------------------------------------------------------------------------
\* The hold is in place: the order is paid and the search begins.
Authorize(t) ==
  /\ order.st = "CREATED"
  /\ order' = [order EXCEPT !.st = "PAID"]
  /\ Begin(t, "d_read", Job("authorize", NoOne, 0))
  /\ UNCHANGED <<env, offers, refused>>

\* The inspector refuses, or says so again: the next is asked either way.
Decline(t) ==
  /\ \E k \in RowIds :
       Begin(t, IF offers[k].st = "PENDING" THEN "x_write" ELSE "d_read",
             Job("decline", offers[k].who, k))
  /\ UNCHANGED <<order, env, offers, refused>>

DeclineWrite(t) ==
  /\ pc[t] = "x_write"
  /\ Answer({job[t].row}, AnyState, "DECLINED")
  /\ refused' = refused \cup {job[t].who}
  /\ Go(t, "d_read")
  /\ UNCHANGED <<order, env>>

\* expireStaleOffers works through the rows its query found, and asks the next
\* inspector after each.
ExpireStaleOffers(t) ==
  /\ LET stale == {k \in Pending : ~offers[k].live}
     IN /\ stale # {}
        /\ Begin(t, "s_write", [Job("expireStaleOffers", NoOne, 0) EXCEPT !.todo = stale])
  /\ UNCHANGED <<order, env, offers, refused>>

Least(S) == CHOOSE k \in S : \A r \in S : k <= r

StaleWriteDropped(t) ==
  /\ pc[t] = "s_write"
  /\ Keep(t, "d_read", [job[t] EXCEPT !.todo = @ \ {Least(@)}])
  /\ IF order.st \in Pool THEN Answer({Least(job[t].todo)}, AnyState, "EXPIRED")
     ELSE UNCHANGED offers
  /\ UNCHANGED <<order, env, refused>>

StaleWrite(t) ==
  /\ pc[t] = "s_write"
  /\ Answer({Least(job[t].todo)}, AnyState, "EXPIRED")
  /\ Keep(t, "d_read", [job[t] EXCEPT !.todo = @ \ {Least(@)}])
  /\ UNCHANGED <<order, env, refused>>

StaleNext(t) ==
  /\ pc[t] = "s_next"
  /\ IF job[t].todo = {} THEN End(t) ELSE Go(t, "s_write")
  /\ UNCHANGED <<order, env, offers, refused>>

\* redispatchUnfilledOrders: one more round, by a conditional write.
Redispatch(t) ==
  /\ order.st = "UNASSIGNED" /\ order.by = NoOne /\ ~over
  /\ Begin(t, "r_claim", Job("redispatch", NoOne, 0))
  /\ UNCHANGED <<order, env, offers, refused>>

RedispatchSameRound(t) ==
  /\ pc[t] = "r_claim"
  /\ IF order.st = "UNASSIGNED" /\ order.by = NoOne THEN Go(t, "d_read") ELSE End(t)
  /\ UNCHANGED <<order, env, offers, refused>>

RedispatchClaim(t) ==
  /\ pc[t] = "r_claim"
  /\ IF order.st = "UNASSIGNED" /\ order.by = NoOne /\ order.round < MaxRound
     THEN order' = [order EXCEPT !.round = @ + 1] /\ Go(t, "d_read")
     ELSE End(t) /\ UNCHANGED order
  /\ UNCHANGED <<env, offers, refused>>

\* abandonCounterOfferPayment: the lock is off, the pool is asked again.
Abandon(t) ==
  /\ locked /\ locked' = FALSE
  /\ Begin(t, "d_read", Job("abandon", NoOne, 0))
  /\ UNCHANGED <<order, over, free, offers, refused>>

-----------------------------------------------------------------------------
\* acceptOffer: the offer and the lock are read, the order is claimed.
AcceptOffer(t) ==
  /\ ~locked
  /\ \E k \in Pending :
       /\ offers[k].live
       /\ Begin(t, "c_claim", Job("acceptOffer", offers[k].who, k))
  /\ UNCHANGED <<order, env, offers, refused>>

AcceptClaim(t) ==
  /\ pc[t] = "c_claim"
  /\ IF Searching THEN order' = [order EXCEPT !.by = job[t].who] /\ Go(t, "c_accept")
     ELSE End(t) /\ UNCHANGED order
  /\ UNCHANGED <<env, offers, refused>>

AcceptMark(t) ==
  /\ pc[t] = "c_accept"
  /\ Answer({job[t].row}, {"PENDING"}, "ACCEPTED")
  /\ Go(t, "c_capture")
  /\ UNCHANGED <<order, env, refused>>

\* releaseOrderClaim.
Unclaimed(t) ==
  IF order.st \in Pool /\ order.by = job[t].who THEN [order EXCEPT !.by = NoOne] ELSE order

\* The money is taken; or it could not be taken now, or never will be.
AcceptCapture(t) ==
  /\ pc[t] = "c_capture"
  /\ \/ Go(t, "c_others") /\ UNCHANGED order
     \/ Go(t, "c_undo_offer") /\ order' = Unclaimed(t)
     \/ Go(t, "c_kill") /\ order' = Unclaimed(t)
  /\ UNCHANGED <<env, offers, refused>>

\* The offer's own window goes on; it may have run out meanwhile.
UndoOffer(t) ==
  /\ pc[t] = "c_undo_offer"
  /\ \E live \in BOOLEAN :
       offers' = [k \in RowIds |->
         IF k = job[t].row /\ offers[k].st = "ACCEPTED"
         THEN [offers[k] EXCEPT !.st = "PENDING", !.live = live] ELSE offers[k]]
  /\ End(t)
  /\ UNCHANGED <<order, env, refused>>

KillOffers(t) ==
  /\ pc[t] = "c_kill"
  /\ Answer(RowIds, {"PENDING", "ACCEPTED"}, "EXPIRED")
  /\ Move(t, "CANCELLED")
  /\ UNCHANGED <<order, env, refused>>

ExpireOthers(t) ==
  /\ pc[t] = "c_others"
  /\ Answer(RowIds, {"PENDING"}, "EXPIRED")
  /\ Move(t, "ASSIGNED")
  /\ UNCHANGED <<order, env, refused>>

-----------------------------------------------------------------------------
\* adminAssign: any inspector, asked or not.
AdminAssign(t) ==
  /\ CanTransition(order.st, "ASSIGNED") /\ order.st \in Pool
  /\ \E i \in Inspectors :
       Begin(t, "m_claim", [Job("adminAssign", i, 0) EXCEPT !.st = order.st])
  /\ UNCHANGED <<order, env, offers, refused>>

AdminClaimByStatus(t) ==
  /\ pc[t] = "m_claim"
  /\ IF order.st = job[t].st
     THEN order' = [order EXCEPT !.by = job[t].who] /\ Go(t, "m_capture")
     ELSE End(t) /\ UNCHANGED order
  /\ UNCHANGED <<env, offers, refused>>

AdminClaim(t) ==
  /\ pc[t] = "m_claim"
  /\ IF order.st = job[t].st /\ order.by = NoOne
     THEN order' = [order EXCEPT !.by = job[t].who] /\ Go(t, "m_capture")
     ELSE End(t) /\ UNCHANGED order
  /\ UNCHANGED <<env, offers, refused>>

AdminCapture(t) ==
  /\ pc[t] = "m_capture"
  /\ \/ Go(t, "m_find") /\ UNCHANGED order
     \/ End(t) /\ order' = Unclaimed(t)
     \/ Move(t, "CANCELLED") /\ order' = Unclaimed(t)
  /\ UNCHANGED <<env, offers, refused>>

AdminFind(t) ==
  /\ pc[t] = "m_find"
  /\ Keep(t, "m_expire", [job[t] EXCEPT !.todo = Pending \ Of(job[t].who)])
  /\ UNCHANGED <<order, env, offers, refused>>

AdminExpire(t) ==
  /\ pc[t] = "m_expire"
  /\ Answer(job[t].todo, AnyState, "EXPIRED")
  /\ Go(t, "m_own")
  /\ UNCHANGED <<order, env, refused>>

\* Any row of the inspector is turned into the accepted one, or one is made; with no row
\* left under the bound, the model's function stops here.
AdminOwn(t) ==
  /\ pc[t] = "m_own"
  /\ \/ /\ \E k \in Of(job[t].who) : Answer({k}, AnyState, "ACCEPTED")
        /\ Move(t, "ASSIGNED")
     \/ /\ Of(job[t].who) = {} /\ Len(offers) < MaxRows
        /\ offers' = Append(offers, [who |-> job[t].who, st |-> "ACCEPTED",
                                     round |-> 0, live |-> FALSE])
        /\ Move(t, "ASSIGNED")
     \/ Of(job[t].who) = {} /\ Len(offers) = MaxRows /\ End(t) /\ UNCHANGED offers
  /\ UNCHANGED <<order, env, refused>>

-----------------------------------------------------------------------------
\* The customer cancels: the offers are not looked at.
Cancel(t) ==
  /\ order.st \in Pool \cup {"ASSIGNED"}
  /\ Begin(t, "t_read", Job("cancel", NoOne, 0))
  /\ UNCHANGED <<order, env, offers, refused>>

\* expireUnfilledSearches: the claim, then the offers that are left.
ExpireUnassignedOnly(t) ==
  /\ order.st = "UNASSIGNED" /\ order.by = NoOne /\ over
  /\ Begin(t, "e_claim", Job("expireUnfilledSearches", NoOne, 0))
  /\ UNCHANGED <<order, env, offers, refused>>

ExpireUnfilledSearches(t) ==
  /\ Searching /\ over
  /\ Begin(t, "e_claim", Job("expireUnfilledSearches", NoOne, 0))
  /\ UNCHANGED <<order, env, offers, refused>>

ExpireClaim(t) ==
  /\ pc[t] = "e_claim"
  /\ IF Searching THEN order' = [order EXCEPT !.st = "CANCELLED"] /\ Go(t, "e_find")
     ELSE End(t) /\ UNCHANGED order
  /\ UNCHANGED <<env, offers, refused>>

ExpireFind(t) ==
  /\ pc[t] = "e_find"
  /\ IF Pending = {} THEN End(t) ELSE Keep(t, "e_write", [job[t] EXCEPT !.todo = Pending])
  /\ UNCHANGED <<order, env, offers, refused>>

ExpireWrite(t) ==
  /\ pc[t] = "e_write"
  /\ Answer(job[t].todo, AnyState, "EXPIRED")
  /\ End(t)
  /\ UNCHANGED <<order, env, refused>>

-----------------------------------------------------------------------------
\* The world: inspectors come and go, offers and the search run out of time, a
\* customer starts to pay for a counter-offer and lets the window pass.
FreeChanges ==
  /\ \E i \in Inspectors : free' = IF i \in free THEN free \ {i} ELSE free \cup {i}
  /\ UNCHANGED <<order, over, locked, offers, refused, pc, job>>

OfferLapses ==
  /\ \E k \in Pending : offers[k].live /\ offers' = [offers EXCEPT ![k].live = FALSE]
  /\ UNCHANGED <<order, env, refused, pc, job>>

SearchEnds ==
  /\ order.st # "CREATED" /\ ~over /\ over' = TRUE
  /\ UNCHANGED <<order, locked, free, offers, refused, pc, job>>

CounterOfferPaid ==
  /\ "abandon" \in Handlers
  /\ order.st = "UNASSIGNED" /\ order.round >= 1 /\ ~over
  /\ locked' = ~locked
  /\ UNCHANGED <<order, over, free, offers, refused, pc, job>>

World == FreeChanges \/ OfferLapses \/ SearchEnds \/ CounterOfferPaid

DispatchSteps(t) ==
  \/ DispatchRead(t) \/ DispatchLock(t) \/ DispatchChoose(t) \/ DispatchWrite(t)
  \/ TransitionRead(t) \/ TransitionWrite(t)

Continue(t) ==
  \/ DispatchSteps(t) \/ DeclineWrite(t) \/ StaleWrite(t) \/ StaleNext(t)
  \/ RedispatchClaim(t) \/ AcceptClaim(t) \/ AcceptMark(t) \/ AcceptCapture(t)
  \/ UndoOffer(t) \/ KillOffers(t) \/ ExpireOthers(t) \/ AdminClaim(t)
  \/ AdminCapture(t) \/ AdminFind(t) \/ AdminExpire(t) \/ AdminOwn(t)
  \/ ExpireClaim(t) \/ ExpireFind(t) \/ ExpireWrite(t)

Called(t) == Authorize(t) \/ Decline(t) \/ AcceptOffer(t) \/ AdminAssign(t)
             \/ Cancel(t) \/ Abandon(t)

Next == \/ \E t \in Tasks : \/ Called(t) \/ Continue(t) \/ ExpireStaleOffers(t)
                            \/ Redispatch(t) \/ ExpireUnfilledSearches(t)
        \/ World

Spec == Init /\ [][Next]_vars

\* Functions are resumed, an offer's window passes, and the crons tick however many requests
\* come in: they take its task only because a model has few of them.
Fairness ==
  /\ \A t \in Tasks : /\ WF_vars(Continue(t)) /\ SF_vars(ExpireStaleOffers(t))
                      /\ SF_vars(Redispatch(t)) /\ SF_vars(ExpireUnfilledSearches(t))
  /\ WF_vars(OfferLapses)

FairSpec == Spec /\ Fairness

-----------------------------------------------------------------------------
\* A refusal is final and silence costs a round: whoever dispatch puts on the list now has
\* not said no to this order, in any round, and has not been on it in this one.
NewRow == offers'[Len(offers')]
AsksOnceARound ==
  Len(offers') > Len(offers) /\ NewRow.st = "PENDING" =>
    /\ NewRow.who \notin refused
    /\ \A k \in RowIds : offers[k].who # NewRow.who \/ offers[k].round # NewRow.round

\* However acceptOffer and adminAssign overlap, one inspector is told to have the order, and
\* has it: of the offers that say ACCEPTED all but one are of functions that have given the
\* order back and are about to take their offer back, and that one is of order.inspectorId.
TakenBack(k) == \E t \in Tasks : pc[t] \in {"c_undo_offer", "c_kill"} /\ job[t].row = k
Standing == {k \in RowIds : offers[k].st = "ACCEPTED" /\ ~TakenBack(k)}
OneAcceptance == \A k, r \in Standing : k = r /\ order.by = offers[k].who

\* The search is never a dead end: with somebody to ask it asks, until it is sold or over.
SearchGoesOn ==
  (Searching /\ Pending = {} /\ free \ refused # {})
    ~> (Pending # {} \/ ~Searching \/ over \/ free \subseteq refused
        \/ order.round = MaxRound \/ Len(offers) = MaxRows)

\* A search whose time is over ends, in a sale or with the money released, even if
\* a function died or was refused half way.
SearchEndsSomehow == (order.st \in Pool /\ over) ~> (order.st \notin Pool)

\* An offer of an order that is gone stops being shown to its inspector.
DeadOfferGoes == (order.st \notin Pool /\ Pending # {}) ~> (Pending = {})

\* No search stands still: not before it is sold, nor for those it still asks after that.
SearchMovesOn == SearchGoesOn /\ SearchEndsSomehow /\ DeadOfferGoes
=============================================================================
