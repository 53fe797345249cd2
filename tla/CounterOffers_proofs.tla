------------------------- MODULE CounterOffers_proofs -------------------------
(***************************************************************************)
(* The theorems of CounterOffers, for any number of inspectors and of        *)
(* overlapping functions, and what they and CounterHandover's promise of the  *)
(* queue and the money when they run side by side.                          *)
(***************************************************************************)
EXTENDS MCRaces, TLAPS

HP == INSTANCE CounterHandover_proofs WITH
  Handlers <- MoneyHandlers, Faults <- MoneyFaults

-----------------------------------------------------------------------------
\* What the moves of one task do to the two functions that every task is in.
LocalsOK == pc \in [Tasks -> Labels] /\ job \in [Tasks -> Jobs]
Others(t) == \A u \in Tasks : u # t => pc'[u] = pc[u] /\ job'[u] = job[u]

LEMMA JobsAreTyped ==
  /\ \A op \in HandlerNames \cup {"none"}, i \in Inspectors \cup {NoOne} :
       /\ Job(op, i) \in Jobs
       /\ Job(op, i).op = op /\ Job(op, i).who = i /\ Job(op, i).ids = {}
       /\ Job(op, i).then = "idle"
  /\ \A j \in Jobs, S \in SUBSET Inspectors, l \in Labels :
       /\ [j EXCEPT !.ids = S] \in Jobs
       /\ [j EXCEPT !.then = l, !.ids = S] \in Jobs
  /\ NoJob \in Jobs /\ NoJob.then = "idle" /\ NoJob.ids = {} /\ NoJob.op = "none"
<1> "idle" \in Labels
  BY DEF Labels
<1> QED BY DEF Job, Jobs, NoJob

LEMMA KeepMoves ==
  ASSUME LocalsOK, NEW t \in Tasks, NEW l \in Labels, NEW j \in Jobs, Keep(t, l, j)
  PROVE  LocalsOK' /\ Others(t) /\ pc'[t] = l /\ job'[t] = j
BY DEF Keep, LocalsOK, Others

LEMMA GoMoves ==
  ASSUME LocalsOK, NEW t \in Tasks, NEW l \in Labels, Go(t, l)
  PROVE  LocalsOK' /\ Others(t) /\ pc'[t] = l /\ job'[t] = job[t]
BY DEF Go, LocalsOK, Others

LEMMA EndMoves ==
  ASSUME LocalsOK, NEW t \in Tasks, End(t)
  PROVE  LocalsOK' /\ Others(t) /\ pc'[t] = "idle" /\ job'[t] = NoJob
<1> "idle" \in Labels
  BY DEF Labels
<1>1. NoJob \in Jobs
  BY JobsAreTyped
<1> QED BY <1>1, KeepMoves DEF End

LEMMA BeginMoves ==
  ASSUME LocalsOK, NEW t \in Tasks, NEW l \in Labels, NEW j \in Jobs, Begin(t, l, j)
  PROVE  LocalsOK' /\ Others(t) /\ pc[t] = "idle" /\ pc'[t] = l /\ job'[t] = j
BY DEF Begin, LocalsOK, Others

\* promote returns to one of four places.
Returns == {"idle", "assign", "s_find", "s_collect"}
ReturnsOK == \A t \in Tasks : job[t].then \in Returns

LEMMA PromoteMoves ==
  ASSUME LocalsOK, ReturnsOK, NEW t \in Tasks
  PROVE  /\ AfterPromote(t) => /\ LocalsOK' /\ ReturnsOK' /\ Others(t)
                               /\ pc'[t] \in Returns
                               /\ job'[t].who \in Inspectors \cup {NoOne}
                               /\ job'[t].ids = {} 
         /\ \A l \in Returns : PromoteThen(t, l) => /\ LocalsOK' /\ ReturnsOK' /\ Others(t)
                                                    /\ pc'[t] = "p_order"
                                                    /\ job'[t].ids = {}
<1>1. "idle" \in Labels /\ "p_order" \in Labels /\ Returns \subseteq Labels /\ "idle" \in Returns
  BY DEF Labels, Returns
<1>2. job[t] \in Jobs /\ job[t].then \in Returns
  BY DEF LocalsOK, ReturnsOK
<1>3. ASSUME NEW l \in Labels, NEW r \in Returns,
             Keep(t, l, [job[t] EXCEPT !.then = r, !.ids = {}])
      PROVE  /\ LocalsOK' /\ ReturnsOK' /\ Others(t) /\ pc'[t] = l
             /\ job'[t].ids = {} /\ job'[t].who \in Inspectors \cup {NoOne}
  <2>1. [job[t] EXCEPT !.then = r, !.ids = {}] \in Jobs
    BY <1>1, <1>2, JobsAreTyped
  <2>2. /\ [job[t] EXCEPT !.then = r, !.ids = {}].then = r
        /\ [job[t] EXCEPT !.then = r, !.ids = {}].ids = {}
        /\ [job[t] EXCEPT !.then = r, !.ids = {}].who = job[t].who
    BY <1>2 DEF Jobs
  <2>3. LocalsOK' /\ Others(t) /\ pc'[t] = l /\ job'[t] = [job[t] EXCEPT !.then = r, !.ids = {}]
    BY <2>1, <1>3, KeepMoves
  <2>4. job[t].who \in Inspectors \cup {NoOne}
    BY <1>2 DEF Jobs
  <2> QED BY <2>2, <2>3, <2>4 DEF Others, ReturnsOK
<1>4. ASSUME End(t)
      PROVE  /\ LocalsOK' /\ ReturnsOK' /\ Others(t) /\ pc'[t] = "idle"
             /\ job'[t].ids = {} /\ job'[t].who \in Inspectors \cup {NoOne}
  <2>1. LocalsOK' /\ Others(t) /\ pc'[t] = "idle" /\ job'[t] = NoJob
    BY <1>4, EndMoves
  <2>2. NoJob.then = "idle" /\ NoJob.ids = {} /\ NoJob.who = NoOne
    BY DEF NoJob, Job
  <2> QED BY <1>1, <2>1, <2>2 DEF Others, ReturnsOK
<1>5. AfterPromote(t) => /\ LocalsOK' /\ ReturnsOK' /\ Others(t) /\ pc'[t] \in Returns
                         /\ job'[t].who \in Inspectors \cup {NoOne} /\ job'[t].ids = {}
  BY <1>1, <1>2, <1>3, <1>4 DEF AfterPromote
<1>6. ASSUME NEW l \in Returns, PromoteThen(t, l)
      PROVE  LocalsOK' /\ ReturnsOK' /\ Others(t) /\ pc'[t] = "p_order" /\ job'[t].ids = {}
  BY <1>1, <1>3, <1>6 DEF PromoteThen
<1> QED BY <1>5, <1>6

-----------------------------------------------------------------------------
\* Where a function is about an inspector: it names one, also while promote runs
\* on behalf of one who got another job.
Named == {"upsert", "f_order", "f_busy", "f_claim", "c_claim", "f_capture", "c_capture",
          "f_sold", "w_find", "w_write", "assign"}
NamesOK == \A t \in Tasks :
  pc[t] \in Named \/ job[t].then = "assign" => job[t].who \in Inspectors
LocalsInv == LocalsOK /\ ReturnsOK /\ NamesOK

LEMMA MovesWell ==
  ASSUME LocalsInv, NEW t \in Tasks, LocalsOK', Others(t), job'[t].then \in Returns,
         pc'[t] \in Named \/ job'[t].then = "assign" => job'[t].who \in Inspectors
  PROVE  LocalsInv'
BY DEF LocalsInv, ReturnsOK, NamesOK, Others

LEMMA BeginsWell ==
  ASSUME LocalsInv, NEW t \in Tasks, NEW l \in Labels, NEW op \in HandlerNames,
         NEW i \in Inspectors \cup {NoOne}, l \in Named => i \in Inspectors,
         Begin(t, l, Job(op, i))
  PROVE  LocalsInv'
<1>1. /\ Job(op, i) \in Jobs
      /\ Job(op, i).who = i /\ Job(op, i).then = "idle"
  BY DEF Job, Jobs, Labels
<1>2. LocalsOK' /\ Others(t) /\ pc'[t] = l /\ job'[t] = Job(op, i)
  BY <1>1, BeginMoves DEF LocalsInv
<1> QED BY <1>1, <1>2, MovesWell DEF Returns

LEMMA GoesWell ==
  ASSUME LocalsInv, NEW t \in Tasks, NEW l \in Labels,
         l \in Named => job[t].who \in Inspectors,
         Go(t, l)
  PROVE  LocalsInv'
<1>1. LocalsOK' /\ Others(t) /\ pc'[t] = l /\ job'[t] = job[t]
  BY GoMoves DEF LocalsInv
<1> QED BY <1>1, MovesWell DEF LocalsInv, ReturnsOK, NamesOK

LEMMA EndsWell ==
  ASSUME LocalsInv, NEW t \in Tasks, End(t)
  PROVE  LocalsInv'
<1>1. LocalsOK' /\ Others(t) /\ pc'[t] = "idle" /\ job'[t] = NoJob
  BY EndMoves DEF LocalsInv
<1>2. NoJob.then = "idle"
  BY JobsAreTyped
<1> QED BY <1>1, <1>2, MovesWell DEF Returns, Named

LEMMA SelectsWell ==
  ASSUME LocalsInv, NEW t \in Tasks, NEW l \in Labels, NEW S \in SUBSET Inspectors,
         l \in Named => job[t].who \in Inspectors,
         Keep(t, l, [job[t] EXCEPT !.ids = S])
  PROVE  LocalsInv'
<1> DEFINE j == [job[t] EXCEPT !.ids = S]
<1>1. job[t] \in Jobs
  BY DEF LocalsInv, LocalsOK
<1>2. j \in Jobs /\ j.then = job[t].then /\ j.who = job[t].who
  BY <1>1 DEF Jobs
<1>3. LocalsOK' /\ Others(t) /\ pc'[t] = l /\ job'[t] = j
  BY <1>2, KeepMoves DEF LocalsInv
<1> QED BY <1>2, <1>3, MovesWell DEF LocalsInv, ReturnsOK, NamesOK

LEMMA PromotesWell ==
  ASSUME LocalsInv, NEW t \in Tasks
  PROVE  /\ AfterPromote(t) => LocalsInv'
         /\ \A l \in Returns : (l = "assign" => job[t].who \in Inspectors)
                              /\ PromoteThen(t, l) => LocalsInv'
<1>1. job[t] \in Jobs /\ LocalsOK /\ ReturnsOK
  BY DEF LocalsInv, LocalsOK
<1>2. ASSUME AfterPromote(t) PROVE LocalsInv'
  <2>1. CASE job[t].then = "idle"
    BY <1>2, <2>1, EndsWell DEF AfterPromote
  <2>2. CASE job[t].then # "idle"
    <3> DEFINE j == [job[t] EXCEPT !.then = "idle", !.ids = {}]
    <3>1. j \in Jobs /\ j.then = "idle" /\ j.who = job[t].who
      BY <1>1 DEF Jobs, Labels
    <3>2. job[t].then \in Labels /\ job[t].then \in {"assign", "s_find", "s_collect"}
      BY <1>1, <2>2 DEF ReturnsOK, Returns, Labels
    <3>3. Keep(t, job[t].then, j)
      BY <1>2, <2>2 DEF AfterPromote
    <3>4. LocalsOK' /\ Others(t) /\ pc'[t] = job[t].then /\ job'[t] = j
      BY <1>1, <3>1, <3>2, <3>3, KeepMoves
    <3> QED BY <3>1, <3>2, <3>4, MovesWell DEF LocalsInv, NamesOK, Named, Returns
  <2> QED BY <2>1, <2>2
<1>3. ASSUME NEW l \in Returns, l = "assign" => job[t].who \in Inspectors,
             PromoteThen(t, l)
      PROVE  LocalsInv'
  <2> DEFINE j == [job[t] EXCEPT !.then = l, !.ids = {}]
  <2>1. "p_order" \in Labels /\ l \in Labels
    BY DEF Labels, Returns
  <2>2. j \in Jobs /\ j.then = l /\ j.who = job[t].who
    BY <1>1, <2>1 DEF Jobs
  <2>3. LocalsOK' /\ Others(t) /\ pc'[t] = "p_order" /\ job'[t] = j
    BY <1>1, <1>3, <2>1, <2>2, KeepMoves DEF PromoteThen
  <2> QED BY <1>3, <2>2, <2>3, MovesWell DEF Named
<1> QED BY <1>2, <1>3

-----------------------------------------------------------------------------
\* Types.
SharedOK ==
  /\ order \in Orders /\ search \in {"open", "closing", "over"}
  /\ offer \in [Inspectors -> Rows] /\ busy \subseteq Inspectors
TypeInv == SharedOK /\ LocalsInv

LEMMA TypeInvParts == TypeInv => TypeOK
BY DEF TypeInv, TypeOK, SharedOK, LocalsInv, LocalsOK

LEMMA TypeInvInit == Init => TypeInv
<1> SUFFICES ASSUME Init PROVE TypeInv
  OBVIOUS
<1>1. SharedOK
  BY DEF Init, SharedOK, Orders, Rows, NoRow, Stored
<1>2. NoJob \in Jobs /\ NoJob.then = "idle"
  BY DEF NoJob, Job, Jobs, Labels
<1>3. LocalsInv
  BY <1>2 DEF Init, LocalsInv, LocalsOK, ReturnsOK, NamesOK, Returns, Labels, Named
<1> QED BY <1>1, <1>3 DEF TypeInv

\* What an update of the rows does to each of them.
Keeps(i) == offer'[i] = offer[i]
LEMMA AnswerRows ==
  ASSUME SharedOK, NEW S, NEW From, NEW to \in Stored, Answer(S, From, to)
  PROVE  /\ offer' \in [Inspectors -> Rows]
         /\ \A i \in Inspectors :
              \/ i \in S /\ offer[i].st \in From /\ offer'[i].st = to
                 /\ offer'[i].shown = offer[i].shown
              \/ ~(i \in S /\ offer[i].st \in From) /\ Keeps(i)
<1>1. SUFFICES ASSUME NEW i \in Inspectors
      PROVE /\ offer'[i] \in Rows
            /\ \/ i \in S /\ offer[i].st \in From /\ offer'[i].st = to
                  /\ offer'[i].shown = offer[i].shown
               \/ ~(i \in S /\ offer[i].st \in From) /\ Keeps(i)
  BY DEF Answer
<1>2. offer[i] \in Rows
  BY DEF SharedOK
<1>3. CASE i \in S /\ offer[i].st \in From
  <2>1. offer'[i] = [offer[i] EXCEPT !.st = to, !.paying = FALSE, !.live = @ /\ to = "PENDING"]
    BY <1>3 DEF Answer
  <2>2. (offer[i].live /\ to = "PENDING") \in BOOLEAN
    OBVIOUS
  <2> QED BY <1>2, <1>3, <2>1, <2>2 DEF Rows
<1>4. CASE ~(i \in S /\ offer[i].st \in From)
  BY <1>2, <1>4 DEF Answer, Keeps
<1> QED BY <1>3, <1>4

LEMMA StepShared == SharedOK /\ LocalsInv /\ [Next]_vars => SharedOK'
<1> SUFFICES ASSUME SharedOK, LocalsInv, [Next]_vars PROVE SharedOK'
  OBVIOUS
<1>a. ASSUME NEW S, NEW From, NEW to \in Stored, Answer(S, From, to),
             UNCHANGED <<order, search, busy>>
      PROVE  SharedOK'
  BY <1>a, AnswerRows DEF SharedOK
<1>b. {"PENDING", "ACCEPTING", "ACCEPTED", "DECLINED", "EXPIRED", "WITHDRAWN", "SUPERSEDED"}
        \subseteq Stored
  BY DEF Stored
<1>s. ASSUME UNCHANGED <<order, search, offer, busy>> PROVE SharedOK'
  BY <1>s DEF SharedOK
<1>1. ASSUME NEW t \in Tasks, Called(t) \/ SweepExpired(t) PROVE SharedOK'
  <2>1. CASE Withdraw(t)
    BY <1>a, <1>b, <2>1 DEF Withdraw
  <2>2. CASE Decline(t)
    BY <1>a, <1>b, <2>2 DEF Decline
  <2>3. CASE \/ Create(t) \/ Accept(t) \/ Finalize(t) \/ Abandon(t) \/ AcceptOffer(t)
             \/ AdminAssign(t) \/ OtherJob(t) \/ ExpireUnfilledSearches(t) \/ SweepExpired(t)
    BY <1>s, <2>3 DEF Create, Accept, Finalize, Abandon, AcceptOffer, AdminAssign, OtherJob,
      ExpireUnfilledSearches, SweepExpired
  <2> QED BY <1>1, <2>1, <2>2, <2>3 DEF Called
<1>2. ASSUME NEW t \in Tasks, Continue(t) PROVE SharedOK'
  <2> job[t] \in Jobs
    BY DEF LocalsInv, LocalsOK
  <2>1. CASE Upsert(t)
    <3>1. SUFFICES ASSUME NEW i \in Inspectors PROVE offer'[i] \in Rows
      BY <2>1 DEF Upsert, SharedOK
    <3> QED BY <2>1 DEF Upsert, SharedOK, Rows, Stored
  <2>2. CASE Present(t)
    <3>1. SUFFICES ASSUME NEW i \in Inspectors PROVE offer'[i] \in Rows
      BY <2>2 DEF Present, SharedOK
    <3> QED BY <2>2 DEF Present, SharedOK, Rows
  <2>3. CASE AcceptClaim(t)
    <3>1. SUFFICES ASSUME NEW i \in Inspectors PROVE offer'[i] \in Rows
      BY <2>3 DEF AcceptClaim, SharedOK
    <3> QED BY <2>3 DEF AcceptClaim, SharedOK, Rows, Stored
  <2>4. CASE CloseQueue(t)
    BY <1>a, <1>b, <2>4 DEF CloseQueue
  <2>5. CASE AcceptPull(t) \/ FinalizePull(t) \/ Sold(t) \/ AbandonBack(t) \/ AbandonOver(t)
             \/ SweepWrite(t)
    BY <1>a, <1>b, <2>5 DEF AcceptPull, FinalizePull, Sold, AbandonBack, AbandonOver, SweepWrite
  <2>6. CASE SettleWrite(t)
    BY <1>a, <1>b, <2>6 DEF SettleWrite
  <2>7. CASE Claim(t) \/ Capture(t) \/ ExpireClaim(t)
    <3>1. pc[t] \in {"f_claim", "c_claim"} => job[t].who \in Inspectors
      BY DEF LocalsInv, NamesOK, Named
    <3> QED BY <2>7, <3>1 DEF Claim, Capture, Unclaim, ExpireClaim, SharedOK, Orders
  <2>8. CASE Assign(t)
    <3>1. job[t].who \in Inspectors
      BY <2>8 DEF Assign, LocalsInv, NamesOK, Named
    <3> QED BY <2>8, <3>1 DEF Assign, SharedOK, Orders
  <2>9. CASE \/ PromoteOrder(t) \/ PromoteScreen(t) \/ PromoteFirst(t) \/ PromoteNext(t)
             \/ AcceptBusy(t) \/ FinalizeOrder(t) \/ FinalizeBusy(t) \/ SettleFind(t)
             \/ AbandonRead(t) \/ SweepFind(t) \/ SweepCollected(t)
    BY <1>s, <2>9 DEF PromoteOrder, PromoteScreen, PromoteFirst, PromoteNext, AcceptBusy,
      FinalizeOrder, FinalizeBusy, SettleFind, AbandonRead, SweepFind, SweepCollected
  <2> QED BY <1>2, <2>1, <2>2, <2>3, <2>4, <2>5, <2>6, <2>7, <2>8, <2>9 DEF Continue, Promote
<1>3. CASE OtherJobDone \/ CancelOrder
  BY <1>3 DEF OtherJobDone, CancelOrder, SharedOK, Orders
<1>4. CASE Clock
  <2>1. CASE SearchRunsOut
    <3>1. CASE UNCHANGED offer
      BY <2>1, <3>1 DEF SearchRunsOut, SharedOK
    <3>2. CASE offer' = [i \in Inspectors |-> [offer[i] EXCEPT !.live = FALSE]]
      BY <2>1, <3>2 DEF SearchRunsOut, SharedOK, Rows
    <3> QED BY <2>1, <3>1, <3>2 DEF SearchRunsOut
  <2>2. CASE OfferLapses \/ PaymentLapses \/ CollectionEnds
    <3>1. PICK i \in Inspectors : \/ offer' = [offer EXCEPT ![i] = [@ EXCEPT !.live = FALSE]]
                                  \/ offer' = [offer EXCEPT ![i] = [@ EXCEPT !.paying = FALSE]]
                                  \/ offer' = [offer EXCEPT ![i] = [@ EXCEPT !.aged = TRUE]]
      BY <2>2, Zenon DEF OfferLapses, PaymentLapses, CollectionEnds
    <3>2. offer[i] \in Rows /\ offer \in [Inspectors -> Rows]
      BY DEF SharedOK
    <3>3. /\ [offer[i] EXCEPT !.live = FALSE] \in Rows
          /\ [offer[i] EXCEPT !.paying = FALSE] \in Rows
          /\ [offer[i] EXCEPT !.aged = TRUE] \in Rows
      BY <3>2 DEF Rows
    <3>4. offer' \in [Inspectors -> Rows]
      BY <3>1, <3>2, <3>3
    <3> QED BY <2>2, <3>4 DEF OfferLapses, PaymentLapses, CollectionEnds, SharedOK
  <2> QED BY <1>4, <2>1, <2>2 DEF Clock
<1>5. CASE UNCHANGED vars
  BY <1>s, <1>5 DEF vars
<1> QED BY <1>1, <1>2, <1>3, <1>4, <1>5 DEF Next

LEMMA StepLocals == SharedOK /\ LocalsInv /\ [Next]_vars => LocalsInv'
<1> SUFFICES ASSUME SharedOK, LocalsInv, [Next]_vars PROVE LocalsInv'
  OBVIOUS
<1>l. \A t \in Tasks : job[t] \in Jobs /\ pc[t] \in Labels
  BY DEF LocalsInv, LocalsOK
<1>n. \A t \in Tasks : pc[t] \in Named \/ job[t].then = "assign" => job[t].who \in Inspectors
  BY DEF LocalsInv, NamesOK
<1>w. \A st : With(st) \in SUBSET Inspectors /\ With(st) \cap Waiting \in SUBSET Inspectors
              /\ Waiting \in SUBSET Inspectors /\ Unanswered \in SUBSET Inspectors
  BY DEF With, Waiting, Unanswered
<1>o. {"p_order", "p_screen", "p_first", "p_next", "p_write", "busy", "pull", "claim",
       "f_pull", "a_read", "a_back", "a_over", "s_find", "s_write", "s_collect",
       "e_claim"} \subseteq Labels \ Named
  BY DEF Labels, Named
<1>p. Named \subseteq Labels
  BY DEF Labels, Named
<1>h. /\ HandlerNames = {"create", "withdraw", "accept", "decline", "finalize", "abandon",
           "sweepExpired", "acceptOffer", "adminAssign", "otherJob", "expireUnfilledSearches"}
      /\ Named = {"upsert", "f_order", "f_busy", "f_claim", "c_claim", "f_capture",
           "c_capture", "f_sold", "w_find", "w_write", "assign"}
  BY DEF HandlerNames, Named
<1>1. ASSUME NEW t \in Tasks, Called(t) \/ SweepExpired(t) PROVE LocalsInv'
  <2>1. CASE Create(t)
    <3>1. PICK i \in Inspectors : Begin(t, "upsert", Job("create", i))
      BY <2>1 DEF Create
    <3> QED BY <3>1, <1>p, <1>h, BeginsWell
  <2>2. CASE Withdraw(t)
    <3>1. PICK i \in Inspectors : Begin(t, "p_order", Job("withdraw", i))
      BY <2>2 DEF Withdraw, With
    <3> QED BY <3>1, <1>o, <1>h, BeginsWell
  <2>3. CASE Decline(t)
    <3>1. PICK i \in Inspectors : Begin(t, "p_order", Job("decline", i))
      BY <2>3 DEF Decline, With
    <3> QED BY <3>1, <1>o, <1>h, BeginsWell
  <2>4. CASE Accept(t)
    <3>1. PICK i \in Inspectors : Begin(t, "busy", Job("accept", i))
      BY <2>4 DEF Accept
    <3> QED BY <3>1, <1>o, <1>h, BeginsWell
  <2>5. CASE Finalize(t)
    <3>1. PICK i \in Inspectors : Begin(t, "f_order", Job("finalize", i))
      BY <2>5 DEF Finalize, With
    <3> QED BY <3>1, <1>p, <1>h, BeginsWell
  <2>6. CASE Abandon(t)
    BY <2>6, <1>o, <1>h, BeginsWell DEF Abandon
  <2>7. CASE AcceptOffer(t)
    <3>1. PICK i \in Inspectors : Begin(t, "c_claim", Job("acceptOffer", i))
      BY <2>7 DEF AcceptOffer
    <3> QED BY <3>1, <1>p, <1>h, BeginsWell
  <2>8. CASE AdminAssign(t)
    <3>1. PICK i \in Inspectors : Begin(t, "c_claim", Job("adminAssign", i))
      BY <2>8 DEF AdminAssign
    <3> QED BY <3>1, <1>p, <1>h, BeginsWell
  <2>9. CASE OtherJob(t)
    <3>1. PICK i \in Inspectors : Begin(t, "w_find", Job("otherJob", i))
      BY <2>9 DEF OtherJob
    <3> QED BY <3>1, <1>p, <1>h, BeginsWell
  <2>10. CASE ExpireUnfilledSearches(t)
    BY <2>10, <1>o, <1>h, BeginsWell DEF ExpireUnfilledSearches
  <2>11. CASE SweepExpired(t)
    <3>1. \/ Begin(t, "a_read", Job("sweepExpired", NoOne))
          \/ Begin(t, "s_find", Job("sweepExpired", NoOne))
      BY <2>11 DEF SweepExpired
    <3> QED BY <3>1, <1>o, <1>h, BeginsWell
  <2> QED BY <1>1, <2>1, <2>2, <2>3, <2>4, <2>5, <2>6, <2>7, <2>8, <2>9, <2>10, <2>11 DEF Called
<1>2. ASSUME NEW t \in Tasks, Continue(t) PROVE LocalsInv'
  <2>a. AfterPromote(t) => LocalsInv'
    BY PromotesWell
  <2>e. End(t) => LocalsInv'
    BY EndsWell
  <2>g. ASSUME NEW l \in Labels \ Named, Go(t, l) PROVE LocalsInv'
    BY <2>g, GoesWell
  <2>h. ASSUME NEW l \in Named, Go(t, l), pc[t] \in Named PROVE LocalsInv'
    BY <2>h, <1>n, <1>p, GoesWell
  <2>1. CASE Upsert(t)
    BY <2>1, <2>g, <1>o DEF Upsert
  <2>2. CASE PromoteOrder(t) \/ PromoteScreen(t) \/ PromoteFirst(t)
    BY <2>2, <2>g, <2>a, <1>o DEF PromoteOrder, PromoteScreen, PromoteFirst
  <2>3. CASE PromoteNext(t)
    <3>1. ASSUME NEW i \in Waiting, Keep(t, "p_write", [job[t] EXCEPT !.ids = {i}])
          PROVE  LocalsInv'
      <4>1. {i} \in SUBSET Inspectors
        BY <1>w
      <4> QED BY <3>1, <4>1, <1>o, SelectsWell
    <3> QED BY <2>3, <2>a, <3>1 DEF PromoteNext
  <2>4. CASE CloseQueue(t) \/ Present(t)
    BY <2>4, <2>a DEF CloseQueue, Present
  <2>5. CASE AcceptBusy(t)
    BY <2>5, <2>g, <1>o DEF AcceptBusy
  <2>6. CASE AcceptPull(t) \/ AcceptClaim(t)
    BY <2>6, <2>e, <2>g, <1>o DEF AcceptPull, AcceptClaim
  <2>7. CASE FinalizeOrder(t)
    BY <2>7, <2>e, <2>h, <1>h DEF FinalizeOrder
  <2>8. CASE FinalizeBusy(t)
    <3>1. Go(t, "f_pull") \/ Go(t, "f_claim")
      BY <2>8 DEF FinalizeBusy
    <3>2. pc[t] \in Named /\ "f_claim" \in Named
      BY <2>8, <1>h DEF FinalizeBusy
    <3> QED BY <3>1, <3>2, <2>g, <2>h, <1>o
  <2>9. CASE FinalizePull(t)
    BY <2>9, <2>g, <1>o DEF FinalizePull
  <2>10. CASE Claim(t)
    <3>1. End(t) \/ Go(t, "f_capture") \/ Go(t, "c_capture")
      BY <2>10 DEF Claim
    <3>2. pc[t] \in Named /\ "f_capture" \in Named /\ "c_capture" \in Named
      BY <2>10, <1>h DEF Claim
    <3> QED BY <3>1, <3>2, <2>e, <2>h
  <2>11. CASE Capture(t)
    <3>1. End(t) \/ Go(t, "f_sold") \/ Go(t, "w_find")
      BY <2>11 DEF Capture
    <3>2. pc[t] \in Named /\ "f_sold" \in Named /\ "w_find" \in Named
      BY <2>11, <1>h DEF Capture
    <3> QED BY <3>1, <3>2, <2>e, <2>h
  <2>12. CASE Sold(t)
    BY <2>12, <2>h, <1>h DEF Sold
  <2>13. CASE SettleFind(t)
    <3> DEFINE S == IF job[t].op = "otherJob" THEN With("PENDING") \cap {job[t].who}
                    ELSE With("PENDING")
    <3>1. S \in SUBSET Inspectors
      BY DEF With
    <3>2. Keep(t, "w_write", [job[t] EXCEPT !.ids = S])
      BY <2>13 DEF SettleFind
    <3>3. job[t].who \in Inspectors /\ "w_write" \in Labels
      BY <2>13, <1>n, <1>h, <1>p DEF SettleFind
    <3> HIDE DEF S
    <3> QED BY <3>1, <3>2, <3>3, SelectsWell
  <2>14. CASE SettleWrite(t)
    <3>1. job[t].who \in Inspectors /\ pc[t] \in Named /\ "assign" \in Named
      BY <2>14, <1>n, <1>h DEF SettleWrite
    <3>2. PromoteThen(t, "assign") => LocalsInv'
      BY <3>1, PromotesWell DEF Returns
    <3> QED BY <2>14, <2>h, <3>1, <3>2 DEF SettleWrite
  <2>15. CASE Assign(t) \/ SweepCollected(t) \/ ExpireClaim(t)
    <3>1. PromoteThen(t, "idle") => LocalsInv'
      BY PromotesWell DEF Returns
    <3> QED BY <2>15, <2>e, <3>1 DEF Assign, SweepCollected, ExpireClaim
  <2>16. CASE AbandonRead(t)
    <3>1. ASSUME NEW i \in With("ACCEPTING"),
                 Keep(t, IF offer[i].live THEN "a_back" ELSE "a_over", [job[t] EXCEPT !.ids = {i}])
          PROVE  LocalsInv'
      <4> DEFINE l == IF offer[i].live THEN "a_back" ELSE "a_over"
      <4>1. {i} \in SUBSET Inspectors /\ l \in Labels /\ l \notin Named
        BY <1>w, <1>o
      <4>2. Keep(t, l, [job[t] EXCEPT !.ids = {i}])
        BY <3>1
      <4> HIDE DEF l
      <4> QED BY <4>1, <4>2, SelectsWell
    <3> QED BY <2>16, <2>e, <2>g, <1>o, <3>1 DEF AbandonRead
  <2>17. CASE AbandonBack(t)
    BY <2>17, <2>e, <2>g, <1>o DEF AbandonBack
  <2>18. CASE AbandonOver(t) \/ SweepWrite(t)
    <3>1. \E l \in {"s_find", "idle", "s_collect"} : PromoteThen(t, l)
      BY <2>18 DEF AbandonOver, SweepWrite
    <3> QED BY <3>1, PromotesWell DEF Returns
  <2>19. CASE SweepFind(t)
    BY <2>19, <2>g, <1>o, <1>w, SelectsWell DEF SweepFind
  <2> QED BY <1>2, <2>1, <2>2, <2>3, <2>4, <2>5, <2>6, <2>7, <2>8, <2>9, <2>10, <2>11, <2>12,
      <2>13, <2>14, <2>15, <2>16, <2>17, <2>18, <2>19 DEF Continue, Promote
<1>3. CASE UNCHANGED <<pc, job>>
  BY <1>3 DEF LocalsInv, LocalsOK, ReturnsOK, NamesOK
<1>4. OtherJobDone \/ CancelOrder \/ Clock \/ UNCHANGED vars => UNCHANGED <<pc, job>>
  BY DEF OtherJobDone, CancelOrder, Clock, OfferLapses, PaymentLapses, CollectionEnds,
    SearchRunsOut, vars
<1> QED BY <1>1, <1>2, <1>3, <1>4 DEF Next

LEMMA StepTyped == TypeInv /\ [Next]_vars => TypeInv'
BY StepShared, StepLocals DEF TypeInv

\* Every row, function and order is of the kind the schema and the code say.
THEOREM TypeCorrect == Spec => []TypeOK
<1>1. Spec => []TypeInv
  BY TypeInvInit, StepTyped, PTL DEF Spec
<1> QED BY <1>1, TypeInvParts, PTL

-----------------------------------------------------------------------------
\* What a step may do to a row, whatever the step is: leave what it says and what of
\* it is seen, answer an open question, or be one of three that do more.
Quiet(i) ==
  /\ \/ offer'[i].st = offer[i].st
     \/ offer[i].st \in {"PENDING", "ACCEPTING"} /\ offer'[i].st # "ACCEPTED"
  /\ OnScreen(i)' => OnScreen(i)
Written(i) == \E t \in Tasks : /\ Upsert(t) /\ job[t].who = i
                               /\ offer'[i].st = "PENDING" /\ ~offer'[i].shown
Shown(i) == \E t \in Tasks : Present(t) /\ offer[i].st = "PENDING" /\ offer'[i].st = "PENDING"
Won(i) == \E t \in Tasks : /\ Sold(t) /\ job[t].who = i
                           /\ offer[i].st = "ACCEPTING" /\ offer'[i].st = "ACCEPTED"

LEMMA AnswersQuietly ==
  ASSUME SharedOK, NEW S, NEW From \in SUBSET {"PENDING", "ACCEPTING"},
         NEW to \in {"PENDING", "DECLINED", "EXPIRED", "WITHDRAWN", "SUPERSEDED"},
         to = "PENDING" => From = {"ACCEPTING"},
         Answer(S, From, to), NEW i \in Inspectors
  PROVE  Quiet(i)
<1>1. to \in Stored
  BY DEF Stored
<1>2. \/ /\ i \in S /\ offer[i].st \in From /\ offer'[i].st = to
         /\ offer'[i].shown = offer[i].shown
      \/ Keeps(i)
  BY <1>1, AnswerRows
<1> QED BY <1>2 DEF Quiet, OnScreen, Keeps

LEMMA RowMoves ==
  ASSUME TypeInv, [Next]_vars, NEW i \in Inspectors
  PROVE  Quiet(i) \/ Written(i) \/ Shown(i) \/ Won(i)
<1> offer \in [Inspectors -> Rows] /\ offer[i] \in Rows /\ SharedOK
  BY DEF TypeInv, SharedOK
<1>s. offer' = offer => Quiet(i)
  BY DEF Quiet, OnScreen
<1>1. ASSUME NEW t \in Tasks, Called(t) \/ SweepExpired(t) PROVE Quiet(i)
  <2>1. CASE Withdraw(t) \/ Decline(t)
    BY <2>1, AnswersQuietly DEF Withdraw, Decline
  <2>2. CASE ~(Withdraw(t) \/ Decline(t))
    BY <1>1, <2>2, <1>s DEF Called, Create, Accept, Finalize, Abandon, AcceptOffer, AdminAssign,
      OtherJob, ExpireUnfilledSearches, SweepExpired
  <2> QED BY <2>1, <2>2
<1>2. ASSUME NEW t \in Tasks, Continue(t) PROVE Quiet(i) \/ Written(i) \/ Shown(i) \/ Won(i)
  <2>1. CASE Upsert(t)
    <3>1. CASE job[t].who = i
      BY <2>1, <3>1 DEF Upsert, Written
    <3>2. CASE job[t].who # i
      BY <2>1, <3>2 DEF Upsert, Quiet, OnScreen
    <3> QED BY <3>1, <3>2
  <2>2. CASE Present(t)
    <3>1. CASE offer'[i] = offer[i]
      BY <3>1 DEF Quiet, OnScreen
    <3>2. CASE offer'[i] # offer[i]
      BY <2>2, <3>2 DEF Present, Shown, Waiting, With, Rows
    <3> QED BY <3>1, <3>2
  <2>3. CASE AcceptClaim(t)
    BY <2>3 DEF AcceptClaim, Quiet, OnScreen, Rows
  <2>4. CASE CloseQueue(t)
    BY <2>4, AnswersQuietly DEF CloseQueue
  <2>5. CASE AcceptPull(t) \/ FinalizePull(t) \/ AbandonOver(t) \/ SweepWrite(t)
    BY <2>5, AnswersQuietly DEF AcceptPull, FinalizePull, AbandonOver, SweepWrite
  <2>6. CASE AbandonBack(t)
    BY <2>6, AnswersQuietly DEF AbandonBack
  <2>7. CASE SettleWrite(t)
    BY <2>7, AnswersQuietly DEF SettleWrite
  <2>8. CASE Sold(t)
    <3>1. "ACCEPTED" \in Stored
      BY DEF Stored
    <3>2. \/ /\ i \in {job[t].who} /\ offer[i].st \in {"ACCEPTING"}
             /\ offer'[i].st = "ACCEPTED"
          \/ Keeps(i)
      BY <2>8, <3>1, AnswerRows DEF Sold
    <3> QED BY <2>8, <3>2 DEF Won, Quiet, OnScreen, Keeps
  <2>9. CASE \/ PromoteOrder(t) \/ PromoteScreen(t) \/ PromoteFirst(t) \/ PromoteNext(t)
             \/ AcceptBusy(t) \/ FinalizeOrder(t) \/ FinalizeBusy(t) \/ SettleFind(t)
             \/ AbandonRead(t) \/ SweepFind(t) \/ SweepCollected(t) \/ Claim(t) \/ Capture(t)
             \/ ExpireClaim(t) \/ Assign(t)
    BY <1>s, <2>9 DEF PromoteOrder, PromoteScreen, PromoteFirst, PromoteNext, AcceptBusy,
      FinalizeOrder, FinalizeBusy, SettleFind, AbandonRead, SweepFind, SweepCollected, Claim,
      Capture, ExpireClaim, Assign
  <2> QED BY <1>2, <2>1, <2>2, <2>3, <2>4, <2>5, <2>6, <2>7, <2>8, <2>9 DEF Continue, Promote
<1>3. CASE OtherJobDone \/ CancelOrder \/ UNCHANGED vars
  BY <1>3, <1>s DEF OtherJobDone, CancelOrder, vars
<1>4. CASE Clock
  <2>1. CASE SearchRunsOut
    BY <1>s, <2>1 DEF SearchRunsOut, Quiet, OnScreen, Rows
  <2>2. CASE OfferLapses \/ PaymentLapses \/ CollectionEnds
    <3>1. PICK k \in Inspectors : \/ offer' = [offer EXCEPT ![k] = [@ EXCEPT !.live = FALSE]]
                                  \/ offer' = [offer EXCEPT ![k] = [@ EXCEPT !.paying = FALSE]]
                                  \/ offer' = [offer EXCEPT ![k] = [@ EXCEPT !.aged = TRUE]]
      BY <2>2, Zenon DEF OfferLapses, PaymentLapses, CollectionEnds
    <3>2. offer'[i].st = offer[i].st /\ offer'[i].shown = offer[i].shown
      BY <3>1 DEF Rows
    <3> QED BY <3>2 DEF Quiet, OnScreen
  <2> QED BY <1>4, <2>1, <2>2 DEF Clock
<1> QED BY <1>1, <1>2, <1>3, <1>4 DEF Next

\* And to a function: it stays where it was, it gets to a place that no invariant is
\* about, or it comes to one in the one way there is.
Places == {"p_write", "upsert", "f_capture", "c_capture", "f_sold"}
Stands(t) == pc'[t] = pc[t] /\ job'[t] = job[t]
Leaves(t) == pc'[t] \notin Places
Selects(t) == pc'[t] = "p_write" /\ \E i \in Inspectors : job'[t].ids = {i}
Names(t) ==
  /\ Create(t) /\ pc'[t] = "upsert"
  /\ \E i \in Inspectors : /\ MayOffer(i) /\ (Overlaps \/ (~Creating(i) /\ offer[i].st # "PENDING"))
                           /\ job'[t] = Job("create", i)
Claims(t) == /\ Claim(t) /\ Searching /\ order'.by = job[t].who
             /\ job[t].who \in Inspectors /\ job'[t] = job[t]
             /\ pc'[t] \in {"f_capture", "c_capture"}
Captures(t) == /\ Capture(t) /\ UNCHANGED order /\ job'[t] = job[t]
               /\ pc[t] = "f_capture" /\ pc'[t] = "f_sold"
Moves(t) == Others(t) /\ (Leaves(t) \/ Selects(t) \/ Names(t) \/ Claims(t) \/ Captures(t))

LEMMA FunctionMoves ==
  ASSUME TypeInv, [Next]_vars
  PROVE  UNCHANGED <<pc, job>> \/ \E t \in Tasks : Moves(t)
<1> LocalsOK /\ ReturnsOK /\ LocalsInv /\ SharedOK
  BY DEF TypeInv, LocalsInv
<1>o. {"p_order", "p_screen", "p_first", "p_next", "busy", "pull", "claim", "f_order", "f_busy",
       "f_claim", "c_claim", "f_pull", "a_read", "a_back", "a_over", "s_find", "s_write",
       "s_collect", "w_find", "w_write", "assign", "e_claim", "idle"} \subseteq Labels \ Places
  BY DEF Labels, Places
<1>p. Places \subseteq Labels /\ Returns \cap Places = {}
  BY DEF Labels, Places, Returns
<1>1. ASSUME NEW t \in Tasks, Called(t) \/ SweepExpired(t) PROVE Moves(t)
  <2>b. ASSUME NEW l \in Labels \ Places, NEW op \in HandlerNames,
               NEW i \in Inspectors \cup {NoOne}, Begin(t, l, Job(op, i))
        PROVE  Moves(t)
    <3>1. Job(op, i) \in Jobs
      BY DEF Job, Jobs, Labels
    <3> QED BY <2>b, <3>1, BeginMoves DEF Moves, Leaves
  <2>h. /\ {"create", "withdraw", "accept", "decline", "finalize", "abandon", "sweepExpired",
            "acceptOffer", "adminAssign", "otherJob", "expireUnfilledSearches"} = HandlerNames
        /\ Inspectors \subseteq Inspectors \cup {NoOne} /\ NoOne \in Inspectors \cup {NoOne}
    BY DEF HandlerNames
  <2>1. CASE Create(t)
    <3>1. PICK i \in Inspectors :
            /\ MayOffer(i) /\ (Overlaps \/ (~Creating(i) /\ offer[i].st # "PENDING"))
            /\ Begin(t, "upsert", Job("create", i))
      BY <2>1 DEF Create
    <3>2. Job("create", i) \in Jobs /\ "upsert" \in Labels
      BY DEF Job, Jobs, Labels, HandlerNames
    <3>3. Others(t) /\ pc'[t] = "upsert" /\ job'[t] = Job("create", i)
      BY <3>1, <3>2, BeginMoves
    <3> QED BY <2>1, <3>1, <3>3 DEF Moves, Names
  <2>2. CASE \/ Withdraw(t) \/ Decline(t) \/ Accept(t) \/ Finalize(t) \/ Abandon(t)
             \/ AcceptOffer(t) \/ AdminAssign(t) \/ OtherJob(t) \/ ExpireUnfilledSearches(t)
             \/ SweepExpired(t)
    <3>1. \E l \in Labels \ Places, op \in HandlerNames, i \in Inspectors \cup {NoOne} :
            Begin(t, l, Job(op, i))
      BY <2>2, <2>h, <1>o DEF Withdraw, Decline, Accept, Finalize, Abandon, AcceptOffer,
        AdminAssign, OtherJob, ExpireUnfilledSearches, SweepExpired, With
    <3> QED BY <3>1, <2>b
  <2> QED BY <1>1, <2>1, <2>2 DEF Called
<1>2. ASSUME NEW t \in Tasks, Continue(t) PROVE Moves(t)
  <2> job[t] \in Jobs
    BY DEF LocalsOK
  <2>a. AfterPromote(t) => Moves(t)
    BY PromoteMoves, <1>p DEF Moves, Leaves
  <2>q. ASSUME NEW l \in Returns, PromoteThen(t, l) PROVE Moves(t)
    BY <2>q, PromoteMoves, <1>o DEF Moves, Leaves
  <2>e. End(t) => Moves(t)
    BY EndMoves, <1>o DEF Moves, Leaves
  <2>g. ASSUME NEW l \in Labels \ Places, Go(t, l) PROVE Moves(t)
    BY <2>g, GoMoves DEF Moves, Leaves
  <2>k. ASSUME NEW l \in Labels \ Places, NEW S \in SUBSET Inspectors,
               Keep(t, l, [job[t] EXCEPT !.ids = S])
        PROVE  Moves(t)
    <3>1. [job[t] EXCEPT !.ids = S] \in Jobs
      BY DEF Jobs
    <3> QED BY <2>k, <3>1, KeepMoves DEF Moves, Leaves
  <2>w. \A st : With(st) \in SUBSET Inspectors /\ Unanswered \in SUBSET Inspectors
    BY DEF With, Unanswered
  <2>1. CASE \/ Upsert(t) \/ PromoteOrder(t) \/ PromoteScreen(t) \/ PromoteFirst(t)
             \/ AcceptBusy(t) \/ AcceptPull(t) \/ AcceptClaim(t) \/ FinalizePull(t)
             \/ FinalizeOrder(t) \/ FinalizeBusy(t) \/ Sold(t)
    BY <2>1, <2>a, <2>e, <2>g, <1>o DEF Upsert, PromoteOrder, PromoteScreen, PromoteFirst,
      AcceptBusy, AcceptPull, AcceptClaim, FinalizePull, FinalizeOrder, FinalizeBusy, Sold
  <2>2. CASE PromoteNext(t)
    <3>1. ASSUME NEW i \in Waiting, Keep(t, "p_write", [job[t] EXCEPT !.ids = {i}])
          PROVE  Moves(t)
      <4>1. [job[t] EXCEPT !.ids = {i}] \in Jobs /\ [job[t] EXCEPT !.ids = {i}].ids = {i}
            /\ i \in Inspectors /\ "p_write" \in Labels
        BY DEF Jobs, Waiting, With, Labels
      <4> QED BY <3>1, <4>1, KeepMoves DEF Moves, Selects
    <3> QED BY <2>2, <2>a, <3>1 DEF PromoteNext
  <2>3. CASE CloseQueue(t) \/ Present(t)
    BY <2>3, <2>a DEF CloseQueue, Present
  <2>4. CASE Claim(t)
    <3>1. CASE End(t)
      BY <2>e, <3>1
    <3>2. CASE /\ Searching /\ order' = [order EXCEPT !.by = job[t].who]
               /\ Go(t, IF pc[t] = "f_claim" THEN "f_capture" ELSE "c_capture")
      <4> DEFINE l == IF pc[t] = "f_claim" THEN "f_capture" ELSE "c_capture"
      <4>1. l \in Labels /\ l \in {"f_capture", "c_capture"}
        BY DEF Labels
      <4>2. Others(t) /\ pc'[t] = l /\ job'[t] = job[t]
        BY <3>2, <4>1, GoMoves
      <4>3. job[t].who \in Inspectors
        BY <2>4 DEF Claim, LocalsInv, NamesOK, Named
      <4>4. order'.by = job[t].who
        BY <3>2 DEF SharedOK, Orders
      <4> QED BY <2>4, <3>2, <4>1, <4>2, <4>3, <4>4 DEF Moves, Claims
    <3> QED BY <2>4, <3>1, <3>2 DEF Claim
  <2>5. CASE Capture(t)
    <3>1. CASE End(t)
      BY <2>e, <3>1
    <3>2. CASE pc[t] = "f_capture" /\ Go(t, "f_sold") /\ UNCHANGED order
      <4>1. "f_sold" \in Labels
        BY DEF Labels
      <4> QED BY <2>5, <3>2, <4>1, GoMoves DEF Moves, Captures
    <3>3. CASE Go(t, "w_find")
      BY <3>3, <2>g, <1>o
    <3> QED BY <2>5, <3>1, <3>2, <3>3 DEF Capture
  <2>6. CASE SettleFind(t)
    <3>1. \E S \in SUBSET Inspectors : Keep(t, "w_write", [job[t] EXCEPT !.ids = S])
      <4>1. With("PENDING") \in SUBSET Inspectors
            /\ (With("PENDING") \cap {job[t].who}) \in SUBSET Inspectors
        BY <2>w
      <4> QED BY <2>6, <4>1 DEF SettleFind
    <3> QED BY <3>1, <2>k, <1>o
  <2>7. CASE SettleWrite(t) \/ Assign(t) \/ SweepCollected(t) \/ ExpireClaim(t)
    <3>1. \/ End(t) \/ Go(t, "assign") \/ PromoteThen(t, "assign") \/ PromoteThen(t, "idle")
      BY <2>7 DEF SettleWrite, Assign, SweepCollected, ExpireClaim
    <3> QED BY <3>1, <2>e, <2>g, <2>q, <1>o DEF Returns
  <2>8. CASE AbandonRead(t)
    <3>1. ASSUME NEW i \in With("ACCEPTING"),
                 Keep(t, IF offer[i].live THEN "a_back" ELSE "a_over", [job[t] EXCEPT !.ids = {i}])
          PROVE  Moves(t)
      <4> DEFINE l == IF offer[i].live THEN "a_back" ELSE "a_over"
      <4>1. {i} \in SUBSET Inspectors /\ l \in Labels \ Places
        BY <2>w, <1>o
      <4>2. Keep(t, l, [job[t] EXCEPT !.ids = {i}])
        BY <3>1
      <4> HIDE DEF l
      <4> QED BY <4>1, <4>2, <2>k
    <3> QED BY <2>8, <2>e, <2>g, <1>o, <3>1 DEF AbandonRead
  <2>9. CASE AbandonBack(t)
    BY <2>9, <2>e, <2>g, <1>o DEF AbandonBack
  <2>10. CASE AbandonOver(t) \/ SweepWrite(t)
    <3>1. \E l \in Returns : PromoteThen(t, l)
      BY <2>10 DEF AbandonOver, SweepWrite, Returns
    <3> QED BY <3>1, <2>q
  <2>11. CASE SweepFind(t)
    BY <2>11, <2>g, <2>k, <2>w, <1>o DEF SweepFind
  <2> QED BY <1>2, <2>1, <2>2, <2>3, <2>4, <2>5, <2>6, <2>7, <2>8, <2>9, <2>10, <2>11
      DEF Continue, Promote
<1>3. OtherJobDone \/ CancelOrder \/ Clock \/ UNCHANGED vars => UNCHANGED <<pc, job>>
  BY DEF OtherJobDone, CancelOrder, Clock, OfferLapses, PaymentLapses, CollectionEnds,
    SearchRunsOut, vars
<1> QED BY <1>1, <1>2, <1>3 DEF Next

\* The order is claimed by one who finds it free, and let go by the one who claimed it.
LEMMA HolderMoves ==
  ASSUME TypeInv, [Next]_vars
  PROVE  \/ order'.by = order.by
         \/ \E t \in Tasks : Claim(t) /\ Searching
         \/ \E t \in Tasks : Capture(t) /\ End(t) /\ order.by = job[t].who
<1> order \in Orders
  BY DEF TypeInv, SharedOK
<1>1. ASSUME NEW t \in Tasks, Continue(t), ~Claim(t), ~Capture(t) PROVE order'.by = order.by
  BY <1>1 DEF Orders, Continue, Promote, Upsert, PromoteOrder, PromoteScreen, PromoteFirst,
    PromoteNext, CloseQueue, Present, AcceptBusy, AcceptPull, AcceptClaim, FinalizeOrder,
    FinalizeBusy, FinalizePull, Sold, SettleFind, SettleWrite, Assign, AbandonRead, AbandonBack,
    AbandonOver, SweepFind, SweepWrite, SweepCollected, ExpireClaim
<1>2. ASSUME NEW t \in Tasks, Called(t) \/ SweepExpired(t) PROVE order'.by = order.by
  BY <1>2 DEF Called, Create, Withdraw, Decline, Accept, Finalize, Abandon, AcceptOffer,
    AdminAssign, OtherJob, ExpireUnfilledSearches, SweepExpired
<1>3. ASSUME NEW t \in Tasks, Claim(t) PROVE Searching \/ order'.by = order.by
  BY <1>3 DEF Claim
<1>4. ASSUME NEW t \in Tasks, Capture(t)
      PROVE  (End(t) /\ order.by = job[t].who) \/ order'.by = order.by
  BY <1>4 DEF Capture, Unclaim
<1>5. OtherJobDone \/ CancelOrder \/ Clock \/ UNCHANGED vars => order'.by = order.by
  BY DEF OtherJobDone, CancelOrder, Clock, OfferLapses, PaymentLapses, CollectionEnds,
    SearchRunsOut, vars, Orders
<1> QED BY <1>1, <1>2, <1>3, <1>4, <1>5 DEF Next

-----------------------------------------------------------------------------
\* One question.  promote has picked one row at most when it is about to show it, and
\* shows it if nothing is on the screen then.
OneAtATime == \A t \in Tasks : pc[t] = "p_write" => \A i, k \in job[t].ids : i = k
ScreenInv == OneQuestion /\ OneAtATime

LEMMA ScreenStep == TypeInv /\ ScreenInv /\ [Next]_vars => ScreenInv'
<1> SUFFICES ASSUME TypeInv, ScreenInv, [Next]_vars PROVE ScreenInv'
  OBVIOUS
<1>1. OneAtATime'
  <2> SUFFICES ASSUME NEW u \in Tasks, pc'[u] = "p_write"
               PROVE  \A i, k \in job'[u].ids : i = k
    BY DEF OneAtATime
  <2>1. \/ Stands(u)
        \/ Selects(u)
    BY FunctionMoves DEF Moves, Others, Stands, Leaves, Places, Names, Claims, Captures
  <2> QED BY <2>1 DEF Stands, Selects, ScreenInv, OneAtATime
<1>2. OneQuestion'
  <2>1. CASE \E t \in Tasks : Present(t)
    <3>1. PICK t \in Tasks : Present(t)
      BY <2>1
    <3>2. \A i, k \in job[t].ids : i = k
      BY <3>1 DEF ScreenInv, OneAtATime, Present
    <3>3. ASSUME NEW i \in Inspectors, OnScreen(i)'
          PROVE  OnScreen(i) \/ (i \in job[t].ids /\ \A k \in Inspectors : ~OnScreen(k))
      <4>1. CASE offer'[i] = offer[i]
        BY <3>3, <4>1 DEF OnScreen
      <4>2. CASE offer'[i] # offer[i]
        BY <3>1, <4>2 DEF Present
      <4> QED BY <4>1, <4>2
    <3> QED BY <3>2, <3>3 DEF ScreenInv, OneQuestion
  <2>2. CASE ~\E t \in Tasks : Present(t)
    <3>1. ASSUME NEW i \in Inspectors PROVE OnScreen(i)' => OnScreen(i)
      BY <2>2, RowMoves DEF Quiet, Written, Shown, Won, OnScreen
    <3> QED BY <3>1 DEF ScreenInv, OneQuestion
  <2> QED BY <2>1, <2>2
<1> QED BY <1>1, <1>2 DEF ScreenInv

\* One yes.  Of the functions that claimed the order one is on its way to the money and
\* to the row; the order is that inspector's, and none was accepted before.
Selling(t) == pc[t] \in {"f_capture", "c_capture", "f_sold"}
SellersHold ==
  \A t \in Tasks : Selling(t) => /\ order.by = job[t].who
                                 /\ \A i \in Inspectors : offer[i].st # "ACCEPTED"
OneSeller == \A t, u \in Tasks : Selling(t) /\ Selling(u) => t = u
AnswerInv == SellersHold /\ OneSeller /\ AcceptedHoldsOrder

LEMMA AnswerStep == TypeInv /\ AnswerInv /\ [Next]_vars => AnswerInv'
<1> SUFFICES ASSUME TypeInv, AnswerInv, [Next]_vars PROVE AnswerInv'
  OBVIOUS
<1>0. NoOne \notin Inspectors
  BY NoOneIsNobody
<1>1. \A t \in Tasks : Selling(t) => job[t].who \in Inspectors /\ order.by \in Inspectors
  BY DEF Selling, TypeInv, LocalsInv, NamesOK, Named, AnswerInv, SellersHold
<1>2. ASSUME NEW t \in Tasks, Selling(t)'
      PROVE  \/ Stands(t) /\ Selling(t)
             \/ Claims(t) /\ Others(t)
             \/ Captures(t) /\ Others(t)
  BY <1>2, FunctionMoves DEF Moves, Others, Stands, Leaves, Places, Names, Selects, Selling
<1>3. Searching => order.by = NoOne /\ \A t \in Tasks : ~Selling(t)
  BY <1>0, <1>1 DEF Searching
<1>4. ASSUME NEW i \in Inspectors, offer'[i].st = "ACCEPTED", offer[i].st # "ACCEPTED"
      PROVE  \E t \in Tasks : /\ Sold(t) /\ job[t].who = i /\ Selling(t)
                             /\ ~Selling(t)' /\ order' = order
  <2>1. PICK t \in Tasks : Sold(t) /\ job[t].who = i
    BY <1>4, RowMoves DEF Quiet, Written, Shown, Won
  <2>2. pc'[t] = "w_find"
    BY <2>1 DEF Sold, Go, TypeInv, LocalsInv, LocalsOK
  <2> QED BY <2>1, <2>2 DEF Sold, Selling
<1>5. SellersHold'
  <2> SUFFICES ASSUME NEW t \in Tasks, Selling(t)'
               PROVE  order'.by = job'[t].who /\ \A i \in Inspectors : offer'[i].st # "ACCEPTED"
    BY DEF SellersHold, Selling
  <2>1. CASE Stands(t) /\ Selling(t)
    <3>1. order'.by = order.by
      <4>1. ASSUME NEW u \in Tasks, Capture(u), End(u), order.by = job[u].who PROVE FALSE
        <5>1. u = t
          BY <4>1, <2>1 DEF Capture, Selling, AnswerInv, OneSeller
        <5>2. pc'[u] = "idle"
          BY <4>1, EndMoves DEF TypeInv, LocalsInv
        <5> QED BY <5>1, <5>2 DEF Selling
      <4> QED BY <4>1, <2>1, <1>3, HolderMoves
    <3>2. ASSUME NEW i \in Inspectors, offer'[i].st = "ACCEPTED" PROVE FALSE
      <4>1. offer[i].st # "ACCEPTED"
        BY <2>1 DEF AnswerInv, SellersHold
      <4> QED BY <4>1, <3>2, <2>1, <1>4 DEF AnswerInv, OneSeller
    <3> QED BY <2>1, <3>1, <3>2 DEF AnswerInv, SellersHold, Stands
  <2>2. CASE Claims(t)
    <3>1. Searching
      BY <2>2 DEF Claims
    <3>2. \A i \in Inspectors : offer[i].st # "ACCEPTED"
      BY <3>1, <1>0, <1>3 DEF AnswerInv, AcceptedHoldsOrder
    <3> QED BY <2>2, <3>1, <3>2, <1>3, <1>4 DEF Claims
  <2>3. CASE Captures(t)
    <3>1. Selling(t)
      BY <2>3 DEF Captures, Selling
    <3>2. \A i \in Inspectors : offer'[i].st # "ACCEPTED"
      BY <2>3, <3>1, <1>4 DEF AnswerInv, SellersHold, OneSeller
    <3> QED BY <2>3, <3>1, <3>2 DEF Captures, AnswerInv, SellersHold
  <2> QED BY <2>1, <2>2, <2>3, <1>2
<1>6. OneSeller'
  <2> SUFFICES ASSUME NEW t \in Tasks, NEW u \in Tasks, Selling(t)', Selling(u)', t # u
               PROVE  FALSE
    BY DEF OneSeller, Selling
  <2>1. ASSUME NEW v \in Tasks, NEW w \in Tasks, v # w, Selling(v)', Selling(w)',
               Claims(v) /\ Others(v)
        PROVE  FALSE
    <3>1. Selling(w)
      BY <2>1 DEF Others, Selling
    <3> QED BY <3>1, <2>1, <1>3 DEF Claims
  <2>2. ASSUME NEW v \in Tasks, Captures(v) PROVE Selling(v)
    BY <2>2 DEF Captures, Selling
  <2> QED BY <2>1, <2>2, <1>2 DEF AnswerInv, OneSeller
<1>7. AcceptedHoldsOrder'
  <2> SUFFICES ASSUME NEW i \in Inspectors, offer'[i].st = "ACCEPTED" PROVE order'.by = i
    BY DEF AcceptedHoldsOrder
  <2>1. CASE offer[i].st = "ACCEPTED"
    <3>1. order.by = i
      BY <2>1 DEF AnswerInv, AcceptedHoldsOrder
    <3>2. ASSUME NEW u \in Tasks, Capture(u), order.by = job[u].who PROVE FALSE
      BY <2>1, <3>2 DEF Capture, Selling, AnswerInv, SellersHold
    <3> QED BY <3>1, <3>2, <1>0, <1>3, HolderMoves
  <2>2. CASE offer[i].st # "ACCEPTED"
    BY <2>2, <1>4 DEF AnswerInv, SellersHold
  <2> QED BY <2>1, <2>2
<1> QED BY <1>5, <1>6, <1>7 DEF AnswerInv

\* Whoever runs, the customer has one price to answer, and the order is that inspector's
\* whose price was accepted.
THEOREM AnsweredOnce == Spec => []OneAnswer
<1>1. Init => ScreenInv /\ AnswerInv
  BY DEF Init, ScreenInv, OneQuestion, OneAtATime, OnScreen, NoRow, AnswerInv, SellersHold,
    OneSeller, Selling, AcceptedHoldsOrder
<1>2. TypeInv /\ ScreenInv /\ AnswerInv /\ [Next]_vars => (ScreenInv /\ AnswerInv)'
  BY ScreenStep, AnswerStep
<1>3. ScreenInv /\ AnswerInv => OneAnswer
  BY DEF ScreenInv, AnswerInv, OneAnswer
<1> QED BY <1>1, <1>2, <1>3, TypeInvInit, StepTyped, PTL DEF Spec

-----------------------------------------------------------------------------
\* Answers are final.  The row that create is about to write over says nothing yet, or
\* was withdrawn, and no other call is about to write over it.
NamingInv ==
  /\ \A t \in Tasks : pc[t] = "upsert" =>
       /\ job[t].op = "create" /\ job[t].who \in Inspectors
       /\ offer[job[t].who].st \in {"none", "WITHDRAWN"}
  /\ \A t, u \in Tasks :
       pc[t] = "upsert" /\ pc[u] = "upsert" /\ job[t].who = job[u].who => t = u

LEMMA NamingStep == ~Overlaps /\ TypeInv /\ NamingInv /\ [Next]_vars => NamingInv'
<1> SUFFICES ASSUME ~Overlaps, TypeInv, NamingInv, [Next]_vars PROVE NamingInv'
  OBVIOUS
<1>1. ASSUME NEW t \in Tasks, pc'[t] = "upsert"
      PROVE  \/ Stands(t) /\ pc[t] = "upsert"
             \/ Names(t) /\ Others(t)
  BY <1>1, FunctionMoves DEF Moves, Others, Stands, Leaves, Places, Selects, Claims, Captures
<1>2. ASSUME NEW t \in Tasks, Names(t), Others(t)
      PROVE  /\ job'[t].op = "create" /\ job'[t].who \in Inspectors
             /\ offer'[job'[t].who].st \in {"none", "WITHDRAWN"}
             /\ \A u \in Tasks : u # t /\ pc'[u] = "upsert" => job'[u].who # job'[t].who
  <2>1. PICK i \in Inspectors : MayOffer(i) /\ ~Creating(i) /\ offer[i].st # "PENDING"
                               /\ job'[t] = Job("create", i)
    BY <1>2 DEF Names
  <2>2. job'[t].op = "create" /\ job'[t].who = i
    BY <2>1 DEF Job
  <2>3. offer[i].st \in Stored \cup {"none"}
    BY DEF TypeInv, SharedOK, Rows
  <2>4. offer[i].st \in {"none", "WITHDRAWN"}
    BY <2>1, <2>3 DEF MayOffer, Answered, Stored
  <2>5. offer' = offer
    BY <1>2 DEF Names, Create
  <2>6. ASSUME NEW u \in Tasks, u # t, pc'[u] = "upsert" PROVE job'[u].who # i
    BY <2>1, <2>6, <1>2 DEF Others, Creating, NamingInv
  <2> QED BY <2>2, <2>4, <2>5, <2>6
<1>3. ASSUME NEW t \in Tasks, Stands(t), pc[t] = "upsert"
      PROVE  offer'[job[t].who].st \in {"none", "WITHDRAWN"}
  <2> DEFINE i == job[t].who
  <2>1. i \in Inspectors /\ offer[i].st \in {"none", "WITHDRAWN"}
    BY <1>3 DEF NamingInv
  <2>2. ~Written(i)
    <3> SUFFICES ASSUME NEW u \in Tasks, Upsert(u), job[u].who = i PROVE FALSE
      BY DEF Written
    <3>1. u = t
      BY <1>3 DEF Upsert, NamingInv
    <3>2. pc'[u] = "p_order"
      BY DEF Upsert, Go, TypeInv, LocalsInv, LocalsOK
    <3> QED BY <3>1, <3>2, <1>3 DEF Stands
  <2> HIDE DEF i
  <2>3. Quiet(i)
    BY <2>1, <2>2, RowMoves DEF Shown, Won
  <2> QED BY <2>1, <2>3 DEF Quiet, i
<1> QED BY <1>1, <1>2, <1>3 DEF NamingInv, Stands, Others

\* A price is answered for good, if none is named over one that still waits.
THEOREM AnswersStay == ASSUME ~Overlaps PROVE Spec => AnswerIsFinal
<1>1. Init => NamingInv
  BY DEF Init, NamingInv
<1>2. TypeInv /\ NamingInv /\ [Next]_vars
        => [\A i \in Inspectors : offer[i].st \in Final => offer'[i].st = offer[i].st]_vars
  <2> SUFFICES ASSUME TypeInv, NamingInv, [Next]_vars, NEW i \in Inspectors, offer[i].st \in Final
               PROVE  offer'[i].st = offer[i].st
    OBVIOUS
  <2>1. Quiet(i) \/ Written(i) \/ Shown(i) \/ Won(i)
    BY RowMoves
  <2>2. ~Written(i)
    BY DEF Written, Upsert, NamingInv, Final
  <2> QED BY <2>1, <2>2 DEF Quiet, Shown, Won, Final
<1> QED BY <1>1, <1>2, NamingStep, TypeInvInit, StepTyped, PTL DEF Spec, AnswerIsFinal

-----------------------------------------------------------------------------
\* The money, beside the queue.
LEMMA SameMoneySteps == Money!Next => HP!Next
BY DEF
  Money!Next, HP!Next, Money!Accept, HP!Accept, Money!AcceptOffer, HP!AcceptOffer,
  Money!Webhooks, HP!Webhooks, Money!Crons, HP!Crons, Money!Continue, HP!Continue,
  Money!Crash, HP!Crash, Money!CustomerPays, HP!CustomerPays, Money!Present, HP!Present,
  Money!Decline, HP!Decline, Money!SearchEnds, HP!SearchEnds, Money!PaymentLapses,
  HP!PaymentLapses, Money!Finalize, HP!Finalize, Money!PaymentFailed, HP!PaymentFailed,
  Money!PaymentCanceled, HP!PaymentCanceled, Money!Given, HP!Given, Money!SweepExpired,
  HP!SweepExpired, Money!ExpireUnfilledSearches, HP!ExpireUnfilledSearches, Money!Stranded,
  HP!Stranded, Money!Reconcile, HP!Reconcile, Money!FinalizeSteps, HP!FinalizeSteps,
  Money!AcceptClaim, HP!AcceptClaim, Money!AcceptRow, HP!AcceptRow, Money!AcceptIntent,
  HP!AcceptIntent, Money!AcceptName, HP!AcceptName, Money!Claim, HP!Claim, Money!FindActive,
  HP!FindActive, Money!Capture, HP!Capture, Money!MarkCaptured, HP!MarkCaptured, Money!Failed,
  HP!Failed, Money!Sold, HP!Sold, Money!Assign, HP!Assign, Money!AbandonScreen,
  HP!AbandonScreen, Money!AbandonFind, HP!AbandonFind, Money!AbandonCancel, HP!AbandonCancel,
  Money!AbandonDead, HP!AbandonDead, Money!ExpireClaim, HP!ExpireClaim, Money!ReleaseFind,
  HP!ReleaseFind, Money!ReleaseCancel, HP!ReleaseCancel, Money!ReleaseMark, HP!ReleaseMark,
  Money!HoldCancel, HP!HoldCancel, Money!HoldMark, HP!HoldMark, Money!FinalizeScreen,
  HP!FinalizeScreen, Money!FinalizeOthers, HP!FinalizeOthers, Money!FinalizeCancel,
  HP!FinalizeCancel, Money!FinalizeDead, HP!FinalizeDead, Money!FinalizeMark, HP!FinalizeMark,
  Money!BackCancel, HP!BackCancel, Money!BackDead, HP!BackDead, Money!Pull, HP!Pull,
  Money!Redelivered, HP!Redelivered, Money!Abandoned, HP!Abandoned, Money!Active, HP!Active,
  Money!Holding, HP!Holding, Money!Live, HP!Live, Money!Rows, HP!Rows, Money!Payments,
  HP!Payments, Money!Base, HP!Base, Money!Open, HP!Open, Money!Searching, HP!Searching,
  Money!First, HP!First, Money!CancelIntent, HP!CancelIntent, Money!Begin, HP!Begin,
  Money!Keep, HP!Keep, Money!Go, HP!Go, Money!End, HP!End, Money!Job, HP!Job, Money!NoJob,
  HP!NoJob, Money!NoScreen, HP!NoScreen, Money!Finalizing, HP!Finalizing, Money!Abandoning,
  HP!Abandoning, Money!orderVars, HP!orderVars, Money!moneyVars, HP!moneyVars, Money!vars,
  HP!vars

LEMMA SameMoneyBegins == Money!Init => HP!Init
BY DEF Money!Init, HP!Init, Money!Payments, HP!Payments, Money!Base, HP!Base,
  Money!NoPay, HP!NoPay, Money!NoScreen, HP!NoScreen, Money!Job, HP!Job, Money!NoJob, HP!NoJob

LEMMA MoneyOfItsOwn ==
  /\ Replacements \subseteq Nat \ {0}
  /\ Tariff \in Nat /\ Prices \subseteq Nat
  /\ MoneyFaults \subseteq HP!FaultKinds
BY ReplacementsAssumption, MoneyPricesAssumption, MoneyFaultsAssumption
  DEF Money!FaultKinds, HP!FaultKinds

\* While the queue turns, and whatever of the money's functions overlap, the customer is charged
\* once at most, for what the order is sold at, and never for an order that is cancelled.
THEOREM RacesKeepThePromise ==
  ASSUME HP!CapturesTell
  PROVE  RacesSpec => SaleKept
<1>1. RacesInit => HP!SaleInv
  BY SameMoneyBegins, MoneyOfItsOwn, HP!SaleBegins DEF RacesInit
<1>2. [RacesNext]_racesVars => HP!Next \/ UNCHANGED HP!vars
  BY SameMoneySteps DEF RacesNext, QueueNext, MoneyNext, racesVars, moneyState, HP!vars,
    HP!orderVars, HP!moneyVars
<1>3. HP!SaleInv /\ [RacesNext]_racesVars => HP!SaleInv'
  BY <1>2, MoneyOfItsOwn, HP!SaleStep
<1>4. HP!SaleInv /\ [RacesNext]_racesVars
        => [Money!Promise!Charge \/ Money!Promise!Agree \/ Money!Promise!Sell
              \/ Money!Promise!Cancel]_(Money!Promise!saleVars)
  <2> SUFFICES ASSUME HP!SaleInv, [RacesNext]_racesVars
               PROVE  [Money!Promise!Charge \/ Money!Promise!Agree \/ Money!Promise!Sell
                        \/ Money!Promise!Cancel]_(Money!Promise!saleVars)
    OBVIOUS
  <2>1. [HP!Promise!Charge \/ HP!Promise!Agree \/ HP!Promise!Sell
           \/ HP!Promise!Cancel]_(HP!Promise!saleVars)
    BY <1>2, MoneyOfItsOwn, HP!PromiseStep
  <2> QED BY <2>1 DEF Money!Promise!Charge, Money!Promise!Agree, Money!Promise!Sell,
        Money!Promise!Cancel, Money!Promise!saleVars, HP!Promise!Charge, HP!Promise!Agree,
        HP!Promise!Sell, HP!Promise!Cancel, HP!Promise!saleVars, Money!Payments, HP!Payments,
        Money!Base, HP!Base
<1>5. RacesInit => Money!Promise!SaleInit
  <2>1. RacesInit => HP!Promise!SaleInit
    BY SameMoneyBegins, MoneyOfItsOwn, HP!PromiseBegins DEF RacesInit
  <2> QED BY <2>1 DEF Money!Promise!SaleInit, HP!Promise!SaleInit, Money!Payments, HP!Payments,
        Money!Base, HP!Base
<1> QED BY <1>1, <1>3, <1>4, <1>5, PTL DEF RacesSpec, SaleKept, Money!SaleKept, Money!Promise!SaleSpec
=============================================================================
